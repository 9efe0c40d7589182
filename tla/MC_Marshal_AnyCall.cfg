CONSTANT LengthBits = 16
CONSTANT HostCalls <- MCAnyCalls
INIT Init
NEXT Next
CHECK_DEADLOCK FALSE
INVARIANT UBExactly
