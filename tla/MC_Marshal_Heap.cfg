CONSTANT LengthBits = 16
CONSTANT HostCalls <- MCHeapCalls
INIT Init
NEXT Next
CHECK_DEADLOCK FALSE
INVARIANT NoOverRead
