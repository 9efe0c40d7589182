CONSTANT LengthBits = 16
CONSTANT HostCalls <- MCNullCalls
INIT Init
NEXT Next
CHECK_DEADLOCK FALSE
INVARIANT NoUndefinedBehaviour
