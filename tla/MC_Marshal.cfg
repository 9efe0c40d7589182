CONSTANT LengthBits = 16
CONSTANT HostCalls <- MCContractCalls
INIT Init
NEXT Next
CHECK_DEADLOCK FALSE
INVARIANTS  NoOverRead
