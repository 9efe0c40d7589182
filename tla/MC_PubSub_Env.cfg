CONSTANTS t1 = t1
CONSTANTS t2 = t2
CONSTANT HostThreads <- MCHostThreads
CONSTANT Reader = Reader
CONSTANT MaxRegistrations = 2
CONSTANT MaxNotifications = 2
CHECK_DEADLOCK FALSE
SYMMETRY MCSymmetry
INIT Init
NEXT Next
INVARIANT CallbackRefLive
