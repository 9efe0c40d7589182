CONSTANTS t1 = t1
CONSTANTS t2 = t2
CONSTANT HostThreads <- MCHostThreads
CONSTANT Reader = Reader
CONSTANT MaxRegistrations = 2
CONSTANT MaxNotifications = 2
CHECK_DEADLOCK FALSE
SPECIFICATION Spec
PROPERTY NotificationsDelivered ImplementsPubSub
