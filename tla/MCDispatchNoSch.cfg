\* The host program starts the threads and no scheduler.
CONSTANTS
    N = 1
    Tnt1 <- NoTnt1
    Tenants = 1
    SchedulerStarted = FALSE
    ThreadsFirst = FALSE
    Quota = 1
    Depth = 2
    MaxPackets = 1
    MaxOwnPackets = 1
    MaxReschedules = 0
SPECIFICATION FairSpec
PROPERTY HandlerReachesLoop
CHECK_DEADLOCK FALSE
