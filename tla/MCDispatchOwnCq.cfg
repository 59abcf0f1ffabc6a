\* A thread activated by the scheduler, not by a packet.
CONSTANTS
    N = 1
    Tnt1 <- OneOfEach
    Tenants = 1
    SchedulerStarted = TRUE
    ThreadsFirst = FALSE
    Quota = 1
    Depth = 2
    MaxPackets = 1
    MaxOwnPackets = 1
    MaxReschedules = 0
SPECIFICATION Spec
INVARIANT OwnCqFollowsCqes
CHECK_DEADLOCK FALSE
