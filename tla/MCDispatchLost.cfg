\* The scheduler sleeps once: its wake-up of a thread can be lost.
CONSTANTS
    N = 1
    Tnt1 <- OneOfEach
    Tenants = 1
    SchedulerStarted = TRUE
    ThreadsFirst = TRUE
    Quota = 1
    Depth = 2
    MaxPackets = 2
    MaxOwnPackets = 0
    MaxReschedules = 1
SPECIFICATION FairSpec
PROPERTY EveryPacketServed
CHECK_DEADLOCK FALSE
