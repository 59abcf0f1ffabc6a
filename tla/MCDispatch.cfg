\* Two threads, one of each handler; the scheduler sleeps and comes back once.
CONSTANTS
    N = 2
    Tnt1 <- OneOfEach
    Tenants = 1
    SchedulerStarted = TRUE
    ThreadsFirst = FALSE
    Quota = 1
    Depth = 2
    MaxPackets = 1
    MaxOwnPackets = 0
    MaxReschedules = 1
SPECIFICATION FairSpec
INVARIANTS
    TypeInv
    NoNullTenant
    CyclesAccounted
    StatusTruthful
PROPERTIES
    SpinReleased
    ForgottenOnlyUnseen
    ImplementsService
CHECK_DEADLOCK FALSE
