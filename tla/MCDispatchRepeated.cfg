\* One flexio_pp_dev_2 thread, as main installs it, whose own RQ gets packets
\* too; the scheduler sleeps twice.
CONSTANTS
    N = 1
    Tnt1 <- NoTnt1
    Tenants = 1
    SchedulerStarted = TRUE
    ThreadsFirst = FALSE
    Quota = 1
    Depth = 2
    MaxPackets = 3
    MaxOwnPackets = 1
    MaxReschedules = 2
SPECIFICATION Spec
PROPERTIES
    ConsumerNeverReset
    ForgottenOnlyUnseen
CHECK_DEADLOCK FALSE
