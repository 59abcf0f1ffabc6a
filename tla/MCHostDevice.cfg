\* Two threads, and up to two calls that fail.
CONSTANTS
    N = 2
    MaxFailures = 2
SPECIFICATION DeviceSpec
INVARIANTS
    DeviceTypeInv
    FailureReported
    NicTouchesLiveMemory
    PreparedBeforeUse
    StepsLiveCq
    ReferencesRespected
    CleanUpComplete
PROPERTY ImplementsReferences
CHECK_DEADLOCK FALSE
