CONSTANTS
    N = 1
    MaxFailures = 1
SPECIFICATION Spec
INVARIANT HandlerGetsAppData
CHECK_DEADLOCK FALSE
