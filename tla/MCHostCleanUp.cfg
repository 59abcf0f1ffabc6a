CONSTANTS
    N = 1
    MaxFailures = 1
SPECIFICATION Spec
INVARIANT DestroysWhatExists
CHECK_DEADLOCK FALSE
