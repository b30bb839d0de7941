SPECIFICATION Spec
CONSTANTS
    Keys = {k1, k2}
    MaxKeys = 1
    MaxBumps = 1
    MaxFailures = 1
PROPERTY FinalFlushComplete
CHECK_DEADLOCK FALSE
