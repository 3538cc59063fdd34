SPECIFICATION Spec
CHECK_DEADLOCK FALSE
CONSTANTS
    BackoffLimit = 0
    Retains = {FALSE}
    OperatorSAs = {FALSE}
    CacheLag = FALSE
    Relists = FALSE
    ForeignJobs = FALSE
    MaxUID = 1
    MaxJobs = 2
    MaxFaults = 0
    MaxRestarts = 0
    MaxTouches = 0
    MaxErrors = 1
INVARIANTS
    GatherAtMostOnce
