SPECIFICATION Spec
CHECK_DEADLOCK FALSE
CONSTANTS
    BackoffLimit = 1
    Retains = {TRUE, FALSE}
    OperatorSAs = {FALSE}
    CacheLag = TRUE
    Relists = FALSE
    ForeignJobs = FALSE
    MaxUID = 1
    MaxJobs = 2
    MaxFaults = 1
    MaxRestarts = 1
    MaxTouches = 1
    MaxErrors = 0
INVARIANTS
    CompletedMeansOwnGather
    RestIsSettled
    DeletionRemembered
PROPERTIES
    CountedGatherExists
    NoPodOutlivesFinishedJob
    ImplementsLifecycle
