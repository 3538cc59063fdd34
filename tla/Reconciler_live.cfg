SPECIFICATION FairSpec
CHECK_DEADLOCK FALSE
CONSTANTS
    BackoffLimit = 0
    Retains = {TRUE, FALSE}
    OperatorSAs = {TRUE, FALSE}
    CacheLag = FALSE
    Relists = FALSE
    ForeignJobs = FALSE
    MaxUID = 1
    MaxJobs = 2
    MaxFaults = 1
    MaxRestarts = 1
    MaxTouches = 0
    MaxErrors = 1
PROPERTIES
    DeletionCompletes
    GatherConcludes
    FinishedJobCleanedUp
