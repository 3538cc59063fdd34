SPECIFICATION Spec
CHECK_DEADLOCK FALSE
CONSTANTS
    BackoffLimit = 0
    Retains = {FALSE}
    OperatorSAs = {FALSE}
    CacheLag = TRUE
    Relists = TRUE
    ForeignJobs = TRUE
    MaxUID = 2
    MaxJobs = 2
    MaxFaults = 0
    MaxRestarts = 0
    MaxTouches = 0
    MaxErrors = 0
INVARIANTS
    TypeOK
    FinalizerInv
    OwnerInv
PROPERTIES
    JobCreatedUnderFinalizer
    DeletesOnlyOwnJob
