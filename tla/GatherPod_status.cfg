SPECIFICATION Spec
CHECK_DEADLOCK FALSE
CONSTANTS
    Polls = 5
    MaxHidden = 4
    BackoffLimit = 3
INVARIANTS
    GatherFailuresPropagate
