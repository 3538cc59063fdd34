SPECIFICATION Spec
CHECK_DEADLOCK FALSE
CONSTANTS
    CRs = {c1, c2}
    MaxFaults = 0
    MaxRestarts = 0
    MaxEvents = 0
PROPERTY
    DeletedOnlyByLastOwner
