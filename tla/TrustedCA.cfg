SPECIFICATION FairSpec
CHECK_DEADLOCK FALSE
CONSTANTS
    CRs = {c1, c2}
    MaxFaults = 1
    MaxRestarts = 1
    MaxEvents = 1
INVARIANTS
    TypeOK
    BundleWhileRunning
    NeverUnowned
    NobodyForgotten
PROPERTIES
    KeepsOtherOwners
    EveryGatherStarts
