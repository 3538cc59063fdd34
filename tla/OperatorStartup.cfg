\* Two pods of two releases, each with or without a required variable.
SPECIFICATION FairSpec
CONSTANTS
    Pods = {p1, p2}
    NoPod = NoPod
    Old = {p1}
    MaxFaults = 1
    MaxEdits = 1
    MaxLosses = 1
INVARIANTS TypeOK OneActive EnsuredStays
PROPERTIES StartRepairsPolicy LeaderEmerges
CHECK_DEADLOCK FALSE
