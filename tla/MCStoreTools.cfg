SPECIFICATION Spec
CONSTANTS
    Keys <- Runs
    FamilyOf <- Family
    PartRecords <- Parts
    Beside = FALSE
    MaxRecords = 3
    MaxTools = 3
    MaxKills = 1
INVARIANTS LatestStays CompactedWhole MergedWhole
CHECK_DEADLOCK FALSE
