SPECIFICATION Spec
CONSTANTS
    Keys <- Runs
    FamilyOf <- Family
    PartRecords <- Parts
    Beside = TRUE
    MaxRecords = 3
    MaxTools = 1
    MaxKills = 0
INVARIANT LatestStays
CHECK_DEADLOCK FALSE
