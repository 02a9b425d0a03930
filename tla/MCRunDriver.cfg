SPECIFICATION Spec
CONSTANTS
    Settings <- Runs
    Cuts = 2
    Store = 3
    Slack = 0
    IdleLimit = 2
    MaxSteps = 16
INVARIANTS ReadsExact RecordsTrue ArchiveTrue ExtremesKept NothingLost
PROPERTY RunEnds
CHECK_DEADLOCK FALSE
