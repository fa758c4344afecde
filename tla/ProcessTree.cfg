SPECIFICATION TreeSpec
CONSTANTS
    LastPid = 3
    Pidfd = TRUE
    MaxForks = 2
    MaxStrangers = 1
INVARIANTS
    OnlyUnseenSurvive
    ScanSparesStrangers
PROPERTIES
    CleanupReturns
CHECK_DEADLOCK FALSE
