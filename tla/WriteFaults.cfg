SPECIFICATION FairPathSpec
CONSTANTS
    DayLen = 2
    EodOffset = 0
    Handles = {"wdb"}
    MaxSubBytes = 9
    SlowStrikes = 1
    FlushIntv = 0
    RetentionArg = 1
    CatchUpIntv = 1
    MaxTime = 3
    MaxRows = 1
    MaxLate = 0
    MaxChan = 1
    Lingers = TRUE
    Budget <- Failures
INVARIANTS
    SealsOnlyClosedDays
PROPERTIES
    RetiredOnlyIntoHdb
    BacklogDrains
CHECK_DEADLOCK FALSE
