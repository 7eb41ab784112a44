SPECIFICATION PathSpec
CONSTANTS
    DayLen = 2
    EodOffset = 0
    Handles = {"wdb"}
    MaxSubBytes = 9
    SlowStrikes = 1
    FlushIntv = 0
    RetentionArg = 1
    CatchUpIntv = 9
    MaxTime = 4
    MaxRows = 2
    MaxLate = 0
    MaxChan = 2
    Lingers = FALSE
    Budget <- EarlyEnd
INVARIANTS
    SealedDaysAreWhole
PROPERTIES
    DurableForGood
CHECK_DEADLOCK FALSE
