SPECIFICATION PathSpec
CONSTANTS
    DayLen = 2
    EodOffset = 0
    Handles = {"wdb"}
    MaxSubBytes = 9
    SlowStrikes = 1
    FlushIntv = 1
    RetentionArg = 1
    CatchUpIntv = 1
    MaxTime = 4
    MaxRows = 2
    MaxLate = 0
    MaxChan = 2
    Lingers = FALSE
    Budget <- NoFaults
PROPERTIES
    DurableForGood
CHECK_DEADLOCK FALSE
