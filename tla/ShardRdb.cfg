SPECIFICATION FairSpec
CONSTANTS
    DayLen = 2
    EodOffset = 0
    Handles = {"wdb", "rdb"}
    MaxSubBytes = 9
    SlowStrikes = 1
    FlushIntv = 1
    RetentionArg = 1
    CatchUpIntv = 1
    ReaderBudget <- RdbFaults
    Readers = {"rdb"}
    IdbRetention = 5
    HdbRetention = 0
    MaxTime = 2
    MaxRows = 1
    MaxLate = 0
    MaxChan = 1
    Lingers = TRUE
    Budget <- NoFaults
INVARIANTS
    RdbHoldsTheDay
PROPERTIES
    RdbKeepsUp
CHECK_DEADLOCK FALSE
