SPECIFICATION FairSpec
CONSTANTS
    DayLen = 2
    EodOffset = 0
    Handles = {"wdb"}
    MaxSubBytes = 9
    SlowStrikes = 1
    FlushIntv = 0
    RetentionArg = 1
    CatchUpIntv = 9
    ReaderBudget <- IdbHdbCrash
    Readers = {"idb", "hdb"}
    IdbRetention = 5
    HdbRetention = 0
    MaxTime = 3
    MaxRows = 2
    MaxLate = 0
    MaxChan = 1
    Lingers = FALSE
    Budget <- NoFaults
PROPERTIES
    HandedOverToHdb
    ImplementsWritePath
    DurableBecomesVisible
CHECK_DEADLOCK FALSE
