SPECIFICATION FairSpec
CONSTANTS
    DayLen = 2
    EodOffset = 1
    Handles = {h1}
    MaxSubBytes = 1
    SlowStrikes = 2
    MaxTime = 4
    MaxRows = 2
    MaxQueue = 3
    Restarts = TRUE
INVARIANTS
    StreamMirrorsLog
    NoSlowSubscriberKept
PROPERTIES
    DropsOnlyTheSlow
    PlantKeepsUp
CHECK_DEADLOCK FALSE
