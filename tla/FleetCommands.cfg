SPECIFICATION FairSpec
CONSTANTS
    Command = {c1, c2, c3}
    NoCommand = NoCommand
    BatchLimit = 2
    MaxFaults = 3
INVARIANTS
    NothingVanishes
    OnlyEnrolmentLocksOut
PROPERTIES
    ImplementsCommandLife
    EveryCommandIsReported
