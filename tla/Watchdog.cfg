SPECIFICATION FairSpec
CONSTANTS
    ShardCount = 1
    Tiers <- TwoTiers
    FlapWindow = 6
    FlapThreshold = 2
    FlapCooldown = 7
    OomMultiplier = 2
    MaxRestartAttempts = 2
    Fates <- OneBroken
    MaxFaults = 2
INVARIANTS
    NoHammering
    OnlyTheDownAreStarted
    RootCauseFirst
PROPERTIES
    WatchdogKeepsUp
