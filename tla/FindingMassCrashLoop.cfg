SPECIFICATION FairSpec
CONSTANTS
    ShardCount = 1
    Tiers <- RootTiers
    FlapWindow = 24
    FlapThreshold = 3
    FlapCooldown = 60
    OomMultiplier = 6
    MaxRestartAttempts = 3
    Fates <- AllDie
    MaxFaults = 0
PROPERTIES
    CrashLoopsAreEscalated
