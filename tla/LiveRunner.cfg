SPECIFICATION FairSpec
INVARIANT OneFightPerTick
PROPERTIES StallsHonoured  FightsDressed FightsAgain
CONSTANTS
    Stall400Threshold = 2
    StallTicks = 1
    Stall429Ticks = 1
    FallbackThreshold = 2
    FallbackTicks = 3
    EnhanceTicks = 2
    RefreshTicks = 2
    PrepLevel = 2
    Settings <- AllSettings
    MaxAge = 8
CHECK_DEADLOCK FALSE
