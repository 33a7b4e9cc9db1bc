SPECIFICATION Spec
PROPERTY WaitsForArmour
CONSTANTS
    Stall400Threshold = 2
    StallTicks = 1
    Stall429Ticks = 1
    FallbackThreshold = 2
    FallbackTicks = 3
    EnhanceTicks = 2
    RefreshTicks = 2
    PrepLevel = 2
    Settings <- OnlyUnarmed
    MaxAge = 8
CHECK_DEADLOCK FALSE
