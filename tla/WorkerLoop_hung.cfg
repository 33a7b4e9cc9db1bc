CONSTANTS
    Actions = {"attack", "shield"}
    MaxTicks = 3
    MaxAttempts = 2
    Hangs = TRUE
    Late = FALSE
    HeartbeatFails = FALSE
    DiskFails = FALSE
    MaxClock = 5
    Threshold = 2
    Interval = 1
    Timeout = 1
    ActionCooldown = 1
    Window = 3
    CircuitCooldown = 2
SPECIFICATION Spec
CHECK_DEADLOCK FALSE
INVARIANTS
    TypeOK
    LogIsOrderly
    StreakCountsTicks
PROPERTIES
    NoDuplicateDelivery
    
