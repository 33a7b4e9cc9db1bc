CONSTANTS
    Actions = {"attack"}
    MaxTicks = 2
    MaxAttempts = 2
    Hangs = TRUE
    Late = TRUE
    HeartbeatFails = TRUE
    DiskFails = TRUE
    MaxClock = 3
    Threshold = 4
    Interval = 1
    Timeout = 1
    ActionCooldown = 1
    Window = 3
    CircuitCooldown = 2
SPECIFICATION FairSpec
CHECK_DEADLOCK FALSE
INVARIANTS
    TicksAreClosed
    TicksWeighTwoAtMost
    ReopensInTime
    DecisionIsLogged
PROPERTY LoopEnds
