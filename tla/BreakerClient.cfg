CONSTANTS
    Threshold = 2
    CircuitCooldown = 2
    MaxNow = 6
    MaxCalls = 4
SPECIFICATION CSpec
INVARIANTS
    StreakIsHistory
    BlocksForOneCooldown
    
