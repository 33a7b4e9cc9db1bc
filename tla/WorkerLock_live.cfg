CONSTANTS
    p1 = p1 p2 = p2 Procs = {p1, p2}
    TTL = 2
    Beat = 2
    Retries = 1
    Overlap = TRUE
    Leaves = TRUE
    Stalls = FALSE
    MaxClock = 5
    LastCrash = 1
SPECIFICATION FairSpec
PROPERTIES
    AlwaysTakenOver
    AcquireEnds
