CONSTANTS
    p1 = p1 p2 = p2 p3 = p3 Procs = {p1, p2, p3}
    TTL = 2
    Beat = 2
    Retries = 1
    Overlap = FALSE
    Leaves = TRUE
    Stalls = FALSE
    MaxClock = 5
    LastCrash = 5
SPECIFICATION Spec
SYMMETRY ProcSymmetry
INVARIANTS
    TypeOK
    MutualExclusion
    HolderOwnsFile
 
