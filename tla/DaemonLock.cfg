CONSTANTS
    Pids = {p1, p2, p3}
    None = None
    Empty = Empty
SPECIFICATION Spec
INVARIANTS
    SingleDaemon
    LockNamesDaemon
PROPERTY SkipsOnlyDuplicates
