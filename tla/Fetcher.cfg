SPECIFICATION Spec
CONSTANTS
    Templates = {"recent", "status", "other"}
    Settings <- MCSettings
    Windowed = {"recent"}
    Lookback = 1
INVARIANTS
    SizeBounded
    
    ReportShowsRun
    
CHECK_DEADLOCK FALSE
