SPECIFICATION MCSpec
INVARIANTS
    ShieldedUnderPressure EnergyEmboldens
    NoNeedlessSurrender EasiestUnderPressure NoRiskForNothing
CONSTANTS
    Healths = {Absent, 29, 30, 34, 35, 59, 60, 100}
    Energies = {Absent, 0, 29, 30, 39, 40, 80}
    Threats = {Absent, 25, 26, 49, 50, 79, 80}
    Pendings = {Absent, 1, 2, 3}
    Absent = Absent
    Lists <- MCLists
    Players <- MCPlayers
    MaxGap = 3
    Kept = 4
    Window = 3
    Short = 2
CHECK_DEADLOCK FALSE
