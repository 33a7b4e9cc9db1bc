SPECIFICATION Spec
INVARIANTS KeepsWorn  AllWorseSold
PROPERTY NeverOversells
CONSTANTS
    Items <- Gear
    Places = {1, 2}
    SlotOf <- GearSlot
    NoSlot = nothing
    Score <- GearScore
    Tier <- GearTier
    Name <- GearName
    MaxQuantity = 2
    Others = 1
    Trigger = 3
    Goal = 2
    MaxIterations = 4
CHECK_DEADLOCK FALSE
