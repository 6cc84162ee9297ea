SPECIFICATION Spec
CONSTANTS
    UnitBits = 2
    Fuel = 5
    MaxRounds = 10
    Programs <- AllPrograms
    Inputs <- TwoInputs
INVARIANTS MeaningKept ValuesKept NothingMissed
CHECK_DEADLOCK FALSE
