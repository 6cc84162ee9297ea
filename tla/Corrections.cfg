SPECIFICATION Spec
CONSTANTS
    e = e
    a = a
    b = b
    Addr = {e, a, b}
    EntryPoint = e
    Program <- MCProgram
    MaxRounds = 3
    MaxEdits = 2
    MaxStops = 1
    Torn = Torn
INVARIANTS NoFight TwoRounds Fixpoint GenuineKept
CHECK_DEADLOCK FALSE
