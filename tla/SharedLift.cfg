CONSTANTS
    Addr = {1, 2, 3, 4, 5}
    Calls = {2, 4}
    Entries = {1, 4}
    Bodies <- MCBodies
    Ref <- MCRef
    Lift <- MCLift
    Odd = {4}
    MinBudget = 3
    MaxBudget = 4
    MaxJumps = 2
    MaxId = 1
    None = None
SPECIFICATION Spec
INVARIANTS LogComplete
PROPERTIES SharedIsFresh
CHECK_DEADLOCK FALSE
