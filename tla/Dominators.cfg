CONSTANTS
    N = 4
    Entry = 2
    SuccList <- BlockOrder
    Kind = {"entry", "forest", "exit"}
SPECIFICATION Spec
INVARIANTS TreeClimbsToRoot EveryBlockReachesExit IdomExact FrontierExact
PROPERTIES PassesEnd
CHECK_DEADLOCK FALSE
