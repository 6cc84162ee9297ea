SPECIFICATION Spec
CONSTANTS
    Worker = {w1, w2, w3}
    N = 3
    Size <- MCSize
    k1 = k1
    k2 = k2
    k3 = k3
    o1 = o1
    Key = {k1, k2, k3}
    Outside = {o1}
    Failing = {k2}
    Body <- MCBody
    Cap = 3
    Failed = Failed
    NoEntry = NoEntry
    Whole = Whole
    None = None
INVARIANTS CellsPointHome ClaimsAreOwn EachOnce SameAsAlone
PROPERTIES WrittenOnce BatchEnds
CHECK_DEADLOCK FALSE
