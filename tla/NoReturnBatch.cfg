CONSTANTS
    A = 3
    Op = {"exit", "trap", "call", "jcc"}
    Oracle = {c1, c2, s1}
    Cached = {c1, c2}
    MaxDepth = 2
    MaxAsk = 1
    Alone = {s1}
SPECIFICATION Spec
INVARIANTS OneAnswerPerTarget
SYMMETRY Alike
CHECK_DEADLOCK FALSE
