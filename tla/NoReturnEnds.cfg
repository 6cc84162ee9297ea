CONSTANTS
    A = 3
    Op = {"exit", "bad", "trap", "call", "jmp", "jcc"}
    Oracle = {c1, c2}
    Cached = {c1, c2}
    MaxDepth = 2
    MaxAsk = 1
    Alone = {c1, c2}
SPECIFICATION Spec
INVARIANTS NeverCutsRealCode
PROPERTIES QuestionsAnswered
CHECK_DEADLOCK FALSE
