SPECIFICATION Spec
CONSTANTS
    Thread = {w1, w2}
    f = f
    g = g
    h = h
    n = n
    Target = {f, g, h, n}
    Arg = {1, 2, 3}
    Liftable = {f, g, h}
    Complete = {f, g}
    Reads <- MCReads
    Calls <- MCCalls
    Prefix <- MCPrefix
    MaxDepth = 2
    MaxAsk = 2
    Ans <- MCAns
    Nothing = Nothing
INVARIANTS MemoExact AnswersExact
PROPERTIES QuestionsEnd
CHECK_DEADLOCK FALSE
