CONSTANTS
    Proc = {p1, p2}
    NFiles = 1
    Exe = 0
    Bin = 1
    Content = {c1, c2}
    Side = {s1}
    Racy = 1
    Gran = 1
    MaxTime = 2
    MaxEdits = 1
    MaxFaults = 1
    None = None
    Failed = Failed
    Partial = Partial
    Damaged = Damaged
SPECIFICATION Spec
SYMMETRY Symmetry
INVARIANTS PreKeySound NeverPartial FreshResults
CHECK_DEADLOCK FALSE
