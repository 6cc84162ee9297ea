CONSTANTS
    Proc = {p1}
    NFiles = 1
    Exe = 0
    Bin = 1
    Content = {c1, c2}
    Side = {s1, s2}
    Racy = 1
    Gran = 1
    MaxTime = 2
    MaxEdits = 1
    MaxFaults = 2
    None = None
    Failed = Failed
    Partial = Partial
    Damaged = Damaged
SPECIFICATION FairSpec
PROPERTY CommandsEnd
CHECK_DEADLOCK FALSE
