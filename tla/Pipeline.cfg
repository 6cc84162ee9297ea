CONSTANTS
    N = 3
    Part = {s1, s2}
    NotSplit = NotSplit
    MaxLast = 1
SPECIFICATION FairSpec
INVARIANTS PlacementHolds PreparedIsCurrent EveryAnalyzerRan
PROPERTIES SameAsSequential PipelineEnds
CHECK_DEADLOCK FALSE
