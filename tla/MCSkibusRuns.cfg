CONSTANTS
    MaxRuns = 3
    MaxAtOnce = 2
    StopCounts = {1, 2}
    FixedNames <- MCFixedNames
SPECIFICATION FairSpec
INVARIANTS NoLeak SecondRunWorks
PROPERTY FailingRunEnds
CHECK_DEADLOCK FALSE
