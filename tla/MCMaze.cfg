CONSTANT Commands <- MCCommands
SPECIFICATION FairSpec
INVARIANTS
    TestIsExact
    CameThroughOpening
    QueueNeverFull
    PathIsWalk
PROPERTIES Reversible SolveEnds
CHECK_DEADLOCK FALSE
