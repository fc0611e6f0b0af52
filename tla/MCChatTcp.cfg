CONSTANTS
    MaxLines = 4
    MaxServerMsgs = 4
SPECIFICATION FairSpec
INVARIANTS TalksOnlyAfterOk LeavesWithBye
PROPERTIES EndExits AnswerEndsWaiting ClosedSessionEnds SessionSpec
CHECK_DEADLOCK FALSE
