CONSTANTS
    Byte = 2
    Retransmissions = 3
    FirstServerId = 3
    MaxLines = 3
    MaxServerMsgs = 2
SPECIFICATION FairSpec
INVARIANTS TalksOnlyAfterOk ShownOnce UserIdsDistinct
PROPERTIES HandlersFinish InterruptEnds SessionSpec
CHECK_DEADLOCK FALSE
