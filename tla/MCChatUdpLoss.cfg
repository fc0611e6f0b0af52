CONSTANTS
    Byte = 2
    Retransmissions = 3
    FirstServerId = 3
    MaxLines = 1
    MaxServerMsgs = 1
SPECIFICATION Spec
INVARIANT LossIsHandled
CHECK_DEADLOCK FALSE
