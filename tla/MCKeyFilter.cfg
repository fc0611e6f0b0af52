CONSTANTS
    Chars = {1, 2, 3, 12}
    toupper <- MCtoupper
    MAX_ADRESS_LENGTH = 3
    ALLOWED_SIZE = 3
    Arguments <- MCArguments
    Lines <- MCLines
    MaxLines = 4
SPECIFICATION FairSpec
INVARIANTS LoopInvariant AnswerIsRight
PROPERTIES Ends
CHECK_DEADLOCK FALSE
