CONSTANTS
    Bytes <- MCBytes
    BitLengths = {16, 17}
SPECIFICATION Spec
INVARIANTS SamplesRightBit AnnouncedOnceAsSent ReadyForNext
PROPERTY HoldsAnnouncedByte
