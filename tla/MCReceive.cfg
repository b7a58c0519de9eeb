\* Three epochs, of two packets each, so that a Sync meets slots that are kept,
\* evicted or both; and eight packets of one epoch over a window of six in two bytes.
CONSTANTS
    ByteBits = 3
    Bytes = 2
    Word = 8
    EpochsAhead = 1
    NoSlot = NoSlot
    MaxEpoch = 2
    MaxSeq = 1
    LongRun = 7
SPECIFICATION Spec
INVARIANTS
    TypeOK AtMostOnce RejectedForCause
