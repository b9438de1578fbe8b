SPECIFICATION Spec
CONSTANTS
    NoPts <- MinusInfinity
    MaxInterleaveDelta = 20
    AudioPeriod = 4
    VideoPeriod = 7
    Reorder = 1
    AudioDelay = 1
    MaxPackets = 6
    MayFail = TRUE
INVARIANT TypeOK
INVARIANT HeldInOrder
INVARIANT StreamsInOrder
INVARIANT NothingLost
INVARIANT HeldSpanBounded
INVARIANT FileInterleaved
INVARIANT VideoHeldBack
CHECK_DEADLOCK FALSE
