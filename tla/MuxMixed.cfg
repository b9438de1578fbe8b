SPECIFICATION Spec
CONSTANTS
    NoPts <- MinusInfinity
    MaxInterleaveDelta = 20
    AudioPeriod = 4
    VideoPeriod = 7
    Reorder = 1
    AudioDelay = 1
    MaxPackets = 6
    MayFail = FALSE
INVARIANT InDtsOrder
CHECK_DEADLOCK FALSE
