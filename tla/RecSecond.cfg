SPECIFICATION Spec
CONSTANTS
    NoPts <- MinusInfinity
    MaxInterleaveDelta = 100
    AudioPeriod = 4
    VideoPeriod = 7
    FrameLimit = 1
    Reorder = 1
    VideoDelay = 1
    AudioDelay = 1
    MaxSessions = 2
    MaxFrames = 4
    MaxSounds = 1
    MayStop = TRUE
    MayFail = FALSE
INVARIANT EverySegmentHasVideo
CHECK_DEADLOCK FALSE
