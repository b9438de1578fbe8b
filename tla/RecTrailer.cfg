SPECIFICATION Spec
CONSTANTS
    NoPts <- MinusInfinity
    MaxInterleaveDelta = 100
    AudioPeriod = 4
    VideoPeriod = 7
    FrameLimit = 1
    Reorder = 1
    VideoDelay = 1
    AudioDelay = 1
    MaxSessions = 1
    MaxFrames = 3
    MaxSounds = 3
    MayStop = FALSE
    MayFail = FALSE
INVARIANT TrailerIsLast
CHECK_DEADLOCK FALSE
