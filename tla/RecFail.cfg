SPECIFICATION Spec
CONSTANTS
    NoPts <- MinusInfinity
    MaxInterleaveDelta = 100
    AudioPeriod = 4
    VideoPeriod = 7
    FrameLimit = 2
    Reorder = 1
    VideoDelay = 1
    AudioDelay = 1
    MaxSessions = 1
    MaxFrames = 4
    MaxSounds = 4
    MayStop = TRUE
    MayFail = TRUE
INVARIANT TypeOK
INVARIANT PresentationOrder
INVARIANT FileComplete
INVARIANT StopsAtLimit
INVARIANT VideoOnlyAtTrailer
INVARIANT SoundComplete
PROPERTY ImplementsSegments
CHECK_DEADLOCK FALSE
