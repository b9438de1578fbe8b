SPECIFICATION Spec
CONSTANTS
    NoPts <- MinusInfinity
    MaxInterleaveDelta = 100
    AudioPeriod = 4
    VideoPeriod = 7
    FrameLimit = 1
    Reorder = 0
    VideoDelay = 0
    AudioDelay = 0
    MaxSessions = 2
    MaxFrames = 3
    MaxSounds = 2
    MayStop = TRUE
    MayFail = FALSE
INVARIANT NoFrameTwice
INVARIANT NoSoundTwice
PROPERTY ImplementsSegments
CHECK_DEADLOCK FALSE
