SPECIFICATION FairSpec
CONSTANTS
    NoPts <- MinusInfinity
    MaxInterleaveDelta = 100
    AudioPeriod = 4
    VideoPeriod = 7
    FrameLimit = 2
    Reorder = 1
    VideoDelay = 1
    AudioDelay = 1
    MaxSessions = 1
    MaxFrames = 4
    MaxSounds = 4
    MayStop = FALSE
    MayFail = FALSE
PROPERTY RunsToItsEnd
CHECK_DEADLOCK FALSE
