SPECIFICATION FairSpec
CONSTANTS
    PoolSize = 2
    MaxActivities = 2
    MaxStarts = 3
    MayFail = TRUE
INVARIANT TypeOK
INVARIANT ButtonTrue
INVARIANT PreparedIsStarted
INVARIANT StackTrue
INVARIANT CameraFreed
INVARIANT RecordingIsServed
PROPERTY SoundIsRead
CHECK_DEADLOCK FALSE
