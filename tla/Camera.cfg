SPECIFICATION Spec
CONSTANTS
    MaxFrames = 5
    MaxSurfaces = 2
    MayFail = TRUE
INVARIANT TypeOK
INVARIANT TornBetweenNeighbours
INVARIANT NeverBackInTime
INVARIANT BuffersCirculate
INVARIANT OnlySurfaceCreatedThrows
INVARIANT CameraNotLeaked
CHECK_DEADLOCK FALSE
