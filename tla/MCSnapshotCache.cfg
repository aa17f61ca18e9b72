CONSTANTS
    MaxFrames = 2
    MaxCrashes = 2
    MaxFailures = 1
SPECIFICATION SnapshotSpec
INVARIANTS
    SnapshotTypeOK
    ConfirmedIsDurable
PROPERTIES
    RestartShowsConfirmedCapture
    PictureReachesDisk
CHECK_DEADLOCK FALSE
