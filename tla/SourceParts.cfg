SPECIFICATION PartsSpec
CONSTANTS
    Wrap = 3
    MaxFrames = 4
    Count = 2
    Limit = 1
    Frames = 1
    RunOptions <- CameraOptions
INVARIANTS
    TypeOK
    SequenceCountsImages
    NothingRunsOn
PROPERTIES
    ErrorIsLast
    RoundWaitsForCallback
    RunEnds
    SessionEnds
