CONSTANTS
    StageQueue = 2
    MaxBatch = 2
    FrameCount = 8
SPECIFICATION LeasesSpec
INVARIANTS NoFrameFailsUnderLoad
CHECK_DEADLOCK FALSE
