SPECIFICATION Spec
CONSTANTS
    Kind <- Endpoints
    Registered = {"f"}
    Levels = {"Operator"}
    Publishers = {"p"}
    Offers = 2
    Calls = 4
    Versions = 1
    Buffers = 1
    Takers = {1, 2}
    Count = 2
    Cameras = {}
    Frames = 1
    Runs = 2
    Stops = {}
    StartMay = {"ok", "fail"}
    Capacity = 1
    MaxFrames = 3
    RunOptions <- FrameOptions
    Directory <- Images
    SizeMax = 1048575
    UIntMax = 1023
    IntMax = 511
    VectorMax = 4095
    FloatMax = 100
    Samples <- AllSamples
INVARIANTS
    SummaryComplete
    NothingOutlivesConfigure
    FinalSummaryWins
    NoStrandedFrame
    PoolConservation
    CountedOnce
    NoByteAstray
    AssembledIsRunnable
PROPERTIES
    FrameRunEnds
    RunIsReported
CHECK_DEADLOCK FALSE
