CONSTANTS
    Count = 2
    Cameras = {}
    Frames = 1
    Runs = 2
    Stops = {"Graceful", "Immediate"}
    StartMay = {"ok", "fail"}
SPECIFICATION ControllerSpec
INVARIANTS FiniteRunCollectsAll
CHECK_DEADLOCK FALSE
