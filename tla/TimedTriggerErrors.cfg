CONSTANTS
    Wrap = 3
    MaxFrames = 2
SPECIFICATION Spec
INVARIANT OneTerminalError
