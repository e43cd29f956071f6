CONSTANTS
    Header = 1
    Tag = 1
    Chunk = 2
    MaxPayload = 3
    Slack = 3
    ReadMax = 3
    MaxPiece = 7
    MaxBatch = 2
    Sizes = {0, 3, 4}
    MaxFrames = 4
SPECIFICATION Spec
INVARIANTS
    FramesIntact
PROPERTIES
    EverythingArrives
CHECK_DEADLOCK FALSE
