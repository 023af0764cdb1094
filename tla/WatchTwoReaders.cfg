SPECIFICATION Spec
CONSTANTS
    Readers = {r1, r2}
    Writers = {w1}
    MaxEvents = 2
    FrameLen = 2
    ReadSize = 3
    MayClose = FALSE
PROPERTIES
    BlockedUntilChunk
CHECK_DEADLOCK FALSE
