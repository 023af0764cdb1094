SPECIFICATION Spec
CONSTANTS
    Readers = {r1}
    Writers = {w1, w2}
    MaxEvents = 2
    FrameLen = 2
    ReadSize = 3
    MayClose = TRUE
INVARIANTS
    TypeOK
    StreamIntact
    LockMeetsReceiver
    EndMeansClosed
PROPERTIES
    AllDelivered
    CloseEnds
    BlockedUntilChunk
    ImplementsStream
