SPECIFICATION Spec
CONSTANTS
    c1 = c1
    c2 = c2
    Subs <- MCSubs
    Sizes <- MCSizes
    MaxHistory = 3
    MaxBytes = 4
    EvictBatch = 2
    BufSize = 2
    MaxFrames = 4
INVARIANTS
    StreamIsExact
    BuffersBounded
PROPERTIES
    ImplementsFeed
    EveryClientReleased
CHECK_DEADLOCK FALSE
