CONSTANTS
    MaxSeq = 4
    MaxLines = 4
    Lossy = TRUE
    Batch = 2
SPECIFICATION Spec
INVARIANTS
    EventsOnceInOrder
    FirstPacketResets
    FeaturesHaveDeltas
    RepliesDumpedOnce
CHECK_DEADLOCK FALSE
