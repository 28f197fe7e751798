CONSTANTS
    MaxSeq = 6
    Lossy = TRUE
SPECIFICATION LobSpec
INVARIANTS
    RowsAreOwn
    EveryReplyMeasured
CHECK_DEADLOCK FALSE
