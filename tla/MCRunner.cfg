CONSTANTS
    None = None
    MaxSeq = 5
    Lossy = TRUE
    SpreadLimit = 1000
    MaxInventory = 100
    ScoreThreshold = 200
    Timing = TRUE
    Uptime = 0
SPECIFICATION Spec
INVARIANTS
    LagIsTimeouts
    RepliesUsedOnce
    BacklogIsTimeouts
    LagIsSticky
CHECK_DEADLOCK FALSE
