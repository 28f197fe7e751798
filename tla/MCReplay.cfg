\* The files list one of two levels of each side; levels hold up to three.
CONSTANTS
    MaxPrice = 2
    MaxQty = 3
    None = None
    SpreadLimit = 0
    MaxInventory = 1
    ScoreThreshold = 1
    Depth = 1
SPECIFICATION Spec
INVARIANTS
    OverstatesOnlyIfStale
    UnderstatesOnlyIfMissed
    TakeIsRealOrStale
    BlowoutIsSeen
    BestIsExtreme
