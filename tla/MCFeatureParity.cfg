CONSTANTS
    None = None
    Base = 8
    NLevels = 1
    TauBurst = 96
    TauVol = 5000
    Batches <- MCBatches
    Times = {64, 128, 4160}
    MaxSent = 3
    MaxFaults = 1
SPECIFICATION ParitySpec
INVARIANTS
    TestAgrees
    LanesAgree
CHECK_DEADLOCK FALSE
