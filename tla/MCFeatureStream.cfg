CONSTANTS
    MaxPackets = 3
    Counts = {0, 2, 3, 5}
    RecvCap = 4
    DeltaCap = 3
    FifoDepths = {2, 4}
SPECIFICATION FairSpec
INVARIANTS
    CorrectUntilOversize
PROPERTY
    EveryPacketAnswered
CHECK_DEADLOCK FALSE
