CONSTANTS
    None = None
    MaxPackets = 3
    Packet = {1, 2, 3}
    FeatCap = 2
    ScoreCap = 2
    SockCap = 1
    QueueSize = 2
    Servers = {TRUE, FALSE}
    HasPL = TRUE
    Scored = {TRUE, FALSE}
    Faults = TRUE
SPECIFICATION Spec
INVARIANTS
    TypeOK
    CountersConsistent
    OwnScores
    BoundedLag
    ResultsInOrder
    DrainKeepsUp
    CleanBetweenPackets
    DrainPreventsBackpressure
PROPERTIES
    ImplementsReplyServer
CHECK_DEADLOCK FALSE
