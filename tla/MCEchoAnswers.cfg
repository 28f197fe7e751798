CONSTANTS
    None = None
    MaxPackets = 2
    Packet = {1, 2}
    FeatCap = 1
    ScoreCap = 1
    SockCap = 2
    QueueSize = 1
    Servers = {TRUE, FALSE}
    HasPL = TRUE
    Scored = {FALSE}
    Faults = TRUE
SPECIFICATION FairSpec
INVARIANTS
    UndrainedStops
PROPERTIES
    EveryoneIsAnswered
CHECK_DEADLOCK FALSE
