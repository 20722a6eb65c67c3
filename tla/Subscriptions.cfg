CONSTANTS
    c1 = c1
    c2 = c2
    Conns = {c1, c2}
    Types = {"newHeads", "logs"}
    NewHeads = "newHeads"
    Stuck = {c2}
    MaxSubs = 2
    MaxBlocks = 2
    MaxRequests = 2
SPECIFICATION FairSpec
INVARIANTS
    TypeOK
    ClosedOnce
    NoLeak
    NoHeadMissed
PROPERTIES
    BroadcastEnds
    LostConnsForgotten
CHECK_DEADLOCK FALSE
