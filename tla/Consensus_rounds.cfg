CONSTANTS
    v1 = v1
    v2 = v2
    v3 = v3
    Validators = {v1, v2, v3}
    Local = v1
    ActiveSet = {v1, v2, v3}
    LocalHeights = {1, 2, 3}
    StartHeight = 0
    MaxBlock = 2
    MaxPrevotes = 1
    MaxPower = 3
    MaxChecks = 1
SPECIFICATION FairSpec
INVARIANTS
    TypeOK
    CommitIsFinal
    QuorumCountedInRound
PROPERTIES
    RoundsAdvance
    ImplementsFinality
    RoundResolves
CHECK_DEADLOCK FALSE
