CONSTANTS
    v1 = v1
    v2 = v2
    v3 = v3
    Validators = {v1, v2, v3}
    Local = v1
    ActiveSet = {v1, v2, v3}
    LocalHeights = {1, 2, 3}
    StartHeight = 0
    MaxBlock = 2
    MaxPrevotes = 1
    MaxPower = 2
    MaxChecks = 1
SPECIFICATION Spec
INVARIANT CommitHasQuorum
CHECK_DEADLOCK FALSE
