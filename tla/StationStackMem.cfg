SPECIFICATION MCSpec
CONSTANTS
    Families <- OnlyFullInfo
    RigRequests <- NoRequests
    CatRequests <- NoRequests
    IdleFunctions <- Idle
    RitLimit = 9999
INVARIANT StackMemExists
CHECK_DEADLOCK FALSE
