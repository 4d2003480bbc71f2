SPECIFICATION MCSpec
CONSTANTS
    Families <- OnlySplit
    RigRequests <- NoRequests
    CatRequests <- NoRequests
    IdleFunctions <- Idle
    RitLimit = 9999
INVARIANT IfNamesVfos
CHECK_DEADLOCK FALSE
