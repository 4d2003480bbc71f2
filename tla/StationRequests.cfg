SPECIFICATION MCSpec
CONSTANTS
    Families <- AllFamilies
    RigRequests <- NoRequests
    CatRequests <- NoRequests
    IdleFunctions <- Idle
    RitLimit = 8
VIEW WithoutAnswer
INVARIANT StationTypeOK
INVARIANT OffsetFits
PROPERTY DrivesTransceiver
PROPERTY ModesReadBack
PROPERTY OnlyIdleFunctionsAreMute
CHECK_DEADLOCK FALSE
