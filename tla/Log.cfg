SPECIFICATION FairSpec
CONSTANTS
    Levels = {0, 2, 4}
    MaxEvents = 2
    MaxDepth = 3
INVARIANTS  StampedByOwnTime
PROPERTY SignalEnds
CHECK_DEADLOCK FALSE
