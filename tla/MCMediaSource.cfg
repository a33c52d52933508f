SPECIFICATION Spec
CONSTANTS
    MaxViewers = 2
    QueueCap = 1
    MaxItems = 1
    MaxOffers = 3
    MaxFrames = 2
INVARIANTS
    TypeOK
    CountsAreViewers
    FramesAccounted
CHECK_DEADLOCK FALSE
