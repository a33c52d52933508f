SPECIFICATION Spec
CONSTANTS
    Timings = {"quickOffer"}
    WithRelay = FALSE
    MaxOffers = 2
    MaxCandidates = 0
    QueueCap = 4
PROPERTY ClosedBeforeReuse
CHECK_DEADLOCK FALSE
