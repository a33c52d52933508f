SPECIFICATION FairSpec
CONSTANTS
    Timings = {"dtlsErrors"}
    WithRelay = TRUE
    MaxOffers = 2
    MaxCandidates = 1
    QueueCap = 3
INVARIANTS
    TypeOK
    ReusableIsClean
    ReadyIsSecured
PROPERTIES
    LifePromise
    PhasesEnd
CHECK_DEADLOCK FALSE
