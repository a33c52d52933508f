CONSTANTS
    Senders = {"video"}
    SenderOrder <- MCVideoOnly
    RtxChoices <- MCRtxVideo
    SeqMod = 3
    Capacity = 2
    NackLists <- MCNacks
    MaxPackets = 3
    MaxNacks = 1
    MaxCloses = 2
    MaxSessions = 2
SPECIFICATION Spec
INVARIANTS
    TypeOK
    BuffersAccounted
    ResendIsOriginal
    NoCrossSession
PROPERTIES
    NumbersAdvance
    TasksGetOn
CHECK_DEADLOCK FALSE
