CONSTANTS
    Streams <- MCStreams
    SeqMod = 16
    TsMod = 32
    MaxEntries = 6
    SeqThreshold = 2
    TsThreshold = 2
    Tolerance = 3
    MaxFramePackets = 4
    MaxCreates = 2
    StreamLength = 5
    PlainSeq = 7
    PlainTs = 10
    RoughSeq = 14
    RoughTs = 29
    TsStep = 2
SPECIFICATION Spec
INVARIANTS
    TypeOK
    WholeFramesInOrder
    NothingStale
    FramesWellFormed
    SlotsAccounted
PROPERTIES
    ScanTerminates
CHECK_DEADLOCK FALSE
