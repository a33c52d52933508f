SPECIFICATION Spec
CONSTANTS
    Sessions = {s1, s2}
    MaxChannels = 3
    PerPeer = 2
    LocalFirst = 0
    RemoteStreams = {1, 3}
    MaxOpens = 3
    MaxCloses = 2
SYMMETRY MCSymmetry
INVARIANTS
    TypeOK
    ListsEnd
    ChannelsAccounted
    AckedIsHeld
CHECK_DEADLOCK FALSE
