SPECIFICATION Spec
CONSTANTS
    MaxContexts = 2
    IceServers <- MCServers
    NatConfig <- MCNat
    Remotes <- MCRemotes
    MaxFaults = 1
    MaxStarts = 1
INVARIANTS
    TypeOK
    SocketsFollowState
    PairsHaveContexts
    LossNoticed
CHECK_DEADLOCK FALSE
