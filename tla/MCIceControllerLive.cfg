SPECIFICATION LiveSpec
CONSTANTS
    MaxContexts = 2
    IceServers <- MCServers
    NatConfig <- MCNat
    Remotes <- MCRemotes
    MaxFaults = 0
    MaxStarts = 1
PROPERTIES
    ChecksAndClosesEnd
CHECK_DEADLOCK FALSE
