SPECIFICATION FairSpec
CONSTANTS
    Starters = {s1}
    Peers = {p1, p2}
    Messages <- MCTwice
    MaxMessages <- MCOneAsks
    MaxClients = 2
    BufferSize = 3
    SendCapacity = 1
    MayStop = FALSE
    SizeT = 4096
    Handlers <- MCEmpty
    NoSocket = NoSocket
CHECK_DEADLOCK FALSE
PROPERTIES
    EndedConnectionIsReleased
