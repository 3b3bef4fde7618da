SPECIFICATION Spec
CONSTANTS
    Starters = {s1}
    Peers = {p1, p2}
    Messages <- MCHello
    MaxMessages <- MCOneEach
    MaxClients = 2
    BufferSize = 3
    SendCapacity = 1
    MayStop = TRUE
    SizeT = 4096
    Handlers <- MCHandlers
    NoSocket = NoSocket
CHECK_DEADLOCK FALSE
INVARIANTS
    SendsToALiveClient
