SPECIFICATION FairSpec
CONSTANTS
    Starters = {s1, s2}
    Peers = {p1}
    Messages <- MCHello
    MaxMessages <- MCTwoEach
    MaxClients = 1
    BufferSize = 3
    SendCapacity = 1
    MayStop = TRUE
    SizeT = 4096
    Handlers <- MCHandlers
    NoSocket = NoSocket
CHECK_DEADLOCK FALSE
INVARIANTS
    AtMostOneLateChunk
PROPERTIES
    
    StopDrains
