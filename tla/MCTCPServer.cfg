SPECIFICATION Spec
CONSTANTS
    Starters = {s1}
    Peers = {p1, p2}
    Messages <- MCMessages
    MaxMessages <- MCOneEach
    MaxClients = 2
    BufferSize = 4
    SendCapacity = 1
    MayStop = TRUE
    SizeT = 4096
    Handlers <- MCHandlers
    NoSocket = NoSocket
SYMMETRY PeerSymmetry
CHECK_DEADLOCK FALSE
INVARIANTS
    TypeOK
    FirstRegistrationWins
    IdleIsClosed
PROPERTIES
    ObjectsLiveOnce
