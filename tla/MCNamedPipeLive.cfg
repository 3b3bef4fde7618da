SPECIFICATION FairSpec
CONSTANTS
    Clients = {c1}
    Setters = {s1, s2}
    MaxPipes = 1
    MaxRequests = 3
    MaxSets = 3
    BufferSizes = {1, 2}
    ReadSize = 1
    Capacity = 1
    MaxReply = 1
    Nobody = Nobody
CHECK_DEADLOCK FALSE
INVARIANTS
    TypeOK
    ConfigurationIsFixed
PROPERTIES
    RequestsAreRead
    GoneIsReleased
