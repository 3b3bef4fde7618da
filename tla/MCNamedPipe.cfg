SPECIFICATION Spec
CONSTANTS
    Clients = {c1, c2}
    Setters = {s1}
    MaxPipes = 2
    MaxRequests = 2
    MaxSets = 1
    BufferSizes = {2}
    ReadSize = 1
    Capacity = 2
    MaxReply = 2
    Nobody = Nobody
SYMMETRY ClientSymmetry
VIEW View
INVARIANTS
    NeverHangsUpFirst
PROPERTIES
    AnswersAreASession
CHECK_DEADLOCK FALSE
