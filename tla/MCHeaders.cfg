SPECIFICATION HeadersSpec
CONSTANTS
    StateIds = {a, b, c}
    MaxObjects = 3
    MaxDepth = 2
    Sizes <- MCSizes
    Values = {0, 1}
    SizeT = 256
SYMMETRY IdSymmetry
INVARIANTS
    TypeOK
    OwnsItsStates
    OneActive
    AccessesTheElementNamed
PROPERTIES
    FollowsTransitions
