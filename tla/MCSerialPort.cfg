SPECIFICATION Spec
CONSTANTS
    MaxFd = 3
    DefaultSize = 3
    BufferSizes = {0, 2, 3}
    MaxBytes = 4
    Nuls <- MCNuls
    MaxFailures = 2
CHECK_DEADLOCK FALSE
INVARIANTS
    TypeOK
    NothingStale
    LeaksOnlyFailures
