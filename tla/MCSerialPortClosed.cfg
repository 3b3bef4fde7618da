SPECIFICATION Spec
CONSTANTS
    MaxFd = 2
    DefaultSize = 2
    BufferSizes = {2}
    MaxBytes = 1
    Nuls = {}
    MaxFailures = 1
CHECK_DEADLOCK FALSE
INVARIANTS
    WritesToThePort
