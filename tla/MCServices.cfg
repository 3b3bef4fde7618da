SPECIFICATION Spec
CONSTANTS
    Threads = {t1, t2}
    Requesters = {t1, t2}
    Readers = {t1, t2}
    MaxRequests = 3
    MaxPieces = 2
    Values <- MCValues
    Characters <- MCCharacters
    NoValue = NoValue
    MaxChanges = 2
    MaxReads = 3
    Ids = {1, 2}
    IdleId = 2
    Names = {n1, n2}
    MaxProcesses = 3
    MaxThreads = 2
    MaxUnwritten = 1
    MaxOperations = 4
    CodeSize = 7
    Cells = 22
    PageSize = 4
    Protections <- MCProtections
    Functions <- MCFunctions
    Sizes = {1, 2, 3}
    MaxCalls = 3
    Kinds <- MCKinds
SYMMETRY ThreadSymmetry
CONSTRAINT Undisturbed
INVARIANTS
    TypeOK
    AnswersAreOwn
    FileIsTheDownload
    ReturnsAreClean
    TextIsOfOneValue
    ListsAreOfTheProcess
    OnlyFailedSearchesLeak
    ProtectionComesBack
    HookedGoesToItsTarget
    
CHECK_DEADLOCK FALSE
