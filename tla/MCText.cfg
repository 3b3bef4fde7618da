SPECIFICATION TextSpec
CONSTANTS
    SizeT = 4096
    Handlers <- MCHandlers
    Alphabets <- MCAlphabets
    MaxLen = 7
    DWord = 6
    OpcodeSize = 2
INVARIANTS
    CommandsAreExact
    CuttingKeepsTheRest
    SettingsSurvive
    SearchesAreExact
CHECK_DEADLOCK FALSE
