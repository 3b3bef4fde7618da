SPECIFICATION MCSpec
CONSTANTS
    Processes = {o1, o2}
    Keys <- MCKeys
    Values <- MCValues
    Defaults <- MCDefaults
    Characters <- MCCharacters
    MaxSettings = 3
    MaxRestarts = 2
    NoFile = NoFile
    NoList = NoList
SYMMETRY ProcessSymmetry
INVARIANTS
    TypeOK
    KeysAreDistinct
    SavedIsLoaded
PROPERTIES
    ResetKeepsExcluded
