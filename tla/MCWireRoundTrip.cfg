CONSTANTS
    Group = 128
    MaxVarintBytes = 3
    MaxMessage = 64
    IntMod = 8192
    Fixed32Len = 1
    Fixed64Len = 2
    Types = {"T", "U", "F"}
    Schema <- MCSchema
    Preserve = {"T", "F"}
    EnumValues = {0, 1}
    AlphabetT = {0, 2, 8, 18, 26, 32, 43, 44, 50}
    LongFirst = {18, 26, 50}
    AlphabetF = {0, 2, 3, 10, 18, 26, 42, 45, 63, 255}
    MaxLen = 5
    Inputs <- MCInputs
    InParts = {}
    TableSets = {{"T", "F"}}
    MaxSize = 64
    RecursionLimit = 3
    UnknownLimit = 3
    ElementLimit = 3
SPECIFICATION RoundTripSpec
INVARIANTS
    RoundTrips
    StoredIsCharged
