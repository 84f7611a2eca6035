CONSTANTS
    Group = 128
    MaxVarintBytes = 3
    MaxMessage = 4
    IntMod = 8192
    Fixed32Len = 1
    Fixed64Len = 2
    Types = {"T", "U", "F", "M", "N"}
    Schema <- MCSchema
    Preserve = {"T", "F", "M"}
    EnumValues = {0, 1}
    AlphabetT = {0, 2, 4, 18, 27, 28, 34}
    MaxLenT = 6
    AlphabetF = {0, 1, 2, 8, 18, 24, 34, 42, 50, 58, 255}
    MaxLenF = 4
    AlphabetM = {0, 2, 8, 10, 16, 18, 27, 28}
    MaxLenM = 6
    Inputs <- MCInputs
    InParts = {"F"}
    TableSets = {{"T", "F", "M"}}
    MaxSize = 6
    RecursionLimit = 2
    UnknownLimit = 2
    ElementLimit = 2
SPECIFICATION Spec
INVARIANTS
    StaysInBounds
    LimitsKept
    TablesAgree
    MergeIsConcatenation
    FailureLeavesComplete
