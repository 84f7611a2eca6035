CONSTANTS
    Types = {"A", "B", "C"}
    Schema <- MCSchema
    EnumValues = {0, 1}
    IntMod = 4
    Inputs <- MCInputs
    MaxA = 3
    MaxB = 3
    MaxC = 3
    ElementCost <- MCCost
    Sentinel = 1000
SPECIFICATION Spec
INVARIANTS
    ViewMatchesOwned
    LazyMatchesEager
    ReencodePreserves
