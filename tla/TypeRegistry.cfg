CONSTANTS
    Prefixes = {"p", "q"}
    Names = {"m", "n"}
    Extendees = {"e", "f"}
    Numbers = {1, 2}
    ExtNames = {"x", "y", "z"}
    MaxCalls = 4
SPECIFICATION Spec
INVARIANTS
    AnyLookupLatest
    IndexesInverse
    LatestWins
