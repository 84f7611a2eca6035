CONSTANTS
    Uninit = Uninit
    InlineCap = 2
    MaxBuffers = 1
    MaxCapacity = 3
    Msg <- MCMsg
    Fields <- MCFields
    LenUpTo <- MCLenUpTo
    SlotsUpTo <- MCSlotsUpTo
    Pre <- MCPre
    VarintBase = 4
    MaxVarintBytes = 5
    MaxMessage = 21
    MaxU32 = 25
    Budgets = {6}
    MaxKeptSlots = 1
SPECIFICATION Spec
INVARIANTS
    NoPanic
    PrefixExact
    AllSlotsConsumed
    PoolBounded
PROPERTY ImplementsApi
