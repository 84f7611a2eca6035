CONSTANTS
    DeriveJsonName <- MCJsonName
    MapEntryName <- MCEntryName
    BadJsonNames = {"NUL"}
    BracketNames = {"[k]"}
    OptionsMessages <- MCOptionsMessages
    MaxFieldNumber = 9
    ReservedNumbers = {6}
    MaxFields = 3
    MaxSymbolLen = 4
    Scenarios <- MCScenarios
    MessageDefs <- MCMessageDefs
    LinkOptions <- MCLinkOptions
    MaxFiles = 2
SPECIFICATION Spec
INVARIANTS
    PoolConsistent
    WalkInSync
    OrderIrrelevant
    ImportsRespected
    PoolLegal
