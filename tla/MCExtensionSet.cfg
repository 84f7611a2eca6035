CONSTANTS
    Exts <- MCExts
    Carrier = "carrier"
    Buffers <- MCBuffers
    Values <- MCValues
    Utf8 <- MCUtf8
    ChargedSlots <- MCChargedSlots
    SkipError <- MCSkipError
    RecordsLen <- MCRecordsLen
    MaxTypeId = 9
    IntMod = 4
    MaxMessage = 12
    DepthLimit = 2
    UnknownLimit = 3
    ElementLimit = 3
    MaxCalls = 2
SPECIFICATION Spec
INVARIANTS
    ReencodePreserves
PROPERTIES
    ImplementsExtensionStore
