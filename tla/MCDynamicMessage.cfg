CONSTANTS
    Schema <- MCSchema
    ExtensionRange <- MCExtensionRange
    Extensions <- MCExtensions
    Root = "A"
    Home = "home"
    EnumValues = {0, 1}
    IntMod = 4
    UnknownSlots <- MCUnknownSlots
    SkipError <- MCSkipError
    RecordsLen <- MCRecordsLen
    SubMerge <- MCMergeNested
    SubEncode <- MCEncodeNested
    SubLen <- MCNestedLen
    DefaultLimits <- Ample
    Buffers <- MCBuffers
    Writes <- MCWrites
    MaxCalls = 2
    Tampered = Tampered
SPECIFICATION Spec
INVARIANTS
    WellFormed
    TranscodePreserves
PROPERTIES
    ErrorConfined
    ImplementsFieldStore
