CONSTANTS
    Sizes = {0, 2, 3}
    PutSizes = {0, 1, 2}
    Chunks = {0, 2, 3}
    MaxProduced = 4
    MaxMessages = 3
SPECIFICATION Spec
INVARIANTS
    NothingUninitialised
PROPERTIES
    AllOrNothing
