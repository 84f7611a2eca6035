CONSTANTS
    MinSegments = {0, 2}
    Lengths = {0, 1, 2, 3}
    FixedLengths = {1, 2}
    MaxBytes = 7
SPECIFICATION RopeSpec
INVARIANTS
    InOrder
PROPERTIES
    BufContract
