CONSTANTS
    Threads = {"t1", "t2"}
    Installers = {"r1", "r2"}
    Knows = {"r1"}
    Cap = 2
    MaxAnys = 2
    MaxSpurious = 1
SPECIFICATION ExpansionSpec
INVARIANTS
    NestingBounded
    RefusedForOwnDepth
    LoadedIsLive
    InstalledWhole
PROPERTIES
    Drains
