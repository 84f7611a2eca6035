CONSTANTS
    Group = 4
    MaxVarintBytes = 3
    MaxInput = 4
SPECIFICATION Spec
INVARIANTS
    SliceInBounds
    PathsAgree
