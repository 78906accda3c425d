CONSTANTS
    MaxName = 2
    MaxNames = 3
SPECIFICATION Spec
INVARIANT NormalizeKeepsNames
