SPECIFICATION Spec
CONSTANTS
    Proc = {p, q}
    NoOwner = NoOwner
    Dead = Dead
    TTL = 1
    MaxId = 2
    MaxFile = 2
    MaxFaults = 1
SYMMETRY Symmetry
PROPERTY CleanupSparesOthers
CHECK_DEADLOCK FALSE
