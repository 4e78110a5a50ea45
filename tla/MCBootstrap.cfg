SPECIFICATION Spec
CONSTANTS
    Proc = {p, q, r}
    NoOwner = NoOwner
    Dead = Dead
    TTL = 1
    MaxId = 4
    MaxFile = 4
    MaxFaults = 1
SYMMETRY Symmetry
INVARIANT PublishedHasCredential
INVARIANT Recoverable
PROPERTY DiscardIsFinal
CHECK_DEADLOCK FALSE
