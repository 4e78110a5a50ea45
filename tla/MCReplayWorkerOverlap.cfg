SPECIFICATION Spec
CONSTANTS
    Id = {s1}
    Invocation = {a, b}
    NoOwner = NoOwner
    NoId = NoId
    TTL = 2
    PayloadRetention = 1
    TombstoneRetention = 2
    MaxFaults = 2
INVARIANT NeverExecutedTwiceAtOnce
