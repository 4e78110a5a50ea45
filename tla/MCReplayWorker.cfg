SPECIFICATION FairSpec
CONSTANTS
    Id = {s1}
    Invocation = {a, b}
    NoOwner = NoOwner
    NoId = NoId
    TTL = 2
    PayloadRetention = 1
    TombstoneRetention = 2
    MaxFaults = 3
INVARIANT RunningBeforeExecute
INVARIANT CapturedWhole
PROPERTY NoStalePublish
PROPERTY KeepsContract
PROPERTY EventuallySettles
