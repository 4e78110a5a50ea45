SPECIFICATION PartSpec
CONSTANTS
    NoOwner = NoOwner
    TTL = 3
    Owner = {a, b, c}
    MaxGen = 4
    Dead = Dead
    MaxFaults = 1
    Repairer = {a, b}
    Writer = W
    Slot = {s1, s2, s3}
    FirstSlot = s1
    OldSlot = s2
    Label = Label
    StateKey = StateKey
    Process = {a, b}
    Port = {t1, t2}
    NoPort = NoPort
    MaxAttempt = 2
    MaxRequests = 2
    Runner = {a, b}
    MaxEvents = 2
    EventBytes = 5
    EventsBytes = 6
    Size = {1, 3, 5, 6}
    MaxSequence = 4
    Opener = {a, b}
    MaxFile = 2
    MaxKey = 3
    MaxHits = 3
SYMMETRY Symmetry
PROPERTY NoStaleCommit
INVARIANT OvertakenOutlivedLease
INVARIANT KeyLast
INVARIANT NoSecondCopy
INVARIANT FailsForCause
INVARIANT OneOwnCode
INVARIANT RegistrationServes
INVARIANT FollowsTheLog
INVARIANT OneKey
CHECK_DEADLOCK FALSE
