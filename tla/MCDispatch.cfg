SPECIFICATION LiveSpec
CONSTANTS
    Id = {s1, s2}
    NoId = NoId
    Goroutine = {g1, g2}
    QueueDepth = 1
    MaxInFlight = 1
INVARIANT NeverTwiceInProcess
INVARIANT AllAccountedFor
INVARIANT StopJoinsAll
PROPERTY NoWorkIsLost
CHECK_DEADLOCK FALSE
