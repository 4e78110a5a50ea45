SPECIFICATION FairSpec
CONSTANTS
    Invocation = {a}
    NoOwner = NoOwner
    Await = Await
    TTL = 1
    Replayable = TRUE
    Ending = {"completed", "expired"}
    MaxStamp = 2
    MaxFaults = 2
PROPERTY EndsHere
PROPERTY InputIsRequested
