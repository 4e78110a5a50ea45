SPECIFICATION Spec
CONSTANTS
    Invocation = {a, b}
    NoOwner = NoOwner
    Await = Await
    TTL = 1
    Replayable = FALSE
    Ending = {"completed"}
    MaxStamp = 1
    MaxFaults = 1
INVARIANT UnknownOnlyIfCalled
