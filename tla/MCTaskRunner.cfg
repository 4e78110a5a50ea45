SPECIFICATION Spec
CONSTANTS
    Invocation = {a, b}
    NoOwner = NoOwner
    Await = Await
    TTL = 1
    Replayable = FALSE
    Ending = {"completed", "oversized"}
    MaxStamp = 2
    MaxFaults = 1
SYMMETRY Symmetry
INVARIANT NoDuplicateCall
INVARIANT TruthfulOutcome
PROPERTY SettledByLeaseHolder
PROPERTY ObservationsInOrder
