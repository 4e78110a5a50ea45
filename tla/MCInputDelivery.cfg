SPECIFICATION FairSpec
CONSTANTS
    Await = {a, b, c}
    Runner = Runner
    NoOwner = NoOwner
    Request = {1}
    x = x
    y = y
    Value = {x, y}
    NoValue = NoValue
    Input <- MCInput
    TTL = 1
    MaxFaults = 1
INVARIANT AnswersAgree
INVARIANT MarkedWasDelivered
PROPERTY SendsOutstandingOnly
PROPERTY NothingUnanswered
