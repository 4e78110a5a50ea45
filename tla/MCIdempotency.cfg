SPECIFICATION Spec
CONSTANTS
    Call = {c1, c2}
    Key = {k1, k2}
    Args = {a, b}
    Thread = {t1, t2}
    NoThread = NoThread
    Id = {i1, i2}
    NoId = NoId
SYMMETRY Symmetry
INVARIANT IndexMatchesRows
INVARIANT ReportsOwnSubmission
PROPERTY ExactRetryNeverConflicts
