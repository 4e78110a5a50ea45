SPECIFICATION Spec
CONSTANTS
    Proc = {p, q}
    NoOwner = NoOwner
    Dead = Dead
    TTL = 1
    MaxSlot = 3
    MaxGrant = 3
    MaxClient = 2
    MaxGen = 2
    MaxFaults = 1
SYMMETRY Symmetry
INVARIANT GrantMatchesClient
INVARIANT NothingStranded
INVARIANT LogoutLeavesNothing
INVARIANT NoSpentGrant
INVARIANT SingleRegistration
PROPERTY NoResurrection
