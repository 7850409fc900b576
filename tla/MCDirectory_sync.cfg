SPECIFICATION Spec
CONSTANTS
    K = K
    Users = {1, 2, 3}
    Known <- MCKnown
    Callers = {c1, c2}
    MaxCalls = 3
    MaxSignIns = 1
    Addresses = {1}
    Bodies <- MCBodies
    Patches <- MCPatches
    Tokens = {K}
    Forged = Forged
    NoToken = NoToken
    Odd = Odd
    Absent = Absent
    Nobody = Nobody
    PageSize = 1
    PerTokenLimit = 1
    AnonymousLimit = 1
    FailureLimit = 0
SYMMETRY AnyCaller
INVARIANTS
    TrailTellsWhoIsIn
    EveryoneIsListed
    ProbesAreBounded
CHECK_DEADLOCK FALSE
