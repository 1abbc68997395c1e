CONSTANTS
    None = None
    Users = {u1}
    Addresses = {a1, a2}
    Jobs = {j1, j2, j3}
    Tokens = {t1, t2, t3}
    Keys = {k1}
    Limit = 2
    MaxRestarts = 0
SPECIFICATION Spec
SYMMETRY Symmetry
INVARIANTS
    StableToken
    OneLiveToken
    ResetReachesOwner
    QueueBound
CHECK_DEADLOCK FALSE
