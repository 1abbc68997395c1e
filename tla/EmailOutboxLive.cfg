CONSTANTS
    None = None
    Users = {u1}
    Addresses = {a1}
    Jobs = {j1, j2}
    Tokens = {t1, t2}
    Keys = {k1, k2}
    Limit = 2
    MaxRestarts = 1
SPECIFICATION FairSpec
INVARIANTS
    OutboxInv
    AttemptBudget
    OutcomeIsTrue
PROPERTY
    EveryJobEnds
CHECK_DEADLOCK FALSE
