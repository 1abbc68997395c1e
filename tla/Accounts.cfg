CONSTANTS
    MaxLogins = 3
    MaxConcurrent = 2
    Challenges = {c1}
    Resets = {r1, r2}
    MaxLoginAttempts = 2
    ChallengeAttempts = 2
    RecoveryCodes = {n1}
    MaxRefreshes = 1
    MaxChanges = 3
    MaxStep = 1
SPECIFICATION Spec
SYMMETRY Symmetry
INVARIANTS
    AccountInv
    OneUsableToken
    ConcurrentLimit
    CurrentCredentials
    UsedOnce
    SetupProvesPassword
PROPERTIES
    EnabledByLiveLogin
    LockoutHolds
    ImplementsLineage
CHECK_DEADLOCK FALSE
