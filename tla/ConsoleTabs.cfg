CONSTANTS
    MaxLogins = 2
    MaxConcurrent = 2
    Tabs = {t1, t2}
    MaxTurns = 2
SPECIFICATION Spec
SYMMETRY Symmetry
INVARIANTS
    NoReplay
    TabsAgree
PROPERTIES
    SignedOutStaysOut
CHECK_DEADLOCK FALSE
