CONSTANTS
    None = None
    Commands = {w1}
    Sockets = {k1, k2}
    Sessions = {s1, s2}
    Window = 2
    Grace = 1
    Period = 1
    Validity = 1
    MaxNonces = 1
    MaxPairings = 2
    MaxJumps = 1
    MaxInbox = 1
SPECIFICATION FairSpec
INVARIANTS
    AgentInv
    ActivatesOnce
    OneSocket
    StoppedIsQuiet
PROPERTIES
    WindowEnds
