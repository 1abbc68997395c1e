CONSTANTS
    None = None
    Commands = {w1}
    Sockets = {k1, k2}
    Sessions = {s1}
    Window = 1
    Grace = 1
    Period = 1
    Validity = 1
    MaxNonces = 1
    MaxPairings = 1
    MaxJumps = 0
    MaxInbox = 1
SPECIFICATION LiveSpec
PROPERTIES
    WindowAlwaysEnds
