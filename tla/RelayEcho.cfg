CONSTANTS
    Instances = {i1, i2}
    Devices = {d1}
    Sessions = {s1}
    Requests = {}
    SessionDevice <- MCSessionDevice
    QueueSize = 2
    MaxUnread = 1
    MaxStarts = 3
    MaxWork = 1
    None = None
SPECIFICATION Spec
SYMMETRY MCSymmetry
INVARIANTS
    NotPublishedAgain
CHECK_DEADLOCK FALSE
