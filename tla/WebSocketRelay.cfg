CONSTANTS
    Instances = {i1, i2}
    Devices = {d1}
    Sessions = {s1}
    Requests = {r1}
    SessionDevice <- MCSessionDevice
    QueueSize = 2
    MaxUnread = 1
    MaxStarts = 3
    MaxWork = 1
    None = None
SPECIFICATION Spec
SYMMETRY MCSymmetry
INVARIANTS
    TypeOK
    ConfirmedIsDelivered
    ViewsAgree
CHECK_DEADLOCK FALSE
