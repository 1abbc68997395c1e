CONSTANTS
    d1 = d1
    k1 = k1
    o1 = o1
    c1 = c1
    c2 = c2
    c3 = c3
    s1 = s1
    s2 = s2
    s3 = s3
    None = None
    Devices = {d1}
    Sockets = {k1}
    Consoles = {c1, c2, c3}
    Sessions = {s1, s2, s3}
    Owners = {o1}
    SocketDevice <- MCSocketDevice
    DeviceOwner <- MCDeviceOwner
    ConsoleOwner <- MCConsoleOwner
    Listing = {c2}
    MaxRemoteSessions = 2
    MaxConsoles = 3
    MaxConnections = 3
SPECIFICATION Spec
VIEW WithoutReasons
INVARIANTS
    OneSessionPerDevice
    RoutesAreLiveSessions
    SessionsAreRouted
    OnlyStaleRowsOpenRevoked
    PresenceMatchesConnection
    ConnectionBounds
PROPERTY
    ImplementsLease
