\* One agent, one visitor, one conversation, and one reload of the inbox.
SPECIFICATION SocketsFairSpec
CONSTANTS
    c1 = c1
    v1 = v1
    Clients = {c1}
    Visitors = {v1}
    Pushers = {v1}
    Senders = {c1}
    Convs = {k1}
    NoConv = NoConv
    NoClient = NoClient
    None = None
    SendCap = 1
    MaxInstances = 2
    MaxConnections = 1
    ChanCap = 1
INVARIANTS
    PushesAreSafe
    GoneIsForgotten
    JoinedIsReached
PROPERTIES
    EndsAreNoticed
CHECK_DEADLOCK FALSE
