SPECIFICATION FairSpec
CONSTANTS
    s1 = s1
    s2 = s2
    t1 = t1
    e1 = e1
    e2 = e2
    None = None
    Sockets = {s1, s2}
    Threads = {t1}
    Elems = {e1, e2}
    Requests <- SocketsSend
    Orders <- ThreadsDo
    MaxSent <- SocketsSendAtMost
    MaxReady = 2
INVARIANTS
    RepliesInOrder
    WakeUpsArrive
    TakenIsDelivered
    WaitsAreWhole
PROPERTIES
    ImplementsQueue
CHECK_DEADLOCK FALSE
