SPECIFICATION Spec
CONSTANTS
    c1 = c1
    c2 = c2
    c3 = c3
    k1 = k1
    k2 = k2
    e1 = e1
    e2 = e2
    Free = Free
    NoElem = NoElem
    Str = Str
    Clients = {c1, c2, c3}
    Keys = {k1, k2}
    Dbs = {0}
    Elems = {e1, e2}
    Home <- OneDb
    Requests <- ListRequests
INVARIANTS
    TypeOK
    NoStarvedWaiter
    OneOwner
PROPERTIES
    NothingLost
    NilIsEarned
CHECK_DEADLOCK FALSE
