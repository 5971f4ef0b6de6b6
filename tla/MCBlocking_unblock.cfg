SPECIFICATION Spec
CONSTANTS
    c1 = c1
    c2 = c2
    c3 = c3
    k1 = k1
    k2 = k2
    e1 = e1
    e2 = e2
    Free = Free
    NoElem = NoElem
    Str = Str
    Clients = {c1, c3}
    Keys = {k1}
    Dbs = {0}
    Elems = {e1}
    Home <- OneDb
    Requests <- UnblockRequests
PROPERTIES
    ErrorIsRaised
CHECK_DEADLOCK FALSE
