SPECIFICATION Spec
CONSTANTS
    c1 = c1
    c2 = c2
    k1 = k1
    k2 = k2
    v1 = v1
    v2 = v2
    Absent = Absent
    Free = Free
    Clients = {c1, c2}
    Keys = {k1, k2}
    Dbs = {0}
    Vals = {v1}
    Ttls = {1}
    DefaultDb = 0
    Requests <- DataRequests
    MaxQueue = 1
    MaxTime = 2
INVARIANTS
    ChangeIsNotified
PROPERTIES
    CommitIsClean
CHECK_DEADLOCK FALSE
