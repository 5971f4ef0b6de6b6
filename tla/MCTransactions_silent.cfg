SPECIFICATION Spec
CONSTANTS
    c1 = c1
    c2 = c2
    k1 = k1
    k2 = k2
    v1 = v1
    v2 = v2
    Absent = Absent
    Free = Free
    Clients = {c1, c2}
    Keys = {k1}
    Dbs = {0, 1}
    Vals = {v1, v2}
    Ttls = {}
    DefaultDb = 0
    Requests <- SilentRequests
    MaxQueue = 1
    MaxTime = 0
PROPERTIES
    CommitIsClean
CHECK_DEADLOCK FALSE
