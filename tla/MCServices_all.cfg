SPECIFICATION MCSpec
CONSTANTS
    Shown = {"connecting", "replies", "scripts", "reader", "scan", "access", "hashes", "bitmaps", "time series", "reads"}
    Threads = {1, 2}
    MaxResponses = 3
    MaxWakeUps = 2
    Elements = {1, 2, 3, 4, 5}
    Counts = {1, 2}
    Patterns <- AllPatterns
    MaxChanges = 2
    Clients = {1}
    Table <- CommandTable
    Things = {"a", "b"}
    Passwords = {"p"}
    RequirePass = ""
    AclScopes <- AllAclScopes
    MaxRefusals = 2
    HKeys = {"h"}
    Fields = {"f", "g"}
    Never = 100
    LastInstant = 3
    BKeys = {"k", "l"}
    ByteSize = 2
    MaxBytes = 2
    Sizes = {1, 2, 3}
    Word = 16
    Sources = {"s"}
    Destinations = {"d", "e"}
    Objects = {1, 2, 3}
    Times = {1, 2, 3, 4}
    Values = {1, 2}
    MaxValue = 2
    MaxRules = 2
    Aggregators = {"sum", "first"}
    Durations = {2}
    Scopes <- AllScopes
    Openers = {"t1", "t2"}
    Addresses = {"host:port"}
    DbNums = {0, 1}
    LastSecond = 3
    MaxRequests = 1
    MaxLog = 8
    Callers = {"c1", "c2"}
    Scripts <- SomeScripts
    MaxEvals = 2
INVARIANTS
    WakeUpIsComing
    ConnectionsAgree
    ScriptsRunAlone
    ScansAreComplete
    AccessIsKept
    BitmapsReadBack
    RepliesAgree
    SeriesAgree
PROPERTIES
    ResponsesEndTheWait
    HashesExpire
CHECK_DEADLOCK FALSE
