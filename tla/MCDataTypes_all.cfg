SPECIFICATION MCSpec
CONSTANTS
    Shown = {"streams", "sorted sets", "sets", "strings", "lists", "reads"}
    a1 = a1
    a2 = a2
    b1 = b1
    b2 = b2
    i1 = i1
    Groups = {a1, a2}
    Consumers = {b1, b2}
    Tokens = {i1}
    Profiles <- AllProfiles
    FirstNow = 5
    MaxNow = 6
    MinIdles = {0, 1}
    ZKeys = {a1, a2}
    Members = {1, 2, 3}
    Scores = {0, 1}
    SKeys = {a1, a2}
    Elements = {b1, b2}
    Never = 100
    LastInstant = 3
    TKeys = {a1, a2}
    Chars = {0, 1}
    MaxStringSize = 3
    MinInt <- LowestInt
    MaxInt = 1
    Aspects = {"text", "time"}
    LastTime = 3
    LKeys = {a1, a2}
    Texts = {1, 2}
    MaxLen = 3
INVARIANTS
    StreamIsWhole
    GroupsAreSound
    NoStarvedReader
    IndexesAgree
    CommandsAgree
PROPERTIES
    SetsExpire
    ChangesAreNotified
    StringsKeepPromises
SYMMETRY Symmetry
CHECK_DEADLOCK FALSE
