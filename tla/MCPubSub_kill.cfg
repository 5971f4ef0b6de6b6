SPECIFICATION Spec
CONSTANTS
    c1 = c1
    c2 = c2
    ch = ch
    pat = pat
    Clients = {c1, c2}
    Names = {ch, pat}
    Matches <- OnePattern
    KeyChannels <- NoteChannels
    Requests <- KillRequests
    MaxInbox = 3
PROPERTIES
    KilledHearsNothing
CHECK_DEADLOCK FALSE
