SPECIFICATION Spec
CONSTANTS
    c1 = c1
    c2 = c2
    ch = ch
    pat = pat
    Clients = {c1, c2}
    Names = {ch, pat}
    Matches <- OnePattern
    KeyChannels <- NoteChannels
    Requests <- AllRequests
    MaxInbox = 4
INVARIANTS
    TypeOK
    ViewIsTrue
    BooksAreTrue
    MessagesInScope
CHECK_DEADLOCK FALSE
