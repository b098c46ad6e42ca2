\* Two clients with two commands and one; sends, epoll registrations and accept
\* fail, and two lobbies want one code.
SPECIFICATION Spec
CONSTANTS
    c1 = c1
    c2 = c2
    c3 = c3
    l1 = l1
    l2 = l2
    none = none
    Clients = {c1, c2}
    Controls = {l1, l2}
    NoConn = none
    MaxSlots = 5
    Messages <- AllMessages
    MaxSends <- TwoAndOne
    SlowPeers = {c1, c2, l1}
    CallsMayFail = TRUE
    Codes = {7}
CONSTRAINT NoMishap
INVARIANTS
    SlotsAccounted
    EventsFindTheirSlot
    CommandOfItsSender
    BroadcastReachesAll
\* The server rests when no client does anything.
CHECK_DEADLOCK FALSE
