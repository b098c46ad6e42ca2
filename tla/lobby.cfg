\* Three clients come and leave, one of which chats twice; sends to those who
\* have left, registrations and the descriptors' way here fail.
SPECIFICATION Spec
CONSTANTS
    c1 = c1
    c2 = c2
    c3 = c3
    p = p
    s = s
    none = none
    Clients = {c1, c2, c3}
    Controls = {p, s}
    Parent = p
    Peer = s
    LobbyCode = 7
    NoConn = none
    MaxSlots = 4
    Messages <- LobbyMessages
    MaxSends <- TwoOfOne
    SlowPeers = {}
    CallsMayFail = TRUE
INVARIANTS
    LobbyAccounted
    ChatOfItsSender
PROPERTIES
    PoolGrowsOnlyWhenFull
    ClientsGreeted
    LeaversReclaimed
\* The lobby rests when nobody does anything.
CHECK_DEADLOCK FALSE
