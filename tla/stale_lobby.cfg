\* A client joins a lobby that another one has created and that has died.
SPECIFICATION Spec
CONSTANTS
    c1 = c1
    c2 = c2
    c3 = c3
    l1 = l1
    l2 = l2
    none = none
    Clients = {c1, c2}
    Controls = {l1}
    NoConn = none
    MaxSlots = 4
    Messages <- LobbyMessages
    MaxSends <- OneEach
    SlowPeers = {}
    CallsMayFail = FALSE
    Codes = {7}
INVARIANTS
    FoundLobbyExists
\* The server rests when no client does anything.
CHECK_DEADLOCK FALSE
