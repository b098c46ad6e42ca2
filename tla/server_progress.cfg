\* Progress of both threads for two clients and one lobby: one client sends a
\* second message, which may arrive when its socket is disarmed.
SPECIFICATION Spec
CONSTANTS
    c1 = c1
    c2 = c2
    c3 = c3
    l1 = l1
    l2 = l2
    none = none
    Clients = {c1, c2}
    Controls = {l1}
    NoConn = none
    MaxSlots = 4
    Messages <- ProgressMessages
    MaxSends <- TwoAndOne
    SlowPeers = {}
    CallsMayFail = FALSE
    Codes = {7}
PROPERTIES
    MessagesServed
    ClientsAdmitted
    DisconnectsReclaimed
\* The server rests when no client does anything.
CHECK_DEADLOCK FALSE
