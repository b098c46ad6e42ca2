\* One client sends a wrong code, is told to try again, and tries.
SPECIFICATION Spec
CONSTANTS
    c1 = c1
    c2 = c2
    c3 = c3
    l1 = l1
    l2 = l2
    none = none
    Clients = {c1}
    Controls = {l1}
    NoConn = none
    MaxSlots = 2
    Messages <- JoinMessages
    MaxSends <- TwoEach
    SlowPeers = {}
    CallsMayFail = FALSE
    Codes = {7}
PROPERTIES
    TryAgain
\* The server rests when no client does anything.
CHECK_DEADLOCK FALSE
