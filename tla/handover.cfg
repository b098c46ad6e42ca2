\* Two clients, one of which creates a lobby the other may join; registrations
\* fail, and descriptors are lost on the way to the lobby.
SPECIFICATION HandoverSpec
CONSTANTS
    c1 = c1
    c2 = c2
    none = none
    Ctl = ctl
    Par = par
    Creator = c1
    MaxFaults = 1
    Clients = {c1, c2}
    Controls = {ctl, par}
    NoConn = none
    MaxSlots = 3
    Messages <- HandoverMessages
    MaxSends <- TwoAndOne
    SlowPeers = {ctl}
    CallsMayFail = TRUE
    Codes = {7}
INVARIANTS
    OneProcessPerClient
    ToldItsCode
PROPERTIES
    HandedOverGreeted
    MessagesFollow
\* Everything rests when no client does anything.
CHECK_DEADLOCK FALSE
