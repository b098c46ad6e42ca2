\* Commands over TCP, cut into pieces of any length, and the control messages
\* of a lobby; headers of 2 bytes, a buffer of 6.
SPECIFICATION Spec
CONSTANTS
    Streams <- BothStreams
    HeaderSize = 2
    BufferSize = 6
    MaxShort = 1
INVARIANTS
    FramesIntact
    SocketWithItsMessage
    ClosedOnlyByPeer
PROPERTIES
    AllDelivered
\* The coroutine rests when the peer has nothing more to say.
CHECK_DEADLOCK FALSE
