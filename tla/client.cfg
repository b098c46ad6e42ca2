\* Three lines and two messages of the server through rings of two elements,
\* with one reconnection.
SPECIFICATION Spec
CONSTANTS
    QueueSize = 2
    MaxSockets = 2
    Lines <- Commands
    MaxLines = 3
    ServerMessages <- ForeignOrRelayed
    MaxMessages = 2
INVARIANTS
    SlotServedOnce
    EveryEntryTagged
    LinesInOrder
PROPERTIES
    LinesHandled
    ServerHeard
\* The client rests when nobody types and the server is silent.
CHECK_DEADLOCK FALSE
