\* A client that has lost its server sends a command, reconnects and is answered.
SPECIFICATION Spec
CONSTANTS
    QueueSize = 3
    MaxSockets = 2
    Lines <- Commands
    MaxLines = 1
    ServerMessages <- Answers
    MaxMessages = 1
PROPERTIES
    ReconnectedHears
\* The client rests when nobody types and the server is silent.
CHECK_DEADLOCK FALSE
