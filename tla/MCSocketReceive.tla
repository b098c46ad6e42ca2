--------------------------- MODULE MCSocketReceive ---------------------------
(* Small instances of SocketReceive for TLC.                               *)
EXTENDS SocketReceive

Text(n) == [size |-> n, socket |-> FALSE]
Handover(n) == [size |-> n, socket |-> TRUE]

\* A client's commands: short, empty, and longer than the buffer.
CommandStream == <<Text(1), Text(0), Text(5), Text(0)>>

\* A lobby's control stream: its id, then one socket after another.
ControlStream == <<Text(2), Handover(1), Handover(1), Text(0), Handover(1)>>

BothStreams == [r \in BOOLEAN |-> IF r THEN ControlStream ELSE CommandStream]

=============================================================================
