----------------------------- MODULE MCHandover -----------------------------
(* A small instance of Handover for TLC.                                   *)
EXTENDS Handover

CONSTANTS c1, c2, none

Create == [action |-> "CreateLobby", code |-> 0]
Join == [action |-> "JoinLobby", code |-> 7]
Chat == [action |-> "ChatMessage", code |-> 0]

HandoverMessages == {Create, Join, Chat}

\* How many messages each client sends.
TwoAndOne == [c \in Clients |-> IF c = c1 THEN 2 ELSE 1]

=============================================================================
