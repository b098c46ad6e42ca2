------------------------------ MODULE MCServer ------------------------------
(* Small instances of Server for TLC.                                      *)
EXTENDS Server

CONSTANTS c1, c2, c3, l1, l2, none

\* The commands of a client, as the Dispatcher sees them; the only code ever issued is 7.
Create == [action |-> "CreateLobby", code |-> 0]
Join == [action |-> "JoinLobby", code |-> 7]
JoinNowhere == [action |-> "JoinLobby", code |-> 0]
Chat == [action |-> "ChatMessage", code |-> 0]
General == [action |-> "GeneralAction", code |-> 0]
Refused == [action |-> "Refused", code |-> 0]

JoinMessages == {Join, JoinNowhere}
LobbyMessages == {Create, Join}
ProgressMessages == {Create, General}
AllMessages == {Create, Join, Chat, General, Refused}

\* The properties speak of what happens before the first mishap; the handler
\* that has caused it may go on to its end.
NoMishap == mishaps = {} \/ wrk.pc = "release_again"

\* How many messages each client sends.
OneEach == [c \in Clients |-> 1]
TwoEach == [c \in Clients |-> 2]
TwoAndOne == [c \in Clients |-> IF c = c1 THEN 2 ELSE 1]

=============================================================================
