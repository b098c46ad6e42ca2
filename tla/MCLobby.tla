------------------------------- MODULE MCLobby -------------------------------
(* A small instance of Lobby for TLC.                                      *)
EXTENDS Lobby

CONSTANTS c1, c2, c3, p, s, none

Chat == [action |-> "ChatMessage"]

LobbyMessages == {Chat}

\* How many messages each client sends.
TwoOfOne == [c \in Clients |-> IF c = c1 THEN 2 ELSE 0]

=============================================================================
