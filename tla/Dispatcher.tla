----------------------------- MODULE Dispatcher -----------------------------
(***************************************************************************)
(* The table of src/src/core/dispatcher.cpp and what each program allows.  *)
(* A message is its type and the alias its text starts with, "" if none;   *)
(* no alias is the beginning of another one.                               *)
(***************************************************************************)
EXTENDS Naturals, Sequences

Row(alias, type, scope, action) ==
    [alias |-> alias, type |-> type, scope |-> scope, action |-> action]

actions ==
    << Row("create", "nullopt", "BROADCAST", "CreateLobby"),
       Row("close", "nullopt", "NETWORK", "Quit"),
       Row("quit", "nullopt", "LOCAL", "Quit"),
       Row("socket", "SOCKET", "NETWORK", "AcceptSocket"),
       Row("lobby_id", "LOBBY_ID", "NETWORK", "SetLobbyId"),
       Row("join", "CONN_CODE", "BROADCAST", "JoinLobby"),
       Row("msg", "nullopt", "BROADCAST", "ChatMessage"),
       Row("printable", "PRINTABLE", "LOCAL", "PrintMessage") >>

match_action(entry, message) ==
    entry.type = message.type \/ entry.alias = message.alias

Matches(message) == {i \in DOMAIN actions : match_action(actions[i], message)}

\* The first entry that matches, or GeneralAction.
dispatch(message) ==
    IF Matches(message) = {}
    THEN Row("", "nullopt", "NONE", "GeneralAction")
    ELSE actions[CHOOSE i \in Matches(message) :
                     \A j \in Matches(message) : i <= j]

\* What filter_variant lets through in each program.
ClientAction == {"PrintMessage", "Quit"}
ServerAction == {"CreateLobby", "JoinLobby", "ChatMessage", "GeneralAction"}
LobbyAction == {"AcceptSocket", "SetLobbyId", "ChatMessage"}

=============================================================================
