-------------------------------- MODULE Lobby --------------------------------
(***************************************************************************)
(* A lobby process: the handlers of src/src/application/lobby.cpp over the *)
(* NetworkEngine.  The root connection of a lobby is its control socket to *)
(* the server (TO_PARENT), which is slot 1 here; there is no listener, so  *)
(* the network thread only reports events and every connection is          *)
(* registered by the worker.  Clients come in as descriptors sent by the   *)
(* server: a client in the "backlog" is on its way in such a message.      *)
(***************************************************************************)
EXTENDS NetworkEngine, Dispatcher

CONSTANTS
    Parent,    \* the lobby's end of its control socket
    Peer,      \* the server's end
    LobbyCode  \* the code the server gives the lobby

ASSUME LobbyAssumption ==
    /\ Parent \in Controls /\ Peer \in Controls /\ Parent # Peer
    /\ MaxSlots >= 1
    /\ LobbyCode \in Nat \ {0}

\* A client's message has an action and no descriptor: none can be sent over
\* TCP.
ASSUME MessageAssumption ==
    \A m \in Messages :
        /\ "action" \in DOMAIN m
        /\ m.action = "AcceptSocket" => "socket" \in DOMAIN m /\ m.socket = NoConn

VARIABLES
    lobby_id,  \* lobby_id_: the code the server has given this lobby
    greeted    \* history: join messages, to whom and with which code

lobbyVars == <<lobby_id, greeted>>
vars == <<engineVars, wrk, history, lobbyVars>>

Root == 1

\* init_app with the control socket as root connection.
LobbyInit ==
    /\ slots = [s \in Slots |-> IF s = Root THEN Entry("TO_PARENT", Parent)
                                ELSE EmptyEntry]
    /\ buffer = [s \in Slots |-> <<>>]
    /\ free = <<>>
    /\ lost = {}
    /\ next_index = 2
    /\ counter = 2
    /\ epoll = [c \in Conns |-> IF c = Parent THEN Armed(Root) ELSE Absent]
    /\ listener = FALSE
    /\ tasks = <<>>
    /\ net = IdleNet
    /\ wrk = IdleWorker
    /\ place = [c \in Conns |-> IF c = Parent THEN "held" ELSE "new"]
    /\ told = {}
    /\ deaf = {}
    /\ mishaps = {}
    /\ lobby_id = 0
    /\ greeted = {}

SetLobbyId(code) == [action |-> "SetLobbyId", code |-> code, from |-> Parent]

Init ==
    /\ LobbyInit
    /\ inbox = [c \in Conns |-> IF c = Parent THEN <<SetLobbyId(LobbyCode)>>
                                ELSE <<>>]
    /\ eof = [c \in Conns |-> FALSE]
    /\ sent = [c \in Clients |-> 0]

-----------------------------------------------------------------------------
(* The server                                                              *)

\* The server sends a client's descriptor, which is lost on the way when the
\* lobby has no room for it.
server_transfer(c) ==
    /\ place[c] = "new"
    /\ ~eof[Parent]
    /\ \E arrives \in IF CallsMayFail THEN BOOLEAN ELSE {TRUE} :
           /\ place' = [place EXCEPT ![c] = IF arrives THEN "backlog" ELSE "gone"]
           /\ inbox' = [inbox EXCEPT ![Parent] = Append(@,
                  [action |-> "AcceptSocket", from |-> Parent,
                   socket |-> IF arrives THEN c ELSE NoConn])]
    /\ UNCHANGED <<pool, epoll, loop, wrk, eof, sent, history, lobbyVars>>

\* What the server makes of a message of type ERROR, and its answer.
Complaint == [action |-> "GeneralAction", from |-> Peer]
Answer == [action |-> "PrintMessage", from |-> Parent]

\* The server reads a complaint and answers "Unknown command", as it answers
\* a client (server.cpp:182-189).
server_answers ==
    /\ inbox[Peer] # <<>>
    /\ ~eof[Parent]
    /\ inbox' = [inbox EXCEPT ![Peer] = Tail(@), ![Parent] = Append(@, Answer)]
    /\ UNCHANGED <<pool, epoll, loop, wrk, eof, sent, place, history, lobbyVars>>

-----------------------------------------------------------------------------
(* The handlers                                                            *)

Handling(action) == wrk.pc = "handle" /\ wrk.msg.action = action

\* filter_variant or parse fails: KEEP with an error.
refuse ==
    /\ wrk.pc = "handle"
    /\ wrk.msg.action \notin LobbyAction
    /\ ReturnError(FALSE)
    /\ UNCHANGED <<engineVars, mishaps, lobbyVars>>

set_lobby_id ==
    /\ Handling("SetLobbyId")
    /\ lobby_id' = wrk.msg.code
    /\ wrk' = Continue
    /\ UNCHANGED <<engineVars, history, greeted>>

\* AcceptSocket without a socket: the server is told, if parent_view_ still
\* leads to it and it can be reached.
accept_nothing ==
    /\ Handling("AcceptSocket")
    /\ wrk.msg.socket = NoConn
    /\ \E delivered \in send_message(slots[Root].sock) :
           inbox' = IF delivered /\ slots[Root].sock = Parent
                    THEN [inbox EXCEPT ![Peer] = Append(@, Complaint)]
                    ELSE inbox
    /\ wrk' = Continue
    /\ UNCHANGED <<pool, epoll, loop, eof, sent, place, history, lobbyVars>>

accept_socket ==
    /\ Handling("AcceptSocket")
    /\ wrk.msg.socket # NoConn
    /\ place' = [place EXCEPT ![wrk.msg.socket] = "held"]
    /\ wrk' = [wrk EXCEPT !.pc = "attach", !.ctrl = wrk.msg.socket]
    /\ UNCHANGED <<pool, epoll, loop, kernel, history, lobbyVars>>

attach_socket ==
    /\ \/ attach_reused("TO_CLIENT") \/ attach_new("TO_CLIENT") \/ attach_count
       \/ attach_subscribe("greet") \/ attach_fails(FALSE)
    /\ UNCHANGED lobbyVars

send_join_lobby_message ==
    /\ wrk.pc = "greet"
    /\ TRUE \in send_message(slots[wrk.view].sock)
    /\ wrk' = Continue
    /\ greeted' = greeted \cup {[to |-> slots[wrk.view].sock, code |-> lobby_id]}
    /\ UNCHANGED <<engineVars, history, lobby_id>>

\* The greeting fails: the client is released, and the handler's error leaves
\* the control socket unarmed.
send_join_lobby_message_fails ==
    /\ wrk.pc = "greet"
    /\ FALSE \in send_message(slots[wrk.view].sock)
    /\ release_connection(wrk.view, NetworkTook)
    /\ ReturnError(FALSE)
    /\ UNCHANGED <<sizes, loop, kernel, mishaps, lobbyVars>>

execute_chat ==
    /\ Handling("ChatMessage")
    /\ start_broadcast
    /\ UNCHANGED <<engineVars, history, lobbyVars>>

Worker ==
    \/ (ReceiveLoop \/ Broadcast) /\ UNCHANGED lobbyVars
    \/ refuse \/ set_lobby_id \/ accept_nothing \/ accept_socket
    \/ attach_socket \/ send_join_lobby_message \/ send_join_lobby_message_fails
    \/ execute_chat

Events == (\E c \in Conns : process_event(c)) /\ UNCHANGED lobbyVars

Next ==
    \/ (\E c \in Clients : server_transfer(c)) \/ server_answers
    \/ (\E c \in Clients, m \in Messages : client_send(c, m)) /\ UNCHANGED lobbyVars
    \/ (\E c \in Conns : peer_close(c)) /\ UNCHANGED lobbyVars
    \/ Events \/ Worker

\* Both threads are scheduled; the server and the clients are free.
Spec == Init /\ [][Next]_vars /\ WF_vars(Events) /\ WF_vars(Worker)

-----------------------------------------------------------------------------
(* Properties                                                              *)

\* Every slot issued is in use or, once and empty, in available_slots_.  A
\* client the lobby holds is in one slot or about to be put there, and its
\* events lead there, although tasks for a released slot may still be queued
\* when the slot is used again.
LobbyAccounted ==
    /\ IsInjective(free)
    /\ \A s \in 1 .. next_index - 1 :
           (s \in Range(free)) <=> (slots[s] = EmptyEntry)
    /\ \A c \in Clients : place[c] = "held" =>
           (\E s \in Slots : slots[s].sock = c) \/ c = wrk.ctrl
    /\ \A s, t \in Slots :
           slots[s].sock = slots[t].sock /\ slots[s].sock # NoConn => s = t
    /\ \A c \in Conns :
           epoll[c].slot # NoSlot => slots[epoll[c].slot].sock = c

\* The pool asks for another chunk of memory only when all its slots are in
\* use, so that a lobby never runs out of chunks before it has as many
\* clients at once (object_pool.h:31-46).
PoolGrowsOnlyWhenFull ==
    [][next_index' # next_index =>
           \A s \in 1 .. next_index - 1 : slots[s] # EmptyEntry]_vars

\* The chat of one client is never taken for another one's, and nobody but
\* the server's socket hands in clients.
ChatOfItsSender ==
    wrk.pc \in {"handle", "attach", "count", "subscribe", "greet"} =>
        /\ Pending = wrk.msg.from
        /\ wrk.pc # "handle" => Pending = Parent

Greeted(c) == \E g \in greeted : g.to = c

\* A client that the server has sent here is greeted or let go, also when the
\* server is gone before the lobby reads the message (lobby.cpp:55-86); unless
\* the control socket was left unarmed, by an error of an earlier client or by
\* the server's answer to a complaint, which the lobby refuses.
ClientsGreeted ==
    \A c \in Clients :
        (place[c] = "backlog") ~>
            (Greeted(c) \/ place[c] = "gone" \/ Parent \in deaf)

\* A client that leaves the lobby gives its slot back, unless it was left
\* unarmed by an error.
LeaversReclaimed ==
    \A c \in Clients :
        (place[c] = "held" /\ eof[c]) ~>
            (place[c] # "held" \/ c \in deaf)

=============================================================================
