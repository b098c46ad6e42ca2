------------------------------- MODULE Server -------------------------------
(***************************************************************************)
(* The server process: the message handler of                              *)
(* src/src/application/server.cpp and the LobbyManager of                  *)
(* src/src/services/lobby_manager.cpp, run by the worker over the          *)
(* NetworkEngine while the network thread accepts connections.             *)
(*                                                                         *)
(* A message is the action the Dispatcher finds in it: CreateLobby,        *)
(* JoinLobby with a code, ChatMessage, GeneralAction, or Refused for what  *)
(* the server does not allow or cannot parse.  A lobby process is an       *)
(* external peer at the other end of its control socket.                   *)
(*                                                                         *)
(* mishaps records which of the hazards of this design have happened:      *)
(*   "overlap"  the worker has used a slot in which the network thread was *)
(*              registering a new connection;                              *)
(*   "stale"    a client was sent to the control slot of a lobby that is   *)
(*              gone: lobbies_ never forgets;                              *)
(*   "unsaved"  a transfer failed and the client could not be subscribed   *)
(*              again: its slot is released twice;                         *)
(*   "unlistening"  accept4 has failed and the listener is not rearmed;    *)
(*   "miscounted"  both threads have added a slot to the pool and one of   *)
(*              the two increments of its counter is lost.                 *)
(* The properties say what the server guarantees until the first of them.  *)
(***************************************************************************)
EXTENDS NetworkEngine, Dispatcher

CONSTANTS Codes  \* values of generate_conn_code

ASSUME CodesAssumption == Codes \subseteq Nat

VARIABLES lobbies  \* lobbies_: control slot and control socket of each code

vars == <<engineVars, wrk, told, deaf, mishaps, lobbies>>

NoLobby == [slot |-> NoSlot, ctrl |-> NoConn]

Init == EngineInit /\ lobbies = [k \in Codes |-> NoLobby]

\* A lobby that was sent a client and found no descriptor in the message
\* (lobby.cpp:59-63) complains on its control socket.
lobby_complains(l) ==
    /\ CallsMayFail
    /\ place[l] = "held"
    /\ ~eof[l]
    /\ \E c \in Clients :
           /\ place[c] = "moved"
           /\ place' = [place EXCEPT ![c] = "gone"]
    /\ inbox' = [inbox EXCEPT ![l] =
                     Append(@, [action |-> "GeneralAction", from |-> l])]
    /\ UNCHANGED <<pool, epoll, loop, wrk, eof, sent, history>>

Handling(action) == wrk.pc = "handle" /\ wrk.msg.action = action

-----------------------------------------------------------------------------
(* The handlers                                                            *)

\* filter_variant or parse fails: KEEP with an error and no user message.
refuse ==
    /\ wrk.pc = "handle"
    /\ wrk.msg.action \notin ServerAction
    /\ ReturnError(FALSE)
    /\ UNCHANGED <<engineVars, mishaps, lobbies>>

\* The answer "Unknown command", also to a lobby that complains; what a
\* handler puts into a control socket (inbox') is up to the modules that
\* use it.
execute_general ==
    /\ Handling("GeneralAction")
    /\ TRUE \in send_message(Pending)
    /\ wrk' = Continue
    /\ UNCHANGED <<pool, epoll, loop, eof, sent, place, history, lobbies>>

\* It cannot be sent: RELEASE and error.
execute_general_fails ==
    /\ Handling("GeneralAction")
    /\ FALSE \in send_message(Pending)
    /\ release_connection(wrk.slot, NetworkTook)
    /\ wrk' = Return
    /\ UNCHANGED <<sizes, loop, kernel, history, lobbies>>

execute_chat ==
    /\ Handling("ChatMessage")
    /\ start_broadcast
    /\ UNCHANGED <<engineVars, history, lobbies>>

\* spawn_lobby: a socket pair and a new process ...
spawn_lobby ==
    /\ Handling("CreateLobby")
    /\ \E l \in Controls :
           /\ place[l] = "new"
           /\ place' = [place EXCEPT ![l] = "held"]
           /\ wrk' = [wrk EXCEPT !.pc = "attach", !.ctrl = l]
    /\ UNCHANGED <<pool, epoll, loop, kernel, history, lobbies>>

\* ... or socketpair or fork fails, and the client is told.
spawn_lobby_fails ==
    /\ Handling("CreateLobby")
    /\ ReturnError(TRUE)
    /\ UNCHANGED <<engineVars, mishaps, lobbies>>

\* attach_socket for the control socket of the new lobby.
attach_lobby ==
    /\ \/ attach_reused("TO_LOBBY") \/ attach_new("TO_LOBBY") \/ attach_count
       \/ attach_subscribe("enlist") \/ attach_fails(TRUE)
    /\ UNCHANGED lobbies

\* LobbyManager::attach under the code of this second ...
attach ==
    /\ wrk.pc = "enlist"
    /\ \E k \in Codes :
           /\ lobbies[k] = NoLobby
           /\ lobbies' = [lobbies EXCEPT ![k] =
                              [slot |-> wrk.view, ctrl |-> wrk.ctrl]]
           /\ wrk' = [wrk EXCEPT !.pc = "send_id", !.code = k]
    /\ UNCHANGED <<engineVars, history>>

\* ... which is taken if another lobby was created in the same second: the
\* new process is killed.
attach_taken ==
    /\ wrk.pc = "enlist"
    /\ \E k \in Codes : lobbies[k] # NoLobby
    /\ eof' = [eof EXCEPT ![wrk.ctrl] = TRUE]
    /\ ReturnError(TRUE)
    /\ UNCHANGED <<pool, epoll, loop, inbox, place, sent, mishaps, lobbies>>

\* init_lobby sends the lobby its id ...
init_lobby ==
    /\ wrk.pc = "send_id"
    /\ TRUE \in send_message(slots[wrk.view].sock)
    /\ wrk' = [wrk EXCEPT !.pc = "transfer"]
    /\ UNCHANGED <<pool, epoll, loop, eof, sent, place, history, lobbies>>

\* ... or the client is told that it failed.
init_lobby_fails ==
    /\ wrk.pc = "send_id"
    /\ FALSE \in send_message(slots[wrk.view].sock)
    /\ ReturnError(TRUE)
    /\ UNCHANGED <<engineVars, mishaps, lobbies>>

\* JoinLobby: the code is looked up in lobbies_; NoLobby also stands for a
\* code that cannot be parsed.
join_found ==
    /\ Handling("JoinLobby")
    /\ wrk.msg.code \in Codes
    /\ lobbies[wrk.msg.code] # NoLobby
    /\ wrk' = [wrk EXCEPT !.pc = "transfer", !.code = wrk.msg.code,
                          !.view = lobbies[wrk.msg.code].slot]
    /\ UNCHANGED <<engineVars, history, lobbies>>

join_unknown ==
    /\ Handling("JoinLobby")
    /\ wrk.msg.code \in Codes => lobbies[wrk.msg.code] = NoLobby
    /\ ReturnError(TRUE)
    /\ UNCHANGED <<engineVars, mishaps, lobbies>>

-----------------------------------------------------------------------------
(* transfer and perform_transfer                                           *)

\* The control slot of the view still holds the lobby's control socket.
ViewFresh == slots[wrk.view].sock = lobbies[wrk.code].ctrl

Stale == IF ViewFresh THEN {} ELSE {"stale"}

\* Mutant: the socket is still in epoll when its descriptor is sent.
transfer_subscribed ==
    /\ wrk.pc = "transfer"
    /\ wrk' = [wrk EXCEPT !.pc = "send_socket"]
    /\ UNCHANGED <<pool, epoll, loop, kernel, place, history, lobbies>>

\* The client's socket is removed from epoll ...
transfer ==
    /\ wrk.pc = "transfer"
    /\ epoll' = EpollWithout(<<wrk.slot>>)
    /\ wrk' = [wrk EXCEPT !.pc = "send_socket"]
    /\ UNCHANGED <<pool, loop, kernel, place, history, lobbies>>

\* ... before its descriptor is sent: from here on the lobby can run with
\* the connection, while the server still has it ...
send_socket ==
    /\ wrk.pc = "send_socket"
    /\ TRUE \in send_message(slots[wrk.view].sock)
    /\ wrk' = [wrk EXCEPT !.pc = "let_go", !.ctrl = slots[wrk.view].sock]
    /\ mishaps' = mishaps \cup Stale
    /\ UNCHANGED <<pool, epoll, loop, eof, sent, place, told, deaf, lobbies>>

\* ... until the scope guard resets the entry and releases its slot.  That
\* is not the last descriptor, unless it was sent to a TCP connection in the
\* place of the control socket, which drops it.
let_go ==
    /\ wrk.pc = "let_go"
    /\ slots' = SlotsWithout(<<wrk.slot>>)
    /\ buffer' = BufferWithout(<<wrk.slot>>)
    /\ IF wrk.ctrl \in Controls
       THEN /\ place' = [PlaceWithout(<<wrk.slot>>) EXCEPT
                            ![wrk.msg.from] = "moved"]
            /\ UNCHANGED epoll
       ELSE /\ place' = PlaceWithout(<<wrk.slot>>)
            /\ epoll' = EpollWithout(<<wrk.slot>>)
    /\ give_back(wrk.slot, NetworkTook)
    /\ wrk' = Continue
    /\ UNCHANGED <<sizes, loop, kernel, history, lobbies>>

\* The lobby cannot be reached: its control connection is released and the
\* process killed; the client is subscribed again and kept ...
send_socket_fails ==
    /\ wrk.pc = "send_socket"
    /\ FALSE \in send_message(slots[wrk.view].sock)
    /\ release_connection(wrk.view, NetworkTook)
    /\ wrk' = [Continue EXCEPT !.pc = "resubscribe", !.code = wrk.code]
    /\ mishaps' = mishaps \cup Stale
    /\ UNCHANGED <<sizes, loop, kernel, told, deaf, lobbies>>

resubscribe ==
    /\ wrk.pc = "resubscribe"
    /\ TRUE \in add_socket(Pending)
    /\ epoll' = [epoll EXCEPT ![Pending] = Armed(wrk.slot)]
    /\ eof' = [eof EXCEPT ![lobbies[wrk.code].ctrl] = TRUE]
    /\ wrk' = Continue
    /\ UNCHANGED <<pool, loop, inbox, place, sent, history, lobbies>>

\* ... or, if that fails too, released here ...
resubscribe_fails ==
    /\ wrk.pc = "resubscribe"
    /\ FALSE \in add_socket(Pending)
    /\ release_connection(wrk.slot, NetworkTook)
    /\ eof' = [eof EXCEPT ![lobbies[wrk.code].ctrl] = TRUE]
    /\ wrk' = [Continue EXCEPT !.pc = "release_again"]
    /\ mishaps' = mishaps \cup {"unsaved"}
    /\ UNCHANGED <<sizes, loop, inbox, sent, told, deaf, lobbies>>

\* ... and, the handler answering RELEASE, once more by the receive loop.
release_again ==
    /\ wrk.pc = "release_again"
    /\ release_connection(wrk.slot, NetworkTook)
    /\ wrk' = Continue
    /\ UNCHANGED <<sizes, loop, kernel, history, lobbies>>

Handlers ==
    \/ refuse \/ execute_general_fails \/ execute_chat
    \/ spawn_lobby \/ spawn_lobby_fails \/ attach_lobby
    \/ attach \/ attach_taken \/ init_lobby_fails
    \/ join_found \/ join_unknown
    \/ transfer \/ let_go \/ send_socket_fails
    \/ resubscribe \/ resubscribe_fails \/ release_again

Worker ==
    \/ (ReceiveLoop \/ Broadcast) /\ UNCHANGED lobbies
    \/ Handlers
    \/ (execute_general \/ init_lobby \/ send_socket) /\ UNCHANGED inbox

Next ==
    \/ (Environment \/ NetworkThread) /\ UNCHANGED lobbies
    \/ (\E l \in Controls : lobby_complains(l)) /\ UNCHANGED lobbies
    \/ Worker

\* Both threads of the server are scheduled; clients and lobbies are free.
Fairness ==
    /\ WF_vars(NetworkThread /\ UNCHANGED lobbies)
    /\ WF_vars(Worker)

Spec == Init /\ [][Next]_vars /\ Fairness

-----------------------------------------------------------------------------
(* Properties                                                              *)

\* The pool's books: every slot ever issued is either in use, or in the hands
\* of a thread that fills it, or empty and in available_slots_, where it is
\* only once; or it is one of the slots lost for good to a refused push
\* (object_pool.h:31-54 and its callers).
SlotsAccounted ==
    mishaps = {} =>
        /\ IsInjective(free)
        /\ Range(free) \cap lost = {}
        /\ \A s \in 1 .. next_index - 1 :
               (s \in Range(free) \cup lost) <=>
                   (slots[s] = EmptyEntry /\ ~Registering(s))

\* Every connection the server holds is in one slot, or in the hands of the
\* thread that is about to put it there, and an event of epoll leads to that
\* slot: no descriptor is leaked, and no registration outlives the connection
\* or its slot (network_routine.cpp:125-170, 277-317).
EventsFindTheirSlot ==
    mishaps = {} =>
        \A c \in Conns :
            LET homes == {s \in Slots : slots[s].sock = c}
            IN  /\ Cardinality(homes) <= 1
                /\ place[c] = "held" =>
                       homes # {} \/ c \in Range(net.todo) \/ c = wrk.ctrl
                /\ epoll[c].slot # NoSlot => epoll[c].slot \in homes

\* The command of one client is never carried out for another one: while a
\* message is handled, the slot of the task still holds its sender, whoever
\* has come and gone in that slot before.
CommandOfItsSender ==
    mishaps = {} /\ wrk.pc \in {"handle", "attach", "count", "subscribe",
                                "enlist", "send_id", "transfer", "send_socket",
                                "let_go"}
        => Pending = wrk.msg.from

\* A broadcast reaches every client that was registered when it began: each
\* is sent the text or, if that fails, released (network_routine.h:77-103).
BroadcastReachesAll ==
    mishaps = {} /\ wrk.pc = "broadcast" /\ wrk.index >= counter
        => wrk.audience = {}

\* What a client sends is read, unless the client was left unarmed by a
\* handler that returned an error (network_routine.cpp:398-402).
MessagesServed ==
    \A c \in Clients :
        (place[c] = "held" /\ inbox[c] # <<>>) ~>
            (place[c] # "held" \/ inbox[c] = <<>> \/ c \in deaf \/ mishaps # {})

\* Clients that connect are accepted: the listener is rearmed every time,
\* except after an error of accept4 (network_routine.cpp:351-355).
ClientsAdmitted ==
    \A c \in Clients :
        (place[c] = "backlog") ~> (place[c] # "backlog" \/ mishaps # {})

\* A connection whose peer is gone gives its slot back, unless it was left
\* unarmed.
DisconnectsReclaimed ==
    \A c \in Conns :
        (place[c] = "held" /\ eof[c]) ~>
            (place[c] # "held" \/ c \in deaf \/ mishaps # {})

\* A client that was told "please check connection code or try again"
\* (error.cpp:28) can try again: what it sends next is read.
TryAgain ==
    \A c \in Clients :
        (c \in told /\ place[c] = "held" /\ inbox[c] # <<>>) ~>
            (place[c] # "held" \/ inbox[c] = <<>>)

\* LobbyManager::find answers "Lobby with given id doesn`t exist"
\* (lobby_manager.cpp:20) for a lobby that is gone: the view it returns
\* otherwise leads to the control connection of that lobby.
FoundLobbyExists == wrk.pc = "transfer" => ViewFresh

=============================================================================
