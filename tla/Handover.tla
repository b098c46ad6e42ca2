------------------------------ MODULE Handover ------------------------------
(***************************************************************************)
(* The server and one of its lobby processes, and the way of a client from *)
(* the one to the other.  The lobby's own variables have the prefix l_;    *)
(* the kernel's (inbox, eof, sent) are shared, over the clients and the    *)
(* two ends of the control socket: Ctl in the server, Par in the lobby.    *)
(* eof[Ctl] also says that the lobby process is dead: it stops, and the    *)
(* kernel closes the connections it held or was being sent.                *)
(***************************************************************************)
EXTENDS Server

CONSTANTS
    Ctl, Par,  \* the two ends of the control socket
    Creator,   \* the client that asks for the lobby
    MaxFaults  \* bound: clients that leave, and the lobby's death

ASSUME HandoverAssumption ==
    /\ Controls = {Ctl, Par} /\ Ctl # Par
    /\ Creator \in Clients
    /\ IsFiniteSet(Clients) /\ Cardinality(Clients) \in 1 .. MaxSlots
    /\ MaxFaults \in Nat

\* A client sends only what the Dispatcher gives the scope BROADCAST
\* (client.cpp:79-91): neither a descriptor nor a lobby's id.
ASSUME ClientMessages ==
    \A m \in Messages :
        "action" \in DOMAIN m /\ m.action \notin {"AcceptSocket", "SetLobbyId"}

VARIABLES
    l_slots, l_buffer, l_free, l_lost, l_next_index, l_counter, l_epoll,
    l_listener, l_tasks, l_net, l_wrk, l_place, l_told, l_deaf, l_mishaps,
    lobby_id, greeted,
    maker  \* history: the client whose command has started the lobby

L == INSTANCE Lobby WITH
    Parent <- Par, Peer <- Ctl, LobbyCode <- 1,
    slots <- l_slots, buffer <- l_buffer, free <- l_free, lost <- l_lost,
    next_index <- l_next_index, counter <- l_counter, epoll <- l_epoll,
    listener <- l_listener, tasks <- l_tasks, net <- l_net, wrk <- l_wrk,
    place <- l_place, told <- l_told, deaf <- l_deaf, mishaps <- l_mishaps

lobbyProcess == <<l_slots, l_buffer, l_free, l_lost, l_next_index, l_counter,
                  l_epoll, l_listener, l_tasks, l_net, l_wrk, l_place, l_told,
                  l_deaf, l_mishaps, lobby_id, greeted>>
serverProcess == <<pool, epoll, loop, wrk, place, history, lobbies, maker>>
allVars == <<serverProcess, kernel, lobbyProcess>>

-----------------------------------------------------------------------------

\* The clients are connected and registered, and one has asked for a lobby.
HandoverInit ==
    /\ \E order \in {q \in SetToSeqs(Clients) : Head(q) = Creator} :
           /\ slots = [s \in Slots |-> IF s \in DOMAIN order
                           THEN Entry("TO_CLIENT", order[s]) ELSE EmptyEntry]
           /\ epoll = [c \in Conns |-> IF c \in Clients
                           THEN Armed(CHOOSE s \in DOMAIN order : order[s] = c)
                           ELSE Absent]
    /\ buffer = [s \in Slots |-> <<>>]
    /\ free = <<>>
    /\ lost = {}
    /\ next_index = Cardinality(Clients) + 1
    /\ counter = Cardinality(Clients) + 1
    /\ listener = TRUE
    /\ tasks = <<>>
    /\ net = IdleNet
    /\ wrk = IdleWorker
    /\ place = [c \in Conns |-> IF c \in Clients THEN "held"
                               ELSE IF c = Ctl THEN "new" ELSE "moved"]
    /\ told = {}
    /\ deaf = {}
    /\ mishaps = {}
    /\ lobbies = [k \in Codes |-> NoLobby]
    /\ inbox = [c \in Conns |-> IF c # Creator THEN <<>>
           ELSE <<[action |-> "CreateLobby", code |-> 0, from |-> Creator]>>]
    /\ eof = [c \in Conns |-> FALSE]
    /\ sent = [c \in Clients |-> IF c = Creator THEN 1 ELSE 0]
    /\ maker = NoConn
    /\ L!LobbyInit

LobbyRuns == place[Ctl] # "new" /\ ~eof[Ctl]

ServerEvents == NetworkThread /\ UNCHANGED <<lobbies, maker, lobbyProcess>>

\* Mutant: the lobby is not told its id.
send_lobby_id_skipped == init_lobby /\ UNCHANGED <<inbox, maker, lobbyProcess>>

\* What the server's worker sends on the control socket arrives at the lobby.
send_lobby_id ==
    /\ init_lobby
    /\ inbox' = [inbox EXCEPT ![Par] = Append(@, L!SetLobbyId(wrk.code))]
    /\ UNCHANGED <<maker, lobbyProcess>>

\* The lobby may complain about a message without a descriptor.
answer ==
    /\ execute_general
    /\ inbox' = IF Pending = Ctl THEN [inbox EXCEPT ![Par] = Append(@, L!Answer)]
                ELSE inbox
    /\ UNCHANGED <<maker, lobbyProcess>>

\* From here until let_go both processes have the connection.
hand_over ==
    /\ send_socket
    /\ IF slots[wrk.view].sock = Ctl THEN L!server_transfer(Pending)
       ELSE UNCHANGED <<inbox, lobbyProcess>>
    /\ UNCHANGED maker

ServerWorker ==
    \/ (ReceiveLoop \/ Broadcast) /\ UNCHANGED <<lobbies, maker, lobbyProcess>>
    \/ /\ Handlers
       /\ maker' = IF wrk'.pc = "attach" THEN wrk.msg.from ELSE maker
       /\ UNCHANGED lobbyProcess
    \/ answer \/ send_lobby_id \/ hand_over

LobbyEvents == LobbyRuns /\ L!Events /\ UNCHANGED serverProcess

LobbyWorker == LobbyRuns /\ L!Worker /\ UNCHANGED serverProcess

\* The server has released the control connection, and the lobby sees it.
control_closed ==
    /\ place[Ctl] = "gone"
    /\ LobbyRuns
    /\ L!peer_close(Par)
    /\ UNCHANGED <<serverProcess, lobby_id, greeted>>

\* Clients send and leave, wherever their connection is; the lobby may die.
Outside ==
    \/ /\ \E c \in Clients, m \in Messages : client_send(c, m)
       /\ UNCHANGED <<lobbies, maker, lobbyProcess>>
    \/ /\ LobbyRuns
       /\ \E c \in Clients, m \in Messages : L!client_send(c, m)
       /\ UNCHANGED <<serverProcess, lobby_id, greeted>>

Faults ==
    /\ Cardinality({c \in Conns : eof[c]}) < MaxFaults
    /\ \/ /\ \E c \in Clients : peer_close(c)
          /\ UNCHANGED <<lobbies, maker, lobbyProcess>>
       \/ /\ LobbyRuns
          /\ peer_close(Ctl)
          /\ UNCHANGED <<lobbies, maker, lobbyProcess>>
       \/ /\ LobbyRuns
          /\ \E c \in Clients : L!peer_close(c)
          /\ UNCHANGED <<serverProcess, lobby_id, greeted>>

HandoverNext ==
    \/ ServerEvents \/ ServerWorker \/ LobbyEvents \/ LobbyWorker
    \/ control_closed \/ Outside \/ Faults

\* The threads of both processes are scheduled, and a close arrives.
HandoverSpec ==
    /\ HandoverInit
    /\ [][HandoverNext]_allVars
    /\ WF_allVars(ServerEvents) /\ WF_allVars(ServerWorker)
    /\ WF_allVars(LobbyEvents) /\ WF_allVars(LobbyWorker)
    /\ WF_allVars(control_closed)

-----------------------------------------------------------------------------
(* Properties                                                              *)

\* A connection is served by one process at a time: once its descriptor is on
\* the way to the lobby, the server gets no events of it and does nothing with
\* it but close its own.  Closing does not end the registration when the lobby
\* has another descriptor, so the server must have removed it before it sends
\* (network_routine.cpp:125-170).
OneProcessPerClient ==
    \A c \in Clients :
        l_place[c] # "new" =>
            /\ epoll[c] = Absent
            /\ \A s \in Slots :
                   slots[s].sock = c => wrk.slot = s /\ wrk.pc = "let_go"

\* The code a client is told in the lobby is the one under which others find
\* that lobby: its id arrives before its first client.  Only a lobby whose
\* maker was told that it failed may be without its id (server.cpp:73-81).
ToldItsCode ==
    \A g \in greeted :
        maker \notin told => g.code \in Codes /\ lobbies[g.code].ctrl = Ctl

\* The way of a client is over: it was greeted or closed, or the lobby is
\* dead or does not listen to the server any more.
Settled(c) ==
    L!Greeted(c) \/ l_place[c] = "gone" \/ eof[Ctl] \/ Par \in l_deaf

\* A client handed over is greeted or closed, even when the server releases
\* the control connection after sending it.
HandedOverGreeted ==
    \A c \in Clients : (place[c] = "moved") ~> Settled(c)

\* What a client sends while its connection changes hands does not stay in
\* the socket: one of the two processes is told of it and receives it.  (What
\* the server has received by then and not handled is dropped in let_go.)
MessagesFollow ==
    \A c \in Clients :
        (inbox[c] # <<>>) ~>
            \/ inbox[c] = <<>> \/ place[c] = "gone" \/ l_place[c] = "gone"
            \/ eof[Ctl] \/ {c, Par} \cap (deaf \cup l_deaf) # {}
            \/ mishaps # {}

=============================================================================
