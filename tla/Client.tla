------------------------------- MODULE Client -------------------------------
(***************************************************************************)
(* The client process: src/src/application/client.cpp and the pipeline of  *)
(* application.cpp, console_routine.cpp and scheduler.cpp it runs on.      *)
(*                                                                         *)
(* The main thread connects, registers the two coroutines and starts three *)
(* more: the console thread reads lines, the network thread waits for      *)
(* events of the one connection (slot 0), the worker executes tasks.  Then *)
(* it fetches tags (coroutine_loop) and resumes the coroutine of each tag, *)
(* which turns a raw entry into a task.                                    *)
(*                                                                         *)
(* The three rings (raw console lines, raw network slots, tags) are FIFOs; *)
(* a push may be refused, or lap the ring and block, as QueueClients shows *)
(* (RefusedWithCause, lapped), and every push is made with the answer      *)
(* ignored.  The task queue is a FIFO whose producer waits for room        *)
(* (module Scheduler and its theorems).  Every connection                  *)
(* to the server is a socket of its own: 1 is the one opened by init, the  *)
(* next ones are opened by reset_base_connection.  Slot 0 is alive exactly *)
(* when it holds a socket; 0 is socket_ = -1.                              *)
(***************************************************************************)
EXTENDS Dispatcher, FiniteSets

CONSTANTS
    QueueSize,       \* RING_BUFFER_SIZE: slots of a ring
    MaxSockets,      \* bound: connections to the server
    Lines,           \* what the user may type: the alias a line starts with
    MaxLines,        \* bound: lines typed
    ServerMessages,  \* what the server may send
    MaxMessages      \* bound: messages the server sends

ASSUME ClientAssumption ==
    /\ QueueSize \in Nat \ {0}
    /\ MaxSockets \in Nat \ {0}
    /\ MaxLines \in Nat
    /\ MaxMessages \in Nat

VARIABLES
    console,            \* console thread: reading, or about to push its tag; or off
    console_raw_tasks,
    typed,              \* history: lines typed so far
    network,            \* network thread: waiting, or about to push its tag; or off
    network_raw_tasks,  \* how many times slot 0 is in network_raw_tasks_
    tags,               \* available_task_tags_
    main,               \* main thread: in init, waiting, or in a coroutine; or off
    co_handles_map,     \* tags whose coroutine and executor are registered
    tasks,
    wrk,                \* the worker and the message it handles; or off
    sock,               \* socket_ of slot 0
    epoll,              \* the epoll set, for each socket
    inbox,              \* kernel: messages of the server not yet received
    eof,                \* kernel: the server has closed the connection
    opened,             \* sockets connected so far
    received,           \* the server: lines it has got on each socket
    sent,               \* history: messages sent by the server
    handled,            \* history: lines the worker has handled
    mishaps             \* history: init or a handler failed, a push was refused or lapped

input == <<console, console_raw_tasks, typed>>
events == <<network, network_raw_tasks>>
loop == <<main, co_handles_map>>
slot == <<sock, epoll>>
peer == <<inbox, eof, sent>>
history == <<handled, mishaps>>
vars == <<input, events, tags, loop, tasks, wrk, slot, peer, opened, received,
          history>>

Sockets == 1 .. MaxSockets
NoSocket == 0
Tags == {"CONSOLE", "NETWORK"}
IdleWorker == [pc |-> "idle", msg |-> [type |-> "DEFAULT", alias |-> "", line |-> 0]]

Init ==
    /\ console = "off" /\ console_raw_tasks = <<>> /\ typed = 0
    /\ network = "off" /\ network_raw_tasks = 0
    /\ tags = <<>>
    /\ main = "init" /\ co_handles_map = {}
    /\ tasks = <<>>
    /\ wrk = IdleWorker
    /\ sock = NoSocket /\ epoll = [s \in Sockets |-> "absent"]
    /\ inbox = [s \in Sockets |-> <<>>] /\ eof = [s \in Sockets |-> FALSE] /\ sent = 0
    /\ opened = 0
    /\ received = [s \in Sockets |-> <<>>]
    /\ handled = {} /\ mishaps = {}

-----------------------------------------------------------------------------
(* The server                                                              *)

server_send(s, m) ==
    /\ main # "off"
    /\ s <= opened
    /\ ~eof[s]
    /\ sent < MaxMessages
    /\ sent' = sent + 1
    /\ inbox' = [inbox EXCEPT ![s] = Append(@,
                   [type |-> m.type, alias |-> m.alias, line |-> 0])]
    /\ UNCHANGED <<input, events, tags, loop, tasks, wrk, slot, eof, opened,
                   received, history>>

server_close(s) ==
    /\ main # "off"
    /\ s <= opened
    /\ ~eof[s]
    /\ eof' = [eof EXCEPT ![s] = TRUE]
    /\ UNCHANGED <<input, events, tags, loop, tasks, wrk, slot, inbox, sent,
                   opened, received, history>>

-----------------------------------------------------------------------------
(* Start-up: main, Client::init, Application::init_app                     *)

\* A connection to the server, in slot 0.
setup_client ==
    /\ opened' = opened + 1
    /\ sock' = opened + 1

\* Slot 0 is subscribed to its events.
init_epoll == epoll' = [epoll EXCEPT ![sock'] = "armed"]

init_network == setup_client /\ init_epoll

\* The coroutine and the executor of a tag.
add_co_handle(handles, tag) == handles \cup {tag}
register_network_task(handles) == add_co_handle(handles, "NETWORK")
register_console_task(handles) == add_co_handle(handles, "CONSOLE")

\* The threads start, whatever init has answered.
run ==
    /\ console' = "read" /\ network' = "wait" /\ main' = "wait"
    /\ UNCHANGED <<console_raw_tasks, typed, network_raw_tasks, tags, tasks, wrk,
                   peer, received, handled>>

\* Everything is set up and registered before any thread starts.
init ==
    /\ main = "init"
    /\ init_network
    /\ co_handles_map' = register_console_task(register_network_task(co_handles_map))
    /\ run
    /\ UNCHANGED mishaps

\* There is no server to connect to, or epoll cannot be set up afterwards: init
\* returns before anything is registered, and main ignores its answer.
init_fails ==
    /\ main = "init"
    /\ setup_client \/ UNCHANGED <<opened, sock>>
    /\ mishaps' = mishaps \cup {"init"}
    /\ run
    /\ UNCHANGED <<epoll, co_handles_map>>

\* The process ends with all its threads.
Exited == main = "off"
Exit ==
    /\ console' = "off" /\ network' = "off" /\ main' = "off"
    /\ wrk' = [wrk EXCEPT !.pc = "off"]
    /\ UNCHANGED <<console_raw_tasks, typed, network_raw_tasks, tags, co_handles_map,
                   tasks, slot, peer, opened, received, history>>

-----------------------------------------------------------------------------
(* The console thread                                                      *)

Full(queue) == Len(queue) >= QueueSize

\* Mutant: the queue gives back what was pushed last.
TryPush_in_front(queue, e, shared) ==
    (IF Full(queue) THEN {} ELSE {[queue |-> <<e>> \o queue, fault |-> {}]})
    \cup (IF shared \/ Len(queue) = QueueSize - 1
          THEN {[queue |-> queue, fault |-> {"refused"}]} ELSE {})

\* What try_push may do: queue the element; or refuse it, when one slot is left
\* and it is not the last of the ring, or at any time if the ring is shared with
\* another producer, whose push makes the loaded tail stale.  A push that finds
\* all slots taken is not refused: it claims an index and blocks.
TryPush(queue, e, shared) ==
    (IF Full(queue) THEN {} ELSE {[queue |-> Append(queue, e), fault |-> {}]})
    \cup (IF shared \/ Len(queue) = QueueSize - 1
          THEN {[queue |-> queue, fault |-> {"refused"}]} ELSE {})

\* A push claims a slot that is still taken.  Here it goes on when there is room
\* again; in the code the pop may still erase its flag.
LapsTheRing(queue) ==
    /\ Full(queue)
    /\ mishaps' = mishaps \cup {"lapped"}

\* getline, then the line into its ring ...
console_read(alias) ==
    /\ console = "read"
    /\ typed < MaxLines
    /\ typed' = typed + 1
    /\ \E push \in TryPush(console_raw_tasks,
              [type |-> "DEFAULT", alias |-> alias, line |-> typed + 1], FALSE) :
           console_raw_tasks' = push.queue /\ mishaps' = mishaps \cup push.fault
    /\ console' = "tag"
    /\ UNCHANGED <<events, tags, loop, tasks, wrk, slot, peer, opened, received, handled>>

\* Mutant: a tag that is in the queue is not pushed a second time.
PushTag_once(tag) ==
    IF \E i \in DOMAIN tags : tags[i] = tag THEN UNCHANGED <<tags, mishaps>>
    ELSE \E push \in TryPush(tags, tag, TRUE) :
             tags' = push.queue /\ mishaps' = mishaps \cup push.fault

PushTag(tag) ==
    \E push \in TryPush(tags, tag, TRUE) :
        tags' = push.queue /\ mishaps' = mishaps \cup push.fault

\* ... and its tag.
console_tag ==
    /\ console = "tag"
    /\ PushTag("CONSOLE")
    /\ console' = "read"
    /\ UNCHANGED <<console_raw_tasks, typed, events, loop, tasks, wrk, slot, peer,
                   opened, received, handled>>

console_laps ==
    /\ \/ console = "read" /\ typed < MaxLines /\ LapsTheRing(console_raw_tasks)
       \/ console = "tag" /\ LapsTheRing(tags)
    /\ UNCHANGED <<input, events, tags, loop, tasks, wrk, slot, peer, opened,
                   received, handled>>

-----------------------------------------------------------------------------
(* The network thread                                                      *)

\* Mutant: the socket is registered without EPOLLONESHOT.
Reported_again(s) == epoll

\* EPOLLONESHOT disarms a socket whose event has been reported.
Reported(s) == [epoll EXCEPT ![s] = "disarmed"]

\* A socket that is still open after reset_base_connection stays in the epoll
\* set, and its events are events of slot 0.
network_event(s) ==
    /\ network = "wait"
    /\ epoll[s] = "armed"
    /\ inbox[s] # <<>> \/ eof[s]
    /\ epoll' = Reported(s)
    /\ network_raw_tasks' = network_raw_tasks + 1
    /\ network' = "tag"
    /\ UNCHANGED <<input, tags, loop, tasks, wrk, sock, peer, opened, received, history>>

network_tag ==
    /\ network = "tag"
    /\ PushTag("NETWORK")
    /\ network' = "wait"
    /\ UNCHANGED <<input, network_raw_tasks, loop, tasks, wrk, slot, peer, opened,
                   received, handled>>

network_laps ==
    /\ network = "tag"
    /\ LapsTheRing(tags)
    /\ UNCHANGED <<input, events, tags, loop, tasks, wrk, slot, peer, opened,
                   received, handled>>

-----------------------------------------------------------------------------
(* The main thread                                                         *)

coroutine_loop ==
    /\ main = "wait"
    /\ tags # <<>>
    /\ Head(tags) \in co_handles_map
    /\ main' = Head(tags)
    /\ tags' = Tail(tags)
    /\ UNCHANGED <<input, events, co_handles_map, tasks, wrk, slot, peer, opened,
                   received, history>>

\* get_co_handle_by_tag makes up an empty handle for a tag nobody registered,
\* and to resume an empty handle ends the process.
resume_nothing ==
    /\ main = "wait"
    /\ tags # <<>>
    /\ Head(tags) \notin co_handles_map
    /\ Exit

\* One raw entry becomes one task; push_task waits for room.
console_co ==
    /\ main = "CONSOLE"
    /\ IF console_raw_tasks = <<>>
       THEN UNCHANGED <<console_raw_tasks, tasks>>
       ELSE /\ ~Full(tasks)
            /\ tasks' = Append(tasks, [tag |-> "CONSOLE", msg |-> Head(console_raw_tasks)])
            /\ console_raw_tasks' = Tail(console_raw_tasks)
    /\ main' = "wait"
    /\ UNCHANGED <<console, typed, events, tags, co_handles_map, wrk, slot, peer,
                   opened, received, history>>

network_co ==
    /\ main = "NETWORK"
    /\ IF network_raw_tasks = 0
       THEN UNCHANGED <<network_raw_tasks, tasks>>
       ELSE /\ ~Full(tasks)
            /\ tasks' = Append(tasks, [tag |-> "NETWORK", msg |-> IdleWorker.msg])
            /\ network_raw_tasks' = network_raw_tasks - 1
    /\ main' = "wait"
    /\ UNCHANGED <<input, network, tags, co_handles_map, wrk, slot, peer, opened,
                   received, history>>

-----------------------------------------------------------------------------
(* The worker                                                              *)

execute_task ==
    /\ wrk.pc = "idle"
    /\ tasks # <<>>
    /\ wrk' = [pc |-> IF Head(tasks).tag = "CONSOLE" THEN "handle" ELSE "check",
               msg |-> Head(tasks).msg]
    /\ tasks' = Tail(tasks)
    /\ UNCHANGED <<input, events, tags, loop, slot, peer, opened, received, history>>

Console == wrk.msg.line # 0

\* What follows a handler: a console task ends whatever its result was; the
\* receive loop goes on, or leaves, without rearming, on an error.
Done(error) ==
    /\ wrk' = IF Console \/ error THEN IdleWorker ELSE [IdleWorker EXCEPT !.pc = "check"]
    /\ handled' = IF Console THEN handled \cup {wrk.msg.line} ELSE handled
    /\ mishaps' = IF error /\ ~Console THEN mishaps \cup {"deaf"} ELSE mishaps

\* release_connection(0): the socket is closed and leaves epoll.
Release ==
    /\ sock' = NoSocket
    /\ epoll' = [epoll EXCEPT ![sock] = "absent"]

check_alive ==
    /\ wrk.pc = "check"
    /\ wrk' = IF sock # NoSocket THEN [wrk EXCEPT !.pc = "receive"] ELSE IdleWorker
    /\ UNCHANGED <<input, events, tags, loop, tasks, slot, peer, opened, received, history>>

receive_message ==
    /\ wrk.pc = "receive"
    /\ inbox[sock] # <<>>
    /\ wrk' = [pc |-> "handle", msg |-> Head(inbox[sock])]
    /\ inbox' = [inbox EXCEPT ![sock] = Tail(@)]
    /\ UNCHANGED <<input, events, tags, loop, tasks, slot, eof, sent, opened,
                   received, history>>

\* DISCONNECTED, or a read error after a reset.
receive_disconnected ==
    /\ wrk.pc = "receive"
    /\ inbox[sock] = <<>>
    /\ eof[sock]
    /\ Release
    /\ wrk' = IdleWorker
    /\ UNCHANGED <<input, events, tags, loop, tasks, peer, opened, received, history>>

\* Mutant: the worker leaves without rearming the socket.
Rearmed_never == epoll

\* EPOLL_CTL_MOD; it fails for a socket that was never added.
Rearmed == [epoll EXCEPT ![sock] = "armed"]

\* WOULDBLOCK: rearm, or release the connection if that fails.
receive_would_block ==
    /\ wrk.pc = "receive"
    /\ inbox[sock] = <<>>
    /\ ~eof[sock]
    /\ IF epoll[sock] = "absent" THEN Release ELSE epoll' = Rearmed /\ UNCHANGED sock
    /\ wrk' = IdleWorker
    /\ UNCHANGED <<input, events, tags, loop, tasks, peer, opened, received, history>>

Dispatched == dispatch(wrk.msg)

\* PrintMessage and Quit only print; everything else that is not sent on is
\* refused with an error.
handle_action ==
    /\ wrk.pc = "handle"
    /\ Dispatched.scope # "BROADCAST"
    /\ Done(Dispatched.action \notin ClientAction)
    /\ UNCHANGED <<input, events, tags, loop, tasks, slot, peer, opened, received>>

Broadcasting == wrk.pc = "handle" /\ Dispatched.scope = "BROADCAST"

\* send_input_to_server: the line reaches the server, or is lost in a
\* connection that the server has closed already.
send_input_to_server ==
    /\ Broadcasting
    /\ sock # NoSocket
    /\ received' = IF eof[sock] THEN received
                   ELSE [received EXCEPT ![sock] = Append(@, wrk.msg.line)]
    /\ Done(FALSE)
    /\ UNCHANGED <<input, events, tags, loop, tasks, slot, peer, opened>>

\* A new socket is put into slot 0; the old one is not closed and the new one
\* not added to epoll.
reset_base_connection ==
    /\ opened < MaxSockets
    /\ setup_client
    /\ UNCHANGED epoll

\* The send fails: the slot is empty, the server has closed, or it reads so
\* slowly that the socket is full.  The line is not sent again.
reconnect ==
    /\ Broadcasting
    /\ reset_base_connection
    /\ Done(TRUE)
    /\ UNCHANGED <<input, events, tags, loop, tasks, peer, received>>

\* The send fails and there is no server to connect to: success_or_terminate.
terminate == Broadcasting /\ Exit

Server ==
    \E s \in Sockets :
        server_close(s) \/ \E m \in ServerMessages : server_send(s, m)
ConsoleThread == (\E alias \in Lines : console_read(alias)) \/ console_tag \/ console_laps
NetworkThread == (\E s \in Sockets : network_event(s)) \/ network_tag \/ network_laps
CoroutineLoop == coroutine_loop \/ resume_nothing \/ console_co \/ network_co
Worker ==
    \/ execute_task \/ check_alive
    \/ receive_message \/ receive_disconnected \/ receive_would_block
    \/ handle_action \/ send_input_to_server \/ reconnect \/ terminate

Next ==
    \/ init \/ init_fails
    \/ Server \/ ConsoleThread \/ NetworkThread \/ CoroutineLoop \/ Worker

\* The threads are scheduled; nobody has to type and the server need not send.
Spec ==
    /\ Init /\ [][Next]_vars
    /\ WF_vars(console_tag) /\ WF_vars((\E s \in Sockets : network_event(s)) \/ network_tag)
    /\ WF_vars(CoroutineLoop) /\ WF_vars(Worker)

-----------------------------------------------------------------------------
(* Properties                                                              *)

Count(queue, P(_)) == Cardinality({i \in DOMAIN queue : P(queue[i])})
CountTags(tag) == Count(tags, LAMBDA t : t = tag)
One(condition) == IF condition THEN 1 ELSE 0

\* No push was refused, and none has lapped its ring.
AllQueued == mishaps \cap {"refused", "lapped"} = {}

\* A raw entry and its tag go through two queues and are fetched by a third
\* thread: as long as every push is queued there is a tag for every raw entry,
\* so no entry is stranded (console_routine.cpp:16-17,
\* network_routine.cpp:342-343).
EveryEntryTagged ==
    AllQueued /\ ~Exited =>
        /\ Len(console_raw_tasks) =
               CountTags("CONSOLE") + One(console = "tag") + One(main = "CONSOLE")
        /\ network_raw_tasks =
               CountTags("NETWORK") + One(network = "tag") + One(main = "NETWORK")

\* Slot 0 is on its way to the worker, or in its hands, at most once, even
\* while the socket that was replaced still reports events for the slot: its
\* messages are read by one task at a time (socket_routine.cpp:389).
SlotServedOnce ==
    network_raw_tasks + Count(tasks, LAMBDA t : t.tag = "NETWORK")
        + One(wrk.pc \notin {"idle", "off"} /\ ~Console) <= 1

\* The server gets the lines in the order in which they were typed, and none
\* of them twice, reconnections included.
LinesInOrder ==
    \A s, r \in Sockets :
        \A i \in DOMAIN received[s], j \in DOMAIN received[r] :
            /\ s < r \/ (s = r /\ i < j)
            /\ received[s][i] # 0 /\ received[r][j] # 0
            => received[s][i] < received[r][j]

\* Every line typed is handled, unless a push was refused (which the tag ring
\* may do although it has room, when both producers push), or has lapped its
\* ring, or the client has terminated: for want of a server, or at the first tag
\* after a start-up whose failure main has ignored (main/client.cpp:30).
LinesHandled ==
    \A n \in 1 .. MaxLines :
        (typed >= n) ~> (n \in handled \/ ~AllQueued \/ Exited)

\* What the server sends over the first connection is read, as long as the
\* client keeps that connection, has started, and every push is queued.
ServerHeard ==
    (inbox[1] # <<>>) ~>
        (inbox[1] = <<>> \/ sock # 1 \/ mishaps # {} \/ Exited)

\* The client reports "Succesfully reconnected to Server" (client.cpp:117): what
\* the server sends over the new connection is read.
ReconnectedHears ==
    (opened = 2 /\ sock = 2 /\ inbox[2] # <<>>) ~>
        (sock # 2 \/ inbox[2] = <<>> \/ Exited)

=============================================================================
