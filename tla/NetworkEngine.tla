---------------------------- MODULE NetworkEngine ----------------------------
(***************************************************************************)
(* The connection pool, the epoll set and the receive loop of              *)
(* src/src/net/network_routine.cpp, shared by two threads: the network     *)
(* thread (run_event_loop) accepts and registers connections and queues    *)
(* the slots that have something to read; the worker (process_connection)  *)
(* reads them and runs the message handler of the application.             *)
(*                                                                         *)
(* Slot 0 holds the listener, so 0 also stands for "no slot".  Between the *)
(* network thread and the worker a slot travels through network_raw_tasks_,*)
(* network_co and the task queue, which together are a FIFO (module        *)
(* Scheduler and its theorems): here they are the one sequence tasks.      *)
(* A socket is named by its connection; epoll registrations go away with   *)
(* the last descriptor, so closing a connection removes it from epoll.     *)
(***************************************************************************)
EXTENDS Naturals, Sequences, FiniteSets, SequencesExt

CONSTANTS
    Clients,       \* connections opened by clients
    Controls,      \* control sockets, one for every lobby process
    NoConn,        \* socket_ = -1
    MaxSlots,      \* bound: slots of the pool besides slot 0
    Messages,      \* what a client may send: records with the field action
    MaxSends,      \* bound: messages each client sends
    SlowPeers,     \* connections whose send buffer may be full
    CallsMayFail   \* epoll_ctl(ADD) and accept4 may fail

Conns == Clients \cup Controls
Slots == 1 .. MaxSlots
NoSlot == 0

ASSUME EngineAssumption ==
    /\ Clients \cap Controls = {}
    /\ NoConn \notin Conns
    /\ MaxSlots \in Nat
    /\ MaxSends \in [Clients -> Nat]
    /\ SlowPeers \subseteq Conns
    /\ CallsMayFail \in BOOLEAN

VARIABLES
    slots,        \* connection_pool_: the ConnectionEntry of every slot
    buffer,       \* messages in the receive buffer of the slot's coroutine
    free,         \* available_slots_ of the pool
    lost,         \* history: slots whose push to available_slots_ was refused
    next_index,   \* last_not_issued_index of the pool's memory
    counter,      \* ObjectPool::counter
    epoll,        \* the epoll set: slot and armed flag of each socket
    listener,     \* whether the listener is armed
    tasks,        \* slots on their way to the worker
    net,          \* the network thread
    wrk,          \* the worker
    inbox,        \* kernel: messages sent and not yet received
    eof,          \* kernel: the peer has closed its end
    place,        \* kernel: who holds the connection
    sent,         \* bound: messages sent by each client
    told,         \* history: clients told that their command failed
    deaf,         \* history: connections left by the worker without rearming
    mishaps       \* history: the hazards that have happened, see Server

entries == <<slots, buffer, free, lost>>
sizes == <<next_index, counter>>
pool == <<entries, sizes>>
loop == <<listener, tasks, net>>
kernel == <<inbox, eof, sent>>
history == <<told, deaf, mishaps>>
engineVars == <<pool, epoll, loop, kernel, place>>

EmptyEntry == [type |-> "NONE", sock |-> NoConn, status |-> "EMPTY"]
Entry(type, c) == [type |-> type, sock |-> c, status |-> "ALIVE"]
Absent == [slot |-> NoSlot, armed |-> FALSE]

\* Mutant: the socket is in the set, but no event is asked for.
Armed_never(s) == [slot |-> s, armed |-> FALSE]

Armed(s) == [slot |-> s, armed |-> TRUE]

\* A message remembers who sent it (history); audience (history) are the
\* clients that a broadcast has still to reach.
\* msg, view, code, ctrl, index and count are locals of the handlers.
NoMessage == [action |-> "none", from |-> NoConn]
IdleWorker ==
    [pc |-> "idle", slot |-> NoSlot, msg |-> NoMessage, view |-> NoSlot,
     code |-> 0, ctrl |-> NoConn, index |-> 0, count |-> 0,
     audience |-> {}]

IdleNet == [pc |-> "wait", slot |-> NoSlot, todo |-> <<>>, count |-> 0]

EngineInit ==
    /\ slots = [s \in Slots |-> EmptyEntry]
    /\ buffer = [s \in Slots |-> <<>>]
    /\ free = <<>>
    /\ lost = {}
    /\ next_index = 1
    /\ counter = 1
    /\ epoll = [c \in Conns |-> Absent]
    /\ listener = TRUE
    /\ tasks = <<>>
    /\ net = IdleNet
    /\ wrk = IdleWorker
    /\ inbox = [c \in Conns |-> <<>>]
    /\ eof = [c \in Conns |-> FALSE]
    /\ place = [c \in Conns |-> "new"]
    /\ sent = [c \in Clients |-> 0]
    /\ told = {}
    /\ deaf = {}
    /\ mishaps = {}

-----------------------------------------------------------------------------
(* The pool, epoll and sockets                                             *)

\* The sockets of the slots in q, which are about to be closed.
SocketsOf(q) == {slots[s].sock : s \in Range(q)} \ {NoConn}

\* What is left when the entries of the slots in q are reset and their
\* sockets closed.
SlotsWithout(q) ==
    [s \in Slots |-> IF s \in Range(q) THEN EmptyEntry ELSE slots[s]]

\* Mutant: the receive coroutine of the slot is not destroyed.
BufferWithout_kept(q) == buffer

BufferWithout(q) ==
    [s \in Slots |-> IF s \in Range(q) THEN <<>> ELSE buffer[s]]

\* Mutant: the registration outlives the entry.
EpollWithout_kept(q) == epoll

EpollWithout(q) ==
    [c \in Conns |-> IF c \in SocketsOf(q) THEN Absent ELSE epoll[c]]

PlaceWithout(q) ==
    [c \in Conns |-> IF c \in SocketsOf(q) THEN "gone" ELSE place[c]]

\* Mutant: the slot is not given back.
give_back_kept(s, raced) == UNCHANGED <<free, lost>>

\* ObjectPool::release ignores the answer of try_push.  The ring has room for
\* every slot, but a tail read before the other thread's push and a head read
\* after its next pop look like a full ring (atomic_queue.h:69-74): the slot
\* is lost.  raced: the other thread has just taken a slot; it also gives
\* slots back only if registrations fail.
give_back(s, raced) ==
    \/ free' = Append(free, s) /\ UNCHANGED lost
    \/ CallsMayFail /\ raced /\ lost' = lost \cup {s} /\ UNCHANGED free

\* Remove the socket from epoll, reset the entry, give the slot back.
release_connection(s, raced) ==
    /\ slots' = SlotsWithout(<<s>>)
    /\ buffer' = BufferWithout(<<s>>)
    /\ epoll' = EpollWithout(<<s>>)
    /\ place' = PlaceWithout(<<s>>)
    /\ give_back(s, raced)

\* sendmsg on a socket: it fails without a descriptor and on the control
\* socket of a process that is gone (EPIPE); over TCP it may fail when the
\* peer is gone or slow (EAGAIN), and otherwise it succeeds.
send_message(c) ==
    IF c = NoConn \/ (c \in Controls /\ eof[c]) THEN {FALSE}
    ELSE IF eof[c] \/ c \in SlowPeers THEN BOOLEAN
    ELSE {TRUE}

\* epoll_ctl(ADD) for the socket of an entry.
add_socket(c) ==
    IF c = NoConn THEN {FALSE} ELSE IF CallsMayFail THEN BOOLEAN ELSE {TRUE}

\* *old_object = std::move(object): the old socket of the entry is closed.
SocketAssigned(s, c) ==
    /\ slots' = [slots EXCEPT ![s].sock = c, ![s].status = "ALIVE"]
    /\ buffer' = BufferWithout(<<s>>)
    /\ epoll' = EpollWithout(<<s>>)
    /\ place' = [PlaceWithout(<<s>>) EXCEPT ![c] = "held"]

-----------------------------------------------------------------------------
(* The environment                                                         *)

client_connect(c) ==
    /\ place[c] = "new"
    /\ place' = [place EXCEPT ![c] = "backlog"]
    /\ UNCHANGED <<pool, epoll, loop, wrk, kernel, history>>

\* Message m as sent by c.
From(c, m) == [f \in DOMAIN m \cup {"from"} |-> IF f = "from" THEN c ELSE m[f]]

client_send(c, m) ==
    /\ place[c] \in {"backlog", "held"}
    /\ ~eof[c]
    /\ sent[c] < MaxSends[c]
    /\ sent' = [sent EXCEPT ![c] = @ + 1]
    /\ inbox' = [inbox EXCEPT ![c] = Append(@, From(c, m))]
    /\ UNCHANGED <<pool, epoll, loop, wrk, eof, place, history>>

\* A client closes its end, or a lobby process dies.
peer_close(c) ==
    /\ place[c] \in {"backlog", "held"}
    /\ ~eof[c]
    /\ eof' = [eof EXCEPT ![c] = TRUE]
    /\ UNCHANGED <<pool, epoll, loop, wrk, inbox, place, sent, history>>

Environment ==
    \/ \E c \in Clients :
           client_connect(c) \/ \E m \in Messages : client_send(c, m)
    \/ \E c \in Conns : peer_close(c)

-----------------------------------------------------------------------------
(* The network thread                                                      *)

Readable(c) == inbox[c] # <<>> \/ eof[c]

\* Mutant: the push is refused while another slot is queued, and ignored.
Queued_refused(s) == IF tasks = <<>> THEN <<s>> ELSE tasks

Queued(s) == Append(tasks, s)

\* epoll_wait reports a connection and, EPOLLONESHOT, disarms it;
\* process_events queues its slot.
process_event(c) ==
    /\ net.pc = "wait"
    /\ epoll[c].armed
    /\ Readable(c)
    /\ epoll' = [epoll EXCEPT ![c].armed = FALSE]
    /\ tasks' = Queued(epoll[c].slot)
    /\ UNCHANGED <<pool, listener, net, wrk, kernel, place, history>>

\* The listener has connections: accept_connections takes them all.
Waiting == {c \in Clients : place[c] = "backlog"}

accept_connections ==
    /\ net.pc = "wait"
    /\ listener
    /\ Waiting # {}
    /\ listener' = FALSE
    /\ place' = [c \in Conns |-> IF c \in Waiting THEN "held" ELSE place[c]]
    /\ \E order \in SetToSeqs(Waiting) :
           net' = [IdleNet EXCEPT !.pc = "register", !.todo = order]
    /\ UNCHANGED <<pool, epoll, tasks, wrk, kernel, history>>

\* accept4 fails: the listener is not rearmed, and what was accepted before
\* the error is neither registered nor closed.
accept_connections_fails ==
    /\ net.pc = "wait"
    /\ listener
    /\ Waiting # {}
    /\ CallsMayFail
    /\ listener' = FALSE
    /\ \E taken \in SUBSET Waiting :
           place' = [c \in Conns |-> IF c \in taken THEN "held" ELSE place[c]]
    /\ mishaps' = mishaps \cup {"unlistening"}
    /\ UNCHANGED <<pool, epoll, tasks, net, wrk, kernel, told, deaf>>

\* counter++ on a plain size_t: the store may overwrite the other thread's.
Miscounted(loaded) == IF loaded # counter THEN {"miscounted"} ELSE {}

\* push_to_pool on the network thread: a released slot is used again ...
register_reused ==
    /\ net.pc = "register"
    /\ net.todo # <<>>
    /\ free # <<>>
    /\ net' = [net EXCEPT !.pc = "assign", !.slot = Head(free)]
    /\ free' = Tail(free)
    /\ UNCHANGED <<slots, buffer, lost, sizes, epoll, listener, tasks, wrk,
                   kernel, place, history>>

\* ... and filled in two steps, the type before the socket ...
assign_type ==
    /\ net.pc = "assign"
    /\ slots' = [slots EXCEPT ![net.slot].type = "TO_CLIENT"]
    /\ net' = [net EXCEPT !.pc = "assign_socket"]
    /\ UNCHANGED <<buffer, free, lost, sizes, epoll, listener, tasks, wrk,
                   kernel, place, history>>

assign_socket ==
    /\ net.pc = "assign_socket"
    /\ SocketAssigned(net.slot, Head(net.todo))
    /\ net' = [net EXCEPT !.pc = "subscribe"]
    /\ UNCHANGED <<free, lost, sizes, listener, tasks, wrk, kernel, history>>

\* ... or a new slot is built; try_pop also fails when it loses a race
\* against the other thread.  counter++ is a load and a store.
register_new ==
    /\ net.pc = "register"
    /\ net.todo # <<>>
    /\ free = <<>> \/ wrk.pc = "attach"
    /\ next_index \in Slots
    /\ slots' = [slots EXCEPT ![next_index] = Entry("TO_CLIENT", Head(net.todo))]
    /\ next_index' = next_index + 1
    /\ net' = [net EXCEPT !.pc = "count", !.slot = next_index, !.count = counter]
    /\ UNCHANGED <<buffer, free, lost, counter, epoll, listener, tasks, wrk,
                   kernel, place, history>>

count_new ==
    /\ net.pc = "count"
    /\ counter' = net.count + 1
    /\ mishaps' = mishaps \cup Miscounted(net.count)
    /\ net' = [net EXCEPT !.pc = "subscribe", !.count = 0]
    /\ UNCHANGED <<entries, next_index, epoll, listener, tasks, wrk, kernel,
                   place, told, deaf>>

NextConnection == [net EXCEPT !.pc = "register", !.slot = NoSlot, !.todo = Tail(@)]

subscribe ==
    /\ net.pc = "subscribe"
    /\ LET c == slots[net.slot].sock
       IN  /\ TRUE \in add_socket(c)
           /\ epoll' = [epoll EXCEPT ![c] = Armed(net.slot)]
    /\ net' = NextConnection
    /\ UNCHANGED <<pool, listener, tasks, wrk, kernel, place, history>>

\* The client is told, the entry reset and its slot given back.
subscribe_fails ==
    /\ net.pc = "subscribe"
    /\ FALSE \in add_socket(slots[net.slot].sock)
    /\ release_connection(net.slot, wrk.pc = "subscribe")
    /\ net' = NextConnection
    /\ UNCHANGED <<sizes, listener, tasks, wrk, kernel, history>>

\* Mutant: the listener is not rearmed.
rearm_listener_forgotten ==
    /\ net.pc = "register"
    /\ net.todo = <<>>
    /\ net' = IdleNet
    /\ UNCHANGED <<pool, epoll, listener, tasks, wrk, kernel, place, history>>

rearm_listener ==
    /\ net.pc = "register"
    /\ net.todo = <<>>
    /\ listener' = TRUE
    /\ net' = IdleNet
    /\ UNCHANGED <<pool, epoll, tasks, wrk, kernel, place, history>>

NetworkThread ==
    \/ \E c \in Conns : process_event(c)
    \/ accept_connections \/ accept_connections_fails
    \/ register_reused \/ assign_type \/ assign_socket
    \/ register_new \/ count_new
    \/ subscribe \/ subscribe_fails
    \/ rearm_listener

\* The network thread has taken slot s from the pool and not yet subscribed
\* its connection to epoll.
Registering(s) ==
    net.slot = s /\ net.pc \in {"assign", "assign_socket", "count", "subscribe"}

-----------------------------------------------------------------------------
(* The worker: process_connection                                          *)

\* The network thread has just taken a slot from available_slots_.
NetworkTook == net.pc = "assign"

\* The worker uses a slot in which the network thread may be registering a
\* new connection.
Overlap(s) ==
    mishaps' = mishaps \cup (IF Registering(s) THEN {"overlap"} ELSE {})

\* The executor of a NETWORK task starts with the next slot.
process_connection ==
    /\ wrk.pc = "idle"
    /\ tasks # <<>>
    /\ wrk' = [IdleWorker EXCEPT !.pc = "check", !.slot = Head(tasks)]
    /\ tasks' = Tail(tasks)
    /\ UNCHANGED <<pool, epoll, listener, net, kernel, place, history>>

\* Back to the loop condition, or return from process_connection_impl.
Continue == [IdleWorker EXCEPT !.pc = "check", !.slot = wrk.slot]
Return == IdleWorker

\* The condition of the receive loop reads the status of whatever connection
\* the slot holds now.
check_alive ==
    /\ wrk.pc = "check"
    /\ IF slots[wrk.slot].status = "ALIVE"
       THEN wrk' = [wrk EXCEPT !.pc = "receive"] /\ Overlap(wrk.slot)
       ELSE wrk' = Return /\ UNCHANGED mishaps
    /\ UNCHANGED <<engineVars, told, deaf>>

\* get_message resumes the coroutine of the slot.  It hands out the messages
\* it has in its buffer and then receives from the socket again.
Pending == slots[wrk.slot].sock

get_message_buffered ==
    /\ wrk.pc = "receive"
    /\ buffer[wrk.slot] # <<>>
    /\ wrk' = [wrk EXCEPT !.pc = "handle", !.msg = Head(buffer[wrk.slot])]
    /\ buffer' = [buffer EXCEPT ![wrk.slot] = Tail(@)]
    /\ UNCHANGED <<slots, free, lost, sizes, epoll, loop, kernel, place,
                   history>>

\* One recvmsg may return several messages.
get_message_received ==
    /\ wrk.pc = "receive"
    /\ buffer[wrk.slot] = <<>>
    /\ Pending # NoConn
    /\ \E n \in 1 .. Len(inbox[Pending]) :
           /\ wrk' = [wrk EXCEPT !.pc = "handle", !.msg = Head(inbox[Pending])]
           /\ buffer' = [buffer EXCEPT ![wrk.slot] = SubSeq(inbox[Pending], 2, n)]
           /\ inbox' = [inbox EXCEPT ![Pending] = SubSeq(@, n + 1, Len(@))]
    /\ UNCHANGED <<slots, free, lost, sizes, epoll, loop, eof, place, sent,
                   history>>

NothingToRead ==
    /\ wrk.pc = "receive"
    /\ buffer[wrk.slot] = <<>>
    /\ Pending # NoConn => inbox[Pending] = <<>>

get_message_would_block ==
    /\ NothingToRead
    /\ Pending # NoConn
    /\ ~eof[Pending]
    /\ wrk' = [wrk EXCEPT !.pc = "rearm"]
    /\ UNCHANGED <<engineVars, history>>

\* DISCONNECTED: the connection is released and the loop goes on to its
\* condition.
get_message_disconnected ==
    /\ NothingToRead
    /\ Pending # NoConn
    /\ eof[Pending]
    /\ release_connection(wrk.slot, NetworkTook)
    /\ wrk' = Continue
    /\ UNCHANGED <<sizes, loop, kernel, history>>

\* A read error: no descriptor, or the peer has reset the connection.
get_message_fails ==
    /\ NothingToRead
    /\ Pending # NoConn => eof[Pending]
    /\ release_connection(wrk.slot, NetworkTook)
    /\ wrk' = Return
    /\ UNCHANGED <<sizes, loop, kernel, history>>

\* Mutant: the worker leaves without rearming.
rearm_socket_forgotten ==
    /\ wrk.pc = "rearm"
    /\ Pending # NoConn
    /\ epoll[Pending].slot # NoSlot
    /\ wrk' = Return
    /\ UNCHANGED <<pool, epoll, loop, kernel, place, history>>

\* WOULDBLOCK: rearm the socket and leave; epoll_ctl(MOD) fails for a
\* socket that is not in the set, and the connection is released.
rearm_socket ==
    /\ wrk.pc = "rearm"
    /\ Pending # NoConn
    /\ epoll[Pending].slot # NoSlot
    /\ epoll' = [epoll EXCEPT ![Pending] = Armed(wrk.slot)]
    /\ wrk' = Return
    /\ UNCHANGED <<pool, loop, kernel, place, history>>

rearm_socket_fails ==
    /\ wrk.pc = "rearm"
    /\ Pending # NoConn => epoll[Pending].slot = NoSlot
    /\ release_connection(wrk.slot, NetworkTook)
    /\ wrk' = Return
    /\ UNCHANGED <<sizes, loop, kernel, history>>

ReceiveLoop ==
    \/ process_connection
    \/ check_alive
    \/ get_message_buffered \/ get_message_received
    \/ get_message_would_block \/ get_message_disconnected
    \/ get_message_fails
    \/ rearm_socket \/ rearm_socket_fails

\* The handler has returned KEEP with an error: process_connection_impl
\* leaves without rearming the socket, after sending the user message if
\* there is one.
ReturnError(says) ==
    /\ wrk' = Return
    /\ deaf' = deaf \cup ({Pending} \ {NoConn})
    /\ told' = IF says THEN told \cup ({Pending} \ {NoConn}) ELSE told

-----------------------------------------------------------------------------
(* The worker: attach_socket and the broadcast of send_message             *)

\* register_connection on the worker.  Nobody else looks at the slot before
\* it is subscribed, so the entry is filled in one step.
attach_reused(type) ==
    /\ wrk.pc = "attach"
    /\ free # <<>>
    /\ free' = Tail(free)
    /\ slots' = [slots EXCEPT ![Head(free)] = Entry(type, wrk.ctrl)]
    /\ wrk' = [wrk EXCEPT !.pc = "subscribe", !.view = Head(free)]
    /\ UNCHANGED <<buffer, lost, sizes, epoll, loop, kernel, place, history>>

attach_new(type) ==
    /\ wrk.pc = "attach"
    /\ free = <<>> \/ net.pc = "register"
    /\ next_index \in Slots
    /\ next_index' = next_index + 1
    /\ slots' = [slots EXCEPT ![next_index] = Entry(type, wrk.ctrl)]
    /\ wrk' = [wrk EXCEPT !.pc = "count", !.view = next_index, !.count = counter]
    /\ UNCHANGED <<buffer, free, lost, counter, epoll, loop, kernel, place,
                   history>>

attach_count ==
    /\ wrk.pc = "count"
    /\ counter' = wrk.count + 1
    /\ mishaps' = mishaps \cup Miscounted(wrk.count)
    /\ wrk' = [wrk EXCEPT !.pc = "subscribe", !.count = 0]
    /\ UNCHANGED <<entries, next_index, epoll, loop, kernel, place, told,
                   deaf>>

\* Mutant: epoll's data is the slot of the message, not that of the socket.
attach_subscribe_misdirected(next) ==
    /\ wrk.pc = "subscribe"
    /\ TRUE \in add_socket(slots[wrk.view].sock)
    /\ epoll' = [epoll EXCEPT ![slots[wrk.view].sock] = Armed(wrk.slot)]
    /\ wrk' = [wrk EXCEPT !.pc = next]
    /\ UNCHANGED <<pool, loop, kernel, place, history>>

\* Mutant: the socket is not added to epoll.
attach_subscribe_forgotten(next) ==
    /\ wrk.pc = "subscribe"
    /\ wrk' = [wrk EXCEPT !.pc = next]
    /\ UNCHANGED <<pool, epoll, loop, kernel, place, history>>

attach_subscribe(next) ==
    /\ wrk.pc = "subscribe"
    /\ TRUE \in add_socket(slots[wrk.view].sock)
    /\ epoll' = [epoll EXCEPT ![slots[wrk.view].sock] = Armed(wrk.view)]
    /\ wrk' = [wrk EXCEPT !.pc = next]
    /\ UNCHANGED <<pool, loop, kernel, place, history>>

attach_fails(says) ==
    /\ wrk.pc = "subscribe"
    /\ FALSE \in add_socket(slots[wrk.view].sock)
    /\ release_connection(wrk.view, NetworkTook)
    /\ ReturnError(says)
    /\ UNCHANGED <<sizes, loop, kernel, mishaps>>

Audience == {slots[s].sock : s \in
                {t \in Slots : slots[t].type = "TO_CLIENT" /\ ~Registering(t)}}

\* Mutant: the first connection after the listener is passed over.
start_broadcast_late ==
    wrk' = [wrk EXCEPT !.pc = "broadcast", !.index = 2, !.audience = Audience]

\* send_message to every client connection: one slot after the other.  A
\* failed send resets the entry and releases its slot.
start_broadcast ==
    wrk' = [wrk EXCEPT !.pc = "broadcast", !.index = 1, !.audience = Audience]

BroadcastTo(s) == s < counter /\ slots[s].type = "TO_CLIENT"

broadcast_skip ==
    /\ wrk.pc = "broadcast"
    /\ wrk.index < counter
    /\ ~BroadcastTo(wrk.index)
    /\ wrk' = [wrk EXCEPT !.index = @ + 1]
    /\ UNCHANGED <<engineVars, history>>

broadcast_send ==
    /\ wrk.pc = "broadcast"
    /\ BroadcastTo(wrk.index)
    /\ wrk' = [wrk EXCEPT !.index = @ + 1,
                          !.audience = @ \ {slots[wrk.index].sock}]
    /\ \/ /\ TRUE \in send_message(slots[wrk.index].sock)
          /\ UNCHANGED <<entries, epoll, place, mishaps>>
       \/ /\ FALSE \in send_message(slots[wrk.index].sock)
          /\ release_connection(wrk.index, NetworkTook)
          /\ Overlap(wrk.index)
    /\ UNCHANGED <<sizes, loop, kernel, told, deaf>>

broadcast_end ==
    /\ wrk.pc = "broadcast"
    /\ wrk.index >= counter
    /\ wrk' = Continue
    /\ UNCHANGED <<engineVars, history>>

Broadcast == broadcast_skip \/ broadcast_send \/ broadcast_end

=============================================================================
