# BattleShips: a TLA+ verification project

BattleShips is a small game server in C++23: one *server* process accepts
clients and forks a *lobby* process for every game, clients are handed over to
the lobby as file descriptors, and a *client* process connects the console with
the server.  All three are built from the same parts: lock-free rings,
coroutines, one epoll loop and one worker thread.  The project models those
parts, checks them with TLC on small instances and proves the central facts
with TLAPS for every value of the constants.

Paths below are relative to `src/src/`.

## 1. The system

| Component | State | Operations | Hard because |
|---|---|---|---|
| `core/atomic_queue.h` AtomicQueue | `head_`, `tail_`, a ring of slots with a flag `is_initialized_` | `try_push`, `try_pop`, `wait_for_data` | several producers and consumers, stale pairs of indices, notify_one, 16-bit truncation |
| `core/scheduler.*` Scheduler | task ring, two counting semaphores, tables of executors and coroutines | `push_task`, `try_get_task`, `worker_loop`, `coroutine_loop` | the answer of `try_push` is ignored; permits must not get lost |
| `core/memory_manager.*` MemoryManager | issued index, end of the accessible memory, page permit | `allocate`, `allocate_new_node` | compare-exchange on values read before a wait; sleeping for a change |
| `core/object_pool.*` ObjectPool | `counter`, `available_slots_`, memory pool | `push_to_pool`, `release`, `get_object` | shared by two threads without a lock |
| `net/socket_routine.*` SocketHandler, EpollHandler | descriptor, status, receive coroutine with its buffer, epoll set | receive, send, add/rearm/remove | partial reads, descriptors in control messages, EPOLLONESHOT |
| `net/network_routine.*` NetworkEngine | connection pool, epoll set | event loop, accept, register, receive loop, transfer, broadcast, release | slots reused while tasks for them are under way |
| `core/dispatcher.*` Dispatcher | constant table | `dispatch` | order of the table; every program allows other actions |
| `application/server.*`, `services/lobby_manager.*` | `lobbies_` (id -> control slot, pid) | create, join, chat, general, refuse; find, spawn, attach, kill | failure of one of several steps; stale slots |
| `application/lobby.*` | `lobby_id_`, `parent_view_` | accept socket, set id, chat | as above, in another process |
| `application/client.*`, `io/console_routine.*`, `application/application.*` | raw queues, tag queue, one connection | console and network pipeline, send, reconnect | four threads, two queues per input, reconnection |
| `utility/*` | - | errors, scope guard, logger, config | - |

How they interact.  The *network thread* waits in epoll.  An event of the
listener makes it accept and register connections in the pool; an event of a
connection, disarmed by EPOLLONESHOT, makes it push the connection's slot into
`network_raw_tasks_` and a tag into the tag ring.  The *main thread*
(`coroutine_loop`) takes a tag and resumes the coroutine of that tag, which
turns one raw entry into a task of the scheduler.  The *worker* executes it:
`process_connection` reads messages from the slot until the socket would
block, calls the application's handler for each, and then rearms the socket.
Handlers release slots, register new connections, broadcast to all slots, and
send descriptors to other processes - on the worker, while the network thread
registers connections in the same pool.

What makes it correct: rings lose, duplicate and reorder nothing unless they are
lapped; a task is never refused; memory handed out exists and belongs to one caller; messages
come out of the byte stream whole; the pool's books balance, epoll leads to
the right slot, no descriptor leaks, nobody's command is carried out for
somebody else; every message, client and disconnection is eventually dealt with.
`PROJECT.json` lists the hazards line by line with the properties that watch them.
Some of them the code does not handle: there the model takes the step the code
takes, records it (in `mishaps`, `lapped`, `split`, `deaf`), and the properties
say nothing about what follows.  Such a hazard has no property in the list, or a
note on the part that is excused.

## 2. Modules

| Module | Models | Uses |
|---|---|---|
| `AtomicQueue` | the ring, one action per atomic access of `try_push`, `try_pop`, `wait_for_data` | |
| `QueueClients` | threads that use a ring without a scheduler; the variable `use` says which: the tag ring (`tags`) or `available_slots_` (`slots`) | `AtomicQueue` |
| `Scheduler` | main's `push_task` and the worker's loop over the ring and its semaphores | `AtomicQueue` |
| `TaskFifo` | abstract specification: a bounded FIFO of tasks | |
| `MemoryPool` | `AllocatorPool::allocate` by any number of threads | |
| `SocketReceive` | a connection byte by byte: messages sent whole or in part, and the receive coroutine, over TCP or a SEQPACKET pair | |
| `NetworkEngine` | pool, epoll, network thread, receive loop, attach, broadcast | |
| `Dispatcher` | the table of actions, first match, what each program lets through | |
| `Server` | the server's handlers and `LobbyManager` | `NetworkEngine`, `Dispatcher` |
| `Lobby` | the lobby's handlers, its id and its greetings | `NetworkEngine`, `Dispatcher` |
| `Handover` | the server and a lobby process it has started, over one kernel | `Server`, `Lobby` (INSTANCE) |
| `Client` | start-up, console, network, main and worker threads of the client | `Dispatcher` |
| `SchedulerProofs`, `QueueClientsProofs`, `MemoryPoolProofs`, `SocketReceiveProofs`, `ServerProofs`, `LobbyProofs`, `ClientProofs`, `HandoverProofs` | theorems about the module of that name; the first two begin with the arithmetic of the ring, which indices share a slot | |
| `MC*` | constants for TLC | |

Definitions keep the names of the functions they model; the map in
`PROJECT.json` gives the lines.  An operator whose comment begins with
"Mutant" is a plausible mistake in the definition that follows it; it is used
only to show that a property notices the mistake.

**Rings.**  `pc[t]` is the point of a thread between two atomic accesses.  The
object of a slot is a plain member; `OneThreadPerSlot` says that two threads are
never at it at once, and that no two sleep on one slot's flag.  The second half
is what lets atomic wait and notify be modelled as a wait for the value of the
flag: `notify_one` cannot wake the wrong thread.  Outside the scheduler nobody
asks for room before a push (`core/object_pool.h:53`, `io/console_routine.cpp:16`,
`net/network_routine.cpp:342`), and the ring's full test is no protection: at the
last slot it never holds, and the push claims a slot that is still taken and
blocks.  `QueueClients` lets threads push whenever they like and records in
`lapped` that a push has claimed the slot of a pop that is not finished.  From
then on the pop's second clear may erase the flag of the newer element, and the
properties promise nothing; TLC reaches such states.  With the code's 4096 slots
this takes 4096 entries at once, or a pop that stalls for as many pushes; the code
does not rule it out.
A push may also be refused when the ring has room, if another thread moves `tail`
between its two loads (`RefusedWithCause`).  `NarrowLimit` stands for 2^16, the
range of the `uint16_t` in which `wait_for_data` keeps the head.

**Scheduler.**  One producer (main) and one worker, which is what
`run_workers` starts.  `Permits < RingSize`, as 4095 < 4096 in the code.

**MemoryPool.**  Addresses count chunks.  `mprotect` and the move of the end
are two steps; `wait` is a comparison, a sleep and a wake-up.  `deallocate` has
no caller, so the ring of free indices is always empty.

**SocketReceive.**  Bytes are positions in the peer's stream; `sent` holds, for
every message, the position after the last byte `sendmsg` took of it.  When a round
ends inside a payload the code forgets the header it has consumed; the model
records this in `split`, and from then on every header has an arbitrary value.
On a non-blocking TCP socket `sendmsg` may take a part of a message; the code
takes the answer for success and never sends the rest, so the next message
begins where the last one broke off.  The bound `MaxShort` limits how often.
On a SEQPACKET pair (`lobby_manager.cpp:28`) each `recvmsg` returns one
message.

**NetworkEngine.**  A connection has a slot, an epoll entry (slot, armed) and
kernel state: `inbox`, `eof`, and `place`, which says who holds it.  The way of
a slot to the worker is one FIFO, justified by the theorems on the scheduler
and, for the tags, by `Client`.  In server and lobby the network thread is the only
producer of raw slots and tags, and EPOLLONESHOT queues a connection once at
most: a push there is refused (`RefusedWithCause`) or laps the ring only with some
4095 connections pending at once, which is left out.  Releasing a connection is one step: the
entry is empty before its slot is given back, so nobody can see it in between.
`ObjectPool::release` ignores the answer of `try_push`: if the network thread
has given back and taken a slot between the two loads of the worker's push (or the
worker between those of the network thread's), the push is refused and the slot is
never used again.  `give_back` has this outcome too, and `lost` keeps the slots.
Registration on the network thread is split where the worker can see it: the
type before the socket, the load before the store of `counter`.  The receive
coroutine hands out whole messages (their framing is `SocketReceive`).

`mishaps` records the first occurrence of a hazard after which the C++ state is
no longer determined by the program text, or after which a documented weakness
has struck: *overlap* (the worker uses a slot that the network thread is
filling), *stale* (a join uses the slot of a lobby that has died), *unsaved*
(a transfer's slot is released twice), *unlistening* (accept failed and the
listener is not rearmed), *miscounted* (an increment of `counter` is lost).
The safety properties of the server hold **until the first mishap**, and the
run `server_pool` stops exploring there, at the end of the handler that has caused
it (`CONSTRAINT NoMishap`; the other runs have no constraint).  They say that without one of these five, and apart from the
slots in `lost`, nothing goes wrong with the pool.  They do not say that the
mishaps cannot happen: TLC reaches each of them, and what the code does after one
is not examined, except in `Handover`, whose invariants do not mention mishaps.

`Server` splits `transfer` at the points where another process can run: the
socket leaves epoll (`transfer`), the descriptor is sent (`send_socket`), and the
scope guard resets the entry and gives the slot back (`let_go`).  If the message
cannot be sent, the control connection is released (`send_socket_fails`) and the
client subscribed again (`resubscribe`), or released twice (`resubscribe_fails`,
`release_again`).

**Lobby.**  The root connection is the control socket, no listener exists, and
only the worker registers: no mishap is possible, and the properties are stated
without that condition.  A descriptor may be lost on the way (`server_transfer`);
the lobby then sends a message of type ERROR to the server (`accept_nothing`), which
takes it for a command it does not know and answers (`server_answers`; in
`Handover` the server's own `execute_general`).  The lobby refuses that answer, and
its control socket is not rearmed.  `lobby_id` is 0 until the server's message has come,
and `greeted` records the code each client was told.

**Handover.**  The server's state keeps its names, the lobby's has the prefix
`l_`, and the kernel (`inbox`, `eof`, `sent`) is shared.  A step of one process
leaves the other's variables alone; what the server sends on its end of the
control socket is in the inbox of the lobby's end, and a descriptor in flight
is a client whose place is "backlog" in the lobby.  Between `hand_over`, which
sends it, and `let_go` both processes have the connection, and the lobby may
attach, greet and serve the client while the server's slot still holds it.  The
clients start connected and registered, so there are no more of them than
slots.  `MaxFaults` bounds clients that leave and the death of the lobby.
`maker` is a history variable, the client whose command has started the lobby:
`Creator` asks first, but any client may ask, and `ToldItsCode` excuses only a
lobby whose maker was told that it failed.

**Client.**  `setup_client`, `init_epoll`, `init_network` and the registration
of the coroutines come first.  `main/client.cpp` ignores the answer of `init`:
after a failure the three threads run all the same, and the first tag resumes
a handle nobody has stored, which ends the process.  A send fails when the
server has closed or when the socket is full.  The three rings are FIFOs whose
`TryPush` queues the element, or refuses it: when one slot is left (and it is not
the last of the ring), or at any time in the tag ring, whose two producers may
make each other's `tail` stale.  A push that finds all slots taken is not
refused: it laps the ring and blocks (`console_laps`, `network_laps`).  Both are
recorded because the callers ignore them.  Every
connection is a socket of its own; `reset_base_connection` puts a new one into
slot 0 without adding it to epoll and without closing the old one.

## 3. Runs

With two workers every run takes less than four minutes.

| Run | Bounds | Shows |
|---|---|---|
| `queues` | 2 producers and main's wait and pop (5 pushes), or the 2 push and pop (3 pushes); ring of 2, lapped in some behaviours | `FifoDelivery`, `OneThreadPerSlot`; `WaitSeesTheHead`: the truncated head names the slot of the head; `EveryElementPopped`, `RefusedWithCause`, `PushLockFree` |
| `scheduler` | ring of 4, 3 permits, 7 tasks | no refused task, no empty-handed worker, disjoint slots, order; implements `TaskFifo`; `ProducerUnblocked` |
| `memory_pool` | 3 threads, nodes of 2 chunks, 3 chunks | `ChunksExclusive`, `ChunksBacked`, `AllocateReturns` |
| `receive` | 4 messages over TCP in pieces of any length, one of them possibly sent in part, or 5 on a socket pair; header 2, buffer 6 | `FramesIntact`, `SocketWithItsMessage`, `ClosedOnlyByPeer`, `AllDelivered` |
| `server_pool` | 2 clients with 2 commands and 1, 2 lobbies with one code, failing calls | `SlotsAccounted`, `EventsFindTheirSlot` (no descriptor leaks either), `CommandOfItsSender`, `BroadcastReachesAll` |
| `server_progress` | 2 clients, one with 2 messages and one with 1, 1 lobby, fair threads | `MessagesServed`, `ClientsAdmitted`, `DisconnectsReclaimed` |
| `lobby` | 3 clients, one of which chats twice, failing calls, lost descriptors, fair threads | `LobbyAccounted`, `ChatOfItsSender`, `PoolGrowsOnlyWhenFull`, `ClientsGreeted`, `LeaversReclaimed` |
| `handover` | 2 clients, the creator with 2 messages and the other with 1, 1 fault, a slow control socket, failing calls and lost descriptors, fair threads of both processes | `OneProcessPerClient`, `ToldItsCode`, `HandedOverGreeted`, `MessagesFollow` |
| `client` | 3 lines, 2 messages, rings of 2, 1 reconnection, fair threads | `SlotServedOnce`, `EveryEntryTagged`, `LinesInOrder`, `LinesHandled`, `ServerHeard` |
| `try_again` | 1 client, 2 joins | **violated**: see findings |
| `stale_lobby` | 2 clients, 1 lobby | **violated**: see findings |
| `reconnected` | 1 line, 1 answer | **violated**: see findings |

Why the bounds are enough for the cases of interest.  A ring of 2 to 4 slots
wraps several times in a run, so a thread meets slots of an earlier lap and the
full test at every position.  Two clients are the least number for which one
can take over the slot of the other; three for a task still queued for a slot
that a third client has taken over (`lobby`).  Two messages are the least for
which one stays behind in the receive buffer, or arrives when the socket is
disarmed and depends on the rearming.  `PushLockFree` and the other liveness
properties hold on runs of bounded length: that a thread does not lose the race
for `tail` for ever is not claimed.  Two chunks per node make a node run out while
another thread still grows it.  With nodes of a single chunk `AllocateReturns`
fails: a thread may sleep for a growth that only it would need.  The code has
2048 chunks to a node, and the argument needs two.  A buffer of three headers lets a payload be larger
than the buffer, fill it exactly, or be cut anywhere.

Deadlock is not checked where the program rests when nobody talks to it.

### Fairness

Weak fairness of each thread's steps: the threads are `std::thread`s
(`core/scheduler.h:46`, `core/scheduler.cpp:23`) and the main thread, which
block only on semaphores, atomics, epoll or recvmsg, and a step that stays
possible is eventually taken.  Nothing is assumed of clients, peers, lines
typed or failing calls, and there is no strong fairness.  `Handover` has the
same fairness for the threads of both processes, and for the arrival of a close
at the other end of the control socket, which is the kernel's duty.  In `Server` and
`Lobby` a progress property excuses connections in `deaf`, those the receive
loop has left unarmed after a handler's error: what is lost there is the
subject of the run `try_again`.

## 4. Findings

* **try_again** (`net/network_routine.cpp:398`).  A handler that keeps the
  connection and returns an error makes the receive loop return without
  rearming the EPOLLONESHOT socket.  The client has been told to "try again"
  (`utility/error.cpp:28`), and nothing it sends afterwards is read.
* **stale_lobby** (`services/lobby_manager.cpp:16`).  Nothing is ever erased
  from `lobbies_`.  The code of a lobby that has died is found, and the
  client's descriptor is sent to whatever its slot holds now.
* **reconnected** (`application/client.cpp:113`).  After "Succesfully
  reconnected to Server" the new socket is not in epoll; the server's answers
  are not read, unless an event of the old socket happens to wake the worker.

## 5. Proofs

All theorems hold for every value of the constants allowed by the named
assumptions of the modules, which TLC evaluates in every run: `RingAssumption`,
`ItemAssumption`, `SchedulerAssumption`, `PoolAssumption`, `ReceiveAssumption`,
`EngineAssumption`, `LobbyAssumption`, `MessageAssumption`,
`HandoverAssumption`, `ClientMessages`, and the
`ClientAssumption`s of `QueueClients` and `Client`.  Three of them say something
about the program: fewer permits than slots (`SchedulerAssumption`; 4095 and
4096), no descriptor in a client's message (`MessageAssumption`; TCP
carries none), and that a client sends only actions of the scope `BROADCAST`
(`ClientMessages`; `application/client.cpp:79-91`).

**`SchedulerProofs`**.  The
inductive invariant `IInv` consists of: the accounting of permits (every permit
is free, held by main, or spent on a task in the ring; every task in the ring is
announced, in the worker's hands, or main's); the positions the threads
remember; the contents of the ring by absolute index; what the threads hold;
and the history.  The properties alone are not inductive: that `try_push`
never refuses follows only from the accounting (tail - head stays below the
number of permits), and that the worker's second clear of `is_initialized_`
hits nobody's object follows from the permit being returned after it.
`NormDistinct` turns distances below the ring size into different slots.

* `TypeCorrect`: the types of all variables.
* `NeverRejected`, `NeverEmptyHanded`, `SlotsNeverShared`,
  `FifoExecution`: invariants that the run `scheduler` checks.
* `RefinesFifo`: every step is a step of `TaskFifo` or leaves it unchanged.

**`QueueClientsProofs`**: the ring without semaphores, with any number of
producers and consumers.  What a thread may do depends on the absolute index it
has claimed, not on the slot it sees.  `Owners`: an index that is claimed belongs to one pusher and one popper at most,
and a popper that comes first waits for its pusher.  `Room`: all indices in use
lie within one lap of the oldest pop that is not finished.  Nothing in the
callers guarantees this, so it is no assumption: the theorem behind the others is
`Spec => [](lapped \/ IInv)`, and `lapped` is set by the step that breaks `Room`.
`Flags` and `Objects`: within that lap, the flag
of a slot says whether the element of its index is published, and the object is
that element.  `NormDistinct` turns indices less than a lap apart into different
slots.  Theorems `DeliveredInOrder`, `SlotsExclusive`, `WaitIsReliable` for the
single consumer that waits first, and `RefusalsExplained`: if the loaded `tail` is
still the tail, the full test compares true distances, and those below a lap
determine the slots.

**`MemoryPoolProofs`**.  `IInv`: at most one holder of the permit
(`PermitHeld`), `mprotect` ahead of the end (`Opened`), a thread's locals
remain bounds (`LocalsCurrent`: whoever reaches the compare-exchange has seen
the end pass its chunk, whether it grew the memory or waited), issued chunks
lie below the index (`IssuedBelow`).  Theorems `Exclusive`, `Backed`,
`NeverPastTheMemory`.

**`SocketReceiveProofs`**.  `LivePeersKept`: whenever `recvmsg` is called there
is room in the buffer (`RoomLeft`): a round leaves less than a header, or has
consumed one.  This part (`BufferInv`) uses nothing about the meaning of the
bytes, so it covers misread headers.  For the meaning, either the framing is
lost (`Broken`: a header forgotten or a message sent in part), or the coroutine
is `OnTrack`: it stands at the start of the message after the last one
delivered, or behind that message's header.  `Held` adds that on a SEQPACKET
pair a round holds the bytes of one message.  Theorems `FramesComeOutWhole` and
`SocketsComeWithTheirMessages`.

**`ClientProofs`**.  Tags and entries are counted: `EveryEntryTagged` is
inductive with the points of the three threads, once pushing to, taking from
and counting in a queue are related (`PlacesAppend`, `PlacesTail`: bijections and
the cardinality theorems of the library).  `SlotServedOnce` needs `ArmedIdle`:
a socket is armed only while nothing of slot 0 is queued or in hand.
`LinesInOrder` is a chain of increasing line numbers through what the server has
got, the worker has in hand, the task queue, the raw queue and the console
(`Chain`).  Theorems `NoEntryStranded`, `OneServant`, `LinesArriveInOrder`.

**`LobbyProofs`**.  The worker alone changes the pool of a lobby, so a slot it
has found alive stays so (`Work`).  `Pool`, `Entries`, `Held`, `Registered` are the
books: free slots, entries, sockets, epoll.  They are not inductive alone: a
client named by two messages would be put into two slots.  `Handed` says that
the messages on the way (kernel, buffer, worker) bring different clients,
each of which still waits, and `Mailed` that only the server's messages bring
any.  Theorems `BooksBalance`, `NobodySpeaksForAnother`, and the action
property `GrowsOnlyWhenFull`.

**`ServerProofs`**.  In the server two threads change the pool, and the
properties are about the time until the first mishap, so the inductive invariant
is `IInv == Backlog /\ (mishaps = {} => Good)`: `mishaps` only grows, and a step
from `Good` that adds none leads to `Good` (`StepGood`).  `Backlog` says that
finitely many clients wait to be accepted at any time, mishap or not, so that
the pass that accepts them all is a finite sequence even when the set of clients
is not (`BacklogStep`).  `Pool`, `Entries`, `Held`,
`Registered` are the books as in the lobby, with the slots that the network thread
is filling (`Registering`) counted as busy, and those whose release was refused
(`lost`) as taken by nobody.  `Accepted` says what that thread
has in hand: the accepted connections, each in no slot but the first, which is in
the one being filled.  `Work` says what the worker has: a slot it found alive
that the network thread is not filling, and a message of the client in
it.  That neither thread can spoil what the other knows is one lemma
(`WorkerUndisturbed`) for the steps of the network thread, and for the worker
that a control socket or a counted client is in no slot being filled
(`ControlSlot`, `TypedIsBusy`); a worker that does use one has caused a
mishap.  `Counted` relates `counter` to the slots issued: it lags by one for each
thread between the load and the store, and while the network thread is there no
other client is in the last slot, which is why a broadcast bounded by `counter`
misses nobody (`ClientCounted`).  Theorems `PoolBooksBalance`,
`EventsReachTheirSlot`, `CommandsAreTheSenders`, `BroadcastIsComplete`.

**`HandoverProofs`**: both processes over one kernel, mishaps included, for any
number of clients, messages, codes and slots and any faults.  A client
reaches the lobby only as a descriptor on the control socket.  `Came`, the
clients that were ever sent, grows in one step, `hand_over`, after which the
client is still in a slot of the server.  `Moved` says that whoever came has left
the server, or is the client the worker is about to let go of (`Leaving`), and
`Work` that the worker has taken it out of epoll before.  `OneProcessPerClient`
alone is not inductive: it needs that everything the lobby knows of a client -
descriptors in the kernel and in the buffer, the worker's locals, slots - is in
`Came` (`Post`, `LobbyHomes`, `LobbyWork`), that a client is in at most one slot
of the server and epoll leads there (`Homes`, `Registered`), and that no client
enters the server again (`Quiet`).  For `ToldItsCode`, `Control` says that the
code leads to the lobby's slot or to an empty one, so no other process is ever
sent a client under it.  `Silent` says that nothing is on the control socket
before the id, `Owned` that the server cannot hear, and so not answer, a lobby
that has no code yet, and `IdFirst` that until the lobby has its id (or the maker
was told of the failure) the id is the next message of the server it will handle,
wherever it is: kernel, buffer or worker.  No client is attached before, hence
none is greeted before.  The server and the lobby are treated one after the other: a step
of one leaves the other's part alone, except through `inbox`, `eof` and `Came`.
Theorems `HandoverOneProcess`, `HandoverToldItsCode`.

Only model-checked: the liveness properties (`AllDelivered`, `MessagesServed`,
`ClientsGreeted`, `LinesHandled` and the others), since TLAPS does not reason
about fairness.  Every invariant and every action property that a passing run
checks is stated by a theorem.

## 6. Not modelled

* Logger, Config and the text of errors: input and output no property is about.
* Code nothing calls: `deferred_actions`, `interfaces`, `modules`,
  `SchedulerAwaiter`, `wait_for_space`, `deallocate` (the ring of free indices
  is therefore always empty), the ring buffer allocator, `receive_message`,
  `get_view_by_type`, `handle_zombie_pocesses`.
* `bind` and `listen` of the listener, and `main.cpp`, which starts a server or
  a lobby and stops when `init` fails; `main/lobby.cpp` is not built into a
  program.
* Fork and exec, beyond the appearance of a peer or of the lobby process; the
  descriptors a lobby inherits from the server, among them the control sockets
  of earlier lobbies, so that the death of one of them may go unnoticed.
* The limit of 4097 slots: an exhausted memory pool makes `push_to_pool`
  dereference an empty optional.  The runs stay below `MaxSlots`.
* The game itself (boards, ships, turns) does not exist in the source yet.

## 7. Plan

Done, in this order: rings and scheduler, server over the network engine,
memory pool, receive coroutine, client with dispatcher, lobby; proofs of the
scheduler, the memory pool and the receive coroutine; then the hand-over of a
client between server and lobby, messages sent in part, and the start of the
client; then proofs of the rings with many threads, the framing of messages,
the client, the lobby and the server; then proofs about the hand-over: a
connection belongs to one process, and a lobby knows its code before its first
client.

Next:

1. An abstract specification of the connection pool (a set of connections, each
   admitted, served and let go), and `Lobby` shown to implement it.
2. Several lobbies in `Handover`, with the descriptors that fork passes on.
