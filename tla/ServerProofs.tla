----------------------------- MODULE ServerProofs -----------------------------
(***************************************************************************)
(* Proofs about module Server, for any number of clients, lobbies, codes,  *)
(* messages and slots.  Two threads change the pool.  Until the first      *)
(* mishap they do not get in each other's way: the slots the network       *)
(* thread fills (Registering) are not free and not yet known to epoll, and *)
(* the worker finds them empty or, using one, causes a mishap; the slots   *)
(* the worker has found alive are released by nobody else.  Good is the    *)
(* inductive invariant for as long as mishaps is empty.                    *)
(***************************************************************************)
EXTENDS Server, FiniteSetTheorems, TLAPS

\* What the peer of c may have sent: a lobby sends nothing but complaints.
Mail(c) ==
    IF c \in Clients THEN {From(c, m) : m \in Messages}
    ELSE {[action |-> "GeneralAction", from |-> c]}

AnyMail == {NoMessage} \cup UNION {Mail(c) : c \in Conns}

WorkerPoints ==
    {"idle", "check", "receive", "handle", "rearm", "attach", "count",
     "subscribe", "enlist", "send_id", "transfer", "send_socket", "let_go",
     "resubscribe", "broadcast"}

NetPoints == {"wait", "register", "assign", "assign_socket", "count", "subscribe"}

Locals ==
    [pc : WorkerPoints, slot : Slots \cup {NoSlot}, msg : AnyMail,
     view : Slots \cup {NoSlot}, code : Codes \cup {0}, ctrl : Conns \cup {NoConn},
     index : Nat, count : Nat, audience : SUBSET (Conns \cup {NoConn})]

NetLocals ==
    [pc : NetPoints, slot : Slots \cup {NoSlot}, todo : Seq(Clients), count : Nat]

EntryType ==
    [type : {"NONE", "TO_CLIENT", "TO_LOBBY"}, sock : Conns \cup {NoConn},
     status : {"EMPTY", "ALIVE"}]

Watch == [slot : Slots \cup {NoSlot}, armed : BOOLEAN]

Places == {"new", "backlog", "held", "gone", "moved"}

\* The types of the variables the proofs are about.
TypeOK ==
    /\ slots \in [Slots -> EntryType]
    /\ buffer \in [Slots -> Seq(AnyMail)]
    /\ free \in Seq(Slots)
    /\ lost \in SUBSET Slots
    /\ next_index \in 1 .. MaxSlots + 1
    /\ counter \in Nat
    /\ epoll \in [Conns -> Watch]
    /\ tasks \in Seq(Slots)
    /\ net \in NetLocals
    /\ wrk \in Locals
    /\ inbox \in [Conns -> Seq(AnyMail)]
    /\ place \in [Conns -> Places]
    /\ lobbies \in [Codes -> {NoLobby} \cup [slot : Slots, ctrl : Controls]]

\* Slot s holds a connection; and those that do or will do in a moment.
InUse(s) == slots[s].sock # NoConn
Busy == {s \in Slots : InUse(s) \/ Registering(s)}

\* The books of a pool that has issued the slots below n: those not in B are
\* in the queue q, each once.
Books(q, n, B) ==
    /\ \A i, j \in 1 .. Len(q) : q[i] = q[j] => i = j
    /\ \A i \in 1 .. Len(q) : q[i] < n /\ q[i] \notin B
    /\ \A s \in Slots : s < n /\ s \notin B => \E i \in 1 .. Len(q) : q[i] = s
    /\ \A s \in B : s < n

\* A slot whose push was refused is not in the queue either.
Taken == Busy \cup lost

Pool == Books(free, next_index, Taken) /\ Busy \cap lost = {}

\* A connection is a client's or a lobby's; the receive buffer of a slot
\* without one is empty, and only the network thread sees an entry half done.
Complete(e) ==
    \/ e.sock \in Clients /\ e = Entry("TO_CLIENT", e.sock)
    \/ e.sock \in Controls /\ e = Entry("TO_LOBBY", e.sock)

Entries ==
    \A s \in Slots :
        /\ InUse(s) => Complete(slots[s])
        /\ ~InUse(s) => slots[s].status = "EMPTY" /\ buffer[s] = <<>>
        /\ s \notin Busy => slots[s] = EmptyEntry

\* The connections the network thread has accepted and not yet registered;
\* the first of them is in its slot at the end.
Filled == net.pc \in {"count", "subscribe"}

Accepted ==
    /\ \A i, j \in 1 .. Len(net.todo) : net.todo[i] = net.todo[j] => i = j
    /\ \A i \in 1 .. Len(net.todo) : place[net.todo[i]] = "held"
    /\ net.pc = "wait" => net.todo = <<>>
    /\ net.pc \notin {"wait", "register"} => net.slot \in Slots /\ net.todo # <<>>
    /\ Filled => slots[net.slot].sock = Head(net.todo)
    /\ net.pc \in {"assign", "assign_socket"} => ~InUse(net.slot)
    /\ net.pc = "assign_socket" => slots[net.slot].type = "TO_CLIENT"
    /\ \A i \in 1 .. Len(net.todo) : \A s \in Slots :
           slots[s].sock = net.todo[i] => Filled /\ i = 1

\* Connection c is in a slot, or in the hands of a thread that will put it there.
Homed(c) ==
    \/ \E s \in Slots : slots[s].sock = c
    \/ \E i \in 1 .. Len(net.todo) : net.todo[i] = c
    \/ wrk.pc = "attach" /\ wrk.ctrl = c

\* The pool holds open sockets, each once, and none is lost.
Held ==
    /\ \A s \in Slots : InUse(s) => place[slots[s].sock] = "held"
    /\ \A s, t \in Slots : slots[s].sock = slots[t].sock /\ InUse(s) => s = t
    /\ \A c \in Conns : place[c] = "held" => Homed(c)

\* Epoll leads to the slot of the socket, and reports only sockets it has.
Registered ==
    \A c \in Conns :
        /\ epoll[c].slot # NoSlot => slots[epoll[c].slot].sock = c
        /\ epoll[c].armed => epoll[c].slot # NoSlot

\* The worker has found its slot alive; it answers a message; it creates a
\* lobby.
InHand == wrk.pc \notin {"idle", "check", "broadcast"}
Answering == InHand /\ wrk.pc \notin {"receive", "rearm", "resubscribe"}
Creating == wrk.pc \in {"attach", "count", "subscribe", "enlist", "send_id"}

\* What the worker's locals mean at each point of the handlers.
Work ==
    /\ wrk.pc # "idle" => wrk.slot \in Slots
    /\ InHand => InUse(wrk.slot) /\ ~Registering(wrk.slot)
    /\ Answering => wrk.msg \in Mail(Pending)
    /\ Answering /\ wrk.pc # "handle" => Pending \in Clients
    /\ Creating => wrk.ctrl \in Controls
    /\ wrk.pc = "attach" =>
           /\ place[wrk.ctrl] = "held"
           /\ \A s \in Slots : slots[s].sock # wrk.ctrl
    /\ Creating /\ wrk.pc # "attach" =>
           wrk.view \in Slots /\ slots[wrk.view].sock = wrk.ctrl
    /\ wrk.pc \in {"send_id", "transfer", "send_socket", "resubscribe"} =>
           wrk.code \in Codes /\ lobbies[wrk.code] # NoLobby
    /\ wrk.pc \in {"transfer", "send_socket"} => wrk.view \in Slots
    /\ wrk.pc \in {"send_socket", "let_go"} => epoll[Pending] = Absent
    /\ wrk.pc = "broadcast" => wrk.index >= 1

One(condition) == IF condition THEN 1 ELSE 0

\* counter lags behind by the slots that are issued and not yet counted; while
\* the network thread's is not, no client is in the last slot but its own.
Counted ==
    /\ counter + One(net.pc = "count") + One(wrk.pc = "count") = next_index
    /\ net.pc = "count" =>
           net.slot = next_index - 1 \/ slots[next_index - 1].type # "TO_CLIENT"

\* A connection's messages are its peer's, in the kernel and in the buffer.
Mailed ==
    /\ \A c \in Conns : inbox[c] \in Seq(Mail(c))
    /\ \A s \in Slots : InUse(s) => buffer[s] \in Seq(Mail(slots[s].sock))

\* Whom the broadcast has not reached yet is in a slot it has not reached yet.
Reached ==
    wrk.pc = "broadcast" =>
        \A c \in wrk.audience :
            \E s \in Slots :
                /\ wrk.index <= s
                /\ slots[s].sock = c
                /\ slots[s].type = "TO_CLIENT"
                /\ ~Registering(s)

Good ==
    /\ TypeOK /\ Pool /\ Entries /\ Accepted /\ Held
    /\ Registered /\ Work /\ Counted /\ Mailed /\ Reached

\* Finitely many clients wait to be accepted, however many there will be.
Backlog == place \in [Conns -> Places] /\ IsFiniteSet(Waiting)

\* The inductive invariant.
IInv == Backlog /\ (mishaps = {} => Good)

-----------------------------------------------------------------------------
(* The books of the pool                                                   *)

\* A slot in use is given back.
LEMMA BooksRelease ==
    ASSUME NEW q \in Seq(Slots), NEW n \in Nat, NEW B, Books(q, n, B),
           NEW s \in Slots, s \in B
    PROVE  Books(Append(q, s), n, B \ {s})
<1> DEFINE r == Append(q, s)
<1>1. /\ Len(q) \in Nat
      /\ Len(r) = Len(q) + 1
      /\ \A i \in 1 .. Len(q) : r[i] = q[i]
      /\ r[Len(q) + 1] = s
  OBVIOUS
<1>2. \A i \in 1 .. Len(r) : i \in 1 .. Len(q) \/ i = Len(q) + 1
  BY <1>1
<1>3. \A i \in 1 .. Len(q) : i \in 1 .. Len(r)
  BY <1>1
<1>4. Len(q) + 1 \in 1 .. Len(r)
  BY <1>1
<1> HIDE DEF r
<1>5. \A i \in 1 .. Len(q) : q[i] # s
  BY DEF Books
<1>6. \A i, j \in 1 .. Len(r) : r[i] = r[j] => i = j
  BY <1>1, <1>2, <1>5 DEF Books
<1>7. \A i \in 1 .. Len(r) : r[i] < n /\ r[i] \notin B \ {s}
  BY <1>1, <1>2 DEF Books
<1>8. \A t \in Slots : t < n /\ t \notin B \ {s} => \E i \in 1 .. Len(r) : r[i] = t
  BY <1>1, <1>3, <1>4 DEF Books
<1>9. \A t \in B \ {s} : t < n
  BY DEF Books
<1> QED
  BY <1>6, <1>7, <1>8, <1>9 DEF Books, r

\* A slot is taken out of the queue.
LEMMA BooksTake ==
    ASSUME NEW q \in Seq(Slots), NEW n \in Nat, NEW B, Books(q, n, B), q # <<>>
    PROVE  /\ Head(q) \in Slots /\ Head(q) \notin B /\ Head(q) < n
           /\ Tail(q) \in Seq(Slots)
           /\ Books(Tail(q), n, B \cup {Head(q)})
<1> DEFINE r == Tail(q)
           s == Head(q)
<1>1. /\ Len(q) \in Nat /\ Len(q) >= 1
      /\ r \in Seq(Slots)
      /\ Len(r) = Len(q) - 1
      /\ \A i \in 1 .. Len(q) - 1 : r[i] = q[i + 1]
      /\ s = q[1] /\ s \in Slots
  OBVIOUS
<1>2. /\ \A i \in 1 .. Len(q) - 1 : i + 1 \in 1 .. Len(q) /\ i + 1 # 1
      /\ \A i, j \in 1 .. Len(q) - 1 : i + 1 = j + 1 => i = j
      /\ 1 \in 1 .. Len(q)
      /\ \A i \in 1 .. Len(q) : i # 1 => i - 1 \in 1 .. Len(q) - 1 /\ i = (i - 1) + 1
  BY ONLY <1>1
<1> HIDE DEF r, s
<1>3. s \notin B /\ s < n
  BY <1>1, <1>2 DEF Books
<1>4. \A i, j \in 1 .. Len(r) : r[i] = r[j] => i = j
  BY <1>1, <1>2 DEF Books
<1>5. ASSUME NEW i \in 1 .. Len(r)
      PROVE  r[i] < n /\ r[i] \notin B \cup {s}
  <2>1. i + 1 \in 1 .. Len(q) /\ i + 1 # 1 /\ r[i] = q[i + 1]
    BY <1>1, <1>2
  <2> QED
    BY <2>1, <1>1, <1>2 DEF Books
<1>6. ASSUME NEW t \in Slots, t < n, t \notin B \cup {s}
      PROVE  \E i \in 1 .. Len(r) : r[i] = t
  <2>1. PICK i \in 1 .. Len(q) : q[i] = t
    BY <1>6 DEF Books
  <2>2. i # 1
    BY <2>1, <1>1, <1>6
  <2>3. i - 1 \in 1 .. Len(q) - 1 /\ i = (i - 1) + 1
    BY <2>2, <1>2
  <2> QED
    BY <2>1, <2>3, <1>1
<1>7. \A t \in B \cup {s} : t < n
  BY <1>3 DEF Books
<1> QED
  BY <1>1, <1>3, <1>4, <1>5, <1>6, <1>7 DEF Books, r, s

\* A slot is issued.
LEMMA BooksGrow ==
    ASSUME NEW q \in Seq(Slots), NEW n \in Nat, NEW B, Books(q, n, B), n \in Slots,
           B \subseteq Slots
    PROVE  /\ n \notin B
           /\ Books(q, n + 1, B \cup {n})
<1>1. \A s \in Slots : s \in Nat /\ (s < n + 1 <=> s < n \/ s = n) /\ ~(n < n)
  BY EngineAssumption DEF Slots
<1>2. n \notin B
  BY <1>1 DEF Books
<1>3. \A i \in 1 .. Len(q) : q[i] \in Slots
  OBVIOUS
<1>4. \A i \in 1 .. Len(q) : q[i] < n + 1 /\ q[i] \notin B \cup {n}
  BY <1>1, <1>3 DEF Books
<1>5. \A s \in Slots : s < n + 1 /\ s \notin B \cup {n} =>
          \E i \in 1 .. Len(q) : q[i] = s
  BY <1>1 DEF Books
<1>6. \A s \in B \cup {n} : s < n + 1
  BY <1>1 DEF Books
<1> QED
  BY <1>2, <1>4, <1>5, <1>6 DEF Books

\* What release does with the slot: it is pushed, or the push is refused.
GivenBack(s) ==
    \/ free' = Append(free, s) /\ lost' = lost
    \/ free' = free /\ lost' = lost \cup {s}

LEMMA PoolRelease ==
    ASSUME TypeOK, Pool, NEW s \in Slots, s \in Busy, GivenBack(s),
           next_index' = next_index, Busy' = Busy \ {s}
    PROVE  free' \in Seq(Slots) /\ lost' \in SUBSET Slots /\ Pool'
<1>1. /\ free \in Seq(Slots) /\ next_index \in Nat /\ lost \in SUBSET Slots
      /\ Books(free, next_index, Taken) /\ s \in Taken /\ s \notin lost
      /\ Busy' \cap (lost \cup {s}) = {}
  BY DEF TypeOK, Pool, Taken
<1>2. CASE free' = Append(free, s) /\ lost' = lost
  <2>1. Taken' = Taken \ {s}
    BY <1>1, <1>2 DEF Taken
  <2>2. Books(Append(free, s), next_index, Taken \ {s})
    BY <1>1, BooksRelease
  <2>3. Append(free, s) \in Seq(Slots)
    BY <1>1
  <2> QED
    BY <2>1, <2>2, <2>3, <1>1, <1>2 DEF Pool
<1>3. CASE free' = free /\ lost' = lost \cup {s}
  <2>1. Taken' = Taken
    BY <1>1, <1>3 DEF Taken
  <2> QED
    BY <2>1, <1>1, <1>3 DEF Pool
<1> QED
  BY <1>2, <1>3 DEF GivenBack

LEMMA PoolTake ==
    ASSUME TypeOK, Pool, free # <<>>
    PROVE  /\ Head(free) \in Slots /\ Head(free) \notin Busy /\ Head(free) \notin lost
           /\ Tail(free) \in Seq(Slots)
           /\ Books(Tail(free), next_index, Taken \cup {Head(free)})
<1>1. free \in Seq(Slots) /\ next_index \in Nat /\ Books(free, next_index, Taken)
  BY DEF TypeOK, Pool
<1>2. /\ Head(free) \in Slots /\ Head(free) \notin Taken /\ Tail(free) \in Seq(Slots)
      /\ Books(Tail(free), next_index, Taken \cup {Head(free)})
  BY <1>1, BooksTake
<1> QED
  BY <1>2 DEF Taken

LEMMA PoolGrow ==
    ASSUME TypeOK, Pool, next_index \in Slots
    PROVE  /\ next_index \notin Busy /\ next_index \notin lost
           /\ Books(free, next_index + 1, Taken \cup {next_index})
<1>1. /\ free \in Seq(Slots) /\ next_index \in Nat /\ Books(free, next_index, Taken)
  BY DEF TypeOK, Pool
<1>2. Taken \subseteq Slots
  BY DEF TypeOK, Taken, Busy
<1>3. next_index \notin Taken /\ Books(free, next_index + 1, Taken \cup {next_index})
  BY <1>1, <1>2, BooksGrow
<1> QED
  BY <1>3 DEF Taken

-----------------------------------------------------------------------------
(* Messages, entries and the initial state                                 *)

\* A message tells its sender; what is no complaint is a client's.
LEMMA MailFields ==
    ASSUME NEW c \in Conns, NEW m \in Mail(c)
    PROVE  /\ m.from = c /\ m \in AnyMail
           /\ m.action # "GeneralAction" => c \in Clients
<1>1. m \in AnyMail
  BY DEF AnyMail
<1>2. CASE c \in Clients
  <2>1. PICK n \in Messages : m = From(c, n)
    BY <1>2 DEF Mail
  <2> QED
    BY <1>1, <1>2, <2>1 DEF From
<1>3. CASE c \notin Clients
  BY <1>1, <1>3 DEF Mail
<1> QED
  BY <1>2, <1>3

LEMMA IdleTyped == IdleWorker \in Locals /\ IdleWorker.pc = "idle"
<1>1. NoMessage \in AnyMail
  BY DEF AnyMail
<1> QED
  BY <1>1 DEF IdleWorker, Locals, WorkerPoints

LEMMA IdleNetTyped ==
    IdleNet \in NetLocals /\ IdleNet.pc = "wait" /\ IdleNet.todo = <<>>
BY DEF IdleNet, NetLocals, NetPoints

\* The server starts with nothing but its listener.
LEMMA InitGood == Init => Good
<1> SUFFICES ASSUME Init PROVE Good
  OBVIOUS
<1> USE EngineAssumption DEF Init, EngineInit
<1>1. \A s \in Slots : slots[s] = EmptyEntry /\ ~InUse(s)
  BY DEF InUse, EmptyEntry
<1>2. net.pc = "wait" /\ net.todo = <<>> /\ wrk.pc = "idle"
  BY IdleNetTyped, IdleTyped
<1>3. Busy = {}
  BY <1>1, <1>2 DEF Busy, Registering
<1>4. TypeOK
  <2>1. slots \in [Slots -> EntryType]
    BY DEF EntryType, EmptyEntry
  <2>2. buffer \in [Slots -> Seq(AnyMail)] /\ inbox \in [Conns -> Seq(AnyMail)]
    OBVIOUS
  <2>3. epoll \in [Conns -> Watch]
    BY DEF Absent, Watch
  <2>4. place \in [Conns -> Places]
    BY DEF Places
  <2>5. /\ next_index \in 1 .. MaxSlots + 1 /\ free \in Seq(Slots) /\ tasks \in Seq(Slots)
        /\ lost \in SUBSET Slots
    OBVIOUS
  <2> QED
    BY <2>1, <2>2, <2>3, <2>4, <2>5, IdleNetTyped, IdleTyped DEF TypeOK
<1>5. Pool
  BY <1>3 DEF Pool, Taken, Books, Slots
<1>6. Entries
  BY <1>1 DEF Entries, EmptyEntry
<1>7. Accepted
  BY <1>2 DEF Accepted, Filled
<1>8. Held
  BY <1>1 DEF Held, InUse
<1>9. Registered
  BY DEF Registered, Absent
<1>10. Work /\ Reached
  BY <1>2 DEF Work, Reached, InHand, Answering, Creating
<1>11. Counted
  BY <1>2 DEF Counted, One
<1>12. Mailed
  BY <1>1 DEF Mailed
<1> QED
  BY <1>4, <1>5, <1>6, <1>7, <1>8, <1>9, <1>10, <1>11, <1>12 DEF Good

-----------------------------------------------------------------------------
(* Steps that leave the pool alone                                         *)

\* A slot that is being filled and one that holds a connection are busy.
LEMMA BusySame ==
    ASSUME slots' = slots, net' = net
    PROVE  /\ Busy' = Busy
           /\ \A s : (InUse(s)' <=> InUse(s)) /\ (Registering(s)' <=> Registering(s))
BY DEF Busy, InUse, Registering

\* What is said of the pool does not depend on the worker, except that a
\* control socket may be in its hands.
LEMMA PoolKept ==
    ASSUME Good, UNCHANGED <<slots, buffer, free, lost, next_index, net, inbox, place>>,
           wrk' = wrk \/ wrk.pc # "attach"
    PROVE  Pool' /\ Entries' /\ Accepted' /\ Held' /\ Mailed'
<1>1. Pool'
  BY BusySame DEF Good, Pool, Taken
<1>2. Entries'
  BY BusySame DEF Good, Entries, Complete
<1>3. Accepted'
  BY BusySame DEF Good, Accepted, Filled
<1>4. Held'
  <2>1. \A c : Homed(c) => Homed(c)'
    BY DEF Homed
  <2> QED
    BY <2>1, BusySame DEF Good, Held
<1>5. Mailed'
  BY BusySame DEF Good, Mailed
<1> QED
  BY <1>1, <1>2, <1>3, <1>4, <1>5

\* The worker leaves, or goes back to the condition of its loop.
LEMMA WorkerReturns ==
    ASSUME wrk' = Return
    PROVE  wrk' \in Locals /\ wrk'.pc = "idle" /\ Work' /\ Reached'
<1>1. wrk' \in Locals /\ wrk'.pc = "idle"
  BY IdleTyped DEF Return
<1> QED
  BY <1>1 DEF Work, Reached, InHand, Answering, Creating

LEMMA WorkerContinues ==
    ASSUME TypeOK, Work, wrk.pc # "idle", wrk' = Continue
    PROVE  /\ wrk' \in Locals /\ wrk'.pc = "check" /\ wrk'.slot = wrk.slot
           /\ Work' /\ Reached'
<1>1. wrk.slot \in Slots
  BY DEF Work
<1>2. /\ wrk' \in Locals
      /\ wrk'.pc = "check" /\ wrk'.slot = wrk.slot
  BY <1>1, IdleTyped DEF Continue, IdleWorker, Locals, WorkerPoints
<1> QED
  BY <1>1, <1>2 DEF Work, Reached, InHand, Answering, Creating

\* A step of the worker that changes nothing but its locals.
LEMMA WorkerOnly ==
    ASSUME Good,
           UNCHANGED <<slots, buffer, free, lost, next_index, counter, epoll, tasks, net,
                       inbox, place, lobbies>>,
           wrk.pc \notin {"attach", "count"}, wrk' \in Locals, wrk'.pc # "count",
           Work', Reached'
    PROVE  Good'
<1>1. TypeOK'
  BY DEF Good, TypeOK
<1>2. Registered'
  BY DEF Good, Registered
<1>3. Counted'
  BY DEF Good, Counted, One
<1> QED
  BY <1>1, <1>2, <1>3, PoolKept DEF Good

\* A step that leaves both threads, the pool and what is held alone.
LEMMA OutsideStep ==
    ASSUME Good, UNCHANGED <<slots, buffer, free, lost, next_index, counter, net, wrk, lobbies>>,
           \A c \in Conns : place'[c] = "held" <=> place[c] = "held",
           \A c \in Conns : epoll[c] = Absent => epoll'[c] = Absent
    PROVE  Pool' /\ Entries' /\ Accepted' /\ Held' /\ Work' /\ Counted' /\ Reached'
<1>1. Pool'
  BY BusySame DEF Good, Pool, Taken
<1>2. Entries'
  BY BusySame DEF Good, Entries, Complete
<1>3. Accepted'
  <2>1. \A i \in 1 .. Len(net.todo) : net.todo[i] \in Conns
    BY DEF Good, TypeOK, NetLocals, Conns
  <2> QED
    BY <2>1, BusySame DEF Good, Accepted, Filled
<1>4. Held'
  <2>1. \A c : Homed(c) => Homed(c)'
    BY DEF Homed
  <2>2. \A s \in Slots : InUse(s) => slots[s].sock \in Conns
    BY DEF Good, TypeOK, EntryType, InUse
  <2> QED
    BY <2>1, <2>2, BusySame DEF Good, Held
<1>5. Work'
  <2>1. wrk.ctrl \in Controls => wrk.ctrl \in Conns
    BY DEF Conns
  <2>2. InHand => Pending \in Conns
    BY DEF Good, TypeOK, EntryType, Work, InHand, InUse, Pending
  <2>3. Pending' = Pending
    BY DEF Pending
  <2> QED
    BY <2>1, <2>2, <2>3, BusySame DEF Good, Work, InHand, Answering, Creating
<1>6. Counted'
  BY DEF Good, Counted, One
<1>7. Reached'
  BY BusySame DEF Good, Reached
<1> QED
  BY <1>1, <1>2, <1>3, <1>4, <1>5, <1>6, <1>7

LEMMA ConnectGood ==
    ASSUME Good, NEW c \in Clients, client_connect(c), lobbies' = lobbies
    PROVE  Good'
<1> USE DEF pool, entries, sizes, loop, kernel
<1>1. UNCHANGED <<slots, buffer, free, lost, next_index, counter, epoll, tasks, net, wrk,
                  inbox, lobbies>>
  BY DEF client_connect
<1>2. c \in Conns /\ place[c] = "new" /\ place' = [place EXCEPT ![c] = "backlog"]
  BY DEF client_connect, Conns
<1>3. place \in [Conns -> Places]
  BY DEF Good, TypeOK
<1>4. place' \in [Conns -> Places] /\ \A d \in Conns : place'[d] = "held" <=> place[d] = "held"
  BY <1>2, <1>3 DEF Places
<1>5. TypeOK'
  BY <1>1, <1>4 DEF Good, TypeOK
<1>6. Registered' /\ Mailed'
  BY <1>1, BusySame DEF Good, Registered, Mailed
<1> QED
  BY <1>1, <1>4, <1>5, <1>6, OutsideStep DEF Good

\* A peer sends one of its messages; who is held stays held.
LEMMA PostGood ==
    ASSUME Good, NEW c \in Conns, NEW m \in Mail(c),
           inbox' = [inbox EXCEPT ![c] = Append(inbox[c], m)],
           UNCHANGED <<slots, buffer, free, lost, next_index, counter, epoll, tasks, net,
                       wrk, lobbies>>,
           place' \in [Conns -> Places],
           \A d \in Conns : place'[d] = "held" <=> place[d] = "held"
    PROVE  Good'
<1>1. m \in AnyMail
  BY MailFields
<1>2. inbox \in [Conns -> Seq(AnyMail)] /\ inbox[c] \in Seq(Mail(c))
  BY DEF Good, TypeOK, Mailed
<1>3. Append(inbox[c], m) \in Seq(Mail(c))
  BY ONLY <1>2, m \in Mail(c)
<1>4. Append(inbox[c], m) \in Seq(AnyMail)
  BY ONLY <1>1, <1>2, c \in Conns
<1>5. inbox' \in [Conns -> Seq(AnyMail)]
  BY <1>2, <1>4
<1>6. TypeOK'
  BY <1>5 DEF Good, TypeOK
<1>7. Mailed'
  <2>1. \A d \in Conns : inbox'[d] \in Seq(Mail(d))
    BY <1>2, <1>3 DEF Good, Mailed
  <2> QED
    BY <2>1, BusySame DEF Good, Mailed
<1>8. Registered'
  BY DEF Good, Registered
<1> QED
  BY <1>6, <1>7, <1>8, OutsideStep DEF Good

LEMMA SendGood ==
    ASSUME Good, NEW c \in Clients, NEW m \in Messages, client_send(c, m),
           lobbies' = lobbies
    PROVE  Good'
<1>1. UNCHANGED <<slots, buffer, free, lost, next_index, counter, epoll, tasks, net, wrk,
                  place, lobbies>>
  BY DEF client_send, pool, entries, sizes, loop
<1>2. c \in Conns /\ inbox' = [inbox EXCEPT ![c] = Append(inbox[c], From(c, m))]
  BY DEF client_send, Conns
<1>3. From(c, m) \in Mail(c)
  BY DEF Mail
<1>4. place' \in [Conns -> Places]
  BY <1>1 DEF Good, TypeOK
<1> QED
  BY <1>1, <1>2, <1>3, <1>4, PostGood

LEMMA ComplainGood ==
    ASSUME Good, NEW l \in Controls, lobby_complains(l), lobbies' = lobbies
    PROVE  Good'
<1> DEFINE m == [action |-> "GeneralAction", from |-> l]
<1>1. UNCHANGED <<slots, buffer, free, lost, next_index, counter, epoll, tasks, net, wrk,
                  lobbies>>
  BY DEF lobby_complains, pool, entries, sizes, loop
<1>2. l \in Conns /\ m \in Mail(l) /\ inbox' = [inbox EXCEPT ![l] = Append(inbox[l], m)]
  BY EngineAssumption DEF lobby_complains, Conns, Mail
<1>3. PICK c \in Clients : place[c] = "moved" /\ place' = [place EXCEPT ![c] = "gone"]
  BY DEF lobby_complains
<1>4. place \in [Conns -> Places] /\ c \in Conns
  BY DEF Good, TypeOK, Conns
<1>5. place' \in [Conns -> Places] /\ \A d \in Conns : place'[d] = "held" <=> place[d] = "held"
  BY <1>3, <1>4 DEF Places
<1> HIDE DEF m
<1> QED
  BY <1>1, <1>2, <1>5, PostGood

LEMMA CloseGood ==
    ASSUME Good, NEW c \in Conns, peer_close(c), lobbies' = lobbies
    PROVE  Good'
<1>1. UNCHANGED <<slots, buffer, free, lost, next_index, counter, epoll, tasks, net, wrk,
                  place, inbox, lobbies>>
  BY DEF peer_close, pool, entries, sizes, loop
<1>2. TypeOK'
  BY <1>1 DEF Good, TypeOK
<1>3. Registered' /\ Mailed'
  BY <1>1, BusySame DEF Good, Registered, Mailed
<1> QED
  BY <1>1, <1>2, <1>3, OutsideStep DEF Good

LEMMA EventGood ==
    ASSUME Good, NEW c \in Conns, process_event(c), lobbies' = lobbies
    PROVE  Good'
<1> USE DEF pool, entries, sizes, kernel
<1>1. UNCHANGED <<slots, buffer, free, lost, next_index, counter, net, wrk, place, inbox,
                  lobbies>>
  BY DEF process_event
<1>2. /\ epoll[c].armed
      /\ epoll' = [epoll EXCEPT ![c].armed = FALSE]
      /\ tasks' = Append(tasks, epoll[c].slot)
  BY DEF process_event, Queued
<1>3. epoll \in [Conns -> Watch] /\ tasks \in Seq(Slots)
  BY DEF Good, TypeOK
<1>4. epoll[c].slot # NoSlot
  BY <1>2 DEF Good, Registered
<1>5. tasks' \in Seq(Slots)
  BY <1>2, <1>3, <1>4 DEF Watch
<1>6. /\ epoll' \in [Conns -> Watch]
      /\ \A d \in Conns : epoll'[d].slot = epoll[d].slot /\ (epoll'[d].armed => epoll[d].armed)
  BY <1>2, <1>3 DEF Watch
<1>7. TypeOK'
  BY <1>1, <1>5, <1>6 DEF Good, TypeOK
<1>8. Registered'
  BY <1>1, <1>6 DEF Good, Registered
<1>9. Mailed'
  BY <1>1, BusySame DEF Good, Mailed
<1>10. \A d \in Conns : epoll[d] = Absent => epoll'[d] = Absent
  <2>1. epoll[c] # Absent
    BY <1>2 DEF Absent
  <2> QED
    BY <2>1, <1>2, <1>3
<1> QED
  BY <1>1, <1>7, <1>8, <1>9, <1>10, OutsideStep DEF Good

-----------------------------------------------------------------------------
(* The worker's steps outside the pool                                     *)

LEMMA ConnectionGood ==
    ASSUME Good, process_connection, lobbies' = lobbies
    PROVE  Good'
<1> USE DEF pool, entries, sizes, kernel
<1>1. UNCHANGED <<slots, buffer, free, lost, next_index, counter, epoll, net, place, inbox,
                  lobbies>>
  BY DEF process_connection
<1>2. /\ wrk.pc = "idle" /\ tasks # <<>>
      /\ wrk' = [IdleWorker EXCEPT !.pc = "check", !.slot = Head(tasks)]
      /\ tasks' = Tail(tasks)
  BY DEF process_connection
<1>3. tasks \in Seq(Slots) /\ Head(tasks) \in Slots /\ tasks' \in Seq(Slots)
  BY <1>2 DEF Good, TypeOK
<1>4. wrk' \in Locals /\ wrk'.pc = "check" /\ wrk'.slot \in Slots
  BY <1>2, <1>3, IdleTyped DEF IdleWorker, Locals, WorkerPoints
<1>5. Work' /\ Reached'
  BY <1>4 DEF Work, Reached, InHand, Answering, Creating
<1>6. TypeOK'
  BY <1>1, <1>3, <1>4 DEF Good, TypeOK
<1>7. Registered' /\ Counted'
  BY <1>1, <1>2, <1>4 DEF Good, Registered, Counted, One
<1> QED
  BY <1>1, <1>2, <1>5, <1>6, <1>7, PoolKept DEF Good

LEMMA CheckGood ==
    ASSUME Good, mishaps' = {}, check_alive, lobbies' = lobbies
    PROVE  Good'
<1>1. UNCHANGED <<slots, buffer, free, lost, next_index, counter, epoll, tasks, net, place,
                  inbox, lobbies>>
  BY DEF check_alive, engineVars, pool, entries, sizes, loop, kernel
<1>2. wrk.pc = "check" /\ wrk \in Locals /\ wrk.slot \in Slots
  BY DEF check_alive, Good, TypeOK, Work
<1>3. CASE slots[wrk.slot].status = "ALIVE"
  <2>1. wrk' = [wrk EXCEPT !.pc = "receive"] /\ Overlap(wrk.slot)
    BY <1>3 DEF check_alive
  <2>2. ~Registering(wrk.slot)
    BY <2>1 DEF Overlap
  <2>3. InUse(wrk.slot)
    BY <1>2, <1>3 DEF Good, Entries
  <2>4. wrk' \in Locals /\ wrk'.pc = "receive" /\ wrk'.slot = wrk.slot
    BY <2>1, <1>2 DEF Locals, WorkerPoints
  <2>5. Work' /\ Reached'
    BY <1>1, <1>2, <2>2, <2>3, <2>4, BusySame DEF Work, Reached, InHand, Answering, Creating
  <2> QED
    BY <1>1, <1>2, <2>4, <2>5, WorkerOnly
<1>4. CASE slots[wrk.slot].status # "ALIVE"
  <2>1. wrk' = Return
    BY <1>4 DEF check_alive
  <2> QED
    BY <1>1, <1>2, <2>1, WorkerReturns, WorkerOnly
<1> QED
  BY <1>3, <1>4

LEMMA BlockGood ==
    ASSUME Good, get_message_would_block, lobbies' = lobbies
    PROVE  Good'
<1>1. UNCHANGED <<slots, buffer, free, lost, next_index, counter, epoll, tasks, net, place,
                  inbox, lobbies>>
  BY DEF get_message_would_block, engineVars, pool, entries, sizes, loop, kernel
<1>2. /\ wrk.pc = "receive" /\ wrk \in Locals
      /\ wrk' = [wrk EXCEPT !.pc = "rearm"]
  BY DEF get_message_would_block, NothingToRead, Good, TypeOK
<1>3. wrk' \in Locals /\ wrk'.pc = "rearm" /\ wrk'.slot = wrk.slot
  BY <1>2 DEF Locals, WorkerPoints
<1>4. Work' /\ Reached'
  BY <1>1, <1>2, <1>3, BusySame DEF Good, Work, Reached, InHand, Answering, Creating
<1> QED
  BY <1>1, <1>2, <1>3, <1>4, WorkerOnly

\* A handler that leaves its client unarmed.
LEMMA ErrorGood ==
    ASSUME Good, NEW says, ReturnError(says), wrk.pc \notin {"attach", "count"},
           UNCHANGED <<slots, buffer, free, lost, next_index, counter, epoll, tasks, net,
                       inbox, place, lobbies>>
    PROVE  Good'
<1>1. wrk' = Return
  BY DEF ReturnError
<1> QED
  BY <1>1, WorkerReturns, WorkerOnly

LEMMA RefuseGood ==
    ASSUME Good,
           \/ refuse \/ spawn_lobby_fails \/ attach_taken
           \/ init_lobby_fails \/ join_unknown
    PROVE  Good'
<1> USE DEF engineVars, pool, entries, sizes, loop, kernel
<1>1. CASE refuse
  BY <1>1, ErrorGood DEF refuse
<1>2. CASE spawn_lobby_fails
  BY <1>2, ErrorGood DEF spawn_lobby_fails, Handling
<1>3. CASE attach_taken
  BY <1>3, ErrorGood DEF attach_taken
<1>4. CASE init_lobby_fails
  BY <1>4, ErrorGood DEF init_lobby_fails
<1>5. CASE join_unknown
  BY <1>5, ErrorGood DEF join_unknown, Handling
<1> QED
  BY <1>1, <1>2, <1>3, <1>4, <1>5

LEMMA InitLobbyGood ==
    ASSUME Good, init_lobby, inbox' = inbox
    PROVE  Good'
<1>1. UNCHANGED <<slots, buffer, free, lost, next_index, counter, epoll, tasks, net, place,
                  inbox, lobbies>>
  BY DEF init_lobby, pool, entries, sizes, loop
<1>2. /\ wrk.pc = "send_id" /\ wrk \in Locals
      /\ wrk' = [wrk EXCEPT !.pc = "transfer"]
  BY DEF init_lobby, Good, TypeOK
<1>3. /\ wrk' \in Locals /\ wrk'.pc = "transfer"
      /\ wrk'.slot = wrk.slot /\ wrk'.msg = wrk.msg /\ wrk'.view = wrk.view
      /\ wrk'.code = wrk.code
  BY <1>2 DEF Locals, WorkerPoints
<1>4. /\ wrk.slot \in Slots /\ InUse(wrk.slot) /\ ~Registering(wrk.slot)
      /\ wrk.msg \in Mail(Pending) /\ Pending \in Clients /\ wrk.view \in Slots
      /\ wrk.code \in Codes /\ lobbies[wrk.code] # NoLobby
  BY <1>2 DEF Good, Work, InHand, Answering, Creating
<1>5. Pending' = Pending
  BY <1>1, <1>3 DEF Pending
<1>6. Work' /\ Reached'
  BY <1>1, <1>3, <1>4, <1>5, BusySame DEF Work, Reached, InHand, Answering, Creating
<1> QED
  BY <1>1, <1>2, <1>3, <1>6, WorkerOnly

\* Only a client creates or joins a lobby.
LEMMA HeldSender ==
    ASSUME Good, wrk.slot \in Slots, InUse(wrk.slot), wrk.msg \in Mail(Pending)
    PROVE  /\ Pending \in Conns /\ wrk.msg.from = Pending
           /\ wrk.msg.action # "GeneralAction" => Pending \in Clients
<1>1. Pending \in Conns
  BY DEF Good, TypeOK, EntryType, InUse, Pending
<1> QED
  BY <1>1, MailFields

LEMMA JoinGood ==
    ASSUME Good, join_found
    PROVE  Good'
<1>1. UNCHANGED <<slots, buffer, free, lost, next_index, counter, epoll, tasks, net, place,
                  inbox, lobbies>>
  BY DEF join_found, engineVars, pool, entries, sizes, loop, kernel
<1>2. /\ wrk.pc = "handle" /\ wrk.msg.action = "JoinLobby" /\ wrk \in Locals
      /\ wrk.msg.code \in Codes /\ lobbies[wrk.msg.code] # NoLobby
      /\ wrk' = [wrk EXCEPT !.pc = "transfer", !.code = wrk.msg.code,
                            !.view = lobbies[wrk.msg.code].slot]
  BY DEF join_found, Handling, Good, TypeOK
<1>3. lobbies[wrk.msg.code].slot \in Slots
  BY <1>2 DEF Good, TypeOK
<1>4. /\ wrk' \in Locals /\ wrk'.pc = "transfer"
      /\ wrk'.slot = wrk.slot /\ wrk'.msg = wrk.msg
      /\ wrk'.view \in Slots /\ wrk'.code \in Codes /\ lobbies[wrk'.code] # NoLobby
  BY <1>2, <1>3 DEF Locals, WorkerPoints
<1>5. /\ wrk.slot \in Slots /\ InUse(wrk.slot) /\ ~Registering(wrk.slot)
      /\ wrk.msg \in Mail(Pending)
  BY <1>2 DEF Good, Work, InHand, Answering
<1>6. Pending \in Clients
  BY <1>2, <1>5, HeldSender
<1>7. Pending' = Pending
  BY <1>1, <1>4 DEF Pending
<1>8. Work' /\ Reached'
  BY <1>1, <1>4, <1>5, <1>6, <1>7, BusySame DEF Work, Reached, InHand, Answering, Creating
<1> QED
  BY <1>1, <1>2, <1>4, <1>8, WorkerOnly

\* LobbyManager::attach: the first lobby of a code.
LEMMA EnlistGood ==
    ASSUME Good, attach
    PROVE  Good'
<1>1. UNCHANGED <<slots, buffer, free, lost, next_index, counter, epoll, tasks, net, place,
                  inbox>>
  BY DEF attach, engineVars, pool, entries, sizes, loop, kernel
<1>2. wrk.pc = "enlist" /\ wrk \in Locals
  BY DEF attach, Good, TypeOK
<1>3. PICK k \in Codes :
          /\ lobbies' = [lobbies EXCEPT ![k] = [slot |-> wrk.view, ctrl |-> wrk.ctrl]]
          /\ wrk' = [wrk EXCEPT !.pc = "send_id", !.code = k]
  BY DEF attach
<1>4. /\ wrk.slot \in Slots /\ InUse(wrk.slot) /\ ~Registering(wrk.slot)
      /\ wrk.msg \in Mail(Pending) /\ Pending \in Clients /\ wrk.ctrl \in Controls
      /\ wrk.view \in Slots /\ slots[wrk.view].sock = wrk.ctrl
  BY <1>2 DEF Good, Work, InHand, Answering, Creating
<1>5. /\ wrk' \in Locals /\ wrk'.pc = "send_id" /\ wrk'.code = k
      /\ wrk'.slot = wrk.slot /\ wrk'.msg = wrk.msg /\ wrk'.view = wrk.view
      /\ wrk'.ctrl = wrk.ctrl
  BY <1>2, <1>3 DEF Locals, WorkerPoints
<1>6. /\ lobbies' \in [Codes -> {NoLobby} \cup [slot : Slots, ctrl : Controls]]
      /\ lobbies'[k] = [slot |-> wrk.view, ctrl |-> wrk.ctrl]
  BY <1>3, <1>4 DEF Good, TypeOK
<1>7. lobbies'[k] # NoLobby
  BY <1>4, <1>6, EngineAssumption DEF NoLobby, NoSlot, Slots
<1>8. Pending' = Pending
  BY <1>1, <1>5 DEF Pending
<1>9. Work' /\ Reached'
  BY <1>1, <1>4, <1>5, <1>7, <1>8, BusySame DEF Work, Reached, InHand, Answering, Creating
<1>10. TypeOK'
  BY <1>1, <1>5, <1>6 DEF Good, TypeOK
<1>11. Registered' /\ Counted'
  BY <1>1, <1>2, <1>5 DEF Good, Registered, Counted, One
<1> QED
  BY <1>1, <1>2, <1>9, <1>10, <1>11, PoolKept DEF Good

-----------------------------------------------------------------------------
(* The broadcast                                                           *)

\* A slot whose entry says TO_CLIENT holds a client or is being filled.
LEMMA TypedIsBusy ==
    ASSUME Good, NEW s \in Slots, slots[s].type = "TO_CLIENT", ~Registering(s)
    PROVE  InUse(s) /\ slots[s].sock \in Clients
<1>1. InUse(s)
  BY DEF Good, Entries, Busy, EmptyEntry
<1>2. Complete(slots[s])
  BY <1>1 DEF Good, Entries
<1> QED
  BY <1>1, <1>2 DEF Complete, Entry

\* The counter is past every registered client.
LEMMA ClientCounted ==
    ASSUME Good, wrk.pc # "count", NEW s \in Slots, slots[s].type = "TO_CLIENT",
           ~Registering(s)
    PROVE  s < counter
<1>1. s \in Busy /\ s < next_index
  BY TypedIsBusy DEF Good, Pool, Taken, Books, Busy
<1>2. counter \in Nat /\ next_index \in Nat /\ s \in Nat
  BY EngineAssumption DEF Good, TypeOK, Slots
<1>3. CASE net.pc # "count"
  BY <1>1, <1>2, <1>3 DEF Good, Counted, One
<1>4. CASE net.pc = "count"
  <2>1. counter + 1 = next_index
    BY <1>2, <1>4 DEF Good, Counted, One
  <2>2. net.slot = next_index - 1 => s # next_index - 1
    BY <1>4 DEF Registering
  <2>3. s # next_index - 1
    BY <2>2, <1>4 DEF Good, Counted
  <2> QED
    BY <2>1, <2>3, <1>1, <1>2
<1> QED
  BY <1>3, <1>4

LEMMA ChatGood ==
    ASSUME Good, execute_chat
    PROVE  Good'
<1>1. UNCHANGED <<slots, buffer, free, lost, next_index, counter, epoll, tasks, net, place,
                  inbox, lobbies>>
  BY DEF execute_chat, engineVars, pool, entries, sizes, loop, kernel
<1>2. /\ wrk.pc = "handle" /\ wrk \in Locals
      /\ wrk' = [wrk EXCEPT !.pc = "broadcast", !.index = 1, !.audience = Audience]
  BY DEF execute_chat, Handling, start_broadcast, Good, TypeOK
<1>3. Audience \subseteq Conns \cup {NoConn}
  BY DEF Audience, Good, TypeOK, EntryType
<1>4. /\ wrk' \in Locals /\ wrk'.pc = "broadcast" /\ wrk'.index = 1
      /\ wrk'.slot = wrk.slot /\ wrk'.audience = Audience
  BY <1>2, <1>3 DEF Locals, WorkerPoints
<1>5. wrk.slot \in Slots
  BY <1>2 DEF Good, Work
<1>6. Work'
  BY <1>4, <1>5 DEF Work, InHand, Answering, Creating
<1>7. Reached'
  <2>1. \A s \in Slots : 1 <= s
    BY EngineAssumption DEF Slots
  <2>2. ASSUME NEW c \in Audience
        PROVE  \E s \in Slots : /\ 1 <= s /\ slots[s].sock = c
                                /\ slots[s].type = "TO_CLIENT" /\ ~Registering(s)
    BY <2>1, <2>2 DEF Audience
  <2> QED
    BY <2>2, <1>1, <1>4, BusySame DEF Reached
<1> QED
  BY <1>1, <1>2, <1>4, <1>6, <1>7, WorkerOnly

\* The next slot; what the broadcast has passed by is not in the audience.
LEMMA SkipGood ==
    ASSUME Good, broadcast_skip, lobbies' = lobbies
    PROVE  Good'
<1>1. UNCHANGED <<slots, buffer, free, lost, next_index, counter, epoll, tasks, net, place,
                  inbox, lobbies>>
  BY DEF broadcast_skip, engineVars, pool, entries, sizes, loop, kernel
<1>2. /\ wrk.pc = "broadcast" /\ wrk \in Locals
      /\ wrk.index < counter /\ ~BroadcastTo(wrk.index)
      /\ wrk' = [wrk EXCEPT !.index = wrk.index + 1]
  BY DEF broadcast_skip, Good, TypeOK
<1>3. wrk.index \in Nat /\ wrk.index >= 1
  BY <1>2 DEF Locals, Good, Work
<1>4. /\ wrk' \in Locals /\ wrk'.pc = "broadcast" /\ wrk'.index = wrk.index + 1
      /\ wrk'.slot = wrk.slot /\ wrk'.audience = wrk.audience
  BY <1>2, <1>3 DEF Locals, WorkerPoints
<1>5. wrk.slot \in Slots
  BY <1>2 DEF Good, Work
<1>6. Work'
  BY <1>3, <1>4, <1>5 DEF Work, InHand, Answering, Creating
<1>7. Reached'
  <2>1. ASSUME NEW c \in wrk.audience
        PROVE  \E s \in Slots : /\ wrk.index + 1 <= s /\ slots[s].sock = c
                                /\ slots[s].type = "TO_CLIENT" /\ ~Registering(s)
    <3>1. PICK s \in Slots : /\ wrk.index <= s /\ slots[s].sock = c
                             /\ slots[s].type = "TO_CLIENT" /\ ~Registering(s)
      BY <1>2, <2>1 DEF Good, Reached
    <3>2. s # wrk.index
      BY <1>2, <3>1 DEF BroadcastTo
    <3>3. s \in Nat
      BY EngineAssumption DEF Slots
    <3> QED
      BY <3>1, <3>2, <3>3, <1>3
  <2> QED
    BY <2>1, <1>1, <1>4, BusySame DEF Reached
<1> QED
  BY <1>1, <1>2, <1>4, <1>6, <1>7, WorkerOnly

LEMMA EndGood ==
    ASSUME Good, broadcast_end, lobbies' = lobbies
    PROVE  Good'
<1>1. UNCHANGED <<slots, buffer, free, lost, next_index, counter, epoll, tasks, net, place,
                  inbox, lobbies>>
  BY DEF broadcast_end, engineVars, pool, entries, sizes, loop, kernel
<1>2. wrk.pc = "broadcast" /\ wrk' = Continue /\ TypeOK /\ Work
  BY DEF broadcast_end, Good
<1> QED
  BY <1>1, <1>2, WorkerContinues, WorkerOnly

-----------------------------------------------------------------------------
(* The worker releases a slot                                              *)

\* What a release of slot s does.
LEMMA ReleaseFields ==
    ASSUME TypeOK, NEW s \in Slots, slots' = SlotsWithout(<<s>>),
           buffer' = BufferWithout(<<s>>)
    PROVE  /\ slots' \in [Slots -> EntryType]
           /\ slots'[s] = EmptyEntry /\ \A t \in Slots \ {s} : slots'[t] = slots[t]
           /\ buffer' \in [Slots -> Seq(AnyMail)]
           /\ buffer'[s] = <<>> /\ \A t \in Slots \ {s} : buffer'[t] = buffer[t]
<1>1. Range(<<s>>) = {s}
  BY DEF Range
<1>2. EmptyEntry \in EntryType
  BY DEF EmptyEntry, EntryType
<1>3. slots' = [t \in Slots |-> IF t = s THEN EmptyEntry ELSE slots[t]]
  BY <1>1 DEF SlotsWithout
<1>4. buffer' = [t \in Slots |-> IF t = s THEN <<>> ELSE buffer[t]]
  BY <1>1 DEF BufferWithout
<1>5. slots \in [Slots -> EntryType] /\ buffer \in [Slots -> Seq(AnyMail)]
  BY DEF TypeOK
<1>6. slots' \in [Slots -> EntryType] /\ slots'[s] = EmptyEntry
      /\ \A t \in Slots \ {s} : slots'[t] = slots[t]
  BY <1>2, <1>3, <1>5
<1>7. buffer' \in [Slots -> Seq(AnyMail)] /\ buffer'[s] = <<>>
      /\ \A t \in Slots \ {s} : buffer'[t] = buffer[t]
  <2>1. <<>> \in Seq(AnyMail)
    OBVIOUS
  <2> QED
    BY ONLY <2>1, <1>4, <1>5, s \in Slots
<1> QED
  BY <1>6, <1>7

\* The socket of the entry is out of epoll and closed.
LEMMA ReleaseSocket ==
    ASSUME TypeOK, NEW s \in Slots, InUse(s)
    PROVE  LET c == slots[s].sock
           IN  /\ c \in Conns
               /\ EpollWithout(<<s>>) = [d \in Conns |-> IF d = c THEN Absent ELSE epoll[d]]
               /\ PlaceWithout(<<s>>) = [d \in Conns |-> IF d = c THEN "gone" ELSE place[d]]
<1>1. SocketsOf(<<s>>) = {slots[s].sock}
  BY DEF SocketsOf, Range, InUse
<1>2. slots[s].sock \in Conns
  BY DEF TypeOK, EntryType, InUse
<1> QED
  BY <1>1, <1>2 DEF EpollWithout, PlaceWithout

\* The worker gives back a slot in use that the network thread is not about
\* to fill; its socket is closed and out of epoll, and maybe others are.
LEMMA ReleaseGood ==
    ASSUME Good, NEW s \in Slots, InUse(s), ~Registering(s),
           slots' = SlotsWithout(<<s>>), buffer' = BufferWithout(<<s>>),
           GivenBack(s),
           UNCHANGED <<next_index, counter, tasks, net, inbox, lobbies>>,
           epoll' \in [Conns -> Watch],
           \A c \in Conns : epoll'[c] = epoll[c] \/ epoll'[c] = Absent,
           epoll'[slots[s].sock] = Absent,
           place' \in [Conns -> Places],
           place'[slots[s].sock] # "held",
           \A c \in Conns : c # slots[s].sock => place'[c] = place[c],
           wrk.pc \notin {"attach", "count"}, wrk'.pc \notin {"attach", "count"},
           wrk' \in Locals, Work', Reached'
    PROVE  Good'
<1> DEFINE x == slots[s].sock
<1>0. TypeOK
  BY DEF Good
<1>1. /\ slots' \in [Slots -> EntryType]
      /\ slots'[s] = EmptyEntry /\ \A t \in Slots \ {s} : slots'[t] = slots[t]
      /\ buffer' \in [Slots -> Seq(AnyMail)]
      /\ buffer'[s] = <<>> /\ \A t \in Slots \ {s} : buffer'[t] = buffer[t]
  BY <1>0, ReleaseFields
<1>2. x \in Conns /\ x # NoConn /\ slots'[s].sock = NoConn
  BY <1>0, <1>1 DEF TypeOK, EntryType, InUse, EmptyEntry
<1>3. \A t : Registering(t)' <=> Registering(t)
  BY DEF Registering
<1>4. \A t \in Slots : InUse(t)' <=> InUse(t) /\ t # s
  BY <1>1, <1>2 DEF InUse
<1>5. Busy' = Busy \ {s}
  <2>1. \A t \in Slots : (slots'[t].sock # NoConn <=> InUse(t) /\ t # s)
    BY <1>4 DEF InUse
  <2> QED
    BY <2>1, <1>3 DEF Busy, InUse
<1>6. \A t \in Slots : t # s => slots[t].sock # x
  BY DEF Good, Held
<1>7. free' \in Seq(Slots) /\ lost' \in SUBSET Slots /\ Pool'
  <2>1. s \in Busy /\ Pool
    BY DEF Busy, Good
  <2> QED
    BY <2>1, <1>0, <1>5, PoolRelease
<1>8. TypeOK'
  BY <1>0, <1>1, <1>7 DEF TypeOK
<1>9. Entries'
  <2>1. ASSUME NEW t \in Slots
        PROVE  /\ slots'[t].sock # NoConn => Complete(slots'[t])
               /\ slots'[t].sock = NoConn =>
                      slots'[t].status = "EMPTY" /\ buffer'[t] = <<>>
               /\ t \notin Busy' => slots'[t] = EmptyEntry
    <3>1. CASE t = s
      <4>1. slots'[s].status = "EMPTY"
        BY ONLY <1>1 DEF EmptyEntry
      <4> QED
        BY ONLY <3>1, <4>1, <1>1, <1>2
    <3>2. CASE t # s
      <4>1. slots'[t] = slots[t] /\ buffer'[t] = buffer[t] /\ (t \in Busy' <=> t \in Busy)
        BY ONLY <3>2, <1>1, <1>5, t \in Slots
      <4>2. /\ slots[t].sock # NoConn => Complete(slots[t])
            /\ slots[t].sock = NoConn => slots[t].status = "EMPTY" /\ buffer[t] = <<>>
            /\ t \notin Busy => slots[t] = EmptyEntry
        BY DEF Good, Entries, InUse
      <4> QED
        BY ONLY <4>1, <4>2
    <3> QED
      BY <3>1, <3>2
  <2> QED
    BY <2>1 DEF Entries, InUse, Complete
<1>10. \A i \in 1 .. Len(net.todo) : net.todo[i] \in Conns /\ net.todo[i] # x
  <2>1. \A i \in 1 .. Len(net.todo) : net.todo[i] \in Conns
    BY <1>0 DEF TypeOK, NetLocals, Conns
  <2>2. ASSUME NEW i \in 1 .. Len(net.todo), net.todo[i] = x
        PROVE  FALSE
    <3>1. Filled /\ i = 1
      BY <2>2 DEF Good, Accepted
    <3>2. slots[net.slot].sock = net.todo[1] /\ net.slot \in Slots
      BY <3>1, <1>0 DEF Good, Accepted, Filled, TypeOK, NetLocals
    <3>3. net.slot = s
      BY <3>1, <3>2, <2>2, <1>6
    <3> QED
      BY <3>1, <3>3 DEF Filled, Registering
  <2> QED
    BY <2>1, <2>2
<1>11. Accepted'
  <2>1. \A i \in 1 .. Len(net.todo) : place'[net.todo[i]] = "held"
    BY <1>10 DEF Good, Accepted
  <2>2. Filled => slots'[net.slot].sock = Head(net.todo)
    BY <1>1 DEF Good, Accepted, Filled, Registering
  <2>3. net.pc \in {"assign", "assign_socket"} => slots'[net.slot] = slots[net.slot]
    BY <1>1 DEF Good, Accepted, Registering
  <2>4. \A i \in 1 .. Len(net.todo) : \A t \in Slots :
            slots'[t].sock = net.todo[i] => Filled /\ i = 1
    <3>1. ASSUME NEW i \in 1 .. Len(net.todo), NEW t \in Slots, slots'[t].sock = net.todo[i]
          PROVE  Filled /\ i = 1
      <4>1. t # s
        BY <3>1, <1>2, <1>10, EngineAssumption
      <4>2. slots[t].sock = net.todo[i]
        BY <4>1, <3>1, <1>1
      <4> QED
        BY <4>2, <3>1 DEF Good, Accepted
    <3> QED
      BY <3>1
  <2> QED
    BY <2>1, <2>2, <2>3, <2>4 DEF Good, Accepted, Filled, InUse
<1>12. Held'
  <2>1. ASSUME NEW t \in Slots, slots'[t].sock # NoConn
        PROVE  t # s /\ slots'[t].sock = slots[t].sock /\ place'[slots'[t].sock] = "held"
    <3>1. t # s /\ slots'[t] = slots[t]
      BY <2>1, <1>1, <1>2
    <3>2. slots[t].sock \in Conns /\ slots[t].sock # x /\ place[slots[t].sock] = "held"
      BY <2>1, <3>1, <1>0, <1>6 DEF Good, Held, InUse, TypeOK, EntryType
    <3> QED
      BY <3>1, <3>2
  <2>2. ASSUME NEW t \in Slots, NEW u \in Slots, slots'[t].sock = slots'[u].sock,
               slots'[t].sock # NoConn
        PROVE  t = u
    BY <2>1, <2>2 DEF Good, Held, InUse
  <2>3. ASSUME NEW c \in Conns, place'[c] = "held"
        PROVE  Homed(c)'
    <3>1. c # x /\ place[c] = "held"
      BY <2>3
    <3>2. Homed(c)
      BY <3>1 DEF Good, Held
    <3>3. ASSUME NEW t \in Slots, slots[t].sock = c
          PROVE  slots'[t].sock = c
      BY <3>1, <3>3, <1>1
    <3> QED
      BY <3>2, <3>3 DEF Homed
  <2> QED
    BY <2>1, <2>2, <2>3 DEF Held, InUse
<1>13. Registered'
  <2>1. ASSUME NEW c \in Conns
        PROVE  /\ epoll'[c].slot # NoSlot => slots'[epoll'[c].slot].sock = c
               /\ epoll'[c].armed => epoll'[c].slot # NoSlot
    <3>1. CASE epoll'[c] = Absent
      BY <3>1 DEF Absent
    <3>2. CASE epoll'[c] # Absent
      <4>1. epoll'[c] = epoll[c] /\ c # x
        BY <3>2
      <4>2. epoll[c].slot # NoSlot => epoll[c].slot \in Slots \ {s}
        BY <4>1, <1>0 DEF Good, Registered, TypeOK, Watch
      <4>3. /\ epoll[c].slot # NoSlot => slots[epoll[c].slot].sock = c
            /\ epoll[c].armed => epoll[c].slot # NoSlot
        BY DEF Good, Registered
      <4> QED
        BY ONLY <4>1, <4>2, <4>3, <1>1
    <3> QED
      BY <3>1, <3>2
  <2> QED
    BY <2>1 DEF Registered
<1>14. Counted'
  <2>1. counter' + One(net'.pc = "count") + One(wrk'.pc = "count") = next_index'
    BY DEF Good, Counted, One
  <2>2. ASSUME net.pc = "count"
        PROVE  net.slot = next_index - 1 \/ slots'[next_index - 1].type # "TO_CLIENT"
    <3>1. CASE net.slot = next_index - 1
      BY <3>1
    <3>2. CASE slots[next_index - 1].type # "TO_CLIENT"
      <4>1. CASE next_index - 1 = s
        <5>1. slots'[next_index - 1] = EmptyEntry
          BY <4>1, <1>1
        <5> QED
          BY <5>1 DEF EmptyEntry
      <4>2. CASE next_index - 1 # s
        <5>1. net.slot \in Slots /\ net.slot \in Busy
          BY <2>2 DEF Good, Accepted, Busy, Registering
        <5>2. net.slot < next_index
          BY <5>1 DEF Good, Pool, Taken, Books
        <5>3. next_index - 1 \in Slots
          BY <5>1, <5>2, <1>0, EngineAssumption DEF TypeOK, Slots
        <5> QED
          BY <5>3, <4>2, <3>2, <1>1
      <4> QED
        BY <4>1, <4>2
    <3> QED
      BY <2>2, <3>1, <3>2 DEF Good, Counted
  <2> QED
    BY <2>1, <2>2 DEF Counted
<1>15. Mailed'
  <2>1. ASSUME NEW t \in Slots, slots'[t].sock # NoConn
        PROVE  buffer'[t] \in Seq(Mail(slots'[t].sock))
    <3>1. t # s /\ slots'[t] = slots[t] /\ buffer'[t] = buffer[t]
      BY <2>1, <1>1, <1>2
    <3> QED
      BY <3>1, <2>1 DEF Good, Mailed, InUse
  <2> QED
    BY <2>1 DEF Good, Mailed, InUse, Mail
<1> QED
  BY <1>7, <1>8, <1>9, <1>11, <1>12, <1>13, <1>14, <1>15 DEF Good

LEMMA DropGood ==
    ASSUME Good, NEW s \in Slots, InUse(s), ~Registering(s),
           release_connection(s, NetworkTook),
           UNCHANGED <<sizes, loop, kernel, lobbies>>,
           wrk.pc \notin {"attach", "count"}, wrk'.pc \notin {"attach", "count"},
           wrk' \in Locals, Work', Reached'
    PROVE  Good'
<1> DEFINE x == slots[s].sock
<1>0. TypeOK
  BY DEF Good
<1>1. UNCHANGED <<next_index, counter, tasks, net, inbox, lobbies>>
  BY DEF sizes, loop, kernel
<1>2. /\ slots' = SlotsWithout(<<s>>) /\ buffer' = BufferWithout(<<s>>)
      /\ epoll' = EpollWithout(<<s>>) /\ place' = PlaceWithout(<<s>>)
      /\ GivenBack(s)
  BY DEF release_connection, give_back, GivenBack
<1>3. /\ x \in Conns
      /\ epoll' = [d \in Conns |-> IF d = x THEN Absent ELSE epoll[d]]
      /\ place' = [d \in Conns |-> IF d = x THEN "gone" ELSE place[d]]
  BY <1>0, <1>2, ReleaseSocket
<1>4. Absent \in Watch /\ "gone" \in Places /\ "gone" # "held"
  BY DEF Absent, Watch, Places
<1>5. epoll \in [Conns -> Watch] /\ place \in [Conns -> Places]
  BY <1>0 DEF TypeOK
<1> HIDE DEF x
<1>6. /\ epoll' \in [Conns -> Watch]
      /\ \A c \in Conns : epoll'[c] = epoll[c] \/ epoll'[c] = Absent
      /\ epoll'[x] = Absent
  BY ONLY <1>3, <1>4, <1>5
<1>7. /\ place' \in [Conns -> Places] /\ place'[x] # "held"
      /\ \A c \in Conns : c # x => place'[c] = place[c]
  BY ONLY <1>3, <1>4, <1>5
<1> QED
  BY <1>1, <1>2, <1>6, <1>7, ReleaseGood DEF x

\* The connection in the worker's hands is lost, unreadable or cannot be rearmed.
LEMMA LostGood ==
    ASSUME Good, get_message_disconnected \/ get_message_fails \/ rearm_socket_fails,
           lobbies' = lobbies
    PROVE  Good'
<1>0. TypeOK /\ Work
  BY DEF Good
<1>1. /\ wrk.pc \in {"receive", "rearm"}
      /\ wrk' = Continue \/ wrk' = Return
      /\ release_connection(wrk.slot, NetworkTook)
      /\ UNCHANGED <<sizes, loop, kernel>>
  BY DEF get_message_disconnected, get_message_fails, rearm_socket_fails, NothingToRead
<1>2. wrk.slot \in Slots /\ InUse(wrk.slot) /\ ~Registering(wrk.slot)
  BY <1>0, <1>1 DEF Work, InHand
<1>3. wrk' \in Locals /\ wrk'.pc \notin {"attach", "count"} /\ Work' /\ Reached'
  BY <1>0, <1>1, WorkerContinues, WorkerReturns
<1> QED
  BY <1>1, <1>2, <1>3, DropGood

\* "Unknown command", also as the answer to a lobby.
LEMMA GeneralGood ==
    ASSUME Good, execute_general, inbox' = inbox
    PROVE  Good'
<1>1. UNCHANGED <<slots, buffer, free, lost, next_index, counter, epoll, tasks, net, place,
                  inbox, lobbies>>
  BY DEF execute_general, pool, entries, sizes, loop
<1>2. TypeOK /\ Work /\ wrk.pc = "handle" /\ wrk' = Continue
  BY DEF Good, execute_general, Handling
<1> QED
  BY <1>1, <1>2, WorkerContinues, WorkerOnly

LEMMA GeneralFailsGood ==
    ASSUME Good, execute_general_fails
    PROVE  Good'
<1>1. /\ wrk.pc = "handle" /\ release_connection(wrk.slot, NetworkTook) /\ wrk' = Return
      /\ UNCHANGED <<sizes, loop, kernel, lobbies>>
  BY DEF execute_general_fails, Handling
<1>2. wrk.slot \in Slots /\ InUse(wrk.slot) /\ ~Registering(wrk.slot)
  BY <1>1 DEF Good, Work, InHand
<1> QED
  BY <1>1, <1>2, WorkerReturns, DropGood

\* A control socket is in a slot of its own, not one of the network thread's.
LEMMA ControlSlot ==
    ASSUME Good, NEW s \in Slots, slots[s].sock \in Controls
    PROVE  InUse(s) /\ ~Registering(s)
<1>1. slots[s].sock # NoConn /\ slots[s].sock \notin Clients
  BY EngineAssumption DEF Conns
<1>2. ASSUME Registering(s)
      PROVE  FALSE
  <2>1. net.slot = s /\ net.pc \in {"assign", "assign_socket", "count", "subscribe"}
    BY <1>2 DEF Registering
  <2>2. net.todo \in Seq(Clients) /\ net.todo # <<>>
    BY <2>1 DEF Good, TypeOK, NetLocals, Accepted
  <2>3. Head(net.todo) \in Clients
    BY <2>2
  <2> QED
    BY <2>1, <2>3, <1>1 DEF Good, Accepted, Filled, InUse
<1> QED
  BY <1>1, <1>2 DEF InUse

LEMMA AttachFailsGood ==
    ASSUME Good, NEW says, attach_fails(says), lobbies' = lobbies
    PROVE  Good'
<1>1. /\ wrk.pc = "subscribe" /\ release_connection(wrk.view, NetworkTook)
      /\ wrk' = Return
      /\ UNCHANGED <<sizes, loop, kernel>>
  BY DEF attach_fails, ReturnError
<1>2. wrk.view \in Slots /\ slots[wrk.view].sock \in Controls
  BY <1>1 DEF Good, Work, Creating
<1> QED
  BY <1>1, <1>2, ControlSlot, WorkerReturns, DropGood

\* A client is sent the text, or released.
LEMMA BroadcastSendGood ==
    ASSUME Good, mishaps' = {}, broadcast_send, lobbies' = lobbies
    PROVE  Good'
<1>1. /\ wrk.pc = "broadcast" /\ wrk \in Locals
      /\ wrk.index < counter /\ slots[wrk.index].type = "TO_CLIENT"
      /\ wrk' = [wrk EXCEPT !.index = wrk.index + 1,
                            !.audience = wrk.audience \ {slots[wrk.index].sock}]
      /\ UNCHANGED <<sizes, loop, kernel>>
  BY DEF broadcast_send, BroadcastTo, Good, TypeOK
<1>2. wrk.index \in Nat /\ wrk.index >= 1 /\ wrk.slot \in Slots
  BY <1>1 DEF Locals, Good, Work
<1>3. wrk.index \in Slots
  <2>1. counter \in Nat /\ next_index \in 1 .. MaxSlots + 1
    BY DEF Good, TypeOK
  <2>2. counter <= next_index
    BY <2>1 DEF Good, Counted, One
  <2> QED
    BY <2>1, <2>2, <1>1, <1>2, EngineAssumption DEF Slots
<1>4. /\ wrk' \in Locals /\ wrk'.pc = "broadcast" /\ wrk'.index = wrk.index + 1
      /\ wrk'.slot = wrk.slot
      /\ wrk'.audience = wrk.audience \ {slots[wrk.index].sock}
  <2> DEFINE rest == wrk.audience \ {slots[wrk.index].sock}
  <2>1. rest \in SUBSET (Conns \cup {NoConn})
    BY <1>1 DEF Locals
  <2> HIDE DEF rest
  <2>2. wrk' = [wrk EXCEPT !.index = wrk.index + 1, !.audience = rest]
    BY <1>1 DEF rest
  <2>3. wrk.index + 1 \in Nat
    BY <1>2
  <2>4. wrk.pc = "broadcast" /\ wrk \in Locals
    BY <1>1
  <2>5. /\ wrk' \in Locals /\ wrk'.pc = "broadcast" /\ wrk'.index = wrk.index + 1
        /\ wrk'.slot = wrk.slot /\ wrk'.audience = rest
    BY ONLY <2>1, <2>2, <2>3, <2>4 DEF Locals
  <2> QED
    BY <2>5 DEF rest
<1>5. Work'
  BY <1>2, <1>4 DEF Work, InHand, Answering, Creating
<1>6. ASSUME NEW c \in wrk.audience \ {slots[wrk.index].sock}
      PROVE  \E s \in Slots : /\ s # wrk.index
                              /\ wrk.index + 1 <= s /\ slots[s].sock = c
                              /\ slots[s].type = "TO_CLIENT" /\ ~Registering(s)
  <2>1. PICK s \in Slots : /\ wrk.index <= s /\ slots[s].sock = c
                           /\ slots[s].type = "TO_CLIENT" /\ ~Registering(s)
    BY <1>1, <1>6 DEF Good, Reached
  <2>2. s # wrk.index
    BY <1>6, <2>1
  <2>3. s \in Nat
    BY EngineAssumption DEF Slots
  <2> QED
    BY <2>1, <2>2, <2>3, <1>2
<1>7. CASE UNCHANGED <<entries, epoll, place>>
  <2>1. UNCHANGED <<slots, buffer, free, lost, next_index, counter, epoll, tasks, net, place,
                    inbox, lobbies>>
    BY <1>1, <1>7 DEF entries, sizes, loop, kernel
  <2>2. Reached'
    BY <1>4, <1>6, <2>1, BusySame DEF Reached
  <2> QED
    BY <1>1, <1>4, <1>5, <2>1, <2>2, WorkerOnly
<1>8. CASE release_connection(wrk.index, NetworkTook) /\ Overlap(wrk.index)
  <2>1. ~Registering(wrk.index)
    BY <1>8 DEF Overlap
  <2>2. InUse(wrk.index)
    BY <1>1, <1>3, <2>1, TypedIsBusy
  <2>3. \A t \in Slots \ {wrk.index} : slots'[t] = slots[t]
    <3>1. TypeOK /\ slots' = SlotsWithout(<<wrk.index>>)
          /\ buffer' = BufferWithout(<<wrk.index>>)
      BY <1>8 DEF Good, release_connection
    <3> QED
      BY <1>3, <3>1, ReleaseFields
  <2>4. net' = net
    BY <1>1 DEF loop
  <2>5. Reached'
    <3>1. ASSUME NEW c \in wrk'.audience
          PROVE  \E s \in Slots : /\ wrk'.index <= s /\ slots'[s].sock = c
                                  /\ slots'[s].type = "TO_CLIENT" /\ ~Registering(s)
      BY <3>1, <1>4, <1>6, <2>3
    <3> QED
      BY <3>1, <2>4 DEF Reached, Registering
  <2> QED
    BY <1>1, <1>3, <1>4, <1>5, <1>8, <2>1, <2>2, <2>5, DropGood
<1> QED
  BY <1>7, <1>8 DEF broadcast_send

-----------------------------------------------------------------------------
(* The transfer of a client                                                *)

\* The client of the command leaves epoll ...
LEMMA TransferGood ==
    ASSUME Good, transfer
    PROVE  Good'
<1>0. TypeOK /\ Work /\ wrk \in Locals
  BY DEF Good, TypeOK
<1>1. /\ wrk.pc = "transfer" /\ wrk' = [wrk EXCEPT !.pc = "send_socket"]
      /\ epoll' = EpollWithout(<<wrk.slot>>)
      /\ UNCHANGED <<slots, buffer, free, lost, next_index, counter, tasks, net, place,
                     inbox, lobbies>>
  BY DEF transfer, pool, entries, sizes, loop, kernel
<1>2. /\ wrk.slot \in Slots /\ InUse(wrk.slot) /\ ~Registering(wrk.slot)
      /\ wrk.msg \in Mail(Pending) /\ Pending \in Clients /\ wrk.view \in Slots
      /\ wrk.code \in Codes /\ lobbies[wrk.code] # NoLobby
  BY <1>0, <1>1 DEF Work, InHand, Answering
<1>3. /\ Pending \in Conns
      /\ epoll' = [d \in Conns |-> IF d = Pending THEN Absent ELSE epoll[d]]
  BY <1>0, <1>1, <1>2, ReleaseSocket DEF Pending
<1>4. epoll \in [Conns -> Watch] /\ Absent \in Watch
  BY <1>0 DEF TypeOK, Absent, Watch
<1>5. /\ epoll' \in [Conns -> Watch] /\ epoll'[Pending] = Absent
      /\ \A c \in Conns : epoll'[c] = epoll[c] \/ epoll'[c] = Absent
  BY ONLY <1>3, <1>4
<1>6. /\ wrk' \in Locals /\ wrk'.pc = "send_socket" /\ wrk'.slot = wrk.slot
      /\ wrk'.msg = wrk.msg /\ wrk'.view = wrk.view /\ wrk'.code = wrk.code
  BY <1>0, <1>1 DEF Locals, WorkerPoints
<1>7. Work' /\ Reached'
  <2>1. Pending' = Pending
    BY <1>1, <1>6 DEF Pending
  <2> QED
    BY <1>1, <1>2, <1>5, <1>6, <2>1, BusySame
       DEF Work, Reached, InHand, Answering, Creating, Absent
<1>8. TypeOK'
  BY <1>0, <1>1, <1>5, <1>6 DEF TypeOK
<1>9. Registered'
  BY <1>1, <1>5 DEF Good, Registered, Absent
<1>10. Counted'
  BY <1>1, <1>6 DEF Good, Counted, One
<1> QED
  BY <1>1, <1>7, <1>8, <1>9, <1>10, PoolKept DEF Good

\* ... before its descriptor is sent ...
LEMMA SendSocketGood ==
    ASSUME Good, send_socket, inbox' = inbox
    PROVE  Good'
<1>0. TypeOK /\ Work /\ wrk \in Locals
  BY DEF Good, TypeOK
<1>1. /\ wrk.pc = "send_socket"
      /\ wrk' = [wrk EXCEPT !.pc = "let_go", !.ctrl = slots[wrk.view].sock]
      /\ UNCHANGED <<slots, buffer, free, lost, next_index, counter, epoll, tasks, net,
                     place, inbox, lobbies>>
  BY DEF send_socket, pool, entries, sizes, loop
<1>2. /\ wrk.slot \in Slots /\ InUse(wrk.slot) /\ ~Registering(wrk.slot)
      /\ wrk.msg \in Mail(Pending) /\ Pending \in Clients /\ wrk.view \in Slots
      /\ epoll[Pending] = Absent
  BY <1>0, <1>1 DEF Work, InHand, Answering
<1>3. slots[wrk.view].sock \in Conns \cup {NoConn}
  BY <1>0, <1>2 DEF TypeOK, EntryType
<1>4. /\ wrk' \in Locals /\ wrk'.pc = "let_go" /\ wrk'.slot = wrk.slot
      /\ wrk'.msg = wrk.msg
  BY <1>0, <1>1, <1>3 DEF Locals, WorkerPoints
<1>5. Work' /\ Reached'
  <2>1. Pending' = Pending
    BY <1>1, <1>4 DEF Pending
  <2> QED
    BY <1>1, <1>2, <1>4, <2>1, BusySame
       DEF Work, Reached, InHand, Answering, Creating, Absent
<1> QED
  BY <1>1, <1>4, <1>5, WorkerOnly

\* ... and its slot given back.
LEMMA LetGoGood ==
    ASSUME Good, let_go
    PROVE  Good'
<1> DEFINE s == wrk.slot
           x == slots[wrk.slot].sock
<1>0. TypeOK /\ Work
  BY DEF Good
<1>1. /\ wrk.pc = "let_go" /\ wrk' = Continue
      /\ slots' = SlotsWithout(<<s>>) /\ buffer' = BufferWithout(<<s>>)
      /\ GivenBack(s)
      /\ epoll' = epoll \/ epoll' = EpollWithout(<<s>>)
      /\ \/ place' = [PlaceWithout(<<s>>) EXCEPT ![wrk.msg.from] = "moved"]
         \/ place' = PlaceWithout(<<s>>)
      /\ UNCHANGED <<next_index, counter, tasks, net, inbox, lobbies>>
  BY DEF let_go, give_back, GivenBack, sizes, loop, kernel
<1>2. /\ s \in Slots /\ InUse(s) /\ ~Registering(s) /\ wrk.msg \in Mail(x)
      /\ epoll[x] = Absent
  BY <1>0, <1>1 DEF Work, InHand, Answering, Pending
<1>3. /\ x \in Conns
      /\ EpollWithout(<<s>>) = [d \in Conns |-> IF d = x THEN Absent ELSE epoll[d]]
      /\ PlaceWithout(<<s>>) = [d \in Conns |-> IF d = x THEN "gone" ELSE place[d]]
  BY <1>0, <1>2, ReleaseSocket
<1>4. wrk.msg.from = x
  BY <1>2, <1>3, MailFields
<1>5. /\ Absent \in Watch
      /\ "gone" \in Places /\ "moved" \in Places /\ "gone" # "held" /\ "moved" # "held"
  BY DEF Absent, Watch, Places
<1>6. epoll \in [Conns -> Watch] /\ place \in [Conns -> Places]
  BY <1>0 DEF TypeOK
<1>7. /\ wrk' \in Locals /\ wrk'.pc = "check" /\ Work' /\ Reached'
  BY <1>0, <1>1, WorkerContinues
<1> HIDE DEF x, s
<1>8. /\ epoll' \in [Conns -> Watch]
      /\ \A c \in Conns : epoll'[c] = epoll[c] \/ epoll'[c] = Absent
      /\ epoll'[x] = Absent
  <2>1. CASE epoll' = epoll
    BY <2>1, <1>2, <1>6
  <2>2. CASE epoll' = EpollWithout(<<s>>)
    BY ONLY <2>2, <1>3, <1>5, <1>6
  <2> QED
    BY <2>1, <2>2, <1>1
<1>9. /\ place' \in [Conns -> Places] /\ place'[x] # "held"
      /\ \A c \in Conns : c # x => place'[c] = place[c]
  <2>1. CASE place' = PlaceWithout(<<s>>)
    BY ONLY <2>1, <1>3, <1>5, <1>6
  <2>2. CASE place' = [PlaceWithout(<<s>>) EXCEPT ![wrk.msg.from] = "moved"]
    BY ONLY <2>2, <1>3, <1>4, <1>5, <1>6
  <2> QED
    BY <2>1, <2>2, <1>1
<1>10. x = slots[s].sock
  BY DEF x, s
<1> QED
  BY <1>1, <1>2, <1>7, <1>8, <1>9, <1>10, ReleaseGood

\* The lobby cannot be reached; its control connection is released.
LEMMA SendSocketFailsGood ==
    ASSUME Good, mishaps' = {}, send_socket_fails
    PROVE  Good'
<1> DEFINE v == wrk.view
           x == slots[wrk.view].sock
<1>0. TypeOK /\ Work
  BY DEF Good
<1>1. /\ wrk.pc = "send_socket"
      /\ wrk' = [Continue EXCEPT !.pc = "resubscribe", !.code = wrk.code]
      /\ release_connection(v, NetworkTook)
      /\ UNCHANGED <<sizes, loop, kernel, lobbies>>
  BY DEF send_socket_fails
<1>2. /\ wrk.slot \in Slots /\ InUse(wrk.slot) /\ ~Registering(wrk.slot)
      /\ Pending \in Clients /\ v \in Slots
      /\ wrk.code \in Codes /\ lobbies[wrk.code] # NoLobby
  BY <1>0, <1>1 DEF Work, InHand, Answering
<1>3. x \in Controls
  <2>1. ViewFresh
    BY DEF send_socket_fails, Stale
  <2>2. lobbies[wrk.code].ctrl \in Controls
    BY <1>0, <1>2 DEF TypeOK
  <2> QED
    BY <2>1, <2>2 DEF ViewFresh
<1>4. InUse(v) /\ ~Registering(v)
  BY <1>2, <1>3, ControlSlot
<1>5. wrk.slot # v
  BY <1>2, <1>3, EngineAssumption DEF Pending
<1>6. /\ wrk' \in Locals /\ wrk'.pc = "resubscribe"
      /\ wrk'.slot = wrk.slot /\ wrk'.code = wrk.code
  <2>1. Continue \in Locals /\ Continue.slot = wrk.slot
    BY <1>2, IdleTyped DEF Continue, IdleWorker, Locals, WorkerPoints
  <2> QED
    BY <2>1, <1>1, <1>2 DEF Locals, WorkerPoints
<1>7. slots'[wrk.slot] = slots[wrk.slot] /\ net' = net
  <2>1. slots' = SlotsWithout(<<v>>) /\ buffer' = BufferWithout(<<v>>) /\ net' = net
    BY <1>1 DEF release_connection, loop
  <2> QED
    BY <2>1, <1>0, <1>2, <1>5, ReleaseFields
<1>8. Work' /\ Reached'
  <2>1. slots'[wrk'.slot].sock # NoConn /\ ~Registering(wrk'.slot)
    BY <1>2, <1>6, <1>7 DEF InUse
  <2> QED
    BY <1>1, <1>2, <1>6, <1>7, <2>1
       DEF Work, Reached, InHand, Answering, Creating, InUse, Registering
<1> HIDE DEF v, x
<1> QED
  BY <1>1, <1>2, <1>4, <1>6, <1>8, DropGood

\* The client's socket is in epoll again.
LEMMA RearmGood ==
    ASSUME Good, rearm_socket \/ resubscribe, lobbies' = lobbies
    PROVE  Good'
<1>0. TypeOK /\ Work
  BY DEF Good
<1>1. /\ wrk.pc \in {"rearm", "resubscribe"}
      /\ wrk' = Return \/ wrk' = Continue
      /\ epoll' = [epoll EXCEPT ![Pending] = Armed(wrk.slot)]
      /\ UNCHANGED <<slots, buffer, free, lost, next_index, counter, tasks, net, place, inbox>>
  BY DEF rearm_socket, resubscribe, pool, entries, sizes, loop, kernel
<1>2. wrk.slot \in Slots /\ InUse(wrk.slot)
  BY <1>0, <1>1 DEF Work, InHand
<1>3. Pending \in Conns /\ slots[wrk.slot].sock = Pending
  BY <1>0, <1>2 DEF TypeOK, EntryType, InUse, Pending
<1>4. Armed(wrk.slot) \in Watch /\ Armed(wrk.slot).slot = wrk.slot /\ wrk.slot # NoSlot
  BY <1>2, EngineAssumption DEF Armed, Watch, NoSlot, Slots
<1>5. epoll \in [Conns -> Watch]
  BY <1>0 DEF TypeOK
<1>6. /\ epoll' \in [Conns -> Watch] /\ epoll'[Pending] = Armed(wrk.slot)
      /\ \A c \in Conns : c # Pending => epoll'[c] = epoll[c]
  BY <1>1, <1>3, <1>4, <1>5
<1>7. wrk' \in Locals /\ wrk'.pc \in {"idle", "check"} /\ Work' /\ Reached'
  BY <1>0, <1>1, WorkerContinues, WorkerReturns
<1>8. TypeOK'
  BY <1>0, <1>1, <1>6, <1>7 DEF TypeOK
<1>9. Registered'
  <2>1. ASSUME NEW c \in Conns
        PROVE  /\ epoll'[c].slot # NoSlot => slots[epoll'[c].slot].sock = c
               /\ epoll'[c].armed => epoll'[c].slot # NoSlot
    <3>1. CASE c = Pending
      BY <3>1, <1>3, <1>4, <1>6
    <3>2. CASE c # Pending
      BY <3>2, <1>6 DEF Good, Registered
    <3> QED
      BY <3>1, <3>2
  <2> QED
    BY <2>1, <1>1 DEF Registered
<1>10. Counted'
  BY <1>1, <1>7 DEF Good, Counted, One
<1> QED
  BY <1>1, <1>7, <1>8, <1>9, <1>10, PoolKept DEF Good

-----------------------------------------------------------------------------
(* Reading                                                                 *)

\* The worker takes message m and leaves b in the buffer of its slot.
LEMMA ReadGood ==
    ASSUME Good, wrk.pc = "receive",
           UNCHANGED <<slots, free, lost, next_index, counter, epoll, tasks, net, place, lobbies>>,
           NEW m \in Mail(Pending), wrk' = [wrk EXCEPT !.pc = "handle", !.msg = m],
           NEW b \in Seq(Mail(Pending)), buffer' = [buffer EXCEPT ![wrk.slot] = b],
           inbox' \in [Conns -> Seq(AnyMail)],
           \A c \in Conns : inbox'[c] \in Seq(Mail(c))
    PROVE  Good'
<1>0. TypeOK /\ Work /\ wrk \in Locals
  BY DEF Good, TypeOK
<1>1. wrk.slot \in Slots /\ InUse(wrk.slot) /\ ~Registering(wrk.slot)
  BY <1>0 DEF Work, InHand
<1>2. Pending \in Conns
  BY <1>0, <1>1 DEF TypeOK, EntryType, InUse, Pending
<1>3. \A n \in Mail(Pending) : n \in AnyMail
  BY <1>2, MailFields
<1>4. b \in Seq(AnyMail)
  BY ONLY <1>3, b \in Seq(Mail(Pending))
<1>5. buffer \in [Slots -> Seq(AnyMail)]
  BY <1>0 DEF TypeOK
<1>6. /\ buffer' \in [Slots -> Seq(AnyMail)] /\ buffer'[wrk.slot] = b
      /\ \A t \in Slots : t # wrk.slot => buffer'[t] = buffer[t]
  BY <1>1, <1>4, <1>5
<1>7. /\ wrk' \in Locals /\ wrk'.pc = "handle" /\ wrk'.slot = wrk.slot /\ wrk'.msg = m
  BY <1>0, <1>3 DEF Locals, WorkerPoints
<1>8. Work' /\ Reached'
  <2>1. Pending' = Pending
    BY <1>7 DEF Pending
  <2> QED
    BY <1>1, <1>7, <2>1, BusySame DEF Work, Reached, InHand, Answering, Creating
<1>9. TypeOK'
  BY <1>0, <1>6, <1>7 DEF TypeOK
<1>10. Registered' /\ Counted'
  BY <1>7 DEF Good, Registered, Counted, One
<1>11. Pool'
  BY BusySame DEF Good, Pool, Taken
<1>12. Entries'
  <2>1. \A s \in Slots : ~InUse(s) => buffer'[s] = <<>>
    BY <1>1, <1>6 DEF Good, Entries
  <2> QED
    BY <2>1, BusySame DEF Good, Entries, Complete
<1>13. Accepted'
  BY BusySame DEF Good, Accepted, Filled
<1>14. Held'
  <2>1. \A c : Homed(c) => Homed(c)'
    BY DEF Homed
  <2> QED
    BY <2>1, BusySame DEF Good, Held
<1>15. Mailed'
  <2>1. ASSUME NEW s \in Slots, InUse(s)
        PROVE  buffer'[s] \in Seq(Mail(slots[s].sock))
    <3>1. CASE s = wrk.slot
      BY <3>1, <1>6 DEF Pending
    <3>2. CASE s # wrk.slot
      BY <3>2, <2>1, <1>6 DEF Good, Mailed
    <3> QED
      BY <3>1, <3>2
  <2> QED
    BY <2>1, BusySame DEF Mailed
<1> QED
  BY <1>8, <1>9, <1>10, <1>11, <1>12, <1>13, <1>14, <1>15 DEF Good

LEMMA BufferedGood ==
    ASSUME Good, get_message_buffered, lobbies' = lobbies
    PROVE  Good'
<1> DEFINE q == buffer[wrk.slot]
<1>1. /\ wrk.pc = "receive" /\ q # <<>>
      /\ wrk' = [wrk EXCEPT !.pc = "handle", !.msg = Head(q)]
      /\ buffer' = [buffer EXCEPT ![wrk.slot] = Tail(q)]
      /\ UNCHANGED <<slots, free, lost, next_index, counter, epoll, tasks, net, place, inbox>>
  BY DEF get_message_buffered, sizes, loop, kernel
<1>2. wrk.slot \in Slots /\ InUse(wrk.slot)
  BY <1>1 DEF Good, Work, InHand
<1>3. q \in Seq(Mail(Pending))
  BY <1>2 DEF Good, Mailed, Pending
<1> HIDE DEF q
<1>4. Head(q) \in Mail(Pending) /\ Tail(q) \in Seq(Mail(Pending))
  BY <1>1, <1>3
<1>5. inbox' \in [Conns -> Seq(AnyMail)] /\ \A c \in Conns : inbox'[c] \in Seq(Mail(c))
  BY <1>1 DEF Good, TypeOK, Mailed
<1> QED
  BY <1>1, <1>4, <1>5, ReadGood

LEMMA ReceivedGood ==
    ASSUME Good, get_message_received, lobbies' = lobbies
    PROVE  Good'
<1> DEFINE q == inbox[Pending]
<1>1. /\ wrk.pc = "receive"
      /\ UNCHANGED <<slots, free, lost, next_index, counter, epoll, tasks, net, place>>
  BY DEF get_message_received, sizes, loop
<1>2. PICK n \in 1 .. Len(q) :
          /\ wrk' = [wrk EXCEPT !.pc = "handle", !.msg = Head(q)]
          /\ buffer' = [buffer EXCEPT ![wrk.slot] = SubSeq(q, 2, n)]
          /\ inbox' = [inbox EXCEPT ![Pending] = SubSeq(q, n + 1, Len(q))]
  BY DEF get_message_received
<1>3. wrk.slot \in Slots /\ InUse(wrk.slot)
  BY <1>1 DEF Good, Work, InHand
<1>4. Pending \in Conns
  BY <1>3 DEF Good, TypeOK, EntryType, InUse, Pending
<1>5. inbox \in [Conns -> Seq(AnyMail)] /\ q \in Seq(Mail(Pending)) /\ q \in Seq(AnyMail)
  BY <1>4 DEF Good, TypeOK, Mailed
<1> HIDE DEF q
<1>6. Head(q) \in Mail(Pending) /\ SubSeq(q, 2, n) \in Seq(Mail(Pending))
  BY <1>2, <1>5
<1>7. /\ SubSeq(q, n + 1, Len(q)) \in Seq(Mail(Pending))
      /\ SubSeq(q, n + 1, Len(q)) \in Seq(AnyMail)
  <2>1. n + 1 \in 1 .. Len(q) + 1 /\ n \in 1 .. Len(q)
    BY <1>5
  <2> QED
    BY <1>5, <2>1
<1>8. inbox' \in [Conns -> Seq(AnyMail)]
  BY <1>2, <1>4, <1>5, <1>7
<1>9. \A c \in Conns : inbox'[c] \in Seq(Mail(c))
  BY <1>2, <1>4, <1>5, <1>7 DEF Good, Mailed
<1> QED
  BY <1>1, <1>2, <1>6, <1>8, <1>9, ReadGood

-----------------------------------------------------------------------------
(* A lobby is created                                                      *)

LEMMA SpawnGood ==
    ASSUME Good, spawn_lobby
    PROVE  Good'
<1>0. TypeOK /\ Work /\ wrk \in Locals
  BY DEF Good, TypeOK
<1>1. /\ wrk.pc = "handle" /\ wrk.msg.action = "CreateLobby"
      /\ UNCHANGED <<slots, buffer, free, lost, next_index, counter, epoll, tasks, net,
                     inbox, lobbies>>
  BY DEF spawn_lobby, Handling, pool, entries, sizes, loop, kernel
<1>2. PICK l \in Controls :
          /\ place[l] = "new" /\ place' = [place EXCEPT ![l] = "held"]
          /\ wrk' = [wrk EXCEPT !.pc = "attach", !.ctrl = l]
  BY DEF spawn_lobby
<1>3. l \in Conns
  BY DEF Conns
<1>4. /\ place' \in [Conns -> Places] /\ place'[l] = "held"
      /\ \A c \in Conns : c # l => place'[c] = place[c]
      /\ \A c \in Conns : place[c] = "held" => place'[c] = "held"
  BY <1>0, <1>2, <1>3 DEF TypeOK, Places
<1>5. /\ wrk' \in Locals /\ wrk'.pc = "attach" /\ wrk'.slot = wrk.slot
      /\ wrk'.msg = wrk.msg /\ wrk'.ctrl = l
  BY <1>0, <1>2, <1>3 DEF Locals, WorkerPoints
<1>6. \A s \in Slots : slots[s].sock # l
  <2>1. l # NoConn
    BY <1>3, EngineAssumption
  <2>2. ~(place[l] = "held")
    BY <1>2
  <2> QED
    BY <2>1, <2>2 DEF Good, Held, InUse
<1>7. /\ wrk.slot \in Slots /\ InUse(wrk.slot) /\ ~Registering(wrk.slot)
      /\ wrk.msg \in Mail(Pending)
  BY <1>0, <1>1 DEF Work, InHand, Answering
<1>8. Work' /\ Reached'
  <2>1. Pending' = Pending /\ Pending \in Clients
    BY <1>1, <1>5, <1>7, HeldSender DEF Pending
  <2> QED
    BY <1>1, <1>4, <1>5, <1>6, <1>7, <2>1, BusySame
       DEF Work, Reached, InHand, Answering, Creating
<1>9. TypeOK'
  BY <1>0, <1>1, <1>4, <1>5 DEF TypeOK
<1>10. Registered' /\ Counted'
  BY <1>1, <1>5 DEF Good, Registered, Counted, One
<1>11. Pool' /\ Entries' /\ Mailed'
  BY <1>1, BusySame DEF Good, Pool, Taken, Entries, Mailed, Complete
<1>12. Accepted'
  <2>1. \A i \in 1 .. Len(net.todo) : net.todo[i] \in Conns
    BY <1>0 DEF TypeOK, NetLocals, Conns
  <2> QED
    BY <2>1, <1>1, <1>4, BusySame DEF Good, Accepted, Filled
<1>13. Held'
  <2>1. \A s \in Slots : InUse(s) => slots[s].sock \in Conns
    BY <1>0 DEF TypeOK, EntryType, InUse
  <2>2. ASSUME NEW c \in Conns, place'[c] = "held"
        PROVE  Homed(c)'
    <3>1. CASE c = l
      BY <3>1, <1>5 DEF Homed
    <3>2. CASE c # l
      <4>1. Homed(c)
        BY <3>2, <2>2, <1>4 DEF Good, Held
      <4> QED
        BY <4>1, <1>1 DEF Homed
    <3> QED
      BY <3>1, <3>2
  <2> QED
    BY <2>1, <2>2, <1>1, <1>4, BusySame DEF Good, Held
<1> QED
  BY <1>8, <1>9, <1>10, <1>11, <1>12, <1>13 DEF Good

\* The control socket gets slot s, which was free or is new.
LEMMA FillGood ==
    ASSUME Good, wrk.pc = "attach", NEW s \in Slots, s \notin Busy, s \notin lost,
           slots' = [slots EXCEPT ![s] = Entry("TO_LOBBY", wrk.ctrl)],
           UNCHANGED <<buffer, lost, epoll, tasks, net, inbox, place, lobbies>>,
           free' \in Seq(Slots), next_index' \in 1 .. MaxSlots + 1, counter' = counter,
           Books(free', next_index', Taken \cup {s}),
           wrk' \in Locals, wrk'.pc \in {"count", "subscribe"}, wrk'.slot = wrk.slot,
           wrk'.msg = wrk.msg, wrk'.ctrl = wrk.ctrl, wrk'.view = s,
           Counted'
    PROVE  Good'
<1> DEFINE x == wrk.ctrl
<1>0. TypeOK /\ Work
  BY DEF Good
<1>1. /\ x \in Controls /\ place[x] = "held" /\ \A t \in Slots : slots[t].sock # x
      /\ wrk.slot \in Slots /\ InUse(wrk.slot) /\ ~Registering(wrk.slot)
      /\ wrk.msg \in Mail(Pending) /\ Pending \in Clients
  BY <1>0 DEF Work, Creating, InHand, Answering
<1>2. x \in Conns /\ x # NoConn /\ x \notin Clients
  BY <1>1, EngineAssumption DEF Conns
<1>3. Entry("TO_LOBBY", x) \in EntryType /\ Complete(Entry("TO_LOBBY", x))
      /\ Entry("TO_LOBBY", x).sock = x
  BY <1>1, <1>2 DEF EntryType, Entry, Complete
<1>4. /\ slots' \in [Slots -> EntryType] /\ slots'[s] = Entry("TO_LOBBY", x)
      /\ slots'[s].sock = x
      /\ \A t \in Slots \ {s} : slots'[t] = slots[t]
  BY <1>0, <1>3 DEF TypeOK
<1>5. slots[s] = EmptyEntry /\ slots[s].sock = NoConn /\ buffer[s] = <<>> /\ ~Registering(s)
  <2>1. slots[s] = EmptyEntry /\ ~InUse(s) /\ ~Registering(s)
    BY DEF Good, Entries, Busy
  <2> QED
    BY <2>1 DEF Good, Entries, InUse
<1>6. \A t \in Slots : slots'[t].sock # NoConn <=> InUse(t) \/ t = s
  BY <1>2, <1>4 DEF InUse
<1>7. Busy' = Busy \cup {s}
  BY <1>6 DEF Busy, InUse, Registering
<1> HIDE DEF x
<1>8. TypeOK'
  BY <1>0, <1>4 DEF TypeOK
<1>9. Pool'
  <2>1. Taken' = Taken \cup {s} /\ Busy' \cap lost' = {}
    BY <1>7 DEF Taken, Good, Pool
  <2> QED
    BY <2>1 DEF Pool
<1>10. Entries'
  <2>1. ASSUME NEW t \in Slots
        PROVE  /\ slots'[t].sock # NoConn => Complete(slots'[t])
               /\ slots'[t].sock = NoConn =>
                      slots'[t].status = "EMPTY" /\ buffer'[t] = <<>>
               /\ t \notin Busy' => slots'[t] = EmptyEntry
    <3>1. CASE t = s
      BY <3>1, <1>2, <1>3, <1>4, <1>7
    <3>2. CASE t # s
      BY <3>2, <1>4, <1>7 DEF Good, Entries, InUse
    <3> QED
      BY <3>1, <3>2
  <2> QED
    BY <2>1 DEF Entries, InUse, Complete
<1>11. \A i \in 1 .. Len(net.todo) : net.todo[i] \in Clients /\ net.todo[i] # x
  BY <1>0, <1>2 DEF TypeOK, NetLocals
<1>12. Accepted'
  <2>1. net.pc \notin {"wait", "register"} => net.slot \in Slots \ {s}
    BY <1>5, <1>0 DEF Good, Accepted, Registering, TypeOK, NetLocals, NetPoints
  <2>2. net.pc \notin {"wait", "register"} => slots'[net.slot] = slots[net.slot]
    BY <2>1, <1>4
  <2>3. ASSUME NEW i \in 1 .. Len(net.todo), NEW t \in Slots, slots'[t].sock = net.todo[i]
        PROVE  Filled /\ i = 1
    <3>1. t # s
      BY <2>3, <1>4, <1>11
    <3>2. slots[t].sock = net.todo[i]
      BY <3>1, <2>3, <1>4
    <3> QED
      BY <3>2 DEF Good, Accepted
  <2> QED
    BY <2>2, <2>3 DEF Good, Accepted, Filled, InUse
<1>13. Held'
  <2>1. \A t \in Slots : slots'[t].sock # NoConn => place'[slots'[t].sock] = "held"
    <3>1. ASSUME NEW t \in Slots, slots'[t].sock # NoConn
          PROVE  place[slots'[t].sock] = "held"
      <4>1. CASE t = s
        BY <4>1, <1>1, <1>4 DEF x
      <4>2. CASE t # s
        BY <4>2, <3>1, <1>4 DEF Good, Held, InUse
      <4> QED
        BY <4>1, <4>2
    <3> QED
      BY <3>1
  <2>2. ASSUME NEW t \in Slots, NEW u \in Slots, slots'[t].sock = slots'[u].sock,
               slots'[t].sock # NoConn
        PROVE  t = u
    <3>1. \A z \in Slots \ {s} : slots'[z] = slots[z] /\ slots[z].sock # x
      BY <1>1, <1>4 DEF x
    <3> QED
      BY <2>2, <3>1, <1>4 DEF Good, Held, InUse
  <2>3. ASSUME NEW c \in Conns, place[c] = "held"
        PROVE  Homed(c)'
    <3>1. Homed(c)
      BY <2>3 DEF Good, Held
    <3>2. CASE \E t \in Slots : slots[t].sock = c
      <4>1. PICK t \in Slots : slots[t].sock = c
        BY <3>2
      <4>2. c # NoConn
        BY EngineAssumption
      <4>3. slots'[t].sock = c
        BY <4>1, <4>2, <1>4, <1>5
      <4> QED
        BY <4>3 DEF Homed
    <3>3. CASE \E i \in 1 .. Len(net.todo) : net.todo[i] = c
      BY <3>3 DEF Homed
    <3>4. CASE wrk.ctrl = c
      BY <3>4, <1>4 DEF Homed, x
    <3> QED
      BY <3>1, <3>2, <3>3, <3>4 DEF Homed
  <2> QED
    BY <2>1, <2>2, <2>3 DEF Held, InUse
<1>14. Registered'
  <2>1. ASSUME NEW c \in Conns, epoll[c].slot # NoSlot
        PROVE  slots'[epoll[c].slot].sock = c
    <3>1. epoll[c].slot \in Slots /\ slots[epoll[c].slot].sock = c /\ c # NoConn
      BY <2>1, <1>0, EngineAssumption DEF TypeOK, Watch, Good, Registered
    <3> QED
      BY <3>1, <1>4, <1>5
  <2> QED
    BY <2>1 DEF Good, Registered
<1>15. Work'
  <2>1. wrk.slot # s
    BY <1>1, <1>5 DEF InUse
  <2>2. slots'[wrk.slot] = slots[wrk.slot]
    BY <2>1, <1>1, <1>4
  <2>3. Pending' = Pending
    BY <2>2 DEF Pending
  <2>4. slots'[wrk'.view].sock = wrk'.ctrl
    BY <1>4 DEF x
  <2>5. slots'[wrk'.slot].sock # NoConn /\ ~Registering(wrk'.slot)
    BY <1>1, <2>2 DEF InUse
  <2>6. wrk'.ctrl \in Controls
    BY <1>1 DEF x
  <2> QED
    BY <1>1, <2>3, <2>4, <2>5, <2>6
       DEF Work, InHand, Answering, Creating, InUse, Registering, Mail
<1>16. Mailed'
  <2>1. ASSUME NEW t \in Slots, slots'[t].sock # NoConn
        PROVE  buffer[t] \in Seq(Mail(slots'[t].sock))
    <3>1. CASE t = s
      BY <3>1, <1>5
    <3>2. CASE t # s
      BY <3>2, <2>1, <1>4 DEF Good, Mailed, InUse
    <3> QED
      BY <3>1, <3>2
  <2> QED
    BY <2>1 DEF Good, Mailed, InUse, Mail
<1>17. Reached'
  BY DEF Reached
<1> QED
  BY <1>8, <1>9, <1>10, <1>12, <1>13, <1>14, <1>15, <1>16, <1>17 DEF Good

LEMMA AttachReusedGood ==
    ASSUME Good, attach_reused("TO_LOBBY"), lobbies' = lobbies
    PROVE  Good'
<1> DEFINE s == Head(free)
<1>0. TypeOK /\ wrk \in Locals
  BY DEF Good, TypeOK
<1>1. /\ wrk.pc = "attach" /\ free # <<>> /\ free' = Tail(free)
      /\ slots' = [slots EXCEPT ![s] = Entry("TO_LOBBY", wrk.ctrl)]
      /\ wrk' = [wrk EXCEPT !.pc = "subscribe", !.view = s]
      /\ UNCHANGED <<buffer, lost, next_index, counter, epoll, tasks, net, inbox,
                     place>>
  BY DEF attach_reused, sizes, loop, kernel
<1>2. Pool /\ next_index \in 1 .. MaxSlots + 1
  BY <1>0 DEF TypeOK, Good
<1>3. /\ s \in Slots /\ s \notin Busy /\ s \notin lost /\ free' \in Seq(Slots)
      /\ Books(free', next_index, Taken \cup {s})
  BY <1>0, <1>1, <1>2, PoolTake
<1> HIDE DEF s
<1>4. /\ wrk' \in Locals /\ wrk'.pc = "subscribe" /\ wrk'.slot = wrk.slot
      /\ wrk'.msg = wrk.msg /\ wrk'.ctrl = wrk.ctrl /\ wrk'.view = s
  BY <1>0, <1>1, <1>3 DEF Locals, WorkerPoints
<1>5. Counted'
  <2>1. ASSUME slots[next_index - 1].type # "TO_CLIENT"
        PROVE  slots'[next_index - 1].type # "TO_CLIENT"
    BY <2>1, <1>0, <1>1 DEF Entry, TypeOK, EntryType
  <2> QED
    BY <2>1, <1>1, <1>4 DEF Good, Counted, One
<1> QED
  BY <1>1, <1>2, <1>3, <1>4, <1>5, FillGood

LEMMA AttachNewGood ==
    ASSUME Good, attach_new("TO_LOBBY"), lobbies' = lobbies
    PROVE  Good'
<1>0. TypeOK /\ wrk \in Locals
  BY DEF Good, TypeOK
<1>1. /\ wrk.pc = "attach" /\ next_index \in Slots /\ next_index' = next_index + 1
      /\ slots' = [slots EXCEPT ![next_index] = Entry("TO_LOBBY", wrk.ctrl)]
      /\ wrk' = [wrk EXCEPT !.pc = "count", !.view = next_index, !.count = counter]
      /\ UNCHANGED <<buffer, free, lost, counter, epoll, tasks, net, inbox, place>>
  BY DEF attach_new, loop, kernel
<1>2. /\ free \in Seq(Slots) /\ next_index \in Nat /\ next_index' \in 1 .. MaxSlots + 1
      /\ Pool /\ counter \in Nat
  BY <1>0, <1>1, EngineAssumption DEF TypeOK, Good, Slots
<1>3. /\ next_index \notin Busy /\ next_index \notin lost
      /\ Books(free, next_index + 1, Taken \cup {next_index})
  BY <1>0, <1>1, <1>2, PoolGrow
<1>4. /\ wrk' \in Locals /\ wrk'.pc = "count" /\ wrk'.slot = wrk.slot
      /\ wrk'.msg = wrk.msg /\ wrk'.ctrl = wrk.ctrl /\ wrk'.view = next_index
  BY <1>0, <1>1, <1>2 DEF Locals, WorkerPoints
<1>5. Counted'
  <2>1. slots'[next_index].type = "TO_LOBBY"
    BY <1>0, <1>1 DEF Entry, TypeOK
  <2>2. next_index' - 1 = next_index
    BY <1>1, <1>2
  <2>3. slots'[next_index' - 1].type # "TO_CLIENT"
    BY <2>1, <2>2
  <2>4. counter + One(net.pc = "count") + 1 = next_index + 1
    BY <1>1, <1>2 DEF Good, Counted, One
  <2> QED
    BY <2>3, <2>4, <1>1, <1>4 DEF Counted, One
<1> QED
  BY <1>1, <1>2, <1>3, <1>4, <1>5, FillGood

\* counter++ without the other thread in between.
LEMMA AttachCountGood ==
    ASSUME Good, mishaps' = {}, attach_count, lobbies' = lobbies
    PROVE  Good'
<1>0. TypeOK /\ Work /\ wrk \in Locals
  BY DEF Good, TypeOK
<1>1. /\ wrk.pc = "count" /\ counter' = wrk.count + 1
      /\ mishaps' = mishaps \cup Miscounted(wrk.count)
      /\ wrk' = [wrk EXCEPT !.pc = "subscribe", !.count = 0]
      /\ UNCHANGED <<slots, buffer, free, lost, next_index, epoll, tasks, net, inbox, place>>
  BY DEF attach_count, entries, loop, kernel
<1>2. wrk.count = counter /\ counter \in Nat
  BY <1>0, <1>1 DEF Miscounted, TypeOK
<1>3. /\ wrk' \in Locals /\ wrk'.pc = "subscribe" /\ wrk'.slot = wrk.slot
      /\ wrk'.msg = wrk.msg /\ wrk'.ctrl = wrk.ctrl /\ wrk'.view = wrk.view
  BY <1>0, <1>1 DEF Locals, WorkerPoints
<1>4. Work' /\ Reached'
  <2>1. Pending' = Pending
    BY <1>1, <1>3 DEF Pending
  <2> QED
    BY <1>0, <1>1, <1>3, <2>1, BusySame DEF Work, Reached, InHand, Answering, Creating
<1>5. TypeOK'
  BY <1>0, <1>1, <1>2, <1>3 DEF TypeOK
<1>6. Registered'
  BY <1>1 DEF Good, Registered
<1>7. Counted'
  <2>1. counter + One(net.pc = "count") + 1 = next_index
    BY <1>1 DEF Good, Counted, One
  <2>2. counter' + One(net.pc = "count") + 0 = next_index
    BY <2>1, <1>1, <1>2 DEF One
  <2> QED
    BY <2>2, <1>1, <1>3 DEF Good, Counted, One
<1> QED
  BY <1>1, <1>4, <1>5, <1>6, <1>7, PoolKept DEF Good

LEMMA AttachSubscribeGood ==
    ASSUME Good, attach_subscribe("enlist"), lobbies' = lobbies
    PROVE  Good'
<1>0. TypeOK /\ Work /\ wrk \in Locals
  BY DEF Good, TypeOK
<1>1. /\ wrk.pc = "subscribe"
      /\ epoll' = [epoll EXCEPT ![slots[wrk.view].sock] = Armed(wrk.view)]
      /\ wrk' = [wrk EXCEPT !.pc = "enlist"]
      /\ UNCHANGED <<slots, buffer, free, lost, next_index, counter, tasks, net, inbox, place>>
  BY DEF attach_subscribe, pool, entries, sizes, loop, kernel
<1>2. wrk.view \in Slots /\ slots[wrk.view].sock = wrk.ctrl /\ wrk.ctrl \in Conns
  BY <1>0, <1>1 DEF Work, Creating, Conns
<1>3. Armed(wrk.view) \in Watch /\ Armed(wrk.view).slot = wrk.view /\ wrk.view # NoSlot
  BY <1>2, EngineAssumption DEF Armed, Watch, NoSlot, Slots
<1>4. /\ epoll' \in [Conns -> Watch] /\ epoll'[wrk.ctrl] = Armed(wrk.view)
      /\ \A c \in Conns : c # wrk.ctrl => epoll'[c] = epoll[c]
  BY <1>0, <1>1, <1>2, <1>3 DEF TypeOK
<1>5. /\ wrk' \in Locals /\ wrk'.pc = "enlist" /\ wrk'.slot = wrk.slot
      /\ wrk'.msg = wrk.msg /\ wrk'.ctrl = wrk.ctrl /\ wrk'.view = wrk.view
  BY <1>0, <1>1 DEF Locals, WorkerPoints
<1>6. Work' /\ Reached'
  <2>1. Pending' = Pending
    BY <1>1, <1>5 DEF Pending
  <2> QED
    BY <1>0, <1>1, <1>5, <2>1, BusySame DEF Work, Reached, InHand, Answering, Creating
<1>7. TypeOK'
  BY <1>0, <1>1, <1>4, <1>5 DEF TypeOK
<1>8. Registered'
  <2>1. ASSUME NEW c \in Conns
        PROVE  /\ epoll'[c].slot # NoSlot => slots[epoll'[c].slot].sock = c
               /\ epoll'[c].armed => epoll'[c].slot # NoSlot
    <3>1. CASE c = wrk.ctrl
      BY <3>1, <1>2, <1>3, <1>4
    <3>2. CASE c # wrk.ctrl
      BY <3>2, <1>4 DEF Good, Registered
    <3> QED
      BY <3>1, <3>2
  <2> QED
    BY <2>1, <1>1 DEF Registered
<1>9. Counted'
  BY <1>1, <1>5 DEF Good, Counted, One
<1> QED
  BY <1>1, <1>6, <1>7, <1>8, <1>9, PoolKept DEF Good

-----------------------------------------------------------------------------
(* The network thread                                                      *)

\* What the worker knows of the slots it has in hand, and of those its
\* broadcast has still to reach, does not depend on the slot that the network
\* thread is filling.
LEMMA WorkerUndisturbed ==
    ASSUME Good, wrk' = wrk, lobbies' = lobbies,
           \A s \in Slots : InUse(s) /\ ~Registering(s) =>
               slots'[s] = slots[s] /\ ~Registering(s)',
           \A s \in Slots : slots'[s].sock \in Controls => slots'[s] = slots[s],
           \A c \in Controls : place'[c] = place[c],
           \A s \in Slots : InUse(s) /\ ~Registering(s) =>
               (epoll[slots[s].sock] = Absent => epoll'[slots[s].sock] = Absent)
    PROVE  Work' /\ Reached'
<1>1. InHand => /\ wrk.slot \in Slots /\ InUse(wrk.slot) /\ ~Registering(wrk.slot)
                /\ slots'[wrk.slot] = slots[wrk.slot] /\ ~Registering(wrk.slot)'
  BY DEF Good, Work, InHand
<1>2. InHand => /\ Pending' = Pending /\ InUse(wrk.slot)'
                /\ epoll[Pending] = Absent => epoll'[Pending] = Absent
  BY <1>1 DEF Pending, InUse
<1>3. Creating /\ wrk.pc # "attach" =>
          wrk.view \in Slots /\ slots'[wrk.view].sock = wrk.ctrl
  <2>1. SUFFICES ASSUME Creating, wrk.pc # "attach"
                 PROVE  wrk.view \in Slots /\ slots'[wrk.view].sock = wrk.ctrl
    OBVIOUS
  <2>2. wrk.view \in Slots /\ slots[wrk.view].sock = wrk.ctrl /\ wrk.ctrl \in Controls
    BY <2>1 DEF Good, Work
  <2>3. InUse(wrk.view) /\ ~Registering(wrk.view)
    BY <2>2, ControlSlot
  <2> QED
    BY <2>2, <2>3
<1>4. wrk.pc = "attach" =>
          place'[wrk.ctrl] = "held" /\ \A s \in Slots : slots'[s].sock # wrk.ctrl
  BY DEF Good, Work, Creating
<1>5. Work'
  <2>1. wrk.pc # "idle" => wrk.slot \in Slots
    BY DEF Good, Work
  <2>2. /\ Answering => wrk.msg \in Mail(Pending) /\ InHand
        /\ Answering /\ wrk.pc # "handle" => Pending \in Clients
    BY DEF Good, Work, Answering
  <2>3. Creating => wrk.ctrl \in Controls
    BY DEF Good, Work
  <2>4. /\ wrk.pc \in {"send_id", "transfer", "send_socket", "resubscribe"} =>
               wrk.code \in Codes /\ lobbies[wrk.code] # NoLobby
        /\ wrk.pc \in {"transfer", "send_socket"} => wrk.view \in Slots
        /\ wrk.pc = "broadcast" => wrk.index >= 1
    BY DEF Good, Work
  <2>5. (InHand' <=> InHand) /\ (Answering' <=> Answering) /\ (Creating' <=> Creating)
    BY DEF InHand, Answering, Creating
  <2>6. InHand => slots'[wrk'.slot].sock # NoConn /\ ~Registering(wrk.slot)'
    BY <1>1 DEF InUse
  <2>7. /\ Answering => wrk'.msg \in Mail(Pending')
        /\ Answering /\ wrk.pc # "handle" => Pending' \in Clients
    BY <1>2, <2>2
  <2>8. wrk.pc \in {"send_socket", "let_go"} => epoll'[Pending'] = Absent
    BY <1>2 DEF Good, Work, InHand
  <2> QED
    BY <1>1, <1>3, <1>4, <2>1, <2>3, <2>4, <2>5, <2>6, <2>7, <2>8
       DEF Work, InUse, Registering, Mail, Absent
<1>6. Reached'
  <2>1. ASSUME wrk.pc = "broadcast", NEW c \in wrk.audience
        PROVE  \E s \in Slots :
                   /\ wrk.index <= s /\ slots'[s].sock = c
                   /\ slots'[s].type = "TO_CLIENT" /\ ~Registering(s)'
    <3>1. PICK s \in Slots : /\ wrk.index <= s /\ slots[s].sock = c
                             /\ slots[s].type = "TO_CLIENT" /\ ~Registering(s)
      BY <2>1 DEF Good, Reached
    <3>2. InUse(s)
      BY <3>1, TypedIsBusy
    <3> QED
      BY <3>1, <3>2
  <2> QED
    BY <2>1 DEF Reached, Registering
<1> QED
  BY <1>5, <1>6

LEMMA NotRegistering ==
    ASSUME net.pc \in {"wait", "register"}
    PROVE  \A s : ~Registering(s)
BY DEF Registering

LEMMA RearmListenerGood ==
    ASSUME Good, rearm_listener, lobbies' = lobbies
    PROVE  Good'
<1>0. TypeOK
  BY DEF Good
<1>1. /\ net.pc = "register" /\ net.todo = <<>> /\ net' = IdleNet
      /\ UNCHANGED <<slots, buffer, free, lost, next_index, counter, epoll, tasks, wrk,
                     inbox, place>>
  BY DEF rearm_listener, pool, entries, sizes, kernel
<1>2. net' \in NetLocals /\ net'.pc = "wait" /\ net'.todo = <<>>
  BY <1>1, IdleNetTyped
<1>3. \A s : ~Registering(s) /\ ~Registering(s)'
  BY <1>1, <1>2 DEF Registering
<1>4. Busy' = Busy /\ \A s : InUse(s)' <=> InUse(s)
  BY <1>1, <1>3 DEF Busy, InUse
<1>5. Work' /\ Reached'
  BY <1>1, <1>3, WorkerUndisturbed
<1>6. TypeOK'
  BY <1>0, <1>1, <1>2 DEF TypeOK
<1>7. Pool' /\ Entries' /\ Registered' /\ Mailed'
  BY <1>1, <1>4 DEF Good, Pool, Taken, Entries, Registered, Mailed, Complete
<1>8. Accepted'
  BY <1>2 DEF Accepted, Filled
<1>9. Held'
  <2>1. \A c : Homed(c) => Homed(c)'
    BY <1>1 DEF Homed
  <2> QED
    BY <2>1, <1>1, <1>4 DEF Good, Held
<1>10. Counted'
  BY <1>1, <1>2 DEF Good, Counted, One
<1> QED
  BY <1>5, <1>6, <1>7, <1>8, <1>9, <1>10 DEF Good

\* The order in which connections are accepted names each of them once.
LEMMA OrderOf ==
    ASSUME NEW S, IsFiniteSet(S), S \subseteq Clients, NEW order \in SetToSeqs(S)
    PROVE  /\ order \in Seq(Clients)
           /\ \A i, j \in 1 .. Len(order) : order[i] = order[j] => i = j
           /\ \A i \in 1 .. Len(order) : order[i] \in S
           /\ \A c \in S : \E i \in 1 .. Len(order) : order[i] = c
<1> DEFINE n == Cardinality(S)
<1>1. IsFiniteSet(S) /\ n \in Nat
  BY FS_CardinalityType
<1>2. order \in [1 .. n -> S] /\ \A i, j \in 1 .. n : i # j => order[i] # order[j]
  BY DEF SetToSeqs
<1>3. order \in Injection(1 .. n, S)
  BY <1>2 DEF Injection, IsInjective
<1>4. Cardinality(1 .. n) = n
  <2>1. 1 \in Int /\ n \in Int
    BY <1>1
  <2>2. Cardinality(1 .. n) = IF 1 > n THEN 0 ELSE n - 1 + 1
    BY ONLY <2>1, FS_Interval
  <2> HIDE DEF n
  <2> QED
    BY <2>2, <1>1
<1>5. order \in Surjection(1 .. n, S)
  BY <1>1, <1>3, <1>4, FS_Injection
<1> HIDE DEF n
<1>6. order \in Seq(Clients) /\ Len(order) = n
  BY <1>1, <1>2
<1> QED
  BY <1>2, <1>5, <1>6 DEF Surjection

LEMMA AcceptGood ==
    ASSUME Good, IsFiniteSet(Waiting), accept_connections, lobbies' = lobbies
    PROVE  Good'
<1>0. TypeOK
  BY DEF Good
<1>1. /\ net.pc = "wait" /\ net.todo = <<>>
      /\ place' = [c \in Conns |-> IF c \in Waiting THEN "held" ELSE place[c]]
      /\ UNCHANGED <<slots, buffer, free, lost, next_index, counter, epoll, tasks, wrk, inbox>>
  BY DEF accept_connections, pool, entries, sizes, kernel, Good, Accepted
<1>2. PICK order \in SetToSeqs(Waiting) :
          net' = [IdleNet EXCEPT !.pc = "register", !.todo = order]
  BY DEF accept_connections
<1>3. Waiting \subseteq Clients /\ \A c \in Waiting : place[c] = "backlog" /\ c \in Conns
  BY DEF Waiting, Conns
<1>4. /\ order \in Seq(Clients)
      /\ \A i, j \in 1 .. Len(order) : order[i] = order[j] => i = j
      /\ \A i \in 1 .. Len(order) : order[i] \in Waiting
      /\ \A c \in Waiting : \E i \in 1 .. Len(order) : order[i] = c
  BY <1>3, OrderOf
<1>5. net' \in NetLocals /\ net'.pc = "register" /\ net'.todo = order
  BY <1>2, <1>4 DEF IdleNet, NetLocals, NetPoints
<1>6. /\ place' \in [Conns -> Places] /\ \A c \in Waiting : place'[c] = "held"
      /\ \A c \in Conns : c \notin Waiting => place'[c] = place[c]
      /\ \A c \in Conns : place[c] = "held" => place'[c] = "held"
  BY <1>0, <1>1, <1>3 DEF TypeOK, Places
<1>7. \A s : ~Registering(s) /\ ~Registering(s)'
  BY <1>1, <1>5 DEF Registering
<1>8. Busy' = Busy /\ \A s : InUse(s)' <=> InUse(s)
  BY <1>1, <1>7 DEF Busy, InUse
<1>9. Work' /\ Reached'
  <2>1. \A c \in Controls : place'[c] = place[c]
    BY <1>3, <1>6, EngineAssumption DEF Conns
  <2> QED
    BY <2>1, <1>1, <1>7, WorkerUndisturbed
<1>10. TypeOK'
  BY <1>0, <1>1, <1>5, <1>6 DEF TypeOK
<1>11. Pool' /\ Entries' /\ Registered' /\ Mailed'
  BY <1>1, <1>8 DEF Good, Pool, Taken, Entries, Registered, Mailed, Complete
<1>12. \A s \in Slots : InUse(s) => slots[s].sock \in Conns /\ place[slots[s].sock] = "held"
  BY <1>0 DEF Good, Held, TypeOK, EntryType, InUse
<1>13. Accepted'
  <2>1. ASSUME NEW i \in 1 .. Len(order), NEW s \in Slots, slots[s].sock = order[i]
        PROVE  FALSE
    <3>1. order[i] \in Waiting /\ order[i] # NoConn
      BY <1>3, <1>4, EngineAssumption
    <3>2. place[order[i]] = "backlog" /\ place[order[i]] = "held"
      BY <2>1, <3>1, <1>3, <1>12 DEF InUse
    <3> QED
      BY <3>2
  <2> QED
    BY <2>1, <1>1, <1>4, <1>5, <1>6 DEF Accepted, Filled
<1>14. Held'
  <2>1. ASSUME NEW c \in Conns, place'[c] = "held"
        PROVE  Homed(c)'
    <3>1. CASE c \in Waiting
      BY <3>1, <1>4, <1>5 DEF Homed
    <3>2. CASE c \notin Waiting
      <4>1. Homed(c)
        BY <3>2, <2>1, <1>6 DEF Good, Held
      <4> QED
        BY <4>1, <1>1 DEF Homed
    <3> QED
      BY <3>1, <3>2
  <2> QED
    BY <2>1, <1>1, <1>6, <1>8, <1>12 DEF Good, Held
<1>15. Counted'
  BY <1>1, <1>5 DEF Good, Counted, One
<1> QED
  BY <1>9, <1>10, <1>11, <1>13, <1>14, <1>15 DEF Good

LEMMA RegisterReusedGood ==
    ASSUME Good, register_reused, lobbies' = lobbies
    PROVE  Good'
<1> DEFINE s == Head(free)
<1>0. TypeOK /\ net \in NetLocals
  BY DEF Good, TypeOK
<1>1. /\ net.pc = "register" /\ net.todo # <<>> /\ free # <<>> /\ free' = Tail(free)
      /\ net' = [net EXCEPT !.pc = "assign", !.slot = s]
      /\ UNCHANGED <<slots, buffer, lost, next_index, counter, epoll, tasks, wrk, inbox,
                     place>>
  BY DEF register_reused, sizes, kernel
<1>2. Pool
  BY DEF Good
<1>3. /\ s \in Slots /\ s \notin Busy /\ s \notin lost /\ free' \in Seq(Slots)
      /\ Books(free', next_index, Taken \cup {s})
  BY <1>0, <1>1, <1>2, PoolTake
<1> HIDE DEF s
<1>4. /\ net' \in NetLocals /\ net'.pc = "assign" /\ net'.slot = s
      /\ net'.todo = net.todo
  BY <1>0, <1>1, <1>3 DEF NetLocals, NetPoints
<1>5. /\ \A t : InUse(t)' <=> InUse(t)
      /\ \A t : ~Registering(t)
      /\ \A t : Registering(t)' <=> t = s
  BY <1>1, <1>4 DEF InUse, Registering
<1>6. Busy' = Busy \cup {s} /\ ~InUse(s)
  BY <1>3, <1>5 DEF Busy
<1>7. Work' /\ Reached'
  BY <1>1, <1>3, <1>5, <1>6, WorkerUndisturbed
<1>8. TypeOK'
  BY <1>0, <1>1, <1>3, <1>4 DEF TypeOK
<1>9. Pool'
  <2>1. Taken' = Taken \cup {s} /\ Busy' \cap lost' = {}
    BY <1>1, <1>2, <1>3, <1>6 DEF Taken, Pool
  <2> QED
    BY <2>1, <1>1, <1>3 DEF Pool
<1>10. Entries' /\ Registered' /\ Mailed'
  BY <1>1, <1>5, <1>6 DEF Good, Entries, Registered, Mailed, Complete
<1>11. Accepted'
  BY <1>1, <1>3, <1>4, <1>5, <1>6 DEF Good, Accepted, Filled
<1>12. Held'
  <2>1. \A c : Homed(c) => Homed(c)'
    BY <1>1, <1>4 DEF Homed
  <2> QED
    BY <2>1, <1>1, <1>5 DEF Good, Held
<1>13. Counted'
  BY <1>1, <1>4 DEF Good, Counted, One
<1> QED
  BY <1>7, <1>8, <1>9, <1>10, <1>11, <1>12, <1>13 DEF Good

LEMMA AssignTypeGood ==
    ASSUME Good, assign_type, lobbies' = lobbies
    PROVE  Good'
<1> DEFINE s == net.slot
<1>0. TypeOK /\ net \in NetLocals /\ slots \in [Slots -> EntryType]
  BY DEF Good, TypeOK
<1>1. /\ net.pc = "assign"
      /\ slots' = [slots EXCEPT ![s].type = "TO_CLIENT"]
      /\ net' = [net EXCEPT !.pc = "assign_socket"]
      /\ UNCHANGED <<buffer, free, lost, next_index, counter, epoll, tasks, wrk, inbox, place>>
  BY DEF assign_type, sizes, kernel
<1>2. s \in Slots /\ ~InUse(s) /\ net.todo # <<>>
  BY <1>1 DEF Good, Accepted
<1>3. /\ net' \in NetLocals /\ net'.pc = "assign_socket" /\ net'.slot = s
      /\ net'.todo = net.todo
  BY <1>0, <1>1 DEF NetLocals, NetPoints
<1> HIDE DEF s
<1>4. /\ slots' \in [Slots -> EntryType]
      /\ \A t \in Slots : t # s => slots'[t] = slots[t]
      /\ slots'[s].type = "TO_CLIENT"
      /\ \A t \in Slots : slots'[t].sock = slots[t].sock /\ slots'[t].status = slots[t].status
  BY <1>0, <1>1, <1>2 DEF EntryType
<1>5. \A t : Registering(t) <=> t = s
  BY <1>1 DEF Registering, s
<1>6. \A t : Registering(t)' <=> t = s
  BY <1>3 DEF Registering
<1>7. \A t \in Slots : InUse(t)' <=> InUse(t)
  BY <1>4 DEF InUse
<1>8. Busy' = Busy /\ s \in Busy
  BY <1>2, <1>5, <1>6, <1>7 DEF Busy
<1>9. Work' /\ Reached'
  <2>1. \A t \in Slots : slots'[t].sock \in Controls => slots'[t] = slots[t]
    BY <1>2, <1>4, EngineAssumption DEF InUse, Conns
  <2>2. \A t \in Slots : InUse(t) /\ ~Registering(t) =>
            slots'[t] = slots[t] /\ ~Registering(t)'
    BY <1>2, <1>4, <1>5, <1>6
  <2> QED
    BY <2>1, <2>2, <1>1, WorkerUndisturbed
<1>10. TypeOK'
  BY <1>0, <1>1, <1>3, <1>4 DEF TypeOK
<1>11. Pool'
  BY <1>1, <1>8 DEF Good, Pool, Taken
<1>12. Entries'
  <2>1. ASSUME NEW t \in Slots
        PROVE  /\ InUse(t) => Complete(slots'[t])
               /\ ~InUse(t) => slots'[t].status = "EMPTY" /\ buffer'[t] = <<>>
               /\ t \notin Busy => slots'[t] = EmptyEntry
    BY <1>1, <1>2, <1>4, <1>8 DEF Good, Entries
  <2> QED
    BY <2>1, <1>7, <1>8 DEF Entries, Complete
<1>13. Accepted'
  <2>1. slots'[net'.slot].sock = NoConn /\ slots'[net'.slot].type = "TO_CLIENT"
    BY <1>2, <1>3, <1>4 DEF InUse
  <2>2. \A i \in 1 .. Len(net.todo) : \A t \in Slots : slots'[t].sock # net.todo[i]
    BY <1>1, <1>4 DEF Good, Accepted, Filled
  <2> QED
    BY <2>1, <2>2, <1>1, <1>2, <1>3 DEF Good, Accepted, Filled, InUse
<1>14. Held'
  <2>1. \A c : Homed(c) => Homed(c)'
    BY <1>1, <1>3, <1>4 DEF Homed
  <2> QED
    BY <2>1, <1>1, <1>4, <1>7 DEF Good, Held
<1>15. Registered'
  <2>1. \A c \in Conns : epoll[c].slot # NoSlot => epoll[c].slot \in Slots
    BY <1>0 DEF TypeOK, Watch
  <2> QED
    BY <2>1, <1>1, <1>4 DEF Good, Registered
<1>16. Counted'
  BY <1>1, <1>3 DEF Good, Counted, One
<1>17. Mailed'
  BY <1>1, <1>4, <1>7 DEF Good, Mailed
<1> QED
  BY <1>9, <1>10, <1>11, <1>12, <1>13, <1>14, <1>15, <1>16, <1>17 DEF Good

\* The network thread puts the next connection into slot s.
LEMMA ClientFillGood ==
    ASSUME Good, NEW s \in Slots, ~InUse(s), s \notin lost, net.todo # <<>>, ~Filled,
           \A t : Registering(t) => t = s,
           slots' = [slots EXCEPT ![s] = Entry("TO_CLIENT", Head(net.todo))],
           UNCHANGED <<buffer, free, lost, epoll, tasks, wrk, inbox, place, lobbies>>,
           next_index' \in 1 .. MaxSlots + 1, counter' = counter,
           Books(free, next_index', Taken \cup {s}),
           net' \in NetLocals, net'.pc \in {"count", "subscribe"}, net'.slot = s,
           net'.todo = net.todo, Counted'
    PROVE  Good'
<1> DEFINE x == Head(net.todo)
<1>0. TypeOK /\ net \in NetLocals
  BY DEF Good, TypeOK
<1>1. /\ net.todo \in Seq(Clients) /\ Len(net.todo) \in Nat /\ 1 \in 1 .. Len(net.todo)
      /\ x = net.todo[1] /\ x \in Clients
  BY <1>0 DEF NetLocals
<1>2. x \in Conns /\ x # NoConn /\ x \notin Controls /\ place[x] = "held"
  BY <1>1, EngineAssumption DEF Conns, Good, Accepted
<1> HIDE DEF x
<1>3. /\ Entry("TO_CLIENT", x) \in EntryType /\ Complete(Entry("TO_CLIENT", x))
      /\ Entry("TO_CLIENT", x).sock = x
  BY <1>1, <1>2 DEF EntryType, Entry, Complete
<1>4. /\ slots' \in [Slots -> EntryType] /\ slots'[s] = Entry("TO_CLIENT", x)
      /\ slots'[s].sock = x
      /\ \A t \in Slots \ {s} : slots'[t] = slots[t]
  BY <1>0, <1>3 DEF TypeOK, x
<1>5. slots[s].sock = NoConn /\ buffer[s] = <<>>
  BY DEF Good, Entries, InUse
<1>6. \A t \in Slots : slots[t].sock # x
  <2>1. \A t \in Slots : slots[t].sock # net.todo[1]
    BY <1>1 DEF Good, Accepted
  <2> QED
    BY <2>1, <1>1
<1>7. \A t : Registering(t)' <=> t = s
  BY DEF Registering
<1>8. Busy' = Busy \cup {s}
  <2>1. \A t \in Slots : slots'[t].sock # NoConn <=> InUse(t) \/ t = s
    BY <1>2, <1>4 DEF InUse
  <2>2. Busy' = {t \in Slots : slots'[t].sock # NoConn \/ Registering(t)'}
    BY DEF Busy, InUse
  <2> QED
    BY <2>1, <2>2, <1>7 DEF Busy
<1>9. Work' /\ Reached'
  <2>1. \A t \in Slots : slots'[t].sock \in Controls => slots'[t] = slots[t]
    BY <1>2, <1>4
  <2>2. \A t \in Slots : InUse(t) /\ ~Registering(t) =>
            slots'[t] = slots[t] /\ ~Registering(t)'
    BY <1>4, <1>7
  <2> QED
    BY <2>1, <2>2, WorkerUndisturbed
<1>10. TypeOK'
  BY <1>0, <1>4 DEF TypeOK
<1>11. Pool'
  <2>1. Taken' = Taken \cup {s} /\ Busy' \cap lost' = {}
    BY <1>8 DEF Taken, Good, Pool
  <2> QED
    BY <2>1 DEF Pool
<1>12. Entries'
  <2>1. ASSUME NEW t \in Slots
        PROVE  /\ slots'[t].sock # NoConn => Complete(slots'[t])
               /\ slots'[t].sock = NoConn =>
                      slots'[t].status = "EMPTY" /\ buffer'[t] = <<>>
               /\ t \notin Busy' => slots'[t] = EmptyEntry
    <3>1. CASE t = s
      BY <3>1, <1>2, <1>3, <1>4, <1>8
    <3>2. CASE t # s
      BY <3>2, <1>4, <1>8 DEF Good, Entries, InUse
    <3> QED
      BY <3>1, <3>2
  <2> QED
    BY <2>1 DEF Entries, InUse, Complete
<1>13. Accepted'
  <2>1. ASSUME NEW i \in 1 .. Len(net.todo), NEW t \in Slots, slots'[t].sock = net.todo[i]
        PROVE  i = 1
    <3>1. t = s
      BY <2>1, <1>4 DEF Good, Accepted
    <3> QED
      BY <2>1, <3>1, <1>1, <1>4 DEF Good, Accepted
  <2>2. slots'[net'.slot].sock = Head(net.todo)
    BY <1>4 DEF x
  <2> QED
    BY <2>1, <2>2 DEF Good, Accepted, Filled, InUse
<1>14. Held'
  <2>1. ASSUME NEW t \in Slots, slots'[t].sock # NoConn
        PROVE  place[slots'[t].sock] = "held"
    <3>1. CASE t = s
      BY <3>1, <1>2, <1>4
    <3>2. CASE t # s
      BY <3>2, <2>1, <1>4 DEF Good, Held, InUse
    <3> QED
      BY <3>1, <3>2
  <2>2. ASSUME NEW t \in Slots, NEW u \in Slots, slots'[t].sock = slots'[u].sock,
               slots'[t].sock # NoConn
        PROVE  t = u
    <3>1. \A z \in Slots \ {s} : slots'[z] = slots[z] /\ slots[z].sock # x
      BY <1>4, <1>6
    <3> QED
      BY <2>2, <3>1, <1>4 DEF Good, Held, InUse
  <2>3. ASSUME NEW c \in Conns, place[c] = "held"
        PROVE  Homed(c)'
    <3>1. Homed(c) /\ c # NoConn
      BY <2>3, EngineAssumption DEF Good, Held
    <3>2. \A t \in Slots : slots[t].sock = c => slots'[t].sock = c
      BY <3>1, <1>4, <1>5
    <3> QED
      BY <3>1, <3>2 DEF Homed
  <2> QED
    BY <2>1, <2>2, <2>3 DEF Held, InUse
<1>15. Registered'
  <2>1. ASSUME NEW c \in Conns, epoll[c].slot # NoSlot
        PROVE  slots'[epoll[c].slot].sock = c
    <3>1. epoll[c].slot \in Slots /\ slots[epoll[c].slot].sock = c /\ c # NoConn
      BY <2>1, <1>0, EngineAssumption DEF TypeOK, Watch, Good, Registered
    <3> QED
      BY <3>1, <1>4, <1>5
  <2> QED
    BY <2>1 DEF Good, Registered
<1>16. Mailed'
  <2>1. ASSUME NEW t \in Slots, slots'[t].sock # NoConn
        PROVE  buffer[t] \in Seq(Mail(slots'[t].sock))
    <3>1. CASE t = s
      BY <3>1, <1>5
    <3>2. CASE t # s
      BY <3>2, <2>1, <1>4 DEF Good, Mailed, InUse
    <3> QED
      BY <3>1, <3>2
  <2> QED
    BY <2>1 DEF Good, Mailed, InUse, Mail
<1> QED
  BY <1>9, <1>10, <1>11, <1>12, <1>13, <1>14, <1>15, <1>16 DEF Good

LEMMA AssignSocketGood ==
    ASSUME Good, assign_socket, lobbies' = lobbies
    PROVE  Good'
<1> DEFINE s == net.slot
           x == Head(net.todo)
<1>0. TypeOK /\ net \in NetLocals
  BY DEF Good, TypeOK
<1>1. /\ net.pc = "assign_socket" /\ SocketAssigned(s, x)
      /\ net' = [net EXCEPT !.pc = "subscribe"]
      /\ UNCHANGED <<free, lost, next_index, counter, tasks, wrk, inbox>>
  BY DEF assign_socket, sizes, kernel
<1>2. /\ s \in Slots /\ ~InUse(s) /\ net.todo # <<>> /\ slots[s].type = "TO_CLIENT"
      /\ slots[s].sock = NoConn
  BY <1>1 DEF Good, Accepted, InUse
<1>3. x \in Conns /\ place[x] = "held"
  <2>1. net.todo \in Seq(Clients) /\ 1 \in 1 .. Len(net.todo) /\ x = net.todo[1]
        /\ x \in Clients
    BY <1>0, <1>2 DEF NetLocals
  <2> QED
    BY <2>1 DEF Good, Accepted, Conns
<1>4. /\ net' \in NetLocals /\ net'.pc = "subscribe" /\ net'.slot = s
      /\ net'.todo = net.todo
  BY <1>0, <1>1 DEF NetLocals, NetPoints
<1>5. SocketsOf(<<s>>) = {} /\ Range(<<s>>) = {s}
  BY <1>2 DEF SocketsOf, Range
<1>6. /\ epoll' = [c \in Conns |-> epoll[c]]
      /\ place' = [[c \in Conns |-> place[c]] EXCEPT ![x] = "held"]
      /\ buffer' = [t \in Slots |-> IF t = s THEN <<>> ELSE buffer[t]]
      /\ slots' = [slots EXCEPT ![s].sock = x, ![s].status = "ALIVE"]
  BY <1>1, <1>5 DEF SocketAssigned, EpollWithout, PlaceWithout, BufferWithout
<1>7. /\ epoll \in [Conns -> Watch] /\ place \in [Conns -> Places]
      /\ buffer \in [Slots -> Seq(AnyMail)] /\ slots \in [Slots -> EntryType]
      /\ buffer[s] = <<>>
  BY <1>0, <1>2 DEF TypeOK, Good, Entries
<1> HIDE DEF s, x
<1>8. epoll' = epoll /\ place' = place /\ buffer' = buffer
  BY <1>3, <1>6, <1>7
<1>9. slots' = [slots EXCEPT ![s] = Entry("TO_CLIENT", x)]
  <2>1. slots[s] \in EntryType /\ slots[s].type = "TO_CLIENT"
    BY <1>2, <1>7
  <2>2. [[slots[s] EXCEPT !.sock = x] EXCEPT !.status = "ALIVE"] = Entry("TO_CLIENT", x)
    <3>1. ASSUME NEW e \in EntryType, e.type = "TO_CLIENT"
          PROVE  [[e EXCEPT !.sock = x] EXCEPT !.status = "ALIVE"] = Entry("TO_CLIENT", x)
      <4>1. e = [type |-> "TO_CLIENT", sock |-> e.sock, status |-> e.status]
        BY <3>1 DEF EntryType
      <4>2. PICK a, b : e = [type |-> "TO_CLIENT", sock |-> a, status |-> b]
        BY <4>1
      <4>3. [e EXCEPT !.sock = x] = [type |-> "TO_CLIENT", sock |-> x, status |-> b]
        BY ONLY <4>2
      <4>4. [[type |-> "TO_CLIENT", sock |-> x, status |-> b] EXCEPT !.status = "ALIVE"]
                = [type |-> "TO_CLIENT", sock |-> x, status |-> "ALIVE"]
        OBVIOUS
      <4> QED
        BY ONLY <4>3, <4>4 DEF Entry
    <3> QED
      BY <2>1, <3>1
  <2>3. slots' = [[slots EXCEPT ![s] = [slots[s] EXCEPT !.sock = x]] EXCEPT
                      ![s] = [[slots[s] EXCEPT !.sock = x] EXCEPT !.status = "ALIVE"]]
    BY <1>2, <1>6, <1>7
  <2> QED
    BY ONLY <2>2, <2>3, <1>2, <1>7
<1>10. /\ Books(free, next_index, Taken) /\ next_index \in 1 .. MaxSlots + 1
       /\ Taken \cup {s} = Taken /\ s \notin lost /\ ~Filled
  <2>1. s \in Busy /\ ~Filled
    BY <1>1, <1>2 DEF Busy, Registering, Filled, s
  <2> QED
    BY <2>1, <1>0 DEF Good, Pool, TypeOK, Taken
<1>11. Counted'
  BY <1>1, <1>4 DEF Good, Counted, One
<1>12. \A t : Registering(t) => t = s
  BY DEF Registering, s
<1> QED
  BY <1>1, <1>2, <1>4, <1>8, <1>9, <1>10, <1>11, <1>12, ClientFillGood DEF x

LEMMA RegisterNewGood ==
    ASSUME Good, register_new, lobbies' = lobbies
    PROVE  Good'
<1>0. TypeOK /\ net \in NetLocals
  BY DEF Good, TypeOK
<1>1. /\ net.pc = "register" /\ net.todo # <<>>
      /\ next_index \in Slots /\ next_index' = next_index + 1
      /\ slots' = [slots EXCEPT ![next_index] = Entry("TO_CLIENT", Head(net.todo))]
      /\ net' = [net EXCEPT !.pc = "count", !.slot = next_index, !.count = counter]
      /\ UNCHANGED <<buffer, free, lost, counter, epoll, tasks, wrk, inbox, place>>
  BY DEF register_new, kernel
<1>2. /\ free \in Seq(Slots) /\ next_index \in Nat /\ next_index' \in 1 .. MaxSlots + 1
      /\ Pool /\ counter \in Nat
  BY <1>0, <1>1, EngineAssumption DEF TypeOK, Good, Slots
<1>3. /\ next_index \notin Busy /\ next_index \notin lost
      /\ Books(free, next_index + 1, Taken \cup {next_index})
  BY <1>0, <1>1, <1>2, PoolGrow
<1>4. /\ net' \in NetLocals /\ net'.pc = "count" /\ net'.slot = next_index
      /\ net'.todo = net.todo
  BY <1>0, <1>1, <1>2 DEF NetLocals, NetPoints
<1>5. ~InUse(next_index) /\ ~Filled /\ \A t : ~Registering(t)
  BY <1>1, <1>3 DEF Busy, Filled, Registering
<1>6. Counted'
  <2>1. net'.slot = next_index' - 1
    BY <1>1, <1>2, <1>4
  <2>2. counter + 1 + One(wrk.pc = "count") = next_index + 1
    BY <1>1, <1>2 DEF Good, Counted, One
  <2> QED
    BY <2>1, <2>2, <1>1, <1>4 DEF Counted, One
<1> QED
  BY <1>1, <1>2, <1>3, <1>4, <1>5, <1>6, ClientFillGood

LEMMA CountNewGood ==
    ASSUME Good, mishaps' = {}, count_new, lobbies' = lobbies
    PROVE  Good'
<1>0. TypeOK /\ net \in NetLocals
  BY DEF Good, TypeOK
<1>1. /\ net.pc = "count" /\ counter' = net.count + 1
      /\ mishaps' = mishaps \cup Miscounted(net.count)
      /\ net' = [net EXCEPT !.pc = "subscribe", !.count = 0]
      /\ UNCHANGED <<slots, buffer, free, lost, next_index, epoll, tasks, wrk, inbox, place>>
  BY DEF count_new, entries, kernel
<1>2. net.count = counter /\ counter \in Nat
  BY <1>0, <1>1 DEF Miscounted, TypeOK
<1>3. /\ net' \in NetLocals /\ net'.pc = "subscribe" /\ net'.slot = net.slot
      /\ net'.todo = net.todo
  BY <1>0, <1>1 DEF NetLocals, NetPoints
<1>4. \A t : (Registering(t)' <=> Registering(t)) /\ (InUse(t)' <=> InUse(t))
  BY <1>1, <1>3 DEF Registering, InUse
<1>5. Busy' = Busy
  BY <1>4 DEF Busy
<1>6. Work' /\ Reached'
  BY <1>1, <1>4, WorkerUndisturbed
<1>7. TypeOK'
  BY <1>0, <1>1, <1>2, <1>3 DEF TypeOK
<1>8. Pool' /\ Entries' /\ Registered' /\ Mailed'
  BY <1>1, <1>4, <1>5 DEF Good, Pool, Taken, Entries, Registered, Mailed, Complete
<1>9. Accepted'
  BY <1>1, <1>3, <1>4 DEF Good, Accepted, Filled
<1>10. Held'
  <2>1. \A c : Homed(c) => Homed(c)'
    BY <1>1, <1>3 DEF Homed
  <2> QED
    BY <2>1, <1>1, <1>4 DEF Good, Held
<1>11. Counted'
  <2>1. counter + 1 + One(wrk.pc = "count") = next_index
    BY <1>1 DEF Good, Counted, One
  <2>2. counter' + 0 + One(wrk.pc = "count") = next_index
    BY <2>1, <1>1, <1>2 DEF One
  <2> QED
    BY <2>2, <1>1, <1>3 DEF Counted, One
<1> QED
  BY <1>6, <1>7, <1>8, <1>9, <1>10, <1>11 DEF Good

\* What is left after the first of the accepted connections.
LEMMA RestOf ==
    ASSUME NEW q \in Seq(Clients), q # <<>>,
           \A i, j \in 1 .. Len(q) : q[i] = q[j] => i = j
    PROVE  LET r == Tail(q)
           IN  /\ r \in Seq(Clients)
               /\ Head(q) = q[1] /\ q[1] \in Clients /\ 1 \in 1 .. Len(q)
               /\ \A i, j \in 1 .. Len(r) : r[i] = r[j] => i = j
               /\ \A i \in 1 .. Len(r) :
                      \E j \in 1 .. Len(q) : r[i] = q[j] /\ j # 1
               /\ \A j \in 1 .. Len(q) : j # 1 => \E i \in 1 .. Len(r) : r[i] = q[j]
<1> DEFINE r == Tail(q)
<1>1. /\ Len(q) \in Nat /\ Len(q) >= 1
      /\ r \in Seq(Clients) /\ Len(r) = Len(q) - 1
      /\ \A i \in 1 .. Len(q) - 1 : r[i] = q[i + 1]
      /\ Head(q) = q[1] /\ q[1] \in Clients
  OBVIOUS
<1>2. /\ \A i \in 1 .. Len(q) - 1 : i + 1 \in 1 .. Len(q) /\ i + 1 # 1
      /\ \A i, j \in 1 .. Len(q) - 1 : i + 1 = j + 1 => i = j
      /\ 1 \in 1 .. Len(q)
      /\ \A i \in 1 .. Len(q) : i # 1 => i - 1 \in 1 .. Len(q) - 1 /\ i = (i - 1) + 1
  BY ONLY <1>1
<1> HIDE DEF r
<1>3. \A i, j \in 1 .. Len(r) : r[i] = r[j] => i = j
  BY <1>1, <1>2
<1>4. \A i \in 1 .. Len(r) : \E j \in 1 .. Len(q) : r[i] = q[j] /\ j # 1
  BY <1>1, <1>2
<1>5. ASSUME NEW j \in 1 .. Len(q), j # 1
      PROVE  \E i \in 1 .. Len(r) : r[i] = q[j]
  <2>1. j - 1 \in 1 .. Len(q) - 1 /\ j = (j - 1) + 1
    BY <1>5, <1>2
  <2>2. r[j - 1] = q[j] /\ j - 1 \in 1 .. Len(r)
    BY <2>1, <1>1
  <2> QED
    BY <2>2
<1> QED
  BY <1>1, <1>2, <1>3, <1>4, <1>5 DEF r

\* The connection the network thread is about to subscribe.
LEMMA Subscribing ==
    ASSUME Good, net.pc = "subscribe", net' = NextConnection
    PROVE  LET x == slots[net.slot].sock
           IN  /\ net.slot \in Slots /\ InUse(net.slot)
               /\ \A t : Registering(t) <=> t = net.slot
               /\ \A t : ~Registering(t)'
               /\ x \in Clients /\ x \in Conns /\ x \notin Controls
               /\ net' \in NetLocals /\ net'.pc = "register"
               /\ \A i, j \in 1 .. Len(net'.todo) : net'.todo[i] = net'.todo[j] => i = j
               /\ \A i \in 1 .. Len(net'.todo) :
                      /\ net'.todo[i] # x /\ net'.todo[i] \in Conns
                      /\ place[net'.todo[i]] = "held"
                      /\ \A t \in Slots : slots[t].sock # net'.todo[i]
               /\ \A i \in 1 .. Len(net.todo) :
                      \/ net.todo[i] = x
                      \/ \E j \in 1 .. Len(net'.todo) : net'.todo[j] = net.todo[i]
<1> DEFINE x == slots[net.slot].sock
           q == net.todo
           r == Tail(net.todo)
<1>0. TypeOK /\ net \in NetLocals /\ Accepted
  BY DEF Good, TypeOK
<1>1. net.slot \in Slots /\ q # <<>> /\ x = Head(q) /\ q \in Seq(Clients)
  BY <1>0 DEF Accepted, Filled, NetLocals
<1>2. /\ r \in Seq(Clients) /\ Head(q) = q[1] /\ q[1] \in Clients /\ 1 \in 1 .. Len(q)
      /\ \A i, j \in 1 .. Len(r) : r[i] = r[j] => i = j
      /\ \A i \in 1 .. Len(r) : \E j \in 1 .. Len(q) : r[i] = q[j] /\ j # 1
      /\ \A j \in 1 .. Len(q) : j # 1 => \E i \in 1 .. Len(r) : r[i] = q[j]
  <2>1. \A i, j \in 1 .. Len(q) : q[i] = q[j] => i = j
    BY <1>0 DEF Accepted
  <2> HIDE DEF q
  <2> QED
    BY <2>1, <1>1, RestOf DEF q
<1>3. x \in Clients /\ x \in Conns /\ x \notin Controls /\ InUse(net.slot)
  BY <1>1, <1>2, EngineAssumption DEF Conns, InUse
<1>4. net' \in NetLocals /\ net'.pc = "register" /\ net'.todo = r
  <2>1. net' = [net EXCEPT !.pc = "register", !.slot = NoSlot, !.todo = r]
    BY DEF NextConnection
  <2> HIDE DEF r
  <2> QED
    BY <2>1, <1>0, <1>2 DEF NetLocals, NetPoints
<1>5. (\A t : Registering(t) <=> t = net.slot) /\ (\A t : ~Registering(t)')
  BY <1>4 DEF Registering
<1>6. ASSUME NEW i \in 1 .. Len(r)
      PROVE  /\ r[i] # x /\ r[i] \in Conns /\ place[r[i]] = "held"
             /\ \A t \in Slots : slots[t].sock # r[i]
  <2>1. PICK j \in 1 .. Len(q) : r[i] = q[j] /\ j # 1
    BY <1>2
  <2>2. q[j] # q[1] /\ place[q[j]] = "held" /\ \A t \in Slots : slots[t].sock # q[j]
    BY <2>1, <1>0, <1>2 DEF Accepted
  <2>3. q[j] \in Conns
    BY <1>1 DEF Conns
  <2> QED
    BY <2>1, <2>2, <2>3, <1>1, <1>2
<1>7. \A i \in 1 .. Len(q) : q[i] = x \/ \E j \in 1 .. Len(r) : r[j] = q[i]
  BY <1>1, <1>2
<1> HIDE DEF r, x, q
<1>8. \A i, j \in 1 .. Len(net'.todo) : net'.todo[i] = net'.todo[j] => i = j
  BY <1>2, <1>4
<1>9. \A i \in 1 .. Len(net'.todo) :
          /\ net'.todo[i] # x /\ net'.todo[i] \in Conns
          /\ place[net'.todo[i]] = "held"
          /\ \A t \in Slots : slots[t].sock # net'.todo[i]
  BY <1>4, <1>6
<1>10. \A i \in 1 .. Len(q) : q[i] = x \/ \E j \in 1 .. Len(net'.todo) : net'.todo[j] = q[i]
  BY <1>4, <1>7
<1> QED
  BY <1>1, <1>3, <1>4, <1>5, <1>8, <1>9, <1>10 DEF x, q

LEMMA SubscribeGood ==
    ASSUME Good, subscribe, lobbies' = lobbies
    PROVE  Good'
<1> DEFINE s == net.slot
           x == slots[net.slot].sock
<1>0. TypeOK
  BY DEF Good
<1>1. /\ net.pc = "subscribe" /\ net' = NextConnection
      /\ epoll' = [epoll EXCEPT ![x] = Armed(s)]
      /\ UNCHANGED <<slots, buffer, free, lost, next_index, counter, tasks, wrk, inbox, place>>
  BY DEF subscribe, pool, entries, sizes, kernel
<1>2. /\ s \in Slots /\ InUse(s)
      /\ \A t : Registering(t) <=> t = s
      /\ \A t : ~Registering(t)'
      /\ x \in Clients /\ x \in Conns /\ x \notin Controls
      /\ net' \in NetLocals /\ net'.pc = "register"
      /\ \A i, j \in 1 .. Len(net'.todo) : net'.todo[i] = net'.todo[j] => i = j
      /\ \A i \in 1 .. Len(net'.todo) :
             /\ net'.todo[i] # x /\ net'.todo[i] \in Conns
             /\ place[net'.todo[i]] = "held"
             /\ \A t \in Slots : slots[t].sock # net'.todo[i]
      /\ \A i \in 1 .. Len(net.todo) :
             net.todo[i] = x \/ \E j \in 1 .. Len(net'.todo) : net'.todo[j] = net.todo[i]
  BY <1>1, Subscribing
<1>3. x = slots[s].sock
  OBVIOUS
<1> HIDE DEF s, x
<1>4. Armed(s) \in Watch /\ Armed(s).slot = s /\ s # NoSlot
  BY <1>2, EngineAssumption DEF Armed, Watch, NoSlot, Slots
<1>5. /\ epoll' \in [Conns -> Watch] /\ epoll'[x] = Armed(s)
      /\ \A c \in Conns : c # x => epoll'[c] = epoll[c]
  BY <1>0, <1>1, <1>2, <1>4 DEF TypeOK
<1>6. \A t : InUse(t)' <=> InUse(t)
  BY <1>1 DEF InUse
<1>7. Busy' = Busy
  BY <1>2, <1>6 DEF Busy
<1>8. Work' /\ Reached'
  <2>1. ASSUME NEW t \in Slots, InUse(t), ~Registering(t)
        PROVE  epoll'[slots[t].sock] = epoll[slots[t].sock]
    <3>1. slots[t].sock \in Conns
      BY <1>0, <2>1 DEF TypeOK, EntryType, InUse
    <3>2. slots[t].sock # x
      BY <1>2, <1>3, <2>1 DEF Good, Held
    <3> QED
      BY <3>1, <3>2, <1>5
  <2> QED
    BY <2>1, <1>1, <1>2, WorkerUndisturbed
<1>9. TypeOK'
  BY <1>0, <1>1, <1>2, <1>5 DEF TypeOK
<1>10. Pool' /\ Entries' /\ Mailed'
  BY <1>1, <1>6, <1>7 DEF Good, Pool, Taken, Entries, Mailed, Complete
<1>11. Accepted'
  BY <1>1, <1>2 DEF Accepted, Filled
<1>12. Held'
  <2>1. ASSUME NEW c, Homed(c)
        PROVE  Homed(c)'
    <3>1. CASE \E t \in Slots : slots[t].sock = c
      BY <3>1, <1>1 DEF Homed
    <3>2. CASE \E i \in 1 .. Len(net.todo) : net.todo[i] = c
      <4>1. c = x \/ \E j \in 1 .. Len(net'.todo) : net'.todo[j] = c
        BY <3>2, <1>2
      <4> QED
        BY <4>1, <1>1, <1>2, <1>3 DEF Homed
    <3>3. CASE wrk.pc = "attach" /\ wrk.ctrl = c
      BY <3>3, <1>1 DEF Homed
    <3> QED
      BY <2>1, <3>1, <3>2, <3>3 DEF Homed
  <2> QED
    BY <2>1, <1>1, <1>6 DEF Good, Held
<1>13. Registered'
  <2>1. ASSUME NEW c \in Conns
        PROVE  /\ epoll'[c].slot # NoSlot => slots[epoll'[c].slot].sock = c
               /\ epoll'[c].armed => epoll'[c].slot # NoSlot
    <3>1. CASE c = x
      BY <3>1, <1>3, <1>4, <1>5
    <3>2. CASE c # x
      BY <3>2, <1>5 DEF Good, Registered
    <3> QED
      BY <3>1, <3>2
  <2> QED
    BY <2>1, <1>1 DEF Registered
<1>14. Counted'
  BY <1>1, <1>2 DEF Good, Counted, One
<1> QED
  BY <1>8, <1>9, <1>10, <1>11, <1>12, <1>13, <1>14 DEF Good

LEMMA SubscribeFailsGood ==
    ASSUME Good, subscribe_fails, lobbies' = lobbies
    PROVE  Good'
<1> DEFINE s == net.slot
           x == slots[net.slot].sock
<1>0. TypeOK
  BY DEF Good
<1>1. /\ net.pc = "subscribe" /\ net' = NextConnection
      /\ slots' = SlotsWithout(<<s>>) /\ buffer' = BufferWithout(<<s>>)
      /\ epoll' = EpollWithout(<<s>>) /\ place' = PlaceWithout(<<s>>)
      /\ GivenBack(s)
      /\ UNCHANGED <<next_index, counter, tasks, wrk, inbox>>
  BY DEF subscribe_fails, release_connection, give_back, GivenBack, sizes, kernel
<1>2. /\ s \in Slots /\ InUse(s)
      /\ \A t : Registering(t) <=> t = s
      /\ \A t : ~Registering(t)'
      /\ x \in Clients /\ x \in Conns /\ x \notin Controls
      /\ net' \in NetLocals /\ net'.pc = "register"
      /\ \A i, j \in 1 .. Len(net'.todo) : net'.todo[i] = net'.todo[j] => i = j
      /\ \A i \in 1 .. Len(net'.todo) :
             /\ net'.todo[i] # x /\ net'.todo[i] \in Conns
             /\ place[net'.todo[i]] = "held"
             /\ \A t \in Slots : slots[t].sock # net'.todo[i]
      /\ \A i \in 1 .. Len(net.todo) :
             net.todo[i] = x \/ \E j \in 1 .. Len(net'.todo) : net'.todo[j] = net.todo[i]
  BY <1>1, Subscribing
<1>3. x = slots[s].sock /\ x # NoConn
  BY <1>2, EngineAssumption
<1>4. /\ slots' \in [Slots -> EntryType]
      /\ slots'[s] = EmptyEntry /\ \A t \in Slots \ {s} : slots'[t] = slots[t]
      /\ buffer' \in [Slots -> Seq(AnyMail)]
      /\ buffer'[s] = <<>> /\ \A t \in Slots \ {s} : buffer'[t] = buffer[t]
  BY <1>0, <1>1, <1>2, ReleaseFields
<1>5. /\ epoll' = [d \in Conns |-> IF d = x THEN Absent ELSE epoll[d]]
      /\ place' = [d \in Conns |-> IF d = x THEN "gone" ELSE place[d]]
  BY <1>0, <1>1, <1>2, ReleaseSocket
<1> HIDE DEF s, x
<1>6. /\ Absent \in Watch /\ "gone" \in Places /\ "gone" # "held"
      /\ epoll \in [Conns -> Watch] /\ place \in [Conns -> Places]
  BY <1>0 DEF TypeOK, Absent, Watch, Places
<1>7. /\ epoll' \in [Conns -> Watch] /\ epoll'[x] = Absent
      /\ \A c \in Conns : c # x => epoll'[c] = epoll[c]
      /\ place' \in [Conns -> Places] /\ place'[x] # "held"
      /\ \A c \in Conns : c # x => place'[c] = place[c]
  BY ONLY <1>2, <1>5, <1>6
<1>8. slots'[s].sock = NoConn /\ slots'[s].status = "EMPTY"
  BY <1>4 DEF EmptyEntry
<1>9. Busy' = Busy \ {s}
  <2>1. Busy' = {t \in Slots : slots'[t].sock # NoConn}
    BY <1>2 DEF Busy, InUse
  <2>2. \A t \in Slots : slots'[t].sock # NoConn <=> InUse(t) /\ t # s
    BY <1>4, <1>8 DEF InUse
  <2> QED
    BY <2>1, <2>2, <1>2 DEF Busy
<1>10. \A t \in Slots : t # s => slots[t].sock # x
  BY <1>2, <1>3 DEF Good, Held
<1>11. Work' /\ Reached'
  <2>1. \A t \in Slots : slots'[t].sock \in Controls => slots'[t] = slots[t]
    BY <1>4, <1>8, EngineAssumption DEF Conns
  <2>2. \A c \in Controls : place'[c] = place[c]
    BY <1>2, <1>7 DEF Conns
  <2>3. \A t \in Slots : InUse(t) =>
            (epoll[slots[t].sock] = Absent => epoll'[slots[t].sock] = Absent)
    BY <1>0, <1>7 DEF TypeOK, EntryType, InUse
  <2> QED
    BY <2>1, <2>2, <2>3, <1>1, <1>2, <1>4, WorkerUndisturbed
<1>12. free' \in Seq(Slots) /\ lost' \in SUBSET Slots /\ Pool'
  <2>1. s \in Busy /\ Pool
    BY <1>2 DEF Busy, Good
  <2> QED
    BY <2>1, <1>0, <1>1, <1>2, <1>9, PoolRelease
<1>13. TypeOK'
  BY <1>0, <1>1, <1>2, <1>4, <1>7, <1>12 DEF TypeOK
<1>14. Entries'
  <2>1. ASSUME NEW t \in Slots
        PROVE  /\ slots'[t].sock # NoConn => Complete(slots'[t])
               /\ slots'[t].sock = NoConn =>
                      slots'[t].status = "EMPTY" /\ buffer'[t] = <<>>
               /\ t \notin Busy' => slots'[t] = EmptyEntry
    <3>1. CASE t = s
      BY <3>1, <1>4, <1>8
    <3>2. CASE t # s
      BY <3>2, <1>4, <1>9 DEF Good, Entries, InUse
    <3> QED
      BY <3>1, <3>2
  <2> QED
    BY <2>1 DEF Entries, InUse, Complete
<1>15. Accepted'
  <2>1. \A i \in 1 .. Len(net'.todo) :
            /\ place'[net'.todo[i]] = "held"
            /\ \A t \in Slots : slots'[t].sock # net'.todo[i]
    <3>1. ASSUME NEW i \in 1 .. Len(net'.todo)
          PROVE  place'[net'.todo[i]] = "held"
      BY <1>2, <1>7
    <3>2. ASSUME NEW i \in 1 .. Len(net'.todo), NEW t \in Slots
          PROVE  slots'[t].sock # net'.todo[i]
      <4>1. net'.todo[i] \in Conns /\ net'.todo[i] # NoConn /\ slots[t].sock # net'.todo[i]
        BY <1>2, EngineAssumption
      <4> QED
        BY <4>1, <1>4, <1>8
    <3> QED
      BY <3>1, <3>2
  <2> QED
    BY <2>1, <1>2 DEF Accepted, Filled
<1>16. Held'
  <2>1. ASSUME NEW t \in Slots, slots'[t].sock # NoConn
        PROVE  t # s /\ slots'[t].sock = slots[t].sock /\ place'[slots'[t].sock] = "held"
    <3>1. t # s /\ slots'[t] = slots[t]
      BY <2>1, <1>4, <1>8
    <3>2. slots[t].sock \in Conns /\ slots[t].sock # x /\ place[slots[t].sock] = "held"
      BY <2>1, <3>1, <1>0, <1>10 DEF Good, Held, InUse, TypeOK, EntryType
    <3> QED
      BY <3>1, <3>2, <1>7
  <2>2. ASSUME NEW t \in Slots, NEW u \in Slots, slots'[t].sock = slots'[u].sock,
               slots'[t].sock # NoConn
        PROVE  t = u
    BY <2>1, <2>2 DEF Good, Held, InUse
  <2>3. ASSUME NEW c \in Conns, place'[c] = "held"
        PROVE  Homed(c)'
    <3>1. c # x /\ place[c] = "held"
      BY <2>3, <1>7
    <3>2. Homed(c)
      BY <3>1 DEF Good, Held
    <3>3. \A t \in Slots : slots[t].sock = c => slots'[t].sock = c
      BY <3>1, <1>3, <1>4
    <3>4. (\E i \in 1 .. Len(net.todo) : net.todo[i] = c) =>
              \E j \in 1 .. Len(net'.todo) : net'.todo[j] = c
      BY <3>1, <1>2
    <3> QED
      BY <3>2, <3>3, <3>4, <1>1 DEF Homed
  <2> QED
    BY <2>1, <2>2, <2>3 DEF Held, InUse
<1>17. Registered'
  <2>1. ASSUME NEW c \in Conns
        PROVE  /\ epoll'[c].slot # NoSlot => slots'[epoll'[c].slot].sock = c
               /\ epoll'[c].armed => epoll'[c].slot # NoSlot
    <3>1. CASE c = x
      BY <3>1, <1>7 DEF Absent
    <3>2. CASE c # x
      <4>1. epoll'[c] = epoll[c]
        BY <3>2, <1>7
      <4>2. epoll[c].slot # NoSlot => epoll[c].slot \in Slots \ {s}
        BY <3>2, <1>0, <1>3 DEF Good, Registered, TypeOK, Watch
      <4> QED
        BY <4>1, <4>2, <1>4 DEF Good, Registered
    <3> QED
      BY <3>1, <3>2
  <2> QED
    BY <2>1 DEF Registered
<1>18. Counted'
  BY <1>1, <1>2 DEF Good, Counted, One
<1>19. Mailed'
  <2>1. ASSUME NEW t \in Slots, slots'[t].sock # NoConn
        PROVE  buffer'[t] \in Seq(Mail(slots'[t].sock))
    <3>1. t # s /\ slots'[t] = slots[t] /\ buffer'[t] = buffer[t]
      BY <2>1, <1>4, <1>8
    <3> QED
      BY <3>1, <2>1 DEF Good, Mailed, InUse
  <2> QED
    BY <2>1, <1>1 DEF Good, Mailed, InUse, Mail
<1> QED
  BY <1>11, <1>12, <1>13, <1>14, <1>15, <1>16, <1>17, <1>18, <1>19 DEF Good

-----------------------------------------------------------------------------
(* The invariant and what follows from it                                  *)

\* mishaps is a history: nothing is taken back.
LEMMA MishapsStay ==
    ASSUME Next
    PROVE  mishaps \subseteq mishaps'
<1>1. CASE Environment
  BY <1>1 DEF Environment, client_connect, client_send, peer_close, history
<1>2. CASE NetworkThread
  BY <1>2 DEF NetworkThread, process_event, accept_connections,
     accept_connections_fails, register_reused, assign_type, assign_socket,
     register_new, count_new, subscribe, subscribe_fails, rearm_listener, history
<1>3. CASE ReceiveLoop
  BY <1>3 DEF ReceiveLoop, process_connection, check_alive, Overlap,
     get_message_buffered, get_message_received, get_message_would_block,
     get_message_disconnected, get_message_fails, rearm_socket, rearm_socket_fails,
     history
<1>4. CASE Broadcast
  BY <1>4 DEF Broadcast, broadcast_skip, broadcast_send, broadcast_end, Overlap, history
<1>5. CASE \/ refuse \/ execute_general \/ execute_general_fails \/ execute_chat
           \/ spawn_lobby \/ spawn_lobby_fails \/ \E l \in Controls : lobby_complains(l)
  BY <1>5 DEF refuse, execute_general, execute_general_fails, execute_chat, spawn_lobby,
     spawn_lobby_fails, lobby_complains, history
<1>6. CASE attach_lobby
  BY <1>6 DEF attach_lobby, attach_reused, attach_new, attach_count, attach_subscribe,
     attach_fails, history
<1>7. CASE attach \/ attach_taken \/ init_lobby_fails \/ join_found \/ join_unknown
  BY <1>7 DEF attach, attach_taken, init_lobby_fails, join_found, join_unknown, history
<1>8. CASE \/ transfer \/ send_socket \/ let_go \/ send_socket_fails \/ resubscribe
           \/ resubscribe_fails \/ release_again \/ init_lobby
  BY <1>8 DEF transfer, send_socket, let_go, send_socket_fails, resubscribe,
     resubscribe_fails, release_again, init_lobby, history
<1> QED
  BY <1>1, <1>2, <1>3, <1>4, <1>5, <1>6, <1>7, <1>8 DEF Next, Worker, Handlers

LEMMA NetworkGood ==
    ASSUME Good, Backlog, mishaps' = {}, NetworkThread, lobbies' = lobbies
    PROVE  Good'
<1>1. ~accept_connections_fails
  BY DEF accept_connections_fails
<1>2. IsFiniteSet(Waiting)
  BY DEF Backlog
<1> QED
  BY <1>1, <1>2, EventGood, AcceptGood, RegisterReusedGood, AssignTypeGood, AssignSocketGood,
     RegisterNewGood, CountNewGood, SubscribeGood, SubscribeFailsGood, RearmListenerGood
     DEF NetworkThread

LEMMA EnvironmentGood ==
    ASSUME Good, Environment, lobbies' = lobbies
    PROVE  Good'
BY ConnectGood, SendGood, CloseGood DEF Environment

LEMMA ReceiveLoopGood ==
    ASSUME Good, mishaps' = {}, ReceiveLoop, lobbies' = lobbies
    PROVE  Good'
BY ConnectionGood, CheckGood, BufferedGood, ReceivedGood, BlockGood, LostGood, RearmGood
   DEF ReceiveLoop

LEMMA HandlersGood ==
    ASSUME Good, mishaps' = {}, Handlers
    PROVE  Good'
<1>1. ~resubscribe_fails /\ ~release_again
  BY DEF resubscribe_fails, release_again, Good, TypeOK, Locals, WorkerPoints
<1>2. CASE attach_lobby
  BY <1>2, AttachReusedGood, AttachNewGood, AttachCountGood, AttachSubscribeGood,
     AttachFailsGood DEF attach_lobby
<1>3. CASE resubscribe
  <2>1. lobbies' = lobbies
    BY <1>3 DEF resubscribe
  <2> QED
    BY <1>3, <2>1, RearmGood
<1> QED
  BY <1>1, <1>2, <1>3, RefuseGood, GeneralFailsGood, ChatGood, SpawnGood, EnlistGood,
     JoinGood, TransferGood, LetGoGood, SendSocketFailsGood DEF Handlers

LEMMA StepGood ==
    ASSUME Good, Backlog, mishaps' = {}, Next
    PROVE  Good'
<1>1. CASE (Environment \/ NetworkThread) /\ lobbies' = lobbies
  BY <1>1, EnvironmentGood, NetworkGood
<1>2. CASE (ReceiveLoop \/ Broadcast) /\ lobbies' = lobbies
  BY <1>2, ReceiveLoopGood, SkipGood, BroadcastSendGood, EndGood DEF Broadcast
<1>3. CASE Handlers
  BY <1>3, HandlersGood
<1>4. CASE (execute_general \/ init_lobby \/ send_socket) /\ inbox' = inbox
  BY <1>4, GeneralGood, InitLobbyGood, SendSocketGood
<1>5. CASE (\E l \in Controls : lobby_complains(l)) /\ lobbies' = lobbies
  BY <1>5, ComplainGood
<1> QED
  BY <1>1, <1>2, <1>3, <1>4, <1>5 DEF Next, Worker

LEMMA StutterGood ==
    ASSUME Good, UNCHANGED vars
    PROVE  Good'
<1>1. UNCHANGED <<slots, buffer, free, lost, next_index, counter, epoll, tasks, net, wrk,
                  place, inbox, lobbies>>
  BY DEF vars, engineVars, pool, entries, sizes, loop, kernel
<1>2. TypeOK'
  BY <1>1 DEF Good, TypeOK
<1>3. Registered' /\ Mailed'
  BY <1>1, BusySame DEF Good, Registered, Mailed
<1> QED
  BY <1>1, <1>2, <1>3, OutsideStep DEF Good

\* Only connect adds to the backlog.
LEMMA BacklogKept ==
    ASSUME Backlog, place' \in [Conns -> Places],
           \A c \in Conns : place'[c] = "backlog" => place[c] = "backlog"
    PROVE  Backlog'
<1>1. Waiting' \subseteq Waiting
  BY DEF Waiting, Conns
<1> QED
  BY <1>1, FS_Subset DEF Backlog

\* Closing sockets takes connections out of the backlog if anything.
LEMMA ClosedPlaces ==
    ASSUME Backlog, NEW q
    PROVE  /\ PlaceWithout(q) \in [Conns -> Places]
           /\ \A c \in Conns : PlaceWithout(q)[c] = "backlog" => place[c] = "backlog"
BY DEF Backlog, PlaceWithout, Places

LEMMA BacklogStep ==
    ASSUME Backlog, [Next]_vars
    PROVE  Backlog'
<1>0. place \in [Conns -> Places]
  BY DEF Backlog
<1>1. ASSUME NEW c \in Clients, client_connect(c)
      PROVE  Backlog'
  <2>1. place' = [place EXCEPT ![c] = "backlog"] /\ c \in Conns
    BY <1>1 DEF client_connect, Conns
  <2>2. place' \in [Conns -> Places]
    BY <1>0, <2>1 DEF Places
  <2>3. Waiting' = Waiting \cup {c}
    BY <1>0, <2>1 DEF Waiting, Conns
  <2>4. IsFiniteSet(Waiting \cup {c})
    BY FS_AddElement DEF Backlog
  <2> QED
    BY <2>2, <2>3, <2>4 DEF Backlog
<1>2. CASE place' = place
  BY <1>0, <1>2, BacklogKept
<1>3. ASSUME NEW q, place' = PlaceWithout(q)
      PROVE  Backlog'
  BY <1>3, ClosedPlaces, BacklogKept
<1>4. ASSUME NEW f \in [Conns -> Places], NEW p \in {"held", "moved", "gone"}, NEW C,
             \A c \in Conns : f[c] = "backlog" => place[c] = "backlog",
             place' = [c \in Conns |-> IF c \in C THEN p ELSE f[c]]
      PROVE  Backlog'
  BY <1>4, BacklogKept DEF Places
<1>5. ASSUME NEW f \in [Conns -> Places], NEW p \in {"held", "moved", "gone"}, NEW d,
             \A c \in Conns : f[c] = "backlog" => place[c] = "backlog",
             place' = [f EXCEPT ![d] = p]
      PROVE  Backlog'
  BY <1>5, BacklogKept DEF Places
<1>6. CASE Environment
  BY <1>1, <1>2, <1>6 DEF Environment, client_send, peer_close
<1>7. CASE NetworkThread
  <2>1. CASE accept_connections \/ accept_connections_fails
    BY <1>0, <1>4, <2>1 DEF accept_connections, accept_connections_fails
  <2>2. CASE assign_socket
    BY <1>5, <2>2, ClosedPlaces DEF assign_socket, SocketAssigned
  <2>3. CASE subscribe_fails
    BY <1>3, <2>3 DEF subscribe_fails, release_connection
  <2> QED
    BY <1>2, <1>7, <2>1, <2>2, <2>3 DEF NetworkThread, process_event, register_reused,
       assign_type, register_new, count_new, subscribe, rearm_listener
<1>8. CASE ReceiveLoop \/ Broadcast
  BY <1>2, <1>3, <1>8 DEF ReceiveLoop, Broadcast, process_connection, check_alive,
     get_message_buffered, get_message_received, get_message_would_block,
     get_message_disconnected, get_message_fails, rearm_socket, rearm_socket_fails,
     broadcast_skip, broadcast_send, broadcast_end, release_connection, engineVars
<1>9. CASE Handlers
  <2>1. CASE spawn_lobby
    BY <1>0, <1>5, <2>1 DEF spawn_lobby
  <2>2. CASE attach_lobby
    BY <1>2, <1>3, <2>2 DEF attach_lobby, attach_reused, attach_new, attach_count,
       attach_subscribe, attach_fails, release_connection
  <2>3. CASE \/ execute_general_fails \/ send_socket_fails \/ resubscribe_fails
             \/ release_again
    BY <1>3, <2>3 DEF execute_general_fails, send_socket_fails, resubscribe_fails,
       release_again, release_connection
  <2>4. CASE let_go
    <3>1. \/ place' = PlaceWithout(<<wrk.slot>>)
          \/ place' = [PlaceWithout(<<wrk.slot>>) EXCEPT ![wrk.msg.from] = "moved"]
      BY <2>4 DEF let_go
    <3>2. CASE place' = PlaceWithout(<<wrk.slot>>)
      BY <1>3, <3>2
    <3>3. CASE place' = [PlaceWithout(<<wrk.slot>>) EXCEPT ![wrk.msg.from] = "moved"]
      BY <1>5, <3>3, ClosedPlaces
    <3> QED
      BY <3>1, <3>2, <3>3
  <2> QED
    BY <1>2, <1>9, <2>1, <2>2, <2>3, <2>4 DEF Handlers, refuse, execute_chat,
       spawn_lobby_fails, attach, attach_taken, init_lobby_fails, join_found,
       join_unknown, transfer, resubscribe, engineVars
<1>10. CASE execute_general \/ init_lobby \/ send_socket
  BY <1>2, <1>10 DEF execute_general, init_lobby, send_socket
<1>11. CASE \E l \in Controls : lobby_complains(l)
  BY <1>0, <1>5, <1>11 DEF lobby_complains
<1>12. CASE UNCHANGED vars
  BY <1>2, <1>12 DEF vars, engineVars
<1> QED
  BY <1>6, <1>7, <1>8, <1>9, <1>10, <1>11, <1>12 DEF Next, Worker

\* The invariant of the server until its first mishap.
LEMMA Inductive == Spec => []IInv
<1>1. Init => IInv
  <2> SUFFICES ASSUME Init PROVE Backlog
    BY InitGood DEF IInv
  <2>1. place \in [Conns -> Places]
    BY DEF Init, EngineInit, Places
  <2>2. Waiting = {}
    BY DEF Init, EngineInit, Waiting, Conns
  <2> QED
    BY <2>1, <2>2, FS_EmptySet DEF Backlog
<1>2. IInv /\ [Next]_vars => IInv'
  <2> SUFFICES ASSUME IInv, [Next]_vars, mishaps' = {}
               PROVE  Good'
    BY BacklogStep DEF IInv
  <2>1. CASE Next
    <3>1. mishaps = {}
      BY <2>1, MishapsStay
    <3> QED
      BY <2>1, <3>1, StepGood DEF IInv
  <2>2. CASE UNCHANGED vars
    <3>1. mishaps = {}
      BY <2>2 DEF vars
    <3> QED
      BY <2>2, <3>1, StutterGood DEF IInv
  <2> QED
    BY <2>1, <2>2
<1> QED
  BY <1>1, <1>2, PTL DEF Spec

\* The pool's books balance: until the first mishap every slot ever issued is
\* in use, being filled or empty, and an empty one is in available_slots_
\* once, or lost to a refused push, never both; whatever the two threads do,
\* and although either of them may see the queue full when it is not
\* (object_pool.h:31-54).  The double release of a failed transfer is the
\* mishap "unsaved" and not covered.
THEOREM PoolBooksBalance == Spec => []SlotsAccounted
<1>1. IInv => SlotsAccounted
  <2> SUFFICES ASSUME Good
               PROVE  /\ IsInjective(free)
                      /\ Range(free) \cap lost = {}
                      /\ \A s \in 1 .. next_index - 1 :
                             (s \in Range(free) \cup lost) <=>
                             (slots[s] = EmptyEntry /\ ~Registering(s))
    BY DEF IInv, SlotsAccounted
  <2>1. /\ free \in Seq(Slots) /\ DOMAIN free = 1 .. Len(free)
        /\ Books(free, next_index, Taken) /\ Busy \cap lost = {}
        /\ Range(free) = {free[i] : i \in 1 .. Len(free)}
    BY DEF Good, TypeOK, Pool, Range
  <2>2. IsInjective(free)
    BY <2>1 DEF Books, IsInjective
  <2>3. Range(free) \cap lost = {}
    BY <2>1 DEF Books, Taken
  <2>4. ASSUME NEW s \in 1 .. next_index - 1
        PROVE  (s \in Range(free) \cup lost) <=> (slots[s] = EmptyEntry /\ ~Registering(s))
    <3>1. s \in Slots /\ s < next_index
      BY EngineAssumption DEF Good, TypeOK, Slots
    <3>2. s \in Range(free) <=> s \notin Taken
      BY <2>1, <3>1 DEF Books
    <3>3. s \in Range(free) \cup lost <=> s \notin Busy
      BY <2>1, <3>2 DEF Taken
    <3>4. s \notin Busy => slots[s] = EmptyEntry /\ ~Registering(s)
      BY <3>1 DEF Good, Entries, Busy
    <3>5. slots[s] = EmptyEntry => ~InUse(s)
      BY DEF InUse, EmptyEntry
    <3> QED
      BY <3>1, <3>3, <3>4, <3>5 DEF Busy
  <2> QED
    BY <2>2, <2>3, <2>4
<1> QED
  BY <1>1, Inductive, PTL

\* Until the first mishap every connection the server holds is in one slot or
\* in the hands of a thread, and epoll's data for it is that slot: a slot is
\* released and used again without an event reaching the wrong client
\* (network_routine.cpp:125-170, 277-317).
THEOREM EventsReachTheirSlot == Spec => []EventsFindTheirSlot
<1>1. IInv => EventsFindTheirSlot
  <2> SUFFICES ASSUME Good, NEW c \in Conns
               PROVE  LET homes == {s \in Slots : slots[s].sock = c}
                      IN  /\ Cardinality(homes) <= 1
                          /\ place[c] = "held" =>
                                 homes # {} \/ c \in Range(net.todo) \/ c = wrk.ctrl
                          /\ epoll[c].slot # NoSlot => epoll[c].slot \in homes
    BY DEF IInv, EventsFindTheirSlot
  <2> DEFINE homes == {s \in Slots : slots[s].sock = c}
  <2>1. \A s, t \in homes : s = t
    BY EngineAssumption DEF Good, Held, InUse
  <2>2. Cardinality(homes) <= 1
    <3>1. homes = {} \/ \E s : homes = {s}
      BY <2>1
    <3> HIDE DEF homes
    <3>2. CASE homes = {}
      BY <3>2, FS_EmptySet
    <3>3. CASE \E s : homes = {s}
      BY <3>3, FS_Singleton
    <3> QED
      BY <3>1, <3>2, <3>3
  <2>3. place[c] = "held" => homes # {} \/ c \in Range(net.todo) \/ c = wrk.ctrl
    <3>1. net.todo \in Seq(Clients)
      BY DEF Good, TypeOK, NetLocals
    <3>2. (\E i \in 1 .. Len(net.todo) : net.todo[i] = c) => c \in Range(net.todo)
      BY <3>1 DEF Range
    <3> QED
      BY <3>2 DEF Good, Held, Homed
  <2>4. epoll[c].slot # NoSlot => epoll[c].slot \in homes
    BY DEF Good, Registered, TypeOK, Watch
  <2> QED
    BY <2>2, <2>3, <2>4
<1> QED
  BY <1>1, Inductive, PTL

\* Until the first mishap a command is carried out for the client that sent
\* it, from the first line of the handler to the transfer to a lobby
\* (server.cpp, network_routine.cpp:371-430).
THEOREM CommandsAreTheSenders == Spec => []CommandOfItsSender
<1>1. IInv => CommandOfItsSender
  <2> SUFFICES ASSUME Good,
                      wrk.pc \in {"handle", "attach", "count", "subscribe", "enlist",
                                  "send_id", "transfer", "send_socket", "let_go"}
               PROVE  Pending = wrk.msg.from
    BY DEF IInv, CommandOfItsSender
  <2>1. Answering /\ InHand /\ wrk.pc # "idle"
    BY DEF Answering, InHand
  <2>2. wrk.slot \in Slots /\ InUse(wrk.slot) /\ wrk.msg \in Mail(Pending)
    BY <2>1 DEF Good, Work
  <2>3. Pending \in Conns
    BY <2>2 DEF Good, TypeOK, EntryType, InUse, Pending
  <2> QED
    BY <2>2, <2>3, MailFields
<1> QED
  BY <1>1, Inductive, PTL

\* Until the first mishap a broadcast ends with an empty audience: every client
\* registered when it began was sent the text or released, although the other
\* thread fills slots meanwhile (network_routine.h:77-103).
THEOREM BroadcastIsComplete == Spec => []BroadcastReachesAll
<1>1. IInv => BroadcastReachesAll
  <2> SUFFICES ASSUME Good, wrk.pc = "broadcast", wrk.index >= counter,
                      NEW c \in wrk.audience
               PROVE  FALSE
    BY DEF IInv, BroadcastReachesAll
  <2>1. PICK s \in Slots : /\ wrk.index <= s /\ slots[s].type = "TO_CLIENT"
                           /\ ~Registering(s)
    BY DEF Good, Reached
  <2>2. s < counter
    BY <2>1, ClientCounted
  <2>3. wrk.index \in Nat /\ counter \in Nat /\ s \in Nat
    BY EngineAssumption DEF Good, TypeOK, Locals, Slots
  <2> QED
    BY <2>1, <2>2, <2>3
<1> QED
  BY <1>1, Inductive, PTL

=============================================================================
