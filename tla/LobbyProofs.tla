----------------------------- MODULE LobbyProofs -----------------------------
(***************************************************************************)
(* Proofs about module Lobby, for any number of clients, messages and      *)
(* slots.  In a lobby only the worker changes the pool, so a slot the      *)
(* worker has found alive stays so until the worker itself releases it.    *)
(* The hard part is what arrives: a client must be put into the pool once, *)
(* although the message that brings it passes from the inbox of the        *)
(* control socket through a receive buffer to the handler.  Handed says    *)
(* that no two messages on that way bring the same client, and that the    *)
(* client of each still waits; with it, no socket is in two slots.         *)
(***************************************************************************)
EXTENDS Lobby, TLAPS


\* What the peer of c may have sent.
Mail(c) ==
    IF c = Parent
    THEN {SetLobbyId(LobbyCode), Answer} \cup
         {[action |-> "AcceptSocket", from |-> Parent, socket |-> d] :
             d \in Clients \cup {NoConn}}
    ELSE IF c = Peer THEN {Complaint}
    ELSE {From(c, m) : m \in Messages}

AnyMail == {NoMessage} \cup UNION {Mail(c) : c \in Conns}

Points == {"idle", "check", "receive", "handle", "rearm", "attach", "count",
           "subscribe", "greet", "broadcast"}

Locals ==
    [pc : Points, slot : Slots \cup {NoSlot}, msg : AnyMail,
     view : Slots \cup {NoSlot}, code : {0}, ctrl : Conns \cup {NoConn},
     index : Nat, count : Nat, audience : SUBSET (Conns \cup {NoConn})]

EntryType ==
    [type : {"NONE", "TO_PARENT", "TO_CLIENT"}, sock : Conns \cup {NoConn},
     status : {"EMPTY", "ALIVE"}]

\* The types of the variables the proofs are about; nothing but events
\* happens on the network thread, which has no listener.
TypeOK ==
    /\ slots \in [Slots -> EntryType]
    /\ buffer \in [Slots -> Seq(AnyMail)]
    /\ free \in Seq(Slots)
    /\ next_index \in 2 .. MaxSlots + 1
    /\ counter \in Nat
    /\ epoll \in [Conns -> [slot : Slots \cup {NoSlot}, armed : BOOLEAN]]
    /\ tasks \in Seq(Slots)
    /\ net = IdleNet
    /\ wrk \in Locals
    /\ inbox \in [Conns -> Seq(AnyMail)]
    /\ eof \in [Conns -> BOOLEAN]
    /\ place \in [Conns -> {"new", "backlog", "held", "gone"}]

\* Slot s holds a connection.
InUse(s) == slots[s].sock # NoConn

\* available_slots_ holds the slots issued and not in use, each once.
Pool ==
    /\ \A i, j \in 1 .. Len(free) : free[i] = free[j] => i = j
    /\ \A i \in 1 .. Len(free) : free[i] < next_index /\ ~InUse(free[i])
    /\ \A s \in Slots : s < next_index /\ ~InUse(s) =>
           \E i \in 1 .. Len(free) : free[i] = s
    /\ \A s \in Slots : InUse(s) => s < next_index

\* An entry is empty, with an empty buffer, or complete.
Entries ==
    \A s \in Slots :
        \/ slots[s] = EmptyEntry /\ buffer[s] = <<>>
        \/ slots[s].sock \in Clients /\ slots[s] = Entry("TO_CLIENT", slots[s].sock)
        \/ slots[s] = Entry("TO_PARENT", Parent)

\* The pool holds open sockets, each once, and no client's is lost.
Held ==
    /\ \A s \in Slots : InUse(s) => place[slots[s].sock] = "held"
    /\ \A s, t \in Slots : slots[s].sock = slots[t].sock /\ InUse(s) => s = t
    /\ \A c \in Clients : place[c] = "held" =>
           \/ \E s \in Slots : slots[s].sock = c
           \/ wrk.pc = "attach" /\ wrk.ctrl = c

\* Epoll leads to the slot of the socket, and reports only sockets it has.
Registered ==
    \A c \in Conns :
        /\ epoll[c].slot # NoSlot => slots[epoll[c].slot].sock = c
        /\ epoll[c].armed => epoll[c].slot # NoSlot

\* What the worker's locals mean at each point of the handlers.
Work ==
    /\ wrk.pc # "idle" => wrk.slot \in Slots
    /\ wrk.pc \notin {"idle", "check", "broadcast"} => InUse(wrk.slot)
    /\ wrk.pc = "handle" => wrk.msg \in Mail(Pending)
    /\ wrk.pc \in {"attach", "count", "subscribe", "greet"} =>
           /\ Pending = Parent
           /\ wrk.msg \in Mail(Parent)
           /\ wrk.ctrl \in Clients
    /\ wrk.pc = "attach" =>
           /\ place[wrk.ctrl] = "held"
           /\ \A s \in Slots : slots[s].sock # wrk.ctrl
    /\ wrk.pc \in {"count", "subscribe", "greet"} =>
           wrk.view \in Slots /\ slots[wrk.view].sock = wrk.ctrl
    /\ wrk.pc = "count" => counter + 1 = next_index /\ wrk.count = counter
    /\ wrk.pc # "count" => counter = next_index
    /\ wrk.pc = "broadcast" => wrk.index >= 1

\* A connection's messages are its peer's, in the kernel and in the buffer.
Mailed ==
    /\ \A c \in Conns : inbox[c] \in Seq(Mail(c))
    /\ \A s \in Slots : InUse(s) => buffer[s] \in Seq(Mail(slots[s].sock))

\* Message m brings a client; m and n bring the same one; no two messages of
\* q do, and none of q and r; and those that q brings are on their way.
Hands(m) == m.action = "AcceptSocket" /\ m.socket # NoConn
Clash(m, n) == Hands(m) /\ Hands(n) /\ m.socket = n.socket
Distinct(q) == \A i, j \in 1 .. Len(q) : Clash(q[i], q[j]) => i = j
Apart(q, r) == \A i \in 1 .. Len(q), j \in 1 .. Len(r) : ~Clash(q[i], r[j])
Waits(q) == \A i \in 1 .. Len(q) : Hands(q[i]) => place[q[i].socket] = "backlog"

\* A client is brought by one message at most, be it in the inbox, in the
\* buffer or in the worker's hands.
Handed ==
    /\ \A c \in Conns : Distinct(inbox[c]) /\ Waits(inbox[c])
    /\ \A s \in Slots : InUse(s) =>
           /\ Distinct(buffer[s])
           /\ Waits(buffer[s])
           /\ Apart(buffer[s], inbox[slots[s].sock])
    /\ wrk.pc = "handle" =>
           /\ Waits(<<wrk.msg>>)
           /\ Apart(<<wrk.msg>>, buffer[wrk.slot])
           /\ Apart(<<wrk.msg>>, inbox[Pending])

\* The inductive invariant.
IInv == TypeOK /\ Pool /\ Entries /\ Held /\ Registered /\ Work /\ Mailed /\ Handed

-----------------------------------------------------------------------------
\* A message tells its sender, and only the server's bring clients.
LEMMA MailFields ==
    ASSUME NEW c \in Conns, NEW m \in Mail(c)
    PROVE  /\ m.from = c
           /\ m \in AnyMail
           /\ Hands(m) => c = Parent /\ m.socket \in Clients
<1>1. m \in AnyMail
  BY DEF AnyMail
<1>2. CASE c = Parent
  BY <1>1, <1>2 DEF Mail, Hands, SetLobbyId, Answer
<1>4. CASE c = Peer
  BY <1>1, <1>4, LobbyAssumption DEF Mail, Hands, Complaint
<1>3. CASE c # Parent /\ c # Peer
  <2>1. PICK n \in Messages : m = From(c, n)
    BY <1>3 DEF Mail
  <2>2. "action" \in DOMAIN n
    BY MessageAssumption
  <2>3. n.action = "AcceptSocket" => "socket" \in DOMAIN n /\ n.socket = NoConn
    BY MessageAssumption
  <2>4. m.from = c /\ m.action = n.action
    BY <2>1, <2>2 DEF From
  <2>5. n.action = "AcceptSocket" => m.socket = NoConn
    BY <2>1, <2>3 DEF From
  <2> QED
    BY <1>1, <2>4, <2>5 DEF Hands
<1> QED
  BY <1>2, <1>3, <1>4

\* The lobby starts with its control socket in the root slot.
LEMMA InitInv == Init => IInv
<1> SUFFICES ASSUME Init PROVE IInv
  OBVIOUS
<1> USE EngineAssumption, LobbyAssumption DEF Init, LobbyInit
<1>1. Parent \in Conns /\ Root \in Slots /\ NoSlot \notin Slots
  BY DEF Conns, Slots, Root, NoSlot
<1>2. \A s \in Slots : slots[s] = IF s = Root THEN Entry("TO_PARENT", Parent)
                                  ELSE EmptyEntry
  OBVIOUS
<1>3. \A s \in Slots : InUse(s) <=> s = Root
  BY <1>1, <1>2 DEF InUse, Entry, EmptyEntry
<1>4. \A c \in Conns : inbox[c] = IF c = Parent THEN <<SetLobbyId(LobbyCode)>> ELSE <<>>
  OBVIOUS
<1>5. SetLobbyId(LobbyCode) \in Mail(Parent)
  BY DEF Mail
<1>6. SetLobbyId(LobbyCode) \in AnyMail /\ NoMessage \in AnyMail
  BY <1>1, <1>5 DEF AnyMail
<1>7. TypeOK
  <2>1. slots \in [Slots -> EntryType]
    BY <1>1 DEF EntryType, Entry, EmptyEntry
  <2>2. buffer \in [Slots -> Seq(AnyMail)] /\ inbox \in [Conns -> Seq(AnyMail)]
    BY <1>6
  <2>3. epoll \in [Conns -> [slot : Slots \cup {NoSlot}, armed : BOOLEAN]]
    BY <1>1 DEF Armed, Absent
  <2>4. wrk \in Locals
    BY <1>6 DEF Locals, IdleWorker, Points
  <2>5. place \in [Conns -> {"new", "backlog", "held", "gone"}]
    OBVIOUS
  <2> QED
    BY <2>1, <2>2, <2>3, <2>4, <2>5 DEF TypeOK
<1>8. Pool
  BY <1>1, <1>3 DEF Pool, Slots, Root
<1>9. Entries
  BY <1>2 DEF Entries
<1>10. Held
  BY <1>1, <1>2, <1>3 DEF Held, InUse, Entry, Conns
<1>11. Registered
  BY <1>1, <1>2 DEF Registered, Entry, Armed, Absent
<1>12. Work
  BY DEF Work, IdleWorker
<1>13. Mailed
  BY <1>1, <1>2, <1>3, <1>4, <1>5 DEF Mailed
<1>14. Handed
  <2>1. \A c \in Conns : Distinct(inbox[c]) /\ Waits(inbox[c])
    BY <1>4 DEF Distinct, Waits, Clash, Hands, SetLobbyId
  <2>2. \A s \in Slots : Distinct(buffer[s]) /\ Waits(buffer[s])
    BY DEF Distinct, Waits
  <2>3. \A s \in Slots : Apart(buffer[s], inbox[slots[s].sock])
    BY DEF Apart
  <2> QED
    BY <2>1, <2>2, <2>3 DEF Handed, IdleWorker
<1> QED
  BY <1>7, <1>8, <1>9, <1>10, <1>11, <1>12, <1>13, <1>14 DEF IInv

\* A step that leaves the pool and the messages alone.
Rest ==
    /\ UNCHANGED <<slots, buffer, free, next_index, place, inbox>>
    /\ wrk' = wrk \/ (wrk.pc # "attach" /\ wrk'.pc \notin {"attach", "handle"})

\* Such a step preserves what the invariant says of them.
LEMMA RestKeeps ==
    ASSUME IInv, Rest
    PROVE  Pool' /\ Entries' /\ Held' /\ Mailed' /\ Handed'
<1>1. Pool'
  BY DEF IInv, Rest, Pool, InUse
<1>2. Entries'
  BY DEF IInv, Rest, Entries
<1>3. Held'
  BY DEF IInv, Rest, Held, InUse
<1>4. Mailed'
  BY DEF IInv, Rest, Mailed, InUse
<1>5. Handed'
  BY DEF IInv, Rest, Handed, InUse, Waits, Pending
<1> QED
  BY <1>1, <1>2, <1>3, <1>4, <1>5

\* A step of the worker that releases slot s.
Released(s) ==
    /\ InUse(s)
    /\ release_connection(s, NetworkTook)
    /\ UNCHANGED <<next_index, inbox>>
    /\ wrk.pc # "attach"
    /\ wrk'.pc \notin {"attach", "handle"}

\* release_connection on a slot in use.
LEMMA ReleaseEffect ==
    ASSUME IInv, NEW s \in Slots, release_connection(s, NetworkTook), InUse(s)
    PROVE  /\ slots' = [t \in Slots |-> IF t = s THEN EmptyEntry ELSE slots[t]]
           /\ buffer' = [t \in Slots |-> IF t = s THEN <<>> ELSE buffer[t]]
           /\ epoll' = [c \in Conns |-> IF c = slots[s].sock THEN Absent ELSE epoll[c]]
           /\ place' = [c \in Conns |-> IF c = slots[s].sock THEN "gone" ELSE place[c]]
           /\ free' = Append(free, s)
<1>1. \A t : t \in Range(<<s>>) <=> t = s
  BY DEF Range
<1>2. SocketsOf(<<s>>) = {slots[s].sock}
  BY <1>1 DEF SocketsOf, InUse
<1>3. ~NetworkTook
  BY DEF IInv, TypeOK, NetworkTook, IdleNet
<1>4. free' = Append(free, s)
  BY <1>3 DEF release_connection, give_back
<1> QED
  BY <1>1, <1>2, <1>4
  DEF release_connection, SlotsWithout, BufferWithout, EpollWithout,
      PlaceWithout

\* The types it leaves.
LEMMA ReleaseTypes ==
    ASSUME IInv, NEW s \in Slots, release_connection(s, NetworkTook), InUse(s)
    PROVE  /\ slots' \in [Slots -> EntryType]
           /\ buffer' \in [Slots -> Seq(AnyMail)]
           /\ free' \in Seq(Slots)
           /\ epoll' \in [Conns -> [slot : Slots \cup {NoSlot}, armed : BOOLEAN]]
           /\ place' \in [Conns -> {"new", "backlog", "held", "gone"}]
<1>1. EmptyEntry \in EntryType
  BY DEF EmptyEntry, EntryType
<1>2. Absent \in [slot : Slots \cup {NoSlot}, armed : BOOLEAN]
  BY DEF Absent
<1>3. /\ slots \in [Slots -> EntryType]
      /\ buffer \in [Slots -> Seq(AnyMail)]
      /\ free \in Seq(Slots)
      /\ epoll \in [Conns -> [slot : Slots \cup {NoSlot}, armed : BOOLEAN]]
      /\ place \in [Conns -> {"new", "backlog", "held", "gone"}]
  BY DEF IInv, TypeOK
<1>4. buffer' \in [Slots -> Seq(AnyMail)]
  <2>1. buffer' = [t \in Slots |-> IF t = s THEN <<>> ELSE buffer[t]]
    BY ReleaseEffect
  <2> QED
    BY ONLY <1>3, <2>1
<1>5. free' \in Seq(Slots)
  <2>1. free' = Append(free, s)
    BY ReleaseEffect
  <2> QED
    BY ONLY <1>3, <2>1, s \in Slots
<1>6. slots' \in [Slots -> EntryType]
  <2>1. slots' = [t \in Slots |-> IF t = s THEN EmptyEntry ELSE slots[t]]
    BY ReleaseEffect
  <2> QED
    BY ONLY <1>1, <1>3, <2>1
<1>7. epoll' \in [Conns -> [slot : Slots \cup {NoSlot}, armed : BOOLEAN]]
  <2>1. epoll' = [c \in Conns |-> IF c = slots[s].sock THEN Absent ELSE epoll[c]]
    BY ReleaseEffect
  <2> QED
    BY ONLY <1>2, <1>3, <2>1
<1>8. place' \in [Conns -> {"new", "backlog", "held", "gone"}]
  BY <1>3, ReleaseEffect
<1> QED
  BY <1>4, <1>5, <1>6, <1>7, <1>8

\* Releasing a slot in use keeps the books: it was not in available_slots_.
LEMMA ReleaseKeeps ==
    ASSUME IInv, NEW s \in Slots, Released(s)
    PROVE  Pool' /\ Entries' /\ Held' /\ Registered' /\ Mailed' /\ Handed'
<1> DEFINE c == slots[s].sock
<1>0. release_connection(s, NetworkTook) /\ InUse(s)
  BY DEF Released
<1>1. /\ slots' = [t \in Slots |-> IF t = s THEN EmptyEntry ELSE slots[t]]
      /\ buffer' = [t \in Slots |-> IF t = s THEN <<>> ELSE buffer[t]]
      /\ epoll' = [d \in Conns |-> IF d = c THEN Absent ELSE epoll[d]]
      /\ place' = [d \in Conns |-> IF d = c THEN "gone" ELSE place[d]]
      /\ free' = Append(free, s)
  BY <1>0, ReleaseEffect
<1>2. next_index' = next_index /\ inbox' = inbox
  BY DEF Released
<1>3. c \in Conns /\ c # NoConn
  BY <1>0 DEF IInv, TypeOK, EntryType, InUse
<1>4. EmptyEntry.sock = NoConn
  BY DEF EmptyEntry
<1>5. \A t \in Slots : InUse(t)' <=> InUse(t) /\ t # s
  BY <1>1, <1>4 DEF InUse
<1>6. \A t \in Slots : t # s => slots'[t] = slots[t] /\ buffer'[t] = buffer[t]
  BY <1>1
<1>7. Pool'
  <2>1. free \in Seq(Slots) /\ next_index \in Nat /\ Pool
    BY DEF IInv, TypeOK
  <2>2. /\ Len(free') = Len(free) + 1
        /\ \A i \in 1 .. Len(free) : free'[i] = free[i]
        /\ free'[Len(free) + 1] = s
        /\ Len(free) \in Nat
    BY <1>1, <2>1
  <2>3. \A i \in 1 .. Len(free) : free[i] \in Slots /\ free[i] # s
    BY <1>0, <2>1 DEF Pool
  <2>4. \A i, j \in 1 .. Len(free') : free'[i] = free'[j] => i = j
    BY <2>1, <2>2, <2>3 DEF Pool
  <2>5. \A i \in 1 .. Len(free') : free'[i] < next_index /\ slots'[free'[i]].sock = NoConn
    <3> SUFFICES ASSUME NEW i \in 1 .. Len(free')
                 PROVE  free'[i] < next_index /\ slots'[free'[i]].sock = NoConn
      OBVIOUS
    <3>1. CASE i = Len(free) + 1
      BY <3>1, <1>0, <1>1, <1>4, <2>1, <2>2 DEF Pool
    <3>2. CASE i \in 1 .. Len(free)
      BY <3>2, <1>6, <2>1, <2>2, <2>3 DEF Pool, InUse
    <3> QED
      BY <3>1, <3>2, <2>2
  <2>6. ASSUME NEW t \in Slots, t < next_index, ~InUse(t)'
        PROVE  \E i \in 1 .. Len(free') : free'[i] = t
    BY <2>6, <1>5, <2>1, <2>2 DEF Pool
  <2>7. \A t \in Slots : InUse(t)' => t < next_index
    BY <1>5, <2>1 DEF Pool
  <2> QED
    BY <1>2, <2>4, <2>5, <2>6, <2>7 DEF Pool, InUse
<1>8. Entries'
  BY <1>1 DEF IInv, Entries
<1>9. Held'
  <2>1. Held /\ place \in [Conns -> {"new", "backlog", "held", "gone"}]
    BY DEF IInv, TypeOK
  <2>2. \A t \in Slots : InUse(t) => slots[t].sock \in Conns
    BY DEF IInv, TypeOK, EntryType, InUse
  <2>3. \A t \in Slots : InUse(t)' => place'[slots'[t].sock] = "held"
    BY <1>0, <1>1, <1>5, <1>6, <2>1, <2>2 DEF Held
  <2>4. \A t, u \in Slots : slots'[t].sock = slots'[u].sock /\ InUse(t)' => t = u
    BY <1>1, <1>4, <1>5, <1>6, <2>1 DEF Held, InUse
  <2>5. ASSUME NEW d \in Clients, place'[d] = "held"
        PROVE  \E t \in Slots : slots'[t].sock = d
    BY <2>5, <1>1, <1>6, <2>1 DEF Held, Released, Conns
  <2> QED
    BY <2>3, <2>4, <2>5 DEF Held
<1>10. Registered'
  <2>1. Registered /\ \A d \in Conns : epoll[d].slot \in Slots \cup {NoSlot}
    BY DEF IInv, TypeOK
  <2> QED
    BY <1>1, <1>6, <2>1 DEF Registered, Absent
<1>11. Mailed'
  BY <1>2, <1>5, <1>6 DEF IInv, Mailed
<1>12. Handed'
  <2>1. ASSUME NEW m \in AnyMail, Hands(m), place[m.socket] = "backlog", m.socket \in Conns
        PROVE  place'[m.socket] = "backlog"
    BY <1>0, <1>1, <2>1 DEF IInv, Held
  <2>2. ASSUME NEW d \in Conns, NEW q \in Seq(Mail(d)), Waits(q)
        PROVE  Waits(q)'
    <3>1. \A i \in 1 .. Len(q) : q[i] \in Mail(d)
      OBVIOUS
    <3> QED
      BY <3>1, <2>1, <2>2, MailFields DEF Waits, Conns
  <2>3. \A d \in Conns : Distinct(inbox'[d]) /\ Waits(inbox[d])'
    BY <1>2, <2>2 DEF IInv, Handed, Mailed
  <2>4. ASSUME NEW t \in Slots, InUse(t)'
        PROVE  /\ Distinct(buffer'[t])
               /\ Waits(buffer[t])'
               /\ Apart(buffer'[t], inbox'[slots'[t].sock])
    BY <2>4, <1>2, <1>5, <1>6, <2>2
    DEF IInv, Handed, Mailed, TypeOK, EntryType, InUse
  <2> QED
    BY <1>2, <2>3, <2>4 DEF Handed, Released
<1> QED
  BY <1>7, <1>8, <1>9, <1>10, <1>11, <1>12

\* A slot is in use exactly if its entry is not the empty one.
LEMMA EmptyOrInUse ==
    ASSUME IInv, NEW s \in Slots
    PROVE  InUse(s) <=> slots[s] # EmptyEntry
<1>1. CASE slots[s] = EmptyEntry
  BY <1>1 DEF InUse, EmptyEntry
<1>2. CASE slots[s].sock \in Clients
  BY <1>2, EngineAssumption DEF InUse, EmptyEntry, Conns
<1>3. CASE slots[s] = Entry("TO_PARENT", Parent)
  <2>1. slots[s].sock = Parent
    BY <1>3 DEF Entry
  <2> QED
    BY <2>1, EngineAssumption, LobbyAssumption DEF InUse, EmptyEntry, Conns
<1> QED
  BY <1>1, <1>2, <1>3 DEF IInv, Entries

\* The locals of a worker that waits for a task.
LEMMA IdleTyped == IdleWorker \in Locals
<1>1. NoMessage \in AnyMail
  BY DEF AnyMail
<1> QED
  BY <1>1 DEF IdleWorker, Locals, Points

\* Steps that release, fill and read nothing.
LEMMA ProcessEventInv ==
    ASSUME IInv, NEW c \in Conns, process_event(c)
    PROVE  IInv'
<1>0. wrk' \in Locals
  BY IdleTyped
  DEF IInv, TypeOK, Work, Locals, Points, process_event, Queued, pool,
      entries, sizes, kernel
<1>1. TypeOK'
  <2>1. epoll[c].slot \in Slots
    BY DEF IInv, TypeOK, Registered, process_event
  <2>2. tasks' \in Seq(Slots)
    BY <2>1 DEF IInv, TypeOK, process_event, Queued
  <2>3. epoll' \in [Conns -> [slot : Slots \cup {NoSlot}, armed : BOOLEAN]]
    BY DEF IInv, TypeOK, process_event
  <2> QED
    BY <1>0, <2>2, <2>3
    DEF IInv, TypeOK, process_event, pool, entries, sizes, kernel
<1>2. Registered'
  BY DEF IInv, TypeOK, Registered, process_event, Queued, pool, entries,
         sizes, kernel
<1>3. Work'
  BY DEF IInv, TypeOK, Work, process_event, Queued, Pending, InUse, pool,
         entries, sizes, kernel
<1>4. Rest
  BY DEF IInv, TypeOK, Rest, Locals, process_event, Queued, pool, entries,
         sizes, kernel
<1> QED
  BY <1>1, <1>2, <1>3, <1>4, RestKeeps DEF IInv

LEMMA PeerCloseInv ==
    ASSUME IInv, NEW c \in Conns, peer_close(c)
    PROVE  IInv'
<1>0. wrk' \in Locals
  BY IdleTyped
  DEF IInv, TypeOK, Work, Locals, Points, peer_close, pool, entries, sizes,
      loop
<1>1. TypeOK'
  BY <1>0 DEF IInv, TypeOK, peer_close, pool, entries, sizes, loop
<1>2. Registered'
  BY DEF IInv, TypeOK, Registered, peer_close, pool, entries, sizes, loop
<1>3. Work'
  BY DEF IInv, TypeOK, Work, peer_close, Pending, InUse, pool, entries, sizes,
         loop
<1>4. Rest
  BY DEF IInv, TypeOK, Rest, Locals, peer_close, pool, entries, sizes, loop
<1> QED
  BY <1>1, <1>2, <1>3, <1>4, RestKeeps DEF IInv

LEMMA ProcessConnectionInv ==
    ASSUME IInv, process_connection
    PROVE  IInv'
<1>0. wrk' \in Locals
  <2>1. Head(tasks) \in Slots
    BY DEF IInv, TypeOK, process_connection
  <2> QED
    BY <2>1, IdleTyped DEF process_connection, Locals, Points
<1>1. TypeOK'
  BY <1>0 DEF IInv, TypeOK, process_connection, pool, entries, sizes, kernel
<1>2. Registered'
  BY DEF IInv, TypeOK, Registered, process_connection, pool, entries, sizes,
         kernel
<1>3. Work'
  BY DEF IInv, TypeOK, Work, process_connection, IdleWorker, Pending, InUse,
         pool, entries, sizes, kernel
<1>4. Rest
  BY DEF IInv, TypeOK, Rest, Locals, process_connection, IdleWorker, pool,
         entries, sizes, kernel
<1> QED
  BY <1>1, <1>2, <1>3, <1>4, RestKeeps DEF IInv

LEMMA CheckAliveInv ==
    ASSUME IInv, check_alive
    PROVE  IInv'
<1>0. wrk' \in Locals
  <2>1. wrk \in Locals
    BY DEF IInv, TypeOK
  <2>2. wrk' = [wrk EXCEPT !.pc = "receive"] \/ wrk' = IdleWorker
    BY DEF check_alive, Return
  <2> QED
    BY <2>1, <2>2, IdleTyped DEF Locals, Points
<1>1. TypeOK'
  BY <1>0
  DEF IInv, TypeOK, check_alive, Overlap, Return, engineVars, pool, entries,
      sizes, loop, kernel
<1>2. Registered'
  BY DEF IInv, TypeOK, Registered, check_alive, Overlap, Return, engineVars,
         pool, entries, sizes, loop, kernel
<1>3. Work'
  <2>1. wrk.slot \in Slots /\ counter = next_index /\ wrk \in Locals
    BY DEF IInv, Work, TypeOK, check_alive
  <2>2. CASE slots[wrk.slot].status = "ALIVE"
    <3>1. InUse(wrk.slot)
      BY <2>1, <2>2, EmptyOrInUse DEF EmptyEntry
    <3>2. wrk'.pc = "receive" /\ wrk'.slot = wrk.slot
      BY <2>1, <2>2 DEF check_alive, Locals
    <3>3. slots' = slots /\ counter' = next_index'
      BY <2>1 DEF check_alive, engineVars, pool, entries, sizes
    <3> QED
      BY <2>1, <3>1, <3>2, <3>3 DEF Work, InUse
  <2>3. CASE slots[wrk.slot].status # "ALIVE"
    BY <2>1, <2>3
    DEF Work, check_alive, Return, IdleWorker, engineVars, pool, sizes
  <2> QED
    BY <2>2, <2>3
<1>4. Rest
  BY DEF IInv, TypeOK, Rest, Locals, check_alive, Overlap, Return, IdleWorker,
         engineVars, pool, entries, sizes, loop, kernel
<1> QED
  BY <1>1, <1>2, <1>3, <1>4, RestKeeps DEF IInv

LEMMA WouldBlockInv ==
    ASSUME IInv, get_message_would_block
    PROVE  IInv'
<1>0. wrk' \in Locals
  BY IdleTyped
  DEF IInv, TypeOK, Work, Locals, Points, get_message_would_block,
      NothingToRead, engineVars, pool, entries, sizes, loop, kernel
<1>1. TypeOK'
  BY <1>0
  DEF IInv, TypeOK, get_message_would_block, NothingToRead, engineVars, pool,
      entries, sizes, loop, kernel
<1>2. Registered'
  BY DEF IInv, TypeOK, Registered, get_message_would_block, NothingToRead,
         engineVars, pool, entries, sizes, loop, kernel
<1>3. Work'
  BY DEF IInv, TypeOK, Work, get_message_would_block, NothingToRead, Pending,
         InUse, engineVars, pool, entries, sizes, loop, kernel
<1>4. Rest
  BY DEF IInv, TypeOK, Rest, Locals, get_message_would_block, NothingToRead,
         engineVars, pool, entries, sizes, loop, kernel
<1> QED
  BY <1>1, <1>2, <1>3, <1>4, RestKeeps DEF IInv

LEMMA RearmSocketInv ==
    ASSUME IInv, rearm_socket
    PROVE  IInv'
<1>0. wrk' \in Locals
  BY IdleTyped DEF rearm_socket, Return
<1>5. /\ wrk.slot \in Slots
      /\ Pending \in Conns
      /\ epoll' = [epoll EXCEPT ![Pending] = [slot |-> wrk.slot, armed |-> TRUE]]
      /\ slots' = slots
  BY DEF IInv, Work, TypeOK, EntryType, Pending, rearm_socket, Armed, pool,
         entries
<1>1. TypeOK'
  <2>1. epoll' \in [Conns -> [slot : Slots \cup {NoSlot}, armed : BOOLEAN]]
    BY <1>5 DEF IInv, TypeOK
  <2> QED
    BY <1>0, <2>1
    DEF IInv, TypeOK, rearm_socket, pool, entries, sizes, loop, kernel
<1>2. Registered'
  BY <1>5 DEF IInv, TypeOK, Registered, Pending, Slots, NoSlot
<1>3. Work'
  BY DEF IInv, TypeOK, Work, rearm_socket, Return, Armed, IdleWorker, Pending,
         InUse, pool, entries, sizes, loop, kernel
<1>4. Rest
  BY DEF IInv, TypeOK, Rest, Locals, rearm_socket, Return, Armed, IdleWorker,
         pool, entries, sizes, loop, kernel
<1> QED
  BY <1>1, <1>2, <1>3, <1>4, RestKeeps DEF IInv

LEMMA BroadcastSkipInv ==
    ASSUME IInv, broadcast_skip
    PROVE  IInv'
<1>0. wrk' \in Locals
  <2>1. wrk \in Locals
    BY DEF IInv, TypeOK
  <2>2. wrk' = [wrk EXCEPT !.index = wrk.index + 1]
    BY DEF broadcast_skip
  <2>3. wrk.index + 1 \in Nat
    BY <2>1 DEF Locals
  <2> QED
    BY <2>1, <2>2, <2>3 DEF Locals
<1>1. TypeOK'
  BY <1>0
  DEF IInv, TypeOK, broadcast_skip, engineVars, pool, entries, sizes, loop,
      kernel
<1>2. Registered'
  BY DEF IInv, TypeOK, Registered, broadcast_skip, engineVars, pool, entries,
         sizes, loop, kernel
<1>3. Work'
  <2>1. wrk \in Locals /\ wrk.index >= 1 /\ wrk.index \in Nat
    BY DEF IInv, TypeOK, Work, Locals, broadcast_skip
  <2>2. wrk'.pc = "broadcast" /\ wrk'.slot = wrk.slot /\ wrk'.index = wrk.index + 1
    BY <2>1 DEF broadcast_skip, Locals
  <2>3. wrk'.index >= 1
    BY <2>1, <2>2
  <2>4. counter' = next_index' /\ wrk.slot \in Slots
    BY DEF IInv, Work, broadcast_skip, engineVars, pool, sizes
  <2> QED
    BY <2>2, <2>3, <2>4 DEF Work
<1>4. Rest
  BY DEF IInv, TypeOK, Rest, Locals, broadcast_skip, engineVars, pool,
         entries, sizes, loop, kernel
<1> QED
  BY <1>1, <1>2, <1>3, <1>4, RestKeeps DEF IInv

LEMMA BroadcastEndInv ==
    ASSUME IInv, broadcast_end
    PROVE  IInv'
<1>0. wrk' \in Locals
  BY IdleTyped
  DEF IInv, TypeOK, Work, Locals, Points, broadcast_end, Continue, engineVars,
      pool, entries, sizes, loop, kernel
<1>1. TypeOK'
  BY <1>0
  DEF IInv, TypeOK, broadcast_end, Continue, engineVars, pool, entries, sizes,
      loop, kernel
<1>2. Registered'
  BY DEF IInv, TypeOK, Registered, broadcast_end, Continue, engineVars, pool,
         entries, sizes, loop, kernel
<1>3. Work'
  BY DEF IInv, TypeOK, Work, broadcast_end, Continue, IdleWorker, Pending,
         InUse, engineVars, pool, entries, sizes, loop, kernel
<1>4. Rest
  BY DEF IInv, TypeOK, Rest, Locals, broadcast_end, Continue, IdleWorker,
         engineVars, pool, entries, sizes, loop, kernel
<1> QED
  BY <1>1, <1>2, <1>3, <1>4, RestKeeps DEF IInv

LEMMA RefuseInv ==
    ASSUME IInv, refuse
    PROVE  IInv'
<1>0. wrk' \in Locals
  BY IdleTyped
  DEF IInv, TypeOK, Work, Locals, Points, refuse, ReturnError, Return,
      engineVars, pool, entries, sizes, loop, kernel
<1>1. TypeOK'
  BY <1>0
  DEF IInv, TypeOK, refuse, ReturnError, Return, engineVars, pool, entries,
      sizes, loop, kernel
<1>2. Registered'
  BY DEF IInv, TypeOK, Registered, refuse, ReturnError, Return, engineVars,
         pool, entries, sizes, loop, kernel
<1>3. Work'
  BY DEF IInv, TypeOK, Work, refuse, ReturnError, Return, IdleWorker, Pending,
         InUse, engineVars, pool, entries, sizes, loop, kernel
<1>4. Rest
  BY DEF IInv, TypeOK, Rest, Locals, refuse, ReturnError, Return, IdleWorker,
         engineVars, pool, entries, sizes, loop, kernel
<1> QED
  BY <1>1, <1>2, <1>3, <1>4, RestKeeps DEF IInv

LEMMA SetIdInv ==
    ASSUME IInv, set_lobby_id
    PROVE  IInv'
<1>0. wrk' \in Locals
  BY IdleTyped
  DEF IInv, TypeOK, Work, Locals, Points, set_lobby_id, Handling, Continue,
      engineVars, pool, entries, sizes, loop, kernel
<1>1. TypeOK'
  BY <1>0
  DEF IInv, TypeOK, set_lobby_id, Handling, Continue, engineVars, pool,
      entries, sizes, loop, kernel
<1>2. Registered'
  BY DEF IInv, TypeOK, Registered, set_lobby_id, Handling, Continue,
         engineVars, pool, entries, sizes, loop, kernel
<1>3. Work'
  BY DEF IInv, TypeOK, Work, set_lobby_id, Handling, Continue, IdleWorker,
         Pending, InUse, engineVars, pool, entries, sizes, loop, kernel
<1>4. Rest
  BY DEF IInv, TypeOK, Rest, Locals, set_lobby_id, Handling, Continue,
         IdleWorker, engineVars, pool, entries, sizes, loop, kernel
<1> QED
  BY <1>1, <1>2, <1>3, <1>4, RestKeeps DEF IInv

LEMMA AttachCountInv ==
    ASSUME IInv, attach_count
    PROVE  IInv'
<1>0. wrk' \in Locals
  BY IdleTyped
  DEF IInv, TypeOK, Work, Locals, Points, attach_count, entries, loop, kernel
<1>1. TypeOK'
  <2>1. counter' \in Nat
    BY DEF IInv, TypeOK, Locals, attach_count
  <2> QED
    BY <1>0, <2>1 DEF IInv, TypeOK, attach_count, entries, loop, kernel
<1>2. Registered'
  BY DEF IInv, TypeOK, Registered, attach_count, entries, loop, kernel
<1>3. Work'
  BY DEF IInv, TypeOK, Work, attach_count, Pending, InUse, entries, loop,
         kernel
<1>4. Rest
  BY DEF IInv, TypeOK, Rest, Locals, attach_count, entries, loop, kernel
<1> QED
  BY <1>1, <1>2, <1>3, <1>4, RestKeeps DEF IInv

LEMMA AttachSubscribeInv ==
    ASSUME IInv, attach_subscribe("greet")
    PROVE  IInv'
<1>0. wrk' \in Locals
  BY IdleTyped
  DEF IInv, TypeOK, Work, Locals, Points, attach_subscribe, Armed, pool,
      entries, sizes, loop, kernel
<1>5. /\ wrk.view \in Slots
      /\ slots[wrk.view].sock \in Conns
      /\ epoll' = [epoll EXCEPT ![slots[wrk.view].sock] =
                       [slot |-> wrk.view, armed |-> TRUE]]
      /\ slots' = slots
  BY DEF IInv, Work, Conns, attach_subscribe, Armed, pool, entries
<1>1. TypeOK'
  <2>1. epoll' \in [Conns -> [slot : Slots \cup {NoSlot}, armed : BOOLEAN]]
    BY <1>5 DEF IInv, TypeOK
  <2> QED
    BY <1>0, <2>1
    DEF IInv, TypeOK, attach_subscribe, pool, entries, sizes, loop, kernel
<1>2. Registered'
  BY <1>5 DEF IInv, TypeOK, Registered, Slots, NoSlot
<1>3. Work'
  BY DEF IInv, TypeOK, Work, attach_subscribe, Armed, Pending, InUse, pool,
         entries, sizes, loop, kernel
<1>4. Rest
  BY DEF IInv, TypeOK, Rest, Locals, attach_subscribe, Armed, pool, entries,
         sizes, loop, kernel
<1> QED
  BY <1>1, <1>2, <1>3, <1>4, RestKeeps DEF IInv

LEMMA GreetInv ==
    ASSUME IInv, send_join_lobby_message
    PROVE  IInv'
<1>0. wrk' \in Locals
  BY IdleTyped
  DEF IInv, TypeOK, Work, Locals, Points, send_join_lobby_message, Continue,
      engineVars, pool, entries, sizes, loop, kernel
<1>1. TypeOK'
  BY <1>0
  DEF IInv, TypeOK, send_join_lobby_message, Continue, engineVars, pool,
      entries, sizes, loop, kernel
<1>2. Registered'
  BY DEF IInv, TypeOK, Registered, send_join_lobby_message, Continue,
         engineVars, pool, entries, sizes, loop, kernel
<1>3. Work'
  BY DEF IInv, TypeOK, Work, send_join_lobby_message, Continue, IdleWorker,
         Pending, InUse, engineVars, pool, entries, sizes, loop, kernel
<1>4. Rest
  BY DEF IInv, TypeOK, Rest, Locals, send_join_lobby_message, Continue,
         IdleWorker, engineVars, pool, entries, sizes, loop, kernel
<1> QED
  BY <1>1, <1>2, <1>3, <1>4, RestKeeps DEF IInv

LEMMA ExecuteChatInv ==
    ASSUME IInv, execute_chat
    PROVE  IInv'
<1>0. wrk' \in Locals
  <2>1. wrk \in Locals
    BY DEF IInv, TypeOK
  <2>2. Audience \in SUBSET (Conns \cup {NoConn})
    BY DEF IInv, TypeOK, EntryType, Audience
  <2> QED
    BY <2>1, <2>2 DEF execute_chat, start_broadcast, Locals, Points
<1>1. TypeOK'
  BY <1>0
  DEF IInv, TypeOK, execute_chat, Handling, start_broadcast, engineVars, pool,
      entries, sizes, loop, kernel
<1>2. Registered'
  BY DEF IInv, TypeOK, Registered, execute_chat, Handling, start_broadcast,
         engineVars, pool, entries, sizes, loop, kernel
<1>3. Work'
  BY DEF IInv, TypeOK, Work, execute_chat, Handling, start_broadcast, Pending,
         InUse, engineVars, pool, entries, sizes, loop, kernel
<1>4. Rest
  BY DEF IInv, TypeOK, Rest, Locals, execute_chat, Handling, start_broadcast,
         engineVars, pool, entries, sizes, loop, kernel
<1> QED
  BY <1>1, <1>2, <1>3, <1>4, RestKeeps DEF IInv

\* Steps in which the worker releases a slot and goes on or returns.
LEMMA ReleaseInv ==
    ASSUME IInv, NEW s \in Slots, InUse(s), release_connection(s, NetworkTook),
           UNCHANGED <<next_index, counter, inbox, tasks, net, eof>>,
           wrk.pc \notin {"attach", "count"},
           wrk' \in Locals,
           wrk'.pc \in {"idle", "check", "broadcast"},
           wrk'.pc # "idle" => wrk'.slot \in Slots,
           wrk'.pc = "broadcast" => wrk'.index >= 1
    PROVE  IInv'
<1>1. Released(s)
  BY DEF Released
<1>2. TypeOK'
  BY ReleaseTypes DEF IInv, TypeOK
<1>3. Work'
  BY DEF IInv, Work
<1> QED
  BY <1>1, <1>2, <1>3, ReleaseKeeps DEF IInv

\* The locals after such a step.
LEMMA ContinueTyped ==
    ASSUME IInv, wrk.slot \in Slots
    PROVE  /\ Continue \in Locals
           /\ Continue.pc = "check"
           /\ Continue.slot = wrk.slot
           /\ Return \in Locals
           /\ Return.pc = "idle"
<1>1. IdleWorker.pc = "idle"
  BY DEF IdleWorker
<1> QED
  BY <1>1, IdleTyped DEF Continue, Return, Locals, Points

LEMMA DisconnectedInv ==
    ASSUME IInv, get_message_disconnected
    PROVE  IInv'
<1>1. wrk.slot \in Slots /\ wrk.slot \in Slots /\ InUse(wrk.slot)
  BY DEF IInv, Work, get_message_disconnected, NothingToRead
<1>2. release_connection(wrk.slot, NetworkTook) /\ wrk.pc \notin {"attach", "count"}
  BY DEF get_message_disconnected, NothingToRead
<1>3. wrk' = Continue \/ wrk' = Return
  BY DEF get_message_disconnected, NothingToRead
<1>4. UNCHANGED <<next_index, counter, inbox, tasks, net, eof>>
  BY DEF get_message_disconnected, NothingToRead, sizes, loop, kernel
<1> QED
  BY <1>1, <1>2, <1>3, <1>4, ReleaseInv, ContinueTyped

LEMMA ReceiveFailsInv ==
    ASSUME IInv, get_message_fails
    PROVE  IInv'
<1>1. wrk.slot \in Slots /\ wrk.slot \in Slots /\ InUse(wrk.slot)
  BY DEF IInv, Work, get_message_fails, NothingToRead
<1>2. release_connection(wrk.slot, NetworkTook) /\ wrk.pc \notin {"attach", "count"}
  BY DEF get_message_fails, NothingToRead
<1>3. wrk' = Continue \/ wrk' = Return
  BY DEF get_message_fails, NothingToRead
<1>4. UNCHANGED <<next_index, counter, inbox, tasks, net, eof>>
  BY DEF get_message_fails, NothingToRead, sizes, loop, kernel
<1> QED
  BY <1>1, <1>2, <1>3, <1>4, ReleaseInv, ContinueTyped

LEMMA RearmFailsInv ==
    ASSUME IInv, rearm_socket_fails
    PROVE  IInv'
<1>1. wrk.slot \in Slots /\ wrk.slot \in Slots /\ InUse(wrk.slot)
  BY DEF IInv, Work, rearm_socket_fails
<1>2. release_connection(wrk.slot, NetworkTook) /\ wrk.pc \notin {"attach", "count"}
  BY DEF rearm_socket_fails
<1>3. wrk' = Continue \/ wrk' = Return
  BY DEF rearm_socket_fails
<1>4. UNCHANGED <<next_index, counter, inbox, tasks, net, eof>>
  BY DEF rearm_socket_fails, sizes, loop, kernel
<1> QED
  BY <1>1, <1>2, <1>3, <1>4, ReleaseInv, ContinueTyped

LEMMA AttachFailsInv ==
    ASSUME IInv, attach_fails(FALSE)
    PROVE  IInv'
<1>1. wrk.slot \in Slots /\ wrk.view \in Slots /\ InUse(wrk.view)
  BY EngineAssumption DEF IInv, Work, InUse, Conns, attach_fails, ReturnError
<1>2. release_connection(wrk.view, NetworkTook) /\ wrk.pc \notin {"attach", "count"}
  BY DEF attach_fails, ReturnError
<1>3. wrk' = Continue \/ wrk' = Return
  BY DEF attach_fails, ReturnError
<1>4. UNCHANGED <<next_index, counter, inbox, tasks, net, eof>>
  BY DEF attach_fails, ReturnError, sizes, loop, kernel
<1> QED
  BY <1>1, <1>2, <1>3, <1>4, ReleaseInv, ContinueTyped

LEMMA GreetFailsInv ==
    ASSUME IInv, send_join_lobby_message_fails
    PROVE  IInv'
<1>1. wrk.slot \in Slots /\ wrk.view \in Slots /\ InUse(wrk.view)
  BY EngineAssumption
  DEF IInv, Work, InUse, Conns, send_join_lobby_message_fails, ReturnError
<1>2. release_connection(wrk.view, NetworkTook) /\ wrk.pc \notin {"attach", "count"}
  BY DEF send_join_lobby_message_fails, ReturnError
<1>3. wrk' = Continue \/ wrk' = Return
  BY DEF send_join_lobby_message_fails, ReturnError
<1>4. UNCHANGED <<next_index, counter, inbox, tasks, net, eof>>
  BY DEF send_join_lobby_message_fails, ReturnError, sizes, loop, kernel
<1> QED
  BY <1>1, <1>2, <1>3, <1>4, ReleaseInv, ContinueTyped

\* A broadcast releases the client it cannot send to.
LEMMA BroadcastSendInv ==
    ASSUME IInv, broadcast_send
    PROVE  IInv'
<1>1. /\ wrk \in Locals
      /\ wrk.pc = "broadcast"
      /\ wrk.slot \in Slots
      /\ wrk.index \in Nat
      /\ wrk.index >= 1
      /\ wrk.index < counter
      /\ counter = next_index
      /\ next_index \in 2 .. MaxSlots + 1
  BY DEF IInv, TypeOK, Work, Locals, broadcast_send, BroadcastTo
<1>2. wrk.index \in Slots
  BY <1>1, EngineAssumption DEF Slots
<1>3. InUse(wrk.index)
  BY <1>2, EmptyOrInUse DEF broadcast_send, BroadcastTo, EmptyEntry
<1>4. wrk' = [wrk EXCEPT !.index = wrk.index + 1,
                         !.audience = wrk.audience \ {slots[wrk.index].sock}]
  BY DEF broadcast_send
<1>5. /\ wrk'.pc = "broadcast"
      /\ wrk'.slot = wrk.slot
      /\ wrk'.index = wrk.index + 1
  BY <1>1, <1>4 DEF Locals
<1>6. wrk'.index >= 1
  BY <1>1, <1>5
<1>7. wrk' \in Locals
  <2>1. wrk.index + 1 \in Nat
    BY <1>1
  <2>2. wrk.audience \ {slots[wrk.index].sock} \in SUBSET (Conns \cup {NoConn})
    BY <1>1 DEF Locals
  <2> QED
    BY <1>1, <1>4, <2>1, <2>2 DEF Locals
<1>8. UNCHANGED <<next_index, counter, inbox, tasks, net, eof>>
  BY DEF broadcast_send, sizes, loop, kernel
<1>9. CASE release_connection(wrk.index, NetworkTook)
  BY <1>1, <1>2, <1>3, <1>5, <1>6, <1>7, <1>8, <1>9, ReleaseInv
<1>10. CASE UNCHANGED <<entries, epoll, place>>
  <2>1. Rest
    BY <1>1, <1>5, <1>8, <1>10 DEF Rest, entries
  <2>2. TypeOK'
    BY <1>7, <1>8, <1>10 DEF IInv, TypeOK, entries
  <2>3. Work'
    BY <1>1, <1>5, <1>6, <1>8 DEF Work
  <2>4. Registered'
    BY <1>10 DEF IInv, Registered, entries
  <2> QED
    BY <2>1, <2>2, <2>3, <2>4, RestKeeps DEF IInv
<1> QED
  BY <1>9, <1>10 DEF broadcast_send

\* A message that brings nobody, or somebody new, joins a sequence.
LEMMA AppendApart ==
    ASSUME NEW S, NEW q \in Seq(S), NEW e \in S
    PROVE  /\ (Distinct(q) /\ \A i \in 1 .. Len(q) : ~Clash(q[i], e) /\ ~Clash(e, q[i]))
                  => Distinct(Append(q, e))
           /\ \A r : (Apart(r, q) /\ \A i \in 1 .. Len(r) : ~Clash(r[i], e))
                  => Apart(r, Append(q, e))
<1>1. /\ Len(Append(q, e)) = Len(q) + 1
      /\ Append(q, e)[Len(q) + 1] = e
      /\ \A i \in 1 .. Len(q) : Append(q, e)[i] = q[i]
      /\ Len(q) \in Nat
  OBVIOUS
<1>2. \A i \in 1 .. Len(Append(q, e)) : i \in 1 .. Len(q) \/ i = Len(q) + 1
  BY <1>1
<1>3. (Distinct(q) /\ \A i \in 1 .. Len(q) : ~Clash(q[i], e) /\ ~Clash(e, q[i]))
          => Distinct(Append(q, e))
  BY <1>1, <1>2 DEF Distinct
<1>4. ASSUME NEW r, Apart(r, q), \A i \in 1 .. Len(r) : ~Clash(r[i], e)
      PROVE  Apart(r, Append(q, e))
  BY <1>1, <1>2, <1>4 DEF Apart
<1> QED
  BY <1>3, <1>4

\* What becomes of the messages to connection d in a step that brings nobody.
Posted(d) ==
    \/ inbox'[d] = inbox[d]
    \/ inbox[d] # <<>> /\ inbox'[d] = Tail(inbox[d])
    \/ \E e \in Mail(d) : ~Hands(e) /\ inbox'[d] = Append(inbox[d], e)

\* They stay the peer's, and no client is brought twice.
LEMMA PostedKeeps ==
    ASSUME IInv, NEW d \in Conns, Posted(d)
    PROVE  /\ inbox'[d] \in Seq(Mail(d))
           /\ Distinct(inbox'[d])
           /\ Waits(inbox'[d])
           /\ \A q : Apart(q, inbox[d]) => Apart(q, inbox'[d])
<1>1. inbox[d] \in Seq(Mail(d)) /\ Distinct(inbox[d]) /\ Waits(inbox[d])
  BY DEF IInv, Mailed, Handed
<1>2. CASE inbox'[d] = inbox[d]
  BY <1>1, <1>2
<1>3. CASE inbox[d] # <<>> /\ inbox'[d] = Tail(inbox[d])
  <2>1. Len(inbox[d]) \in Nat /\ Len(inbox[d]) >= 1
    BY <1>1, <1>3
  <2>2. /\ inbox'[d] \in Seq(Mail(d))
        /\ Len(inbox'[d]) = Len(inbox[d]) - 1
        /\ \A i \in 1 .. Len(inbox[d]) - 1 : inbox'[d][i] = inbox[d][i + 1]
    BY <1>1, <1>3, <2>1
  <2>3. /\ \A i \in 1 .. Len(inbox[d]) - 1 : i + 1 \in 1 .. Len(inbox[d])
        /\ \A i, j \in 1 .. Len(inbox[d]) - 1 : i + 1 = j + 1 => i = j
    BY ONLY <2>1
  <2>4. Distinct(inbox'[d])
    BY <1>1, <2>2, <2>3 DEF Distinct
  <2>5. Waits(inbox'[d])
    BY <1>1, <2>2, <2>3 DEF Waits
  <2>6. \A q : Apart(q, inbox[d]) => Apart(q, inbox'[d])
    BY <2>2, <2>3 DEF Apart
  <2> QED
    BY <2>2, <2>4, <2>5, <2>6
<1>4. CASE \E e \in Mail(d) : ~Hands(e) /\ inbox'[d] = Append(inbox[d], e)
  <2>1. PICK e \in Mail(d) : ~Hands(e) /\ inbox'[d] = Append(inbox[d], e)
    BY <1>4
  <2>2. \A n : ~Clash(n, e) /\ ~Clash(e, n)
    BY <2>1 DEF Clash
  <2>3. inbox'[d] \in Seq(Mail(d))
    BY <1>1, <2>1
  <2>4. Distinct(inbox'[d]) /\ \A q : Apart(q, inbox[d]) => Apart(q, inbox'[d])
    BY <1>1, <2>1, <2>2, AppendApart
  <2>5. /\ Len(inbox'[d]) = Len(inbox[d]) + 1
        /\ inbox'[d][Len(inbox[d]) + 1] = e
        /\ \A i \in 1 .. Len(inbox[d]) : inbox'[d][i] = inbox[d][i]
        /\ Len(inbox[d]) \in Nat
    BY <1>1, <2>1
  <2>6. Waits(inbox'[d])
    BY <1>1, <2>1, <2>5 DEF Waits
  <2> QED
    BY <2>3, <2>4, <2>6
<1> QED
  BY <1>2, <1>3, <1>4 DEF Posted

\* Messages that bring nobody come and go, and the worker takes none.
LEMMA PostInv ==
    ASSUME IInv,
           inbox' \in [Conns -> {inbox'[d] : d \in Conns}],
           \A d \in Conns : Posted(d),
           UNCHANGED <<slots, buffer, free, next_index, counter, epoll, tasks,
                       net, eof, place>>,
           \/ wrk' = wrk
           \/ /\ wrk.pc = "handle"
              /\ wrk' = Continue
    PROVE  IInv'
<1>1. wrk' = wrk \/ (wrk'.pc = "check" /\ wrk'.slot = wrk.slot /\ wrk.slot \in Slots
                     /\ wrk' \in Locals /\ wrk.pc = "handle")
  BY ContinueTyped DEF IInv, Work
<1>2. \A d \in Conns : inbox'[d] \in Seq(AnyMail)
  <2> SUFFICES ASSUME NEW d \in Conns PROVE inbox'[d] \in Seq(AnyMail)
    OBVIOUS
  <2>1. Mail(d) \subseteq AnyMail
    BY DEF AnyMail
  <2>2. inbox'[d] \in Seq(Mail(d))
    BY PostedKeeps
  <2> QED
    BY <2>1, <2>2
<1>3. TypeOK'
  <2>1. inbox' \in [Conns -> Seq(AnyMail)]
    BY <1>2
  <2> QED
    BY <1>1, <2>1 DEF IInv, TypeOK
<1>4. Pool' /\ Entries' /\ Registered'
  BY DEF IInv, Pool, Entries, Registered, InUse
<1>5. Held'
  BY <1>1 DEF IInv, Held, InUse
<1>6. Work'
  <2>1. CASE wrk' = wrk
    BY <2>1 DEF IInv, Work, InUse, Pending
  <2>2. CASE wrk'.pc = "check" /\ wrk'.slot = wrk.slot /\ wrk.slot \in Slots
                 /\ wrk.pc = "handle"
    BY <2>2 DEF IInv, Work, InUse, Pending
  <2> QED
    BY <1>1, <2>1, <2>2
<1>7. Mailed'
  BY PostedKeeps DEF IInv, Mailed, InUse
<1>8. Handed'
  <2>1. \A d \in Conns : Distinct(inbox'[d]) /\ Waits(inbox[d])'
    BY PostedKeeps DEF Waits
  <2>2. \A d \in Conns : \A q : Apart(q, inbox[d]) => Apart(q, inbox'[d])
    BY PostedKeeps
  <2>3. ASSUME NEW t \in Slots, InUse(t)
        PROVE  /\ Distinct(buffer'[t])
               /\ Waits(buffer[t])'
               /\ Apart(buffer'[t], inbox'[slots'[t].sock])
    <3>1. slots[t].sock \in Conns
      BY <2>3 DEF IInv, TypeOK, EntryType, InUse
    <3> QED
      BY <3>1, <2>2, <2>3 DEF IInv, Handed, Waits
  <2>4. ASSUME wrk.pc = "handle", wrk' = wrk
        PROVE  /\ Waits(<<wrk.msg>>)'
               /\ Apart(<<wrk'.msg>>, buffer'[wrk'.slot])
               /\ Apart(<<wrk'.msg>>, inbox'[Pending'])
    <3>1. Pending \in Conns /\ Pending' = Pending
      BY <2>4 DEF IInv, Work, TypeOK, EntryType, InUse, Pending
    <3> QED
      BY <3>1, <2>2, <2>4 DEF IInv, Handed, Waits
  <2> QED
    BY <1>1, <2>1, <2>3, <2>4 DEF Handed, InUse
<1> QED
  BY <1>3, <1>4, <1>5, <1>6, <1>7, <1>8 DEF IInv

\* A client's message brings nobody.
LEMMA SendInv ==
    ASSUME IInv, NEW c \in Clients, NEW m \in Messages, client_send(c, m)
    PROVE  IInv'
<1> DEFINE e == From(c, m)
<1>1. c \in Conns /\ c # Parent /\ c # Peer
  BY EngineAssumption, LobbyAssumption DEF Conns
<1>2. e \in Mail(c)
  BY <1>1 DEF Mail
<1>3. ~Hands(e)
  BY <1>1, <1>2, MailFields
<1>4. inbox' = [inbox EXCEPT ![c] = Append(inbox[c], e)]
  BY DEF client_send
<1> HIDE DEF e
<1>5. UNCHANGED <<slots, buffer, free, next_index, counter, epoll, tasks, net, eof, place>>
  <2>1. eof' = eof
    BY DEF client_send
  <2> QED
    BY <2>1 DEF client_send, pool, entries, sizes, loop
<1>6. inbox \in [Conns -> Seq(AnyMail)]
  BY DEF IInv, TypeOK
<1>7. \A d \in Conns : Posted(d)
  BY <1>2, <1>3, <1>4, <1>6 DEF Posted
<1>8. wrk' = wrk
  BY DEF client_send
<1>9. inbox' \in [Conns -> {inbox'[d] : d \in Conns}]
  BY <1>4, <1>6
<1> QED
  BY <1>5, <1>7, <1>8, <1>9, PostInv

\* Nor does what the lobby and the server have to say about a message
\* without a descriptor.
LEMMA AcceptNothingInv ==
    ASSUME IInv, accept_nothing
    PROVE  IInv'
<1>1. Peer \in Conns
  BY LobbyAssumption DEF Conns
<1>2. Complaint \in Mail(Peer) /\ ~Hands(Complaint)
  BY LobbyAssumption DEF Mail, Hands, Complaint
<1>3. inbox \in [Conns -> Seq(AnyMail)]
  BY DEF IInv, TypeOK
<1>4. inbox' = inbox \/ inbox' = [inbox EXCEPT ![Peer] = Append(inbox[Peer], Complaint)]
  BY DEF accept_nothing
<1>5. \A d \in Conns : Posted(d)
  BY <1>1, <1>2, <1>3, <1>4 DEF Posted
<1>6. inbox' \in [Conns -> {inbox'[d] : d \in Conns}]
  BY <1>3, <1>4
<1>7. UNCHANGED <<slots, buffer, free, next_index, counter, epoll, tasks, net, eof, place>>
  BY DEF accept_nothing, pool, entries, sizes, loop
<1>8. wrk.pc = "handle" /\ wrk' = Continue
  BY DEF accept_nothing, Handling
<1> QED
  BY <1>5, <1>6, <1>7, <1>8, PostInv

LEMMA ServerAnswersInv ==
    ASSUME IInv, server_answers
    PROVE  IInv'
<1>1. Peer \in Conns /\ Parent \in Conns /\ Peer # Parent
  BY LobbyAssumption DEF Conns
<1>2. Answer \in Mail(Parent) /\ ~Hands(Answer)
  BY DEF Mail, Hands, Answer
<1>3. inbox \in [Conns -> Seq(AnyMail)]
  BY DEF IInv, TypeOK
<1>4. inbox' = [inbox EXCEPT ![Peer] = Tail(inbox[Peer]),
                             ![Parent] = Append(inbox[Parent], Answer)]
  BY <1>1, <1>3 DEF server_answers
<1>5. inbox[Peer] # <<>>
  BY DEF server_answers
<1>6. \A d \in Conns : Posted(d)
  BY <1>1, <1>2, <1>3, <1>4, <1>5 DEF Posted
<1>7. inbox' \in [Conns -> {inbox'[d] : d \in Conns}]
  BY <1>3, <1>4
<1>8. UNCHANGED <<slots, buffer, free, next_index, counter, epoll, tasks, net, eof, place>>
  BY DEF server_answers, pool, entries, sizes, loop
<1>9. wrk' = wrk
  BY DEF server_answers
<1> QED
  BY <1>6, <1>7, <1>8, <1>9, PostInv

\* The server's message brings a client that no other one brings.
LEMMA TransferInv ==
    ASSUME IInv, NEW c \in Clients, server_transfer(c)
    PROVE  IInv'
<1>0. PICK d \in {c, NoConn}, p \in {"backlog", "gone"} :
         /\ p = IF d = NoConn THEN "gone" ELSE "backlog"
         /\ place' = [place EXCEPT ![c] = p]
         /\ inbox' = [inbox EXCEPT ![Parent] = Append(inbox[Parent],
                         [action |-> "AcceptSocket", from |-> Parent, socket |-> d])]
  <2>1. PICK arrives \in BOOLEAN :
           /\ place' = [place EXCEPT ![c] = IF arrives THEN "backlog" ELSE "gone"]
           /\ inbox' = [inbox EXCEPT ![Parent] = Append(inbox[Parent],
                  [action |-> "AcceptSocket", from |-> Parent,
                   socket |-> IF arrives THEN c ELSE NoConn])]
    BY DEF server_transfer
  <2>2. c # NoConn
    BY EngineAssumption DEF Conns
  <2>3. CASE arrives
    BY <2>1, <2>2, <2>3
  <2>4. CASE ~arrives
    BY <2>1, <2>2, <2>4
  <2> QED
    BY <2>3, <2>4
<1> DEFINE e == [action |-> "AcceptSocket", from |-> Parent, socket |-> d]
<1>1. c \in Conns /\ Parent \in Conns /\ c # Parent
  BY EngineAssumption, LobbyAssumption DEF Conns
<1>2. e \in Mail(Parent)
  BY DEF Mail
<1>3. e \in AnyMail
  BY <1>1, <1>2, MailFields
<1>4. /\ inbox' = [inbox EXCEPT ![Parent] = Append(inbox[Parent], e)]
      /\ place' = [place EXCEPT ![c] = p]
  BY <1>0
<1>5. Hands(e) => e.socket = c /\ p = "backlog"
  BY <1>0 DEF Hands
<1> HIDE DEF e
<1>6. UNCHANGED <<slots, buffer, free, next_index, counter, epoll, tasks, net, wrk, eof>>
  BY DEF server_transfer, pool, entries, sizes, loop
<1>7. inbox \in [Conns -> Seq(AnyMail)] /\ inbox[Parent] \in Seq(Mail(Parent))
  BY <1>1 DEF IInv, TypeOK, Mailed
<1>8. place \in [Conns -> {"new", "backlog", "held", "gone"}] /\ place[c] = "new"
  BY DEF IInv, TypeOK, server_transfer
<1>9. \A b \in Conns : inbox'[b] = IF b = Parent THEN Append(inbox[Parent], e) ELSE inbox[b]
  BY <1>4, <1>7
<1>10. \A b \in Conns : place'[b] = IF b = c THEN p ELSE place[b]
  BY <1>4, <1>8
<1>11. TypeOK'
  <2>1. inbox' \in [Conns -> Seq(AnyMail)]
    BY <1>3, <1>4, <1>7, <1>1
  <2>2. place' \in [Conns -> {"new", "backlog", "held", "gone"}]
    BY <1>4, <1>8
  <2> QED
    BY <2>1, <2>2, <1>6 DEF IInv, TypeOK
<1>12. Pool' /\ Entries' /\ Registered'
  BY <1>6 DEF IInv, Pool, Entries, Registered, InUse
<1>13. Held'
  <2>1. \A s \in Slots : InUse(s) => slots[s].sock \in Conns
    BY DEF IInv, TypeOK, EntryType, InUse
  <2> QED
    BY <2>1, <1>1, <1>6, <1>8, <1>10 DEF IInv, Held, InUse, Conns
<1>14. Work'
  BY <1>1, <1>6, <1>8, <1>10 DEF IInv, Work, InUse, Pending, Conns
<1>15. Mailed'
  <2>1. Append(inbox[Parent], e) \in Seq(Mail(Parent))
    BY <1>2, <1>7
  <2>2. \A b \in Conns : inbox'[b] \in Seq(Mail(b))
    BY <2>1, <1>9 DEF IInv, Mailed
  <2> QED
    BY <2>2, <1>6 DEF IInv, Mailed, InUse
<1>16. Handed'
  <2>1. /\ Len(Append(inbox[Parent], e)) = Len(inbox[Parent]) + 1
        /\ Append(inbox[Parent], e)[Len(inbox[Parent]) + 1] = e
        /\ \A i \in 1 .. Len(inbox[Parent]) : Append(inbox[Parent], e)[i] = inbox[Parent][i]
        /\ Len(inbox[Parent]) \in Nat
    BY <1>7
  <2>2. ASSUME NEW b \in Conns, NEW q \in Seq(Mail(b)), Waits(q)
        PROVE  /\ Waits(q)'
               /\ \A i \in 1 .. Len(q) : ~Clash(q[i], e) /\ ~Clash(e, q[i])
    <3>1. \A i \in 1 .. Len(q) : Hands(q[i]) => q[i].socket \in Conns
      BY MailFields DEF Conns
    <3>2. \A i \in 1 .. Len(q) : Hands(q[i]) => q[i].socket # c
      BY <2>2, <1>8 DEF Waits
    <3> QED
      BY <3>1, <3>2, <2>2, <1>5, <1>10 DEF Waits, Clash
  <2>3. Distinct(inbox[Parent]) /\ Waits(inbox[Parent])
    BY <1>1 DEF IInv, Handed
  <2>4. Distinct(Append(inbox[Parent], e))
    <3>1. \A i \in 1 .. Len(inbox[Parent]) :
              ~Clash(inbox[Parent][i], e) /\ ~Clash(e, inbox[Parent][i])
      BY <2>2, <2>3, <1>1, <1>7
    <3> QED
      BY <3>1, <2>3, <1>2, <1>7, AppendApart
  <2>5. Waits(inbox[Parent])'
    <3>1. place'[c] = p
      BY <1>10, <1>1
    <3>2. inbox'[Parent] = Append(inbox[Parent], e)
      BY <1>9, <1>1
    <3>3. \A i \in 1 .. Len(inbox[Parent]) :
              Hands(inbox[Parent][i]) => place'[inbox[Parent][i].socket] = "backlog"
      BY <2>2, <2>3, <1>1, <1>7 DEF Waits
    <3>4. \A i \in 1 .. Len(inbox[Parent]) + 1 : i \in 1 .. Len(inbox[Parent]) \/ i = Len(inbox[Parent]) + 1
      BY <2>1
    <3> QED
      BY <3>1, <3>2, <3>3, <3>4, <2>1, <1>5 DEF Waits
  <2>6. \A b \in Conns : Distinct(inbox'[b]) /\ Waits(inbox[b])'
    <3> SUFFICES ASSUME NEW b \in Conns PROVE Distinct(inbox'[b]) /\ Waits(inbox[b])'
      OBVIOUS
    <3>1. CASE b = Parent
      BY <3>1, <2>4, <2>5, <1>9, <1>1
    <3>2. CASE b # Parent
      <4>1. inbox'[b] = inbox[b] /\ inbox[b] \in Seq(Mail(b)) /\ Waits(inbox[b]) /\ Distinct(inbox[b])
        BY <3>2, <1>9 DEF IInv, Handed, Mailed
      <4> QED
        BY <4>1, <2>2 DEF Waits
    <3> QED
      BY <3>1, <3>2
  <2>7. ASSUME NEW b \in Conns, NEW q \in Seq(Mail(b)), Waits(q), NEW a \in Conns,
               Apart(q, inbox[a])
        PROVE  Apart(q, inbox'[a])
    <3>1. \A i \in 1 .. Len(q) : ~Clash(q[i], e)
      BY <2>2, <2>7
    <3>2. CASE a = Parent
      BY <3>1, <3>2, <2>7, <1>1, <1>2, <1>7, <1>9, AppendApart
    <3>3. CASE a # Parent
      BY <3>3, <2>7, <1>9
    <3> QED
      BY <3>2, <3>3
  <2>8. ASSUME NEW s \in Slots, InUse(s)
        PROVE  /\ Distinct(buffer'[s])
               /\ Waits(buffer[s])'
               /\ Apart(buffer'[s], inbox'[slots'[s].sock])
    <3>1. slots[s].sock \in Conns
      BY <2>8 DEF IInv, TypeOK, EntryType, InUse
    <3>2. buffer[s] \in Seq(Mail(slots[s].sock)) /\ Waits(buffer[s]) /\ Distinct(buffer[s])
      BY <2>8 DEF IInv, Handed, Mailed
    <3>3. Apart(buffer[s], inbox[slots[s].sock])
      BY <2>8 DEF IInv, Handed
    <3>4. Apart(buffer[s], inbox'[slots[s].sock])
      BY <3>1, <3>2, <3>3, <2>7
    <3>5. Waits(buffer[s])'
      BY <3>1, <3>2, <2>2, <1>6 DEF Waits
    <3> QED
      BY <3>2, <3>4, <3>5, <1>6
  <2>9. ASSUME wrk.pc = "handle"
        PROVE  /\ Waits(<<wrk.msg>>)'
               /\ Apart(<<wrk'.msg>>, buffer'[wrk'.slot])
               /\ Apart(<<wrk'.msg>>, inbox'[Pending'])
    <3>1. Pending \in Conns /\ Pending' = Pending
      BY <2>9, <1>6 DEF IInv, Work, TypeOK, EntryType, InUse, Pending
    <3>2. <<wrk.msg>> \in Seq(Mail(Pending)) /\ Waits(<<wrk.msg>>)
      BY <2>9 DEF IInv, Work, Handed
    <3>3. Apart(<<wrk.msg>>, buffer[wrk.slot]) /\ Apart(<<wrk.msg>>, inbox[Pending])
      BY <2>9 DEF IInv, Handed
    <3>4. Apart(<<wrk.msg>>, inbox'[Pending])
      BY <3>1, <3>2, <3>3, <2>7
    <3>5. Waits(<<wrk.msg>>)'
      BY <3>1, <3>2, <2>2, <1>6 DEF Waits
    <3> QED
      BY <3>1, <3>3, <3>4, <3>5, <1>6
  <2> QED
    BY <1>6, <2>6, <2>8, <2>9 DEF Handed, InUse
<1> QED
  BY <1>11, <1>12, <1>13, <1>14, <1>15, <1>16 DEF IInv

\* One recvmsg splits the inbox into a message, the buffer and the rest.
LEMMA SplitApart ==
    ASSUME NEW S, NEW q \in Seq(S), NEW n \in 1 .. Len(q), Distinct(q), Waits(q)
    PROVE  LET h == <<Head(q)>>
               b == SubSeq(q, 2, n)
               r == SubSeq(q, n + 1, Len(q))
           IN  /\ Head(q) \in S /\ b \in Seq(S) /\ r \in Seq(S)
               /\ Waits(h) /\ Waits(b) /\ Waits(r)
               /\ Distinct(b) /\ Distinct(r)
               /\ Apart(h, b) /\ Apart(h, r) /\ Apart(b, r)
<1> DEFINE h == <<Head(q)>>
           b == SubSeq(q, 2, n)
           r == SubSeq(q, n + 1, Len(q))
<1>1. Len(q) \in Nat /\ n \in Nat /\ 1 <= n /\ n <= Len(q)
  OBVIOUS
<1>2. h[1] = q[1] /\ Len(h) = 1 /\ Head(q) \in S
  BY <1>1
<1>3. b \in Seq(S) /\ r \in Seq(S)
  BY <1>1
<1>4. Len(b) = n - 1 /\ \A i \in 1 .. n - 1 : b[i] = q[i + 1]
  BY <1>1
<1>5. Len(r) = Len(q) - n /\ \A i \in 1 .. Len(q) - n : r[i] = q[i + n]
  BY <1>1
<1>6. /\ 1 \in 1 .. Len(q)
      /\ \A i \in 1 .. n - 1 : i + 1 \in 1 .. Len(q) /\ i + 1 # 1
      /\ \A i \in 1 .. Len(q) - n : i + n \in 1 .. Len(q) /\ i + n # 1
      /\ \A i \in 1 .. n - 1, j \in 1 .. Len(q) - n : i + 1 # j + n
      /\ \A i, j \in 1 .. n - 1 : i + 1 = j + 1 => i = j
      /\ \A i, j \in 1 .. Len(q) - n : i + n = j + n => i = j
  BY ONLY <1>1
<1> HIDE DEF h, b, r
<1>7. Waits(h) /\ Waits(b) /\ Waits(r)
  <2>1. Waits(h)
    BY <1>2, <1>6 DEF Waits
  <2>2. Waits(b)
    BY <1>4, <1>6 DEF Waits
  <2>3. Waits(r)
    BY <1>5, <1>6 DEF Waits
  <2> QED
    BY <2>1, <2>2, <2>3
<1>8. Distinct(b) /\ Distinct(r)
  <2>1. Distinct(b)
    BY <1>4, <1>6 DEF Distinct
  <2>2. Distinct(r)
    BY <1>5, <1>6 DEF Distinct
  <2> QED
    BY <2>1, <2>2
<1>9. Apart(h, b)
  BY <1>2, <1>4, <1>6 DEF Apart, Distinct
<1>10. Apart(h, r)
  BY <1>2, <1>5, <1>6 DEF Apart, Distinct
<1>11. Apart(b, r)
  <2> SUFFICES ASSUME NEW i \in 1 .. n - 1, NEW j \in 1 .. Len(q) - n
               PROVE  ~Clash(b[i], r[j])
    BY <1>4, <1>5 DEF Apart
  <2>1. b[i] = q[i + 1] /\ r[j] = q[j + n]
    BY <1>4, <1>5
  <2>2. i + 1 \in 1 .. Len(q) /\ j + n \in 1 .. Len(q) /\ i + 1 # j + n
    BY <1>6
  <2> QED
    BY <2>1, <2>2 DEF Distinct
<1> QED
  BY <1>2, <1>3, <1>7, <1>8, <1>9, <1>10, <1>11 DEF h, b, r

\* The coroutine takes the next message out of its buffer.
LEMMA TailApart ==
    ASSUME NEW S, NEW q \in Seq(S), q # <<>>, Distinct(q), Waits(q), NEW x, Apart(q, x)
    PROVE  /\ Head(q) \in S /\ Tail(q) \in Seq(S)
           /\ Waits(<<Head(q)>>) /\ Waits(Tail(q))
           /\ Distinct(Tail(q))
           /\ Apart(<<Head(q)>>, Tail(q))
           /\ Apart(<<Head(q)>>, x) /\ Apart(Tail(q), x)
<1> DEFINE h == <<Head(q)>>
           r == Tail(q)
<1>1. Len(q) \in Nat /\ Len(q) >= 1
  OBVIOUS
<1>2. h[1] = q[1] /\ Len(h) = 1 /\ Head(q) \in S
  BY <1>1
<1>3. r \in Seq(S) /\ Len(r) = Len(q) - 1 /\ \A i \in 1 .. Len(q) - 1 : r[i] = q[i + 1]
  BY <1>1
<1>4. /\ 1 \in 1 .. Len(q)
      /\ \A i \in 1 .. Len(q) - 1 : i + 1 \in 1 .. Len(q) /\ i + 1 # 1
      /\ \A i, j \in 1 .. Len(q) - 1 : i + 1 = j + 1 => i = j
  BY ONLY <1>1
<1> HIDE DEF h, r
<1>5. Waits(h) /\ Waits(r)
  BY <1>2, <1>3, <1>4 DEF Waits
<1>6. Distinct(r)
  BY <1>3, <1>4 DEF Distinct
<1>7. Apart(h, r)
  BY <1>2, <1>3, <1>4 DEF Apart, Distinct
<1>8. Apart(h, x) /\ Apart(r, x)
  BY <1>2, <1>3, <1>4 DEF Apart
<1> QED
  BY <1>2, <1>3, <1>5, <1>6, <1>7, <1>8 DEF h, r

\* What the worker relies on when it resumes the receive coroutine.
LEMMA ReadingFacts ==
    ASSUME IInv, wrk.pc = "receive"
    PROVE  /\ wrk \in Locals
           /\ wrk.slot \in Slots
           /\ InUse(wrk.slot)
           /\ Pending \in Conns
           /\ buffer[wrk.slot] \in Seq(Mail(Pending))
           /\ Distinct(buffer[wrk.slot])
           /\ Waits(buffer[wrk.slot])
           /\ Apart(buffer[wrk.slot], inbox[Pending])
           /\ inbox[Pending] \in Seq(Mail(Pending))
           /\ Distinct(inbox[Pending])
           /\ Waits(inbox[Pending])
           /\ buffer \in [Slots -> Seq(AnyMail)]
           /\ inbox \in [Conns -> Seq(AnyMail)]
           /\ counter = next_index
<1>1. /\ wrk \in Locals
      /\ wrk.slot \in Slots
      /\ InUse(wrk.slot)
      /\ counter = next_index
      /\ buffer \in [Slots -> Seq(AnyMail)]
      /\ inbox \in [Conns -> Seq(AnyMail)]
  BY DEF IInv, TypeOK, Work
<1>2. Pending \in Conns
  BY <1>1 DEF IInv, TypeOK, EntryType, InUse, Pending
<1>3. /\ buffer[wrk.slot] \in Seq(Mail(Pending))
      /\ inbox[Pending] \in Seq(Mail(Pending))
  BY <1>1, <1>2 DEF IInv, Mailed, Pending
<1>4. /\ Distinct(buffer[wrk.slot])
      /\ Waits(buffer[wrk.slot])
      /\ Apart(buffer[wrk.slot], inbox[Pending])
      /\ Distinct(inbox[Pending])
      /\ Waits(inbox[Pending])
  BY <1>1, <1>2 DEF IInv, Handed, Pending
<1> QED
  BY <1>1, <1>2, <1>3, <1>4

\* What remains to be shown of a step that takes message m out of the inbox
\* or the buffer of the slot in hand, and leaves b in the buffer and r in the
\* inbox.
LEMMA ReadInv ==
    ASSUME IInv, wrk.pc = "receive",
           UNCHANGED <<slots, free, next_index, counter, epoll, tasks, net, eof, place>>,
           NEW m \in Mail(Pending), NEW b \in Seq(Mail(Pending)),
           NEW r \in Seq(Mail(Pending)),
           wrk' = [wrk EXCEPT !.pc = "handle", !.msg = m],
           buffer' = [buffer EXCEPT ![wrk.slot] = b],
           inbox' = [inbox EXCEPT ![Pending] = r],
           Waits(<<m>>), Waits(b), Waits(r), Distinct(b), Distinct(r),
           Apart(<<m>>, b), Apart(<<m>>, r), Apart(b, r)
    PROVE  IInv'
<1>1. /\ wrk \in Locals
      /\ wrk.slot \in Slots
      /\ InUse(wrk.slot)
      /\ Pending \in Conns
      /\ buffer \in [Slots -> Seq(AnyMail)]
      /\ inbox \in [Conns -> Seq(AnyMail)]
      /\ counter = next_index
  BY ReadingFacts
<1>2. m \in AnyMail /\ b \in Seq(AnyMail) /\ r \in Seq(AnyMail)
  <2>1. \A x \in Mail(Pending) : x \in AnyMail
    BY <1>1, MailFields
  <2> QED
    BY <2>1
<1>3. wrk' \in Locals
  BY <1>1, <1>2 DEF Locals, Points
<1>4. wrk'.pc = "handle" /\ wrk'.slot = wrk.slot /\ wrk'.msg = m
  BY <1>1 DEF Locals
<1>5. \A s \in Slots : buffer'[s] = IF s = wrk.slot THEN b ELSE buffer[s]
  BY <1>1
<1>6. \A c \in Conns : inbox'[c] = IF c = Pending THEN r ELSE inbox[c]
  BY <1>1
<1>7. Pending' = Pending
  BY <1>4 DEF Pending
<1>8. TypeOK'
  <2>1. buffer' \in [Slots -> Seq(AnyMail)] /\ inbox' \in [Conns -> Seq(AnyMail)]
    BY <1>1, <1>2
  <2> QED
    BY <2>1, <1>3 DEF IInv, TypeOK
<1>9. Pool' /\ Registered'
  BY DEF IInv, Pool, Registered, InUse
<1>10. Entries'
  BY <1>1, <1>5 DEF IInv, Entries, InUse, EmptyEntry
<1>11. Held'
  BY <1>4 DEF IInv, Held, InUse
<1>12. Work'
  BY <1>1, <1>4, <1>7 DEF Work, InUse
<1>13. \A s \in Slots : InUse(s) /\ s # wrk.slot =>
           slots[s].sock \in Conns /\ slots[s].sock # Pending
  BY <1>1 DEF IInv, Held, TypeOK, EntryType, InUse, Pending
<1>14. Mailed'
  <2>1. \A c \in Conns : inbox'[c] \in Seq(Mail(c))
    BY <1>6 DEF IInv, Mailed
  <2>2. \A s \in Slots : InUse(s) => buffer'[s] \in Seq(Mail(slots[s].sock))
    BY <1>5 DEF IInv, Mailed, Pending
  <2> QED
    BY <2>1, <2>2 DEF Mailed, InUse
<1>15. Handed'
  <2>1. \A q : Waits(q) => \A i \in 1 .. Len(q) : Hands(q[i]) => place'[q[i].socket] = "backlog"
    BY DEF Waits
  <2>2. ASSUME NEW c \in Conns PROVE Distinct(inbox'[c]) /\ Waits(inbox[c])'
    <3>1. Distinct(inbox'[c]) /\ Waits(inbox'[c])
      BY <1>6 DEF IInv, Handed
    <3> QED
      BY <3>1, <2>1 DEF Waits
  <2>3. ASSUME NEW s \in Slots, InUse(s)
        PROVE  /\ Distinct(buffer'[s])
               /\ Waits(buffer[s])'
               /\ Apart(buffer'[s], inbox'[slots'[s].sock])
    <3>1. Distinct(buffer'[s]) /\ Waits(buffer'[s])
      BY <1>5, <2>3 DEF IInv, Handed
    <3>2. Waits(buffer[s])'
      BY <3>1, <2>1 DEF Waits
    <3>3. CASE s = wrk.slot
      <4>1. slots[s].sock = Pending
        BY <3>3 DEF Pending
      <4> QED
        BY <3>1, <3>2, <3>3, <4>1, <1>1, <1>5, <1>6
    <3>4. CASE s # wrk.slot
      <4>1. Apart(buffer[s], inbox[slots[s].sock])
        BY <2>3 DEF IInv, Handed
      <4> QED
        BY <3>1, <3>2, <3>4, <4>1, <1>5, <1>6, <1>13, <2>3
    <3> QED
      BY <3>3, <3>4
  <2>4. /\ Waits(<<wrk.msg>>)'
        /\ Apart(<<wrk'.msg>>, buffer'[wrk'.slot])
        /\ Apart(<<wrk'.msg>>, inbox'[Pending'])
    <3>1. Waits(<<wrk.msg>>)'
      BY <1>4, <2>1 DEF Waits
    <3> QED
      BY <3>1, <1>1, <1>4, <1>5, <1>6, <1>7
  <2> QED
    BY <2>2, <2>3, <2>4 DEF Handed, InUse
<1> QED
  BY <1>8, <1>9, <1>10, <1>11, <1>12, <1>14, <1>15 DEF IInv

\* A message comes out of the buffer.
LEMMA BufferedInv ==
    ASSUME IInv, get_message_buffered
    PROVE  IInv'
<1> DEFINE q == buffer[wrk.slot]
<1>1. /\ wrk.pc = "receive"
      /\ q # <<>>
      /\ wrk' = [wrk EXCEPT !.pc = "handle", !.msg = Head(q)]
      /\ buffer' = [buffer EXCEPT ![wrk.slot] = Tail(q)]
      /\ UNCHANGED <<slots, free, next_index, counter, epoll, tasks, net, eof, place, inbox>>
  BY DEF get_message_buffered, sizes, loop, kernel
<1>2. /\ q \in Seq(Mail(Pending))
      /\ Distinct(q) /\ Waits(q) /\ Apart(q, inbox[Pending])
      /\ inbox[Pending] \in Seq(Mail(Pending))
      /\ Distinct(inbox[Pending]) /\ Waits(inbox[Pending])
      /\ inbox \in [Conns -> Seq(AnyMail)] /\ Pending \in Conns
  BY <1>1, ReadingFacts
<1>3. inbox' = [inbox EXCEPT ![Pending] = inbox[Pending]]
  BY <1>1, <1>2
<1>4. /\ Head(q) \in Mail(Pending) /\ Tail(q) \in Seq(Mail(Pending))
      /\ Waits(<<Head(q)>>) /\ Waits(Tail(q)) /\ Distinct(Tail(q))
      /\ Apart(<<Head(q)>>, Tail(q))
      /\ Apart(<<Head(q)>>, inbox[Pending]) /\ Apart(Tail(q), inbox[Pending])
  BY <1>1, <1>2, TailApart
<1> HIDE DEF q
<1> QED
  BY <1>1, <1>2, <1>3, <1>4, ReadInv

\* Messages come out of the socket.
LEMMA ReceivedInv ==
    ASSUME IInv, get_message_received
    PROVE  IInv'
<1> DEFINE q == inbox[Pending]
<1>1. PICK n \in 1 .. Len(q) :
          /\ wrk' = [wrk EXCEPT !.pc = "handle", !.msg = Head(q)]
          /\ buffer' = [buffer EXCEPT ![wrk.slot] = SubSeq(q, 2, n)]
          /\ inbox' = [inbox EXCEPT ![Pending] = SubSeq(q, n + 1, Len(q))]
  BY DEF get_message_received
<1>2. /\ wrk.pc = "receive"
      /\ UNCHANGED <<slots, free, next_index, counter, epoll, tasks, net, eof, place>>
  BY DEF get_message_received, sizes, loop
<1>3. q \in Seq(Mail(Pending)) /\ Distinct(q) /\ Waits(q)
  BY <1>2, ReadingFacts
<1> HIDE DEF q
<1> DEFINE b == SubSeq(q, 2, n)
           r == SubSeq(q, n + 1, Len(q))
<1>4. /\ Head(q) \in Mail(Pending) /\ b \in Seq(Mail(Pending)) /\ r \in Seq(Mail(Pending))
      /\ Waits(<<Head(q)>>) /\ Waits(b) /\ Waits(r)
      /\ Distinct(b) /\ Distinct(r)
      /\ Apart(<<Head(q)>>, b) /\ Apart(<<Head(q)>>, r) /\ Apart(b, r)
  BY <1>3, SplitApart
<1>5. /\ buffer' = [buffer EXCEPT ![wrk.slot] = b]
      /\ inbox' = [inbox EXCEPT ![Pending] = r]
  BY <1>1
<1> HIDE DEF b, r
<1> QED
  BY <1>1, <1>2, <1>4, <1>5, ReadInv

\* The client of the message in hand is taken over; the other messages bring
\* other clients, which still wait.
LEMMA AcceptInv ==
    ASSUME IInv, accept_socket
    PROVE  IInv'
<1> DEFINE c == wrk.msg.socket
<1>1. /\ wrk \in Locals
      /\ wrk.pc = "handle"
      /\ wrk.slot \in Slots
      /\ InUse(wrk.slot)
      /\ wrk.msg \in Mail(Pending)
      /\ counter = next_index
      /\ Hands(wrk.msg)
  BY DEF IInv, TypeOK, Work, accept_socket, Handling, Hands
<1>2. Pending \in Conns
  BY <1>1 DEF IInv, TypeOK, EntryType, InUse, Pending
<1>3. Pending = Parent /\ c \in Clients /\ c \in Conns
  BY <1>1, <1>2, MailFields DEF Conns
<1>4. /\ wrk' = [wrk EXCEPT !.pc = "attach", !.ctrl = c]
      /\ place' = [place EXCEPT ![c] = "held"]
      /\ UNCHANGED <<slots, buffer, free, next_index, counter, epoll, tasks, net, inbox, eof>>
  BY DEF accept_socket, pool, entries, sizes, loop, kernel
<1>5. place[c] = "backlog"
  BY <1>1 DEF IInv, Handed, Waits
<1>6. \A s \in Slots : slots[s].sock # c
  BY <1>3, <1>5, EngineAssumption DEF IInv, Held, InUse
<1>7. place \in [Conns -> {"new", "backlog", "held", "gone"}]
  BY DEF IInv, TypeOK
<1>8. \A d \in Conns : place'[d] = IF d = c THEN "held" ELSE place[d]
  BY <1>3, <1>4, <1>7
<1>9. wrk'.pc = "attach" /\ wrk'.ctrl = c /\ wrk'.slot = wrk.slot /\ wrk'.msg = wrk.msg
  BY <1>1, <1>4 DEF Locals
<1> HIDE DEF c
<1>10. TypeOK'
  <2>1. wrk' \in Locals
    BY <1>1, <1>3, <1>4 DEF Locals, Points
  <2>2. place' \in [Conns -> {"new", "backlog", "held", "gone"}]
    BY <1>4, <1>7
  <2> QED
    BY <2>1, <2>2, <1>4 DEF IInv, TypeOK
<1>11. Pool' /\ Entries' /\ Registered' /\ Mailed'
  BY <1>4 DEF IInv, Pool, Entries, Registered, Mailed, InUse
<1>12. Held'
  <2>1. \A s \in Slots : InUse(s) => slots[s].sock \in Conns
    BY DEF IInv, TypeOK, EntryType, InUse
  <2> QED
    BY <2>1, <1>1, <1>4, <1>6, <1>8, <1>9 DEF IInv, Held, InUse, Conns
<1>13. Work'
  <2>1. Pending' = Pending
    BY <1>4, <1>9 DEF Pending
  <2> QED
    BY <2>1, <1>1, <1>3, <1>4, <1>6, <1>8, <1>9 DEF Work, InUse
<1>14. Handed'
  <2>1. ASSUME NEW d \in Conns, NEW q \in Seq(Mail(d)), Waits(q),
               d = Parent => Apart(<<wrk.msg>>, q)
        PROVE  \A i \in 1 .. Len(q) : Hands(q[i]) => place'[q[i].socket] = "backlog"
    <3> SUFFICES ASSUME NEW i \in 1 .. Len(q), Hands(q[i])
                 PROVE  place'[q[i].socket] = "backlog"
      OBVIOUS
    <3>1. d = Parent /\ q[i].socket \in Conns
      BY MailFields DEF Conns
    <3>2. ~Clash(wrk.msg, q[i])
      BY <3>1, <2>1 DEF Apart
    <3>3. q[i].socket # c
      BY <3>2, <1>1 DEF Clash, c
    <3> QED
      BY <3>1, <3>3, <1>8, <2>1 DEF Waits
  <2>2. ASSUME NEW d \in Conns PROVE Distinct(inbox'[d]) /\ Waits(inbox[d])'
    <3>1. Distinct(inbox[d]) /\ Waits(inbox[d]) /\ inbox[d] \in Seq(Mail(d))
      BY DEF IInv, Handed, Mailed
    <3>2. d = Parent => Apart(<<wrk.msg>>, inbox[d])
      BY <1>1, <1>3 DEF IInv, Handed
    <3> QED
      BY <3>1, <3>2, <2>1, <1>4 DEF Waits
  <2>3. ASSUME NEW s \in Slots, InUse(s)
        PROVE  /\ Distinct(buffer'[s])
               /\ Waits(buffer[s])'
               /\ Apart(buffer'[s], inbox'[slots'[s].sock])
    <3>1. /\ Distinct(buffer[s]) /\ Waits(buffer[s])
          /\ Apart(buffer[s], inbox[slots[s].sock])
          /\ buffer[s] \in Seq(Mail(slots[s].sock))
      BY <2>3 DEF IInv, Handed, Mailed
    <3>2. slots[s].sock \in Conns
      BY <2>3 DEF IInv, TypeOK, EntryType, InUse
    <3>3. slots[s].sock = Parent => s = wrk.slot
      BY <1>1, <1>3, <2>3 DEF IInv, Held, Pending
    <3>4. slots[s].sock = Parent => Apart(<<wrk.msg>>, buffer[s])
      BY <3>3, <1>1 DEF IInv, Handed
    <3> QED
      BY <3>1, <3>2, <3>4, <2>1, <1>4 DEF Waits
  <2> QED
    BY <2>2, <2>3, <1>4, <1>9 DEF Handed, InUse
<1> QED
  BY <1>10, <1>11, <1>12, <1>13, <1>14 DEF IInv

\* An empty slot s is filled with the client in hand.
LEMMA FillKeeps ==
    ASSUME IInv, wrk.pc = "attach", NEW s \in Slots, ~InUse(s),
           slots' = [slots EXCEPT ![s] = Entry("TO_CLIENT", wrk.ctrl)],
           UNCHANGED <<buffer, epoll, place, inbox>>,
           wrk'.pc \notin {"attach", "handle"}
    PROVE  /\ slots' \in [Slots -> EntryType]
           /\ \A t \in Slots : InUse(t)' <=> InUse(t) \/ t = s
           /\ slots'[s].sock = wrk.ctrl
           /\ \A t \in Slots : t # s => slots'[t] = slots[t]
           /\ Entries' /\ Held' /\ Registered' /\ Mailed' /\ Handed'
<1> DEFINE c == wrk.ctrl
<1>1. /\ c \in Clients /\ c \in Conns /\ c # NoConn
      /\ place[c] = "held"
      /\ \A t \in Slots : slots[t].sock # c
  BY EngineAssumption DEF IInv, Work, Conns
<1>2. slots \in [Slots -> EntryType]
  BY DEF IInv, TypeOK
<1>3. Entry("TO_CLIENT", c) \in EntryType /\ Entry("TO_CLIENT", c).sock = c
  BY <1>1 DEF Entry, EntryType
<1>4. \A t \in Slots : slots'[t] = IF t = s THEN Entry("TO_CLIENT", c) ELSE slots[t]
  BY <1>2
<1>5. slots' \in [Slots -> EntryType]
  BY <1>2, <1>3
<1>6. \A t \in Slots : InUse(t)' <=> InUse(t) \/ t = s
  BY <1>1, <1>3, <1>4 DEF InUse
<1>7. buffer[s] = <<>>
  <2>1. slots[s].sock = NoConn
    BY DEF InUse
  <2>2. slots[s].sock \notin Clients
    BY <2>1, EngineAssumption DEF Conns
  <2>3. slots[s] # Entry("TO_PARENT", Parent)
    BY <2>1, EngineAssumption, LobbyAssumption DEF Entry, Conns
  <2> QED
    BY <2>2, <2>3 DEF IInv, Entries
<1> HIDE DEF c
<1>8. Entries'
  BY <1>1, <1>3, <1>4 DEF IInv, Entries
<1>9. Held'
  <2>1. \A t \in Slots : InUse(t)' => place[slots'[t].sock] = "held"
    BY <1>1, <1>3, <1>4, <1>6 DEF IInv, Held
  <2>2. \A t, u \in Slots : slots'[t].sock = slots'[u].sock /\ InUse(t)' => t = u
    BY <1>1, <1>3, <1>4, <1>6 DEF IInv, Held
  <2>3. \A d \in Clients : place[d] = "held" => \E t \in Slots : slots'[t].sock = d
    <3> SUFFICES ASSUME NEW d \in Clients, place[d] = "held"
                 PROVE  \E t \in Slots : slots'[t].sock = d
      OBVIOUS
    <3>1. CASE d = c
      BY <3>1, <1>3, <1>4
    <3>2. CASE d # c
      <4>1. PICK t \in Slots : slots[t].sock = d
        BY <3>2 DEF IInv, Held, c
      <4>2. t # s
        BY <4>1, EngineAssumption DEF InUse, Conns
      <4> QED
        BY <4>1, <4>2, <1>4
    <3> QED
      BY <3>1, <3>2
  <2> QED
    BY <2>1, <2>2, <2>3 DEF Held
<1>10. Registered'
  <2>1. Registered /\ \A d \in Conns : epoll[d].slot \in Slots \cup {NoSlot}
    BY DEF IInv, TypeOK
  <2>2. \A d \in Conns : epoll[d].slot # NoSlot => epoll[d].slot # s
    BY <2>1, EngineAssumption DEF Registered, InUse
  <2> QED
    BY <2>1, <2>2, <1>4 DEF Registered
<1>11. Mailed'
  <2>1. <<>> \in Seq(Mail(c))
    OBVIOUS
  <2>2. buffer[s] \in Seq(Mail(slots'[s].sock))
    BY <2>1, <1>3, <1>4, <1>7
  <2>3. ASSUME NEW t \in Slots, InUse(t)', t # s
        PROVE  buffer[t] \in Seq(Mail(slots'[t].sock))
    BY <2>3, <1>4, <1>6 DEF IInv, Mailed
  <2> QED
    BY <2>2, <2>3 DEF IInv, Mailed
<1>12. Handed'
  <2>1. \A t \in Slots : InUse(t)' =>
           /\ Distinct(buffer[t])
           /\ Waits(buffer[t])
           /\ Apart(buffer[t], inbox[slots'[t].sock])
    <3> SUFFICES ASSUME NEW t \in Slots, InUse(t)'
                 PROVE  /\ Distinct(buffer[t])
                        /\ Waits(buffer[t])
                        /\ Apart(buffer[t], inbox[slots'[t].sock])
      OBVIOUS
    <3>1. CASE t = s
      BY <3>1, <1>7 DEF Distinct, Waits, Apart
    <3>2. CASE t # s
      BY <3>2, <1>4, <1>6 DEF IInv, Handed
    <3> QED
      BY <3>1, <3>2
  <2> QED
    BY <2>1 DEF IInv, Handed, Waits
<1> QED
  BY <1>3, <1>4, <1>5, <1>6, <1>8, <1>9, <1>10, <1>11, <1>12 DEF c

\* The client is put into the slot released longest ago.
LEMMA AttachReusedInv ==
    ASSUME IInv, attach_reused("TO_CLIENT")
    PROVE  IInv'
<1> DEFINE s == Head(free)
<1>1. /\ wrk.pc = "attach"
      /\ free # <<>>
      /\ free' = Tail(free)
      /\ slots' = [slots EXCEPT ![s] = Entry("TO_CLIENT", wrk.ctrl)]
      /\ wrk' = [wrk EXCEPT !.pc = "subscribe", !.view = s]
      /\ UNCHANGED <<buffer, next_index, counter, epoll, tasks, net, inbox, eof, place>>
  BY DEF attach_reused, sizes, loop, kernel
<1>2. /\ free \in Seq(Slots)
      /\ wrk \in Locals
      /\ wrk.slot \in Slots /\ InUse(wrk.slot)
      /\ Pending = Parent /\ wrk.msg \in Mail(Parent) /\ wrk.ctrl \in Clients
      /\ counter = next_index
      /\ Pool
  BY <1>1 DEF IInv, TypeOK, Work
<1>3. Len(free) \in Nat /\ Len(free) >= 1 /\ s = free[1] /\ s \in Slots
  BY <1>1, <1>2
<1>4. ~InUse(s)
  BY <1>2, <1>3 DEF Pool
<1> HIDE DEF s
<1>5. /\ wrk'.pc = "subscribe" /\ wrk'.view = s /\ wrk'.slot = wrk.slot
      /\ wrk'.msg = wrk.msg /\ wrk'.ctrl = wrk.ctrl
  BY <1>1, <1>2 DEF Locals
<1>6. /\ slots' \in [Slots -> EntryType]
      /\ \A t \in Slots : InUse(t)' <=> InUse(t) \/ t = s
      /\ slots'[s].sock = wrk.ctrl
      /\ \A t \in Slots : t # s => slots'[t] = slots[t]
      /\ Entries' /\ Held' /\ Registered' /\ Mailed' /\ Handed'
  BY <1>1, <1>3, <1>4, <1>5, FillKeeps
<1>7. TypeOK'
  <2>1. wrk' \in Locals
    BY <1>1, <1>2, <1>3 DEF Locals, Points
  <2>2. free' \in Seq(Slots)
    BY <1>1, <1>2
  <2> QED
    BY <2>1, <2>2, <1>1, <1>6 DEF IInv, TypeOK
<1>8. Pool'
  <2>1. /\ Len(free') = Len(free) - 1
        /\ \A i \in 1 .. Len(free) - 1 : free'[i] = free[i + 1]
    BY <1>1, <1>2
  <2>2. /\ \A i \in 1 .. Len(free) - 1 : i + 1 \in 1 .. Len(free) /\ i + 1 # 1
        /\ \A i, j \in 1 .. Len(free) - 1 : i + 1 = j + 1 => i = j
        /\ 1 \in 1 .. Len(free)
        /\ \A i \in 1 .. Len(free) : i = 1 \/ \E j \in 1 .. Len(free) - 1 : i = j + 1
    <3>1. \A i \in 1 .. Len(free) : i = 1 \/ (i - 1 \in 1 .. Len(free) - 1 /\ i = (i - 1) + 1)
      BY ONLY <1>3
    <3> QED
      BY <1>3, <3>1
  <2>3. \A i, j \in 1 .. Len(free') : free'[i] = free'[j] => i = j
    BY <2>1, <2>2, <1>2 DEF Pool
  <2>4. \A i \in 1 .. Len(free') : free'[i] < next_index /\ slots'[free'[i]].sock = NoConn
    <3> SUFFICES ASSUME NEW i \in 1 .. Len(free) - 1
                 PROVE  free[i + 1] < next_index /\ slots'[free[i + 1]].sock = NoConn
      BY <2>1
    <3>1. i + 1 \in 1 .. Len(free) /\ i + 1 # 1
      BY <2>2
    <3>2. free[i + 1] # s /\ free[i + 1] \in Slots
      BY <3>1, <2>2, <1>2, <1>3 DEF Pool
    <3>3. free[i + 1] < next_index /\ ~InUse(free[i + 1])
      BY <3>1, <1>2 DEF Pool
    <3>4. slots'[free[i + 1]] = slots[free[i + 1]]
      BY <3>2, <1>6
    <3> QED
      BY <3>3, <3>4 DEF InUse
  <2>5. ASSUME NEW t \in Slots, t < next_index, ~InUse(t)'
        PROVE  \E i \in 1 .. Len(free') : free'[i] = t
    <3>1. ~InUse(t) /\ t # s
      BY <2>5, <1>6
    <3>2. PICK i \in 1 .. Len(free) : free[i] = t
      BY <3>1, <2>5, <1>2 DEF Pool
    <3>3. i # 1
      BY <3>1, <3>2, <1>3
    <3>4. PICK j \in 1 .. Len(free) - 1 : i = j + 1
      BY <3>3, <2>2
    <3>5. free'[j] = t
      BY <3>2, <3>4, <2>1
    <3> QED
      BY <3>5, <2>1
  <2>6. \A t \in Slots : InUse(t)' => t < next_index
    BY <1>2, <1>3, <1>6, <2>2 DEF Pool
  <2> QED
    BY <2>3, <2>4, <2>5, <2>6, <1>1 DEF Pool, InUse
<1>9. Work'
  <2>1. Pending' = Pending
    BY <1>2, <1>4, <1>5, <1>6 DEF Pending
  <2> QED
    BY <2>1, <1>1, <1>2, <1>3, <1>5, <1>6 DEF Work
<1> QED
  BY <1>6, <1>7, <1>8, <1>9 DEF IInv

\* The client is put into a new slot, since all are in use.
LEMMA AttachNewInv ==
    ASSUME IInv, attach_new("TO_CLIENT")
    PROVE  IInv' /\ \A t \in 1 .. next_index - 1 : slots[t] # EmptyEntry
<1> DEFINE s == next_index
<1>1. /\ wrk.pc = "attach"
      /\ s \in Slots
      /\ next_index' = next_index + 1
      /\ slots' = [slots EXCEPT ![s] = Entry("TO_CLIENT", wrk.ctrl)]
      /\ wrk' = [wrk EXCEPT !.pc = "count", !.view = s, !.count = counter]
      /\ UNCHANGED <<buffer, free, counter, epoll, tasks, net, inbox, eof, place>>
  BY DEF attach_new, loop, kernel
<1>2. /\ wrk \in Locals
      /\ wrk.slot \in Slots /\ InUse(wrk.slot)
      /\ Pending = Parent /\ wrk.msg \in Mail(Parent) /\ wrk.ctrl \in Clients
      /\ counter = next_index
      /\ next_index \in 2 .. MaxSlots + 1
      /\ Pool
  BY <1>1 DEF IInv, TypeOK, Work
<1>3. free = <<>>
  BY DEF IInv, TypeOK, IdleNet, attach_new
<1>4. ~InUse(s)
  BY <1>1, <1>2 DEF Pool
<1>5. /\ wrk'.pc = "count" /\ wrk'.view = s /\ wrk'.slot = wrk.slot
      /\ wrk'.msg = wrk.msg /\ wrk'.ctrl = wrk.ctrl /\ wrk'.count = counter
  BY <1>1, <1>2 DEF Locals
<1>6. /\ slots' \in [Slots -> EntryType]
      /\ \A t \in Slots : InUse(t)' <=> InUse(t) \/ t = s
      /\ slots'[s].sock = wrk.ctrl
      /\ \A t \in Slots : t # s => slots'[t] = slots[t]
      /\ Entries' /\ Held' /\ Registered' /\ Mailed' /\ Handed'
  BY <1>1, <1>4, <1>5, FillKeeps
<1>7. TypeOK'
  <2>1. counter \in Nat
    BY DEF IInv, TypeOK
  <2>2. wrk' \in Locals
    BY <1>1, <1>2, <2>1 DEF Locals, Points
  <2>3. next_index' \in 2 .. MaxSlots + 1
    BY <1>1, <1>2, EngineAssumption DEF Slots
  <2> QED
    BY <2>2, <2>3, <1>1, <1>6 DEF IInv, TypeOK
<1>8. Pool'
  <2>1. \A t \in Slots : t < next_index' <=> t < next_index \/ t = s
    BY <1>1, <1>2, EngineAssumption DEF Slots
  <2>2. Len(free') = 0
    BY <1>1, <1>3
  <2> QED
    BY <2>1, <2>2, <1>2, <1>3, <1>6 DEF Pool
<1>9. Work'
  <2>1. Pending' = Pending
    BY <1>2, <1>4, <1>5, <1>6 DEF Pending
  <2>2. counter' + 1 = next_index'
    BY <1>1, <1>2
  <2> QED
    BY <2>1, <2>2, <1>1, <1>2, <1>5, <1>6 DEF Work
<1>10. ASSUME NEW t \in 1 .. next_index - 1 PROVE slots[t] # EmptyEntry
  <2>1. t \in Slots /\ t < next_index
    BY <1>2, EngineAssumption DEF Slots
  <2> QED
    BY <2>1, <1>2, <1>3, EmptyOrInUse DEF Pool
<1> QED
  BY <1>6, <1>7, <1>8, <1>9, <1>10 DEF IInv

\* Every step preserves the invariant.
LEMMA StepInv ==
    ASSUME IInv, [Next]_vars
    PROVE  IInv'
<1>1. CASE UNCHANGED vars
  <2>1. Rest /\ UNCHANGED <<epoll, counter, tasks, net, wrk, eof>>
    BY <1>1 DEF vars, Rest, engineVars, pool, entries, sizes, loop, kernel
  <2>2. TypeOK' /\ Registered' /\ Work'
    BY <2>1 DEF Rest, IInv, TypeOK, Registered, Work, InUse, Pending
  <2> QED
    BY <2>1, <2>2, RestKeeps DEF IInv
<1>2. CASE (\E c \in Clients : server_transfer(c)) \/ server_answers
  BY <1>2, TransferInv, ServerAnswersInv
<1>3. CASE \E c \in Clients, m \in Messages : client_send(c, m)
  BY <1>3, SendInv
<1>4. CASE \E c \in Conns : peer_close(c)
  BY <1>4, PeerCloseInv
<1>5. CASE Events
  BY <1>5, ProcessEventInv DEF Events
<1>6. CASE ReceiveLoop
  BY <1>6, ProcessConnectionInv, CheckAliveInv, BufferedInv, ReceivedInv,
     WouldBlockInv, DisconnectedInv, ReceiveFailsInv, RearmSocketInv,
     RearmFailsInv
  DEF ReceiveLoop
<1>7. CASE Broadcast
  BY <1>7, BroadcastSkipInv, BroadcastSendInv, BroadcastEndInv DEF Broadcast
<1>8. CASE attach_socket
  BY <1>8, AttachReusedInv, AttachNewInv, AttachCountInv, AttachSubscribeInv,
     AttachFailsInv
  DEF attach_socket
<1>9. CASE \/ refuse \/ set_lobby_id \/ accept_nothing \/ accept_socket
           \/ send_join_lobby_message \/ send_join_lobby_message_fails
           \/ execute_chat
  BY <1>9, RefuseInv, SetIdInv, AcceptNothingInv, AcceptInv, GreetInv,
     GreetFailsInv, ExecuteChatInv
<1> QED
  BY <1>1, <1>2, <1>3, <1>4, <1>5, <1>6, <1>7, <1>8, <1>9 DEF Next, Worker

\* The inductive invariant holds in every reachable state.
LEMMA Invariance == Spec => []IInv
BY InitInv, StepInv, PTL DEF Spec

-----------------------------------------------------------------------------
\* The pool's books balance in every lobby (network_routine.cpp, object_pool.h):
\* every slot issued is in use or, once and empty, in available_slots_; a
\* client the lobby holds sits in exactly one slot, or the worker is about to
\* put it there; and epoll leads to that slot, however many clients come and
\* go and whatever calls fail.
THEOREM BooksBalance == Spec => []LobbyAccounted
<1>1. ASSUME IInv PROVE LobbyAccounted
  <2>0. DOMAIN free = 1 .. Len(free)
    <3>1. free \in Seq(Slots)
      BY <1>1 DEF IInv, TypeOK
    <3> QED
      BY ONLY <3>1
  <2>1. IsInjective(free)
    BY <1>1, <2>0 DEF IInv, Pool, IsInjective
  <2>2. ASSUME NEW s \in 1 .. next_index - 1
        PROVE  (s \in Range(free)) <=> (slots[s] = EmptyEntry)
    <3>1. s \in Slots /\ s < next_index
      BY <1>1, EngineAssumption DEF IInv, TypeOK, Slots
    <3>2. s \in Range(free) <=> \E i \in 1 .. Len(free) : free[i] = s
      BY <2>0 DEF Range
    <3> QED
      BY <1>1, <3>1, <3>2, EmptyOrInUse DEF IInv, Pool
  <2>3. \A c \in Clients : place[c] = "held" =>
            (\E s \in Slots : slots[s].sock = c) \/ c = wrk.ctrl
    BY <1>1 DEF IInv, Held
  <2>4. \A s, t \in Slots :
            slots[s].sock = slots[t].sock /\ slots[s].sock # NoConn => s = t
    BY <1>1 DEF IInv, Held, InUse
  <2>5. \A c \in Conns : epoll[c].slot # NoSlot => slots[epoll[c].slot].sock = c
    BY <1>1 DEF IInv, Registered
  <2> QED
    BY <2>1, <2>2, <2>3, <2>4, <2>5 DEF LobbyAccounted
<1> QED
  BY <1>1, Invariance, PTL

\* What the worker handles was sent by the connection it answers, although
\* slots are reused while tasks for them are queued; and only a message of
\* the server makes the lobby take in a client.
THEOREM NobodySpeaksForAnother == Spec => []ChatOfItsSender
<1>1. ASSUME IInv PROVE ChatOfItsSender
  <2>1. wrk.pc \in {"handle", "attach", "count", "subscribe", "greet"} =>
            Pending \in Conns /\ wrk.msg \in Mail(Pending)
    BY <1>1, LobbyAssumption
    DEF IInv, Work, TypeOK, EntryType, InUse, Pending, Conns
  <2>2. wrk.pc \in {"attach", "count", "subscribe", "greet"} => Pending = Parent
    BY <1>1 DEF IInv, Work
  <2> QED
    BY <2>1, <2>2, MailFields DEF ChatOfItsSender
<1> QED
  BY <1>1, Invariance, PTL

\* The pool asks for another chunk of memory only when every slot it has
\* issued is in use (object_pool.h:31-46), so the chunks a lobby takes are
\* bounded by the clients it has had at once.
THEOREM GrowsOnlyWhenFull == Spec => PoolGrowsOnlyWhenFull
<1> DEFINE Grows == next_index' # next_index =>
                        \A s \in 1 .. next_index - 1 : slots[s] # EmptyEntry
<1>1. ASSUME IInv, [Next]_vars PROVE [Grows]_vars
  <2>1. next_index' = next_index \/ attach_new("TO_CLIENT")
    BY <1>1 DEF Next, Events, Worker, ReceiveLoop, Broadcast, attach_socket,
       server_transfer, server_answers, client_send, peer_close, process_event,
       process_connection, check_alive, get_message_buffered,
       get_message_received, get_message_would_block, get_message_disconnected,
       get_message_fails, rearm_socket, rearm_socket_fails, broadcast_skip,
       broadcast_send, broadcast_end, refuse, set_lobby_id, accept_nothing,
       accept_socket, attach_reused, attach_count, attach_subscribe,
       attach_fails, send_join_lobby_message, send_join_lobby_message_fails,
       execute_chat, vars, engineVars, pool, sizes
  <2> QED
    BY <1>1, <2>1, AttachNewInv
<1> QED
  BY <1>1, Invariance, PTL DEF Spec, PoolGrowsOnlyWhenFull

=============================================================================
