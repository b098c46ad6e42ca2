--------------------------- MODULE HandoverProofs ---------------------------
(***************************************************************************)
(* Proofs about module Handover: the server and a lobby, for any number of *)
(* clients, messages, codes and slots, failing calls, and whatever leaves  *)
(* or dies.                                                                *)
(*                                                                         *)
(* A client reaches the lobby only as the descriptor of a message on the   *)
(* control socket.  The set Came of the clients that were ever sent grows  *)
(* in one step, hand_over; everything the lobby knows of a client, in      *)
(* messages, locals or slots, is in Came.  By then the server has removed  *)
(* the client from epoll, and until its worker lets go of the slot, in a   *)
(* later step, nothing else of the server touches that slot: the client is *)
(* Leaving, and the lobby may run at any speed meanwhile.                  *)
(*                                                                         *)
(* The lobby's id is the first message on the control socket.  As long as  *)
(* the lobby has not read it, it is the next message the lobby will read,  *)
(* so no client is greeted before.                                         *)
(***************************************************************************)
EXTENDS Handover, FiniteSetTheorems, SequenceTheorems, TLAPS

\* The clients that were sent to the lobby, and the codes that lead there.
Came == {c \in Clients : l_place[c] # "new"}
Known == {k \in Codes : lobbies[k].ctrl = Ctl}

FirstCommand == [action |-> "CreateLobby", code |-> 0, from |-> Creator]
Descriptor(c) == [action |-> "AcceptSocket", from |-> Par, socket |-> c]

\* What client c may have sent, and what the server may have sent.
Words(c) ==
    {From(c, m) : m \in Messages} \cup (IF c = Creator THEN {FirstCommand} ELSE {})
ParMail ==
    {L!SetLobbyId(k) : k \in Known} \cup {Descriptor(c) : c \in Came \cup {NoConn}}
        \cup {L!Answer}

AllWords == UNION {Words(c) : c \in Clients}

\* What the peer of c may have sent.
Mail(c) ==
    IF c \in Clients THEN Words(c) ELSE IF c = Ctl THEN {L!Complaint} ELSE {}
LobbyMail(c) == IF c = Par THEN ParMail ELSE AllWords

Letters ==
    {NoMessage} \cup AllWords \cup {L!SetLobbyId(k) : k \in Codes}
        \cup {Descriptor(c) : c \in Clients \cup {NoConn}}
        \cup {L!Complaint, L!Answer}

Points ==
    {"idle", "check", "receive", "handle", "rearm", "attach", "count",
     "subscribe", "enlist", "send_id", "transfer", "send_socket", "let_go",
     "resubscribe", "release_again", "greet", "broadcast"}

Locals ==
    [pc : Points, slot : Slots \cup {NoSlot}, msg : Letters,
     view : Slots \cup {NoSlot}, code : Codes \cup {0}, ctrl : Conns \cup {NoConn},
     index : Nat, count : Nat, audience : SUBSET (Conns \cup {NoConn})]

EntryType ==
    [type : {"NONE", "TO_CLIENT", "TO_LOBBY", "TO_PARENT"},
     sock : Conns \cup {NoConn}, status : {"EMPTY", "ALIVE"}]

Watch == [slot : Slots \cup {NoSlot}, armed : BOOLEAN]

Places == {"new", "backlog", "held", "gone", "moved"}

-----------------------------------------------------------------------------
(* The server                                                              *)

InUse(s) == slots[s].sock # NoConn
InHand == wrk.pc \notin {"idle", "check", "broadcast", "release_again"}
Answering == InHand /\ wrk.pc \notin {"receive", "rearm", "resubscribe"}
Creating == wrk.pc \in {"attach", "count", "subscribe", "enlist", "send_id"}
NoLobbyYet == \A k \in Codes : lobbies[k] = NoLobby
Vacant ==
    /\ \A i \in 1 .. Len(free) : ~InUse(free[i])
    /\ \A s \in Slots : s >= next_index => ~InUse(s)

PoolTypes ==
    /\ slots \in [Slots -> EntryType]
    /\ buffer \in [Slots -> Seq(Letters)]
    /\ free \in Seq(Slots)
    /\ next_index \in 1 .. MaxSlots + 1
    /\ counter \in Nat /\ counter <= next_index
    /\ epoll \in [Conns -> Watch]
    /\ tasks \in Seq(Slots)
    /\ place \in [Conns -> Places]
    /\ lobbies \in [Codes -> {NoLobby} \cup [slot : Slots, ctrl : {Ctl}]]

\* No client connects any more: the network thread only reports events.
Quiet ==
    /\ net = IdleNet
    /\ \A c \in Clients : place[c] # "backlog"
    /\ place[Par] = "moved"

\* The server's slots hold open connections, each once, and what their peers
\* have sent.
Homes ==
    /\ \A s \in Slots : InUse(s) => place[slots[s].sock] = "held"
    /\ \A s, t \in Slots : slots[s].sock = slots[t].sock /\ InUse(s) => s = t
    /\ \A s \in Slots : ~InUse(s) => slots[s] = EmptyEntry
    /\ \A s \in Slots : buffer[s] \in Seq(Mail(slots[s].sock))

\* Epoll leads to the slot of the socket, and reports only sockets it has.
Registered ==
    \A c \in Conns :
        /\ epoll[c].slot # NoSlot => slots[epoll[c].slot].sock = c
        /\ epoll[c].armed => epoll[c].slot # NoSlot

\* The lobby is started once.  Until then the free slots are empty; later no
\* slot is filled again, and the queue may hold one twice.  The lobby's code
\* leads to its slot or, when that is released, to an empty one.
Control ==
    /\ place[Ctl] = "new" => NoLobbyYet /\ Vacant
    /\ \A k \in Codes : lobbies[k] # NoLobby =>
           slots[lobbies[k].slot].sock \in {Ctl, NoConn}

PoolInv == PoolTypes /\ Quiet /\ Homes /\ Registered /\ Control

\* What the locals of the server's worker mean.
Work ==
    /\ wrk \in Locals
    /\ wrk.pc # "greet"
    /\ wrk.pc # "idle" => wrk.slot \in Slots
    /\ InHand => InUse(wrk.slot)
    /\ Answering => wrk.msg \in Mail(Pending)
    /\ Answering /\ wrk.pc # "handle" => Pending \in Clients
    /\ Creating =>
           wrk.ctrl = Ctl /\ place[Ctl] # "new" /\ maker = wrk.msg.from
    /\ Creating /\ wrk.pc # "send_id" => NoLobbyYet
    /\ wrk.pc = "attach" =>
           /\ place[Ctl] = "held"
           /\ \A s \in Slots : slots[s].sock # Ctl
           /\ Vacant
    /\ Creating /\ wrk.pc # "attach" =>
           wrk.view \in Slots /\ slots[wrk.view].sock = Ctl
    /\ wrk.pc = "count" => wrk.count < next_index
    /\ wrk.pc \in {"send_id", "transfer", "send_socket", "resubscribe"} =>
           wrk.code \in Known
    /\ wrk.pc \in {"transfer", "send_socket"} =>
           wrk.view \in Slots /\ slots[wrk.view].sock \in {Ctl, NoConn}
    /\ wrk.pc \in {"send_socket", "let_go"} => epoll[Pending] = Absent
    /\ wrk.pc = "let_go" => wrk.ctrl = Ctl
    /\ wrk.pc = "broadcast" => wrk.index >= 1

-----------------------------------------------------------------------------
(* The lobby                                                               *)

LPending == l_slots[l_wrk.slot].sock
Attaching == l_wrk.pc \in {"attach", "count", "subscribe", "greet"}

LobbyTypes ==
    /\ l_slots \in [Slots -> EntryType]
    /\ l_buffer \in [Slots -> Seq(Letters)]
    /\ l_free \in Seq(Slots)
    /\ l_next_index \in 2 .. MaxSlots + 1
    /\ l_counter \in Nat /\ l_counter <= l_next_index
    /\ l_epoll \in [Conns -> Watch]
    /\ l_tasks \in Seq(Slots)
    /\ l_place \in [Conns -> Places]

\* The control socket is in the first slot, until that is free; the others
\* hold clients that were sent.  Only the server's messages bring a client or
\* an id.
LobbyHomes ==
    /\ \A s \in Slots : l_slots[s].sock \in Came \cup {Par, NoConn}
    /\ \A s \in Slots : l_slots[s].sock = Par => s = 1
    /\ \A s \in Slots : l_buffer[s] \in Seq(LobbyMail(l_slots[s].sock))
    /\ \A i \in 1 .. Len(l_free) : l_slots[l_free[i]].sock # Par
    /\ \A c \in Conns : l_epoll[c].armed => l_epoll[c].slot # NoSlot

LobbyWork ==
    /\ l_wrk \in Locals
    /\ l_wrk.pc # "idle" => l_wrk.slot \in Slots
    /\ l_wrk.pc = "handle" => l_wrk.msg \in LobbyMail(LPending)
    /\ l_wrk.pc = "attach" => l_wrk.ctrl \in Came
    /\ Attaching /\ l_wrk.pc # "attach" => l_wrk.view \in Slots
    /\ l_wrk.pc = "count" => l_wrk.count < l_next_index
    /\ l_wrk.pc = "broadcast" => l_wrk.index >= 1

LobbyInv == LobbyTypes /\ LobbyHomes /\ LobbyWork

-----------------------------------------------------------------------------
(* Both                                                                    *)

\* What is on its way over a connection was sent by its peer.
Post ==
    /\ inbox \in [Conns -> Seq(Letters)]
    /\ \A c \in Conns : c # Par => inbox[c] \in Seq(Mail(c))
    /\ inbox[Par] \in Seq(ParMail)

\* Who was sent to the lobby has left the server or is about to.
Leaving(c) == wrk.pc = "let_go" /\ Pending = c
Moved == \A c \in Came : place[c] = "moved" \/ Leaving(c)

\* Until the lobby has a code, only the handler that creates it has a slot
\* for its control socket: it cannot be heard yet.
Owned == NoLobbyYet /\ ~Creating => \A s \in Slots : slots[s].sock # Ctl

\* The id is not on its way yet; the maker knows that it never will be; the
\* lobby has it.
Unsent == NoLobbyYet \/ wrk.pc = "send_id"
Excused == maker \in told
Named == lobby_id \in Known

\* Nothing was sent before the id.
Silent ==
    Unsent =>
        /\ inbox[Par] = <<>>
        /\ \A s \in Slots : l_slots[s].sock = Par => l_buffer[s] = <<>>
        /\ ~Attaching
        /\ l_wrk.pc = "handle" => LPending # Par
        /\ greeted = {}

\* The next message of the server that the lobby will handle is its id.
IsId(m) == m.action = "SetLobbyId"
NextIsId(s) ==
    IF l_wrk.pc = "handle" /\ l_wrk.slot = s THEN IsId(l_wrk.msg)
    ELSE IF l_buffer[s] # <<>> THEN IsId(Head(l_buffer[s]))
    ELSE inbox[Par] # <<>> /\ IsId(Head(inbox[Par]))

IdFirst ==
    \/ Unsent \/ Excused \/ Named
    \/ /\ ~Attaching
       /\ \A s \in Slots : l_slots[s].sock = Par => NextIsId(s)

GreetedWell == \A g \in greeted : Excused \/ g.code \in Known

Joint == Moved /\ Owned /\ Silent /\ IdFirst /\ GreetedWell

\* The inductive invariant.
IInv == PoolInv /\ Work /\ LobbyInv /\ Post /\ Joint

-----------------------------------------------------------------------------
(* Names, messages and sequences                                           *)

\* The names of connections and slots.
LEMMA Names ==
    /\ Ctl \in Conns /\ Par \in Conns /\ Ctl # Par
    /\ Ctl \notin Clients /\ Par \notin Clients
    /\ Clients \subseteq Conns
    /\ \A c \in Conns : c \in Clients \/ c = Ctl \/ c = Par
    /\ NoConn \notin Conns /\ NoConn # Ctl /\ NoConn # Par /\ NoConn \notin Clients
    /\ Controls = {Ctl, Par}
    /\ NoSlot \notin Slots /\ 1 \in Slots /\ Slots \subseteq Nat
    /\ MaxSlots \in Nat /\ MaxSlots >= 1
<1>1. Controls = {Ctl, Par} /\ Ctl # Par /\ MaxSlots \in Nat /\ MaxSlots >= 1
  BY EngineAssumption, HandoverAssumption
<1>2. Clients \cap Controls = {} /\ NoConn \notin Conns
  BY EngineAssumption
<1> QED
  BY <1>1, <1>2 DEF Conns, Slots, NoSlot

\* The lobby's module uses the same names.
LEMMA LobbyNames ==
    /\ L!Conns = Conns /\ L!Slots = Slots /\ L!NoSlot = NoSlot
    /\ L!EmptyEntry = EmptyEntry /\ L!Absent = Absent
    /\ L!NoMessage = NoMessage /\ L!IdleWorker = IdleWorker
  BY DEF L!Conns, L!Slots, L!NoSlot, L!EmptyEntry, L!Absent, L!NoMessage,
         L!IdleWorker, Conns, Slots, NoSlot, EmptyEntry, Absent, NoMessage,
         IdleWorker

\* A complaint is a general command of the lobby; the answer to it brings
\* neither a client nor an id.
LEMMA ComplaintFields ==
    /\ L!Complaint.action = "GeneralAction"
    /\ L!Answer.action = "PrintMessage"
    /\ L!Complaint \in Letters /\ L!Answer \in Letters
    /\ L!Answer \in ParMail
    /\ Mail(Ctl) = {L!Complaint}
<1>1. L!Complaint.action = "GeneralAction" /\ L!Answer.action = "PrintMessage"
  BY DEF L!Complaint, L!Answer
<1> QED
  BY <1>1, Names DEF Letters, ParMail, Mail

\* A client's message names its sender and brings neither client nor id.
LEMMA WordFields ==
    ASSUME NEW c \in Clients, NEW m \in Words(c)
    PROVE  /\ m.from = c
           /\ m.action \notin {"AcceptSocket", "SetLobbyId"}
           /\ m \in AllWords /\ m \in Letters
<1>1. m \in AllWords /\ m \in Letters
  BY DEF AllWords, Letters
<1>2. CASE m \in {From(c, n) : n \in Messages}
  <2>1. PICK n \in Messages : m = From(c, n)
    BY <1>2
  <2>2. "action" \in DOMAIN n /\ n.action \notin {"AcceptSocket", "SetLobbyId"}
    BY ClientMessages
  <2>3. m.from = c /\ m.action = n.action
    BY <2>1, <2>2 DEF From
  <2> QED
    BY <1>1, <2>2, <2>3
<1>3. CASE c = Creator /\ m = FirstCommand
  BY <1>1, <1>3 DEF FirstCommand
<1> QED
  BY <1>2, <1>3 DEF Words

LEMMA AnyWordFields ==
    ASSUME NEW m \in AllWords
    PROVE  m.action \notin {"AcceptSocket", "SetLobbyId"} /\ m \in Letters
<1>1. PICK c \in Clients : m \in Words(c)
  BY DEF AllWords
<1> QED
  BY <1>1, WordFields

\* The server's messages to the lobby: an id, a client that was sent, or an
\* answer.
LEMMA ParMailFields ==
    ASSUME NEW m \in ParMail
    PROVE  /\ m \in Letters
           /\ m.action = "SetLobbyId" => m.code \in Known
           /\ m.action = "AcceptSocket" => m.socket \in Came \cup {NoConn}
<1>1. CASE \E k \in Known : m = L!SetLobbyId(k)
  BY <1>1 DEF L!SetLobbyId, Letters, Known
<1>2. CASE \E c \in Came \cup {NoConn} : m = Descriptor(c)
  BY <1>2 DEF Descriptor, Letters, Came
<1>3. CASE m = L!Answer
  BY <1>3, ComplaintFields
<1> QED
  BY <1>1, <1>2, <1>3 DEF ParMail

\* What is received is a part of what was sent.
LEMMA SeqParts ==
    ASSUME NEW S, NEW q \in Seq(S), NEW n \in 1 .. Len(q)
    PROVE  /\ Head(q) \in S
           /\ SubSeq(q, 2, n) \in Seq(S)
           /\ SubSeq(q, n + 1, Len(q)) \in Seq(S)
<1>1. q # <<>> /\ Len(q) \in Nat /\ n \in Nat
  OBVIOUS
<1>2. Head(q) \in S
  BY <1>1
<1>3. SubSeq(q, 2, n) \in Seq(S)
  BY <1>1, \A i \in 2 .. n : q[i] \in S
<1>4. SubSeq(q, n + 1, Len(q)) \in Seq(S)
  BY <1>1, \A i \in n + 1 .. Len(q) : q[i] \in S
<1> QED
  BY <1>2, <1>3, <1>4

LEMMA SeqTail ==
    ASSUME NEW S, NEW q \in Seq(S), q # <<>>
    PROVE  Head(q) \in S /\ Tail(q) \in Seq(S)
  OBVIOUS

LEMMA IdleTyped ==
    /\ IdleWorker \in Locals
    /\ IdleWorker.pc = "idle"
<1>1. NoMessage \in Letters
  BY DEF Letters
<1> QED
  BY <1>1 DEF IdleWorker, Locals, Points


-----------------------------------------------------------------------------
(* The server's pool                                                       *)

LEMMA PoolKept ==
    ASSUME PoolInv,
           UNCHANGED <<slots, buffer, free, next_index, counter, epoll, tasks,
                       net, place, lobbies>>
    PROVE  PoolInv'
<1>1. PoolTypes' /\ Quiet'
  BY DEF PoolInv, PoolTypes, Quiet
<1>2. Homes' /\ Registered'
  BY DEF PoolInv, Homes, Registered, InUse
<1>3. Control'
  BY DEF PoolInv, Control, NoLobbyYet, Vacant, InUse
<1> QED
  BY <1>1, <1>2, <1>3 DEF PoolInv

\* A slot holds a connection that is not one of the lobby's end, or none.
LEMMA SlotFacts ==
    ASSUME PoolInv, NEW s \in Slots
    PROVE  /\ slots[s].sock \in Clients \cup {Ctl, NoConn}
           /\ InUse(s) => slots[s].sock \in Conns /\ place[slots[s].sock] = "held"
           /\ ~InUse(s) => slots[s].status = "EMPTY" /\ slots[s].type = "NONE"
           /\ ~InUse(s) => buffer[s] = <<>>
<1>1. slots[s].sock \in Conns \cup {NoConn}
  BY DEF PoolInv, PoolTypes, EntryType
<1>2. InUse(s) => slots[s].sock # Par
  BY DEF PoolInv, Homes, Quiet
<1>3. InUse(s) => place[slots[s].sock] = "held"
  BY DEF PoolInv, Homes
<1>4. ~InUse(s) => slots[s].status = "EMPTY" /\ slots[s].type = "NONE"
  BY DEF PoolInv, Homes, EmptyEntry
<1>5. ~InUse(s) => buffer[s] = <<>>
  <2> SUFFICES ASSUME ~InUse(s) PROVE buffer[s] = <<>>
    OBVIOUS
  <2>1. buffer[s] \in Seq({})
    BY Names DEF PoolInv, Homes, Mail, InUse
  <2> QED
    BY <2>1
<1> QED
  BY <1>1, <1>2, <1>3, <1>4, <1>5, Names DEF InUse

\* Slot s is released: by release_connection, or by let_go.
Releasing(s) ==
    /\ slots' = [t \in Slots |-> IF t = s THEN EmptyEntry ELSE slots[t]]
    /\ buffer' = [t \in Slots |-> IF t = s THEN <<>> ELSE buffer[t]]
    /\ epoll' \in [Conns -> Watch]
    /\ \A c \in Conns :
           IF c = slots[s].sock THEN epoll'[c] = Absent
           ELSE epoll'[c] \in {epoll[c], Absent}
    /\ place' \in [Conns -> Places]
    /\ \A c \in Conns :
           IF c = slots[s].sock THEN place'[c] \in {"gone", "moved"}
           ELSE place'[c] = place[c]
    /\ free' \in Seq(Slots)
    /\ \A i \in 1 .. Len(free') :
           free'[i] = s \/ \E j \in 1 .. Len(free) : free'[i] = free[j]
    /\ UNCHANGED <<next_index, counter, tasks, net, lobbies>>

LEMMA PoolReleased ==
    ASSUME PoolInv, NEW s \in Slots, Releasing(s)
    PROVE  /\ PoolInv'
           /\ \A c \in Conns : place[c] = "moved" => place'[c] = "moved"
           /\ \A t \in Slots : slots'[t] = IF t = s THEN EmptyEntry ELSE slots[t]
<1> DEFINE d == slots[s].sock
<1>1. \A t \in Slots : /\ slots'[t] = IF t = s THEN EmptyEntry ELSE slots[t]
                       /\ buffer'[t] = IF t = s THEN <<>> ELSE buffer[t]
  BY DEF Releasing
<1>2. \A t \in Slots : InUse(t)' <=> InUse(t) /\ t # s
  BY <1>1 DEF InUse, EmptyEntry
<1>3. InUse(s) => d \in Conns /\ place[d] = "held"
  BY SlotFacts
<1>4. \A c \in Conns : c = d => InUse(s)
  BY Names DEF InUse
<1>5. \A c \in Conns : place[c] # "held" => place'[c] = place[c]
  BY <1>3, <1>4 DEF Releasing
<1>6. PoolTypes'
  <2>1. slots' \in [Slots -> EntryType]
    <3>1. EmptyEntry \in EntryType /\ slots \in [Slots -> EntryType]
      BY DEF EmptyEntry, EntryType, PoolInv, PoolTypes
    <3> QED
      BY <3>1 DEF Releasing
  <2>2. buffer' \in [Slots -> Seq(Letters)]
    <3>1. <<>> \in Seq(Letters) /\ buffer \in [Slots -> Seq(Letters)]
      BY DEF PoolInv, PoolTypes
    <3> QED
      BY <3>1 DEF Releasing
  <2> QED
    BY <2>1, <2>2 DEF Releasing, PoolInv, PoolTypes
<1>7. Quiet'
  BY <1>3, <1>4, <1>5, Names DEF PoolInv, Quiet, Releasing
<1>8. Homes'
  <2>1. \A t \in Slots : InUse(t)' => place'[slots'[t].sock] = "held"
    <3> SUFFICES ASSUME NEW t \in Slots, InUse(t)'
                 PROVE  place'[slots'[t].sock] = "held"
      OBVIOUS
    <3>1. InUse(t) /\ t # s /\ slots'[t] = slots[t]
      BY <1>1, <1>2
    <3>2. slots[t].sock # d /\ slots[t].sock \in Conns /\ place[slots[t].sock] = "held"
      BY <3>1, SlotFacts DEF PoolInv, Homes
    <3> QED
      BY <3>1, <3>2 DEF Releasing
  <2>2. \A t, u \in Slots : slots'[t].sock = slots'[u].sock /\ InUse(t)' => t = u
    BY <1>1, <1>2 DEF PoolInv, Homes, InUse, EmptyEntry
  <2>3. \A t \in Slots : ~InUse(t)' => slots'[t] = EmptyEntry
    BY <1>1, <1>2 DEF PoolInv, Homes
  <2>4. \A t \in Slots : buffer'[t] \in Seq(Mail(slots'[t].sock))
    <3>1. <<>> \in Seq(Mail(EmptyEntry.sock))
      OBVIOUS
    <3> QED
      BY <1>1, <3>1 DEF PoolInv, Homes
  <2> QED
    BY <2>1, <2>2, <2>3, <2>4 DEF Homes, InUse
<1>9. Registered'
  <2> SUFFICES ASSUME NEW c \in Conns
               PROVE  /\ epoll'[c].slot # NoSlot => slots'[epoll'[c].slot].sock = c
                      /\ epoll'[c].armed => epoll'[c].slot # NoSlot
    BY DEF Registered
  <2>1. CASE epoll'[c] = Absent
    BY <2>1 DEF Absent
  <2>2. CASE epoll'[c] = epoll[c] /\ c # d
    <3>1. epoll[c].slot \in Slots \cup {NoSlot}
      BY DEF PoolInv, PoolTypes, Watch
    <3>2. epoll[c].slot # NoSlot => slots[epoll[c].slot].sock = c
      BY DEF PoolInv, Registered
    <3>3. epoll[c].armed => epoll[c].slot # NoSlot
      BY DEF PoolInv, Registered
    <3> QED
      BY <2>2, <3>1, <3>2, <3>3, <1>1
  <2> QED
    BY <2>1, <2>2 DEF Releasing
<1>10. Control'
  <2>1. place'[Ctl] = "new" => place[Ctl] = "new"
    BY <1>3, <1>4, Names DEF Releasing
  <2>2. NoLobbyYet' <=> NoLobbyYet
    BY DEF NoLobbyYet, Releasing
  <2>3. Vacant => Vacant'
    <3> SUFFICES ASSUME Vacant PROVE Vacant'
      OBVIOUS
    <3>1. ASSUME NEW i \in 1 .. Len(free') PROVE ~InUse(free[i])'
      <4>1. free'[i] \in Slots
        BY DEF Releasing
      <4>2. CASE free'[i] = s
        BY <1>2, <4>1, <4>2 DEF InUse
      <4>3. CASE \E j \in 1 .. Len(free) : free'[i] = free[j]
        BY <1>2, <4>1, <4>3 DEF InUse, Vacant
      <4> QED
        BY <4>2, <4>3 DEF Releasing
    <3>2. \A t \in Slots : t >= next_index' => ~InUse(t)'
      BY <1>2 DEF Vacant, Releasing
    <3> QED
      BY <3>1, <3>2 DEF Vacant
  <2>4. \A k \in Codes : lobbies'[k] # NoLobby =>
            slots'[lobbies'[k].slot].sock \in {Ctl, NoConn}
    <3> SUFFICES ASSUME NEW k \in Codes, lobbies[k] # NoLobby
                 PROVE  slots'[lobbies[k].slot].sock \in {Ctl, NoConn}
      BY DEF Releasing
    <3>1. lobbies[k].slot \in Slots
      BY DEF PoolInv, PoolTypes
    <3>2. slots[lobbies[k].slot].sock \in {Ctl, NoConn}
      BY DEF PoolInv, Control
    <3> QED
      BY <1>1, <3>1, <3>2 DEF EmptyEntry
  <2> QED
    BY <2>1, <2>2, <2>3, <2>4 DEF PoolInv, Control
<1> QED
  BY <1>1, <1>5, <1>6, <1>7, <1>8, <1>9, <1>10 DEF PoolInv

\* What is left without slot s.
LEMMA ReleaseEffect ==
    ASSUME NEW s \in Slots
    PROVE  /\ SlotsWithout(<<s>>) =
                  [t \in Slots |-> IF t = s THEN EmptyEntry ELSE slots[t]]
           /\ BufferWithout(<<s>>) =
                  [t \in Slots |-> IF t = s THEN <<>> ELSE buffer[t]]
           /\ EpollWithout(<<s>>) =
                  [c \in Conns |-> IF c = slots[s].sock THEN Absent ELSE epoll[c]]
           /\ PlaceWithout(<<s>>) =
                  [c \in Conns |-> IF c = slots[s].sock THEN "gone" ELSE place[c]]
<1>1. \A t : t \in Range(<<s>>) <=> t = s
  BY DEF Range
<1>2. \A c \in Conns : c \in SocketsOf(<<s>>) <=> c = slots[s].sock
  BY <1>1, Names DEF SocketsOf
<1>3. SlotsWithout(<<s>>) = [t \in Slots |-> IF t = s THEN EmptyEntry ELSE slots[t]]
  BY <1>1 DEF SlotsWithout
<1>4. BufferWithout(<<s>>) = [t \in Slots |-> IF t = s THEN <<>> ELSE buffer[t]]
  BY <1>1 DEF BufferWithout
<1>5. EpollWithout(<<s>>) =
          [c \in Conns |-> IF c = slots[s].sock THEN Absent ELSE epoll[c]]
  BY <1>2 DEF EpollWithout
<1>6. PlaceWithout(<<s>>) =
          [c \in Conns |-> IF c = slots[s].sock THEN "gone" ELSE place[c]]
  BY <1>2 DEF PlaceWithout
<1> QED
  BY <1>3, <1>4, <1>5, <1>6

\* Slot s is pushed to the free slots, or the push is refused.
GivenBack(s) == free' = Append(free, s) \/ free' = free

LEMMA GiveBackEffect ==
    ASSUME PoolInv, NEW s \in Slots, GivenBack(s)
    PROVE  /\ free' \in Seq(Slots)
           /\ \A i \in 1 .. Len(free') :
                  free'[i] = s \/ \E j \in 1 .. Len(free) : free'[i] = free[j]
<1>1. free \in Seq(Slots)
  BY DEF PoolInv, PoolTypes
<1>2. CASE free' = Append(free, s)
  <2>1. free' \in Seq(Slots) /\ Len(free') = Len(free) + 1 /\ Len(free) \in Nat
    BY <1>1, <1>2
  <2>2. free'[Len(free) + 1] = s /\ \A i \in 1 .. Len(free) : free'[i] = free[i]
    BY <1>1, <1>2
  <2>3. \A i \in 1 .. Len(free') : i \in 1 .. Len(free) \/ i = Len(free) + 1
    BY <2>1
  <2> QED
    BY <2>1, <2>2, <2>3
<1>3. CASE free' = free
  BY <1>1, <1>3
<1> QED
  BY <1>2, <1>3 DEF GivenBack

\* release_connection of one slot.
LEMMA PoolRelease ==
    ASSUME PoolInv, NEW s \in Slots, release_connection(s, NetworkTook),
           UNCHANGED <<next_index, counter, tasks, net, lobbies>>
    PROVE  /\ PoolInv'
           /\ \A c \in Conns : place[c] = "moved" => place'[c] = "moved"
           /\ \A t \in Slots : slots'[t] = IF t = s THEN EmptyEntry ELSE slots[t]
<1>1. Absent \in Watch /\ "gone" \in Places
  BY DEF Absent, Watch, Places
<1>2. epoll \in [Conns -> Watch] /\ place \in [Conns -> Places]
  BY DEF PoolInv, PoolTypes
<1>3. GivenBack(s)
  BY DEF release_connection, give_back, GivenBack
<1>4. /\ slots' = [t \in Slots |-> IF t = s THEN EmptyEntry ELSE slots[t]]
      /\ buffer' = [t \in Slots |-> IF t = s THEN <<>> ELSE buffer[t]]
      /\ epoll' = [c \in Conns |-> IF c = slots[s].sock THEN Absent ELSE epoll[c]]
      /\ place' = [c \in Conns |-> IF c = slots[s].sock THEN "gone" ELSE place[c]]
  BY ReleaseEffect DEF release_connection
<1>5. epoll' \in [Conns -> Watch] /\ place' \in [Conns -> Places]
  BY <1>1, <1>2, <1>4
<1>6. Releasing(s)
  BY <1>3, <1>4, <1>5, GiveBackEffect DEF Releasing
<1> QED
  BY <1>6, PoolReleased

\* A socket is removed from epoll.
LEMMA PoolUnwatched ==
    ASSUME PoolInv, epoll' \in [Conns -> Watch],
           \A c \in Conns : epoll'[c] \in {epoll[c], Absent},
           UNCHANGED <<slots, buffer, free, next_index, counter, tasks, net,
                       place, lobbies>>
    PROVE  PoolInv'
<1>1. PoolTypes' /\ Quiet' /\ Homes'
  BY DEF PoolInv, PoolTypes, Quiet, Homes, InUse
<1>2. Registered'
  BY DEF PoolInv, Registered, Absent
<1>3. Control'
  BY DEF PoolInv, Control, NoLobbyYet, Vacant, InUse
<1> QED
  BY <1>1, <1>2, <1>3 DEF PoolInv

\* The socket of slot s is subscribed, or subscribed again.
LEMMA PoolArmed ==
    ASSUME PoolInv, NEW s \in Slots, InUse(s),
           epoll' = [epoll EXCEPT ![slots[s].sock] = Armed(s)],
           UNCHANGED <<slots, buffer, free, next_index, counter, tasks, net,
                       place, lobbies>>
    PROVE  PoolInv'
<1>1. slots[s].sock \in Conns /\ Armed(s) \in Watch
  BY SlotFacts DEF Armed, Watch
<1>2. epoll' \in [Conns -> Watch]
  BY <1>1 DEF PoolInv, PoolTypes
<1>3. PoolTypes' /\ Quiet'
  BY <1>2 DEF PoolInv, PoolTypes, Quiet
<1>4. Homes'
  BY DEF PoolInv, Homes, InUse
<1>5. Registered'
  <2>1. Armed(s).slot = s /\ s # NoSlot
    BY Names DEF Armed
  <2>2. \A c \in Conns : epoll'[c] = IF c = slots[s].sock THEN Armed(s) ELSE epoll[c]
    BY <1>1 DEF PoolInv, PoolTypes
  <2> QED
    BY <2>1, <2>2 DEF PoolInv, Registered
<1>6. Control'
  BY DEF PoolInv, Control, NoLobbyYet, Vacant, InUse
<1> QED
  BY <1>3, <1>4, <1>5, <1>6 DEF PoolInv


-----------------------------------------------------------------------------
(* Steps of the server: what they leave alone                              *)

\* The server's worker goes back to the loop or returns.
LEMMA WorkRests ==
    ASSUME Work, wrk.pc # "idle", wrk' = Return \/ wrk' = Continue
    PROVE  Work' /\ wrk'.pc \in {"idle", "check"}
<1>1. wrk.slot \in Slots /\ IdleWorker \in Locals
  BY IdleTyped DEF Work
<1>2. CASE wrk' = Return
  BY <1>1, <1>2, IdleTyped DEF Return, Work, InHand, Answering, Creating
<1>3. CASE wrk' = Continue
  <2>1. wrk' \in Locals /\ wrk'.pc = "check" /\ wrk'.slot \in Slots
    BY <1>1, <1>3 DEF Continue, Locals, Points
  <2> QED
    BY <2>1 DEF Work, InHand, Answering, Creating
<1> QED
  BY <1>2, <1>3

\* A step of the server that the lobby does not notice.
Calm ==
    /\ lobbies' = lobbies
    /\ maker' = maker
    /\ told \subseteq told'
    /\ \/ inbox'[Par] = inbox[Par]
       \/ /\ ~NoLobbyYet /\ wrk.pc # "send_id"
          /\ inbox[Par] # <<>> =>
                 inbox'[Par] # <<>> /\ Head(inbox'[Par]) = Head(inbox[Par])
    /\ wrk'.pc = "send_id" <=> wrk.pc = "send_id"
    /\ \A c \in Conns : place[c] = "moved" => place'[c] = "moved"
    /\ wrk.pc = "let_go" => place'[Pending] = "moved" \/ UNCHANGED <<wrk, slots>>
    /\ Owned => Owned'
    /\ UNCHANGED lobbyProcess

\* No slot gets the control socket, and the creating handler goes on.
LEMMA OwnedKept ==
    ASSUME lobbies' = lobbies, Creating => Creating',
           \A s \in Slots : slots'[s].sock = Ctl => slots[s].sock = Ctl
    PROVE  Owned => Owned'
  BY DEF Owned, NoLobbyYet

LEMMA CalmSets ==
    ASSUME lobbies' = lobbies, UNCHANGED lobbyProcess
    PROVE  Came' = Came /\ Known' = Known /\ ParMail' = ParMail
<1>1. Came' = Came /\ Known' = Known
  BY DEF Came, Known, lobbyProcess
<1> QED
  BY <1>1 DEF ParMail, L!SetLobbyId, L!Answer

LEMMA CalmLobby ==
    ASSUME LobbyInv, lobbies' = lobbies, UNCHANGED lobbyProcess
    PROVE  LobbyInv'
<1>1. /\ l_slots' = l_slots /\ l_buffer' = l_buffer /\ l_free' = l_free
      /\ l_next_index' = l_next_index /\ l_counter' = l_counter
      /\ l_epoll' = l_epoll /\ l_tasks' = l_tasks /\ l_place' = l_place
      /\ l_wrk' = l_wrk
  BY DEF lobbyProcess
<1>2. Came' = Came /\ \A c : LobbyMail(c)' = LobbyMail(c)
  BY CalmSets DEF LobbyMail
<1>3. LobbyTypes'
  BY <1>1 DEF LobbyInv, LobbyTypes
<1>4. LobbyHomes'
  BY <1>1, <1>2 DEF LobbyInv, LobbyHomes
<1>5. LobbyWork'
  BY <1>1, <1>2 DEF LobbyInv, LobbyWork, LPending, Attaching
<1> QED
  BY <1>3, <1>4, <1>5 DEF LobbyInv

LEMMA CalmJoint ==
    ASSUME Joint, Calm
    PROVE  Joint'
<1>1. /\ l_slots' = l_slots /\ l_buffer' = l_buffer /\ l_wrk' = l_wrk
      /\ lobby_id' = lobby_id /\ greeted' = greeted
  BY DEF Calm, lobbyProcess
<1>2. Came' = Came /\ Known' = Known
  BY CalmSets DEF Calm
<1>3. (Unsent' <=> Unsent) /\ (Excused => Excused') /\ (Named' <=> Named)
  BY <1>1, <1>2 DEF Calm, Unsent, NoLobbyYet, Excused, Named
<1>4. Moved'
  BY <1>2, Names DEF Calm, Joint, Moved, Came, Leaving, Pending
<1>5. Silent'
  BY <1>1, <1>3 DEF Calm, Joint, Silent, Attaching, LPending, Unsent
<1>6. IdFirst'
  <2>1. ~Unsent => \A s \in Slots : NextIsId(s) => NextIsId(s)'
    BY <1>1 DEF Calm, NextIsId, IsId, Unsent
  <2> QED
    BY <1>1, <1>3, <2>1 DEF Joint, IdFirst, Attaching
<1>7. GreetedWell'
  BY <1>1, <1>2, <1>3 DEF Joint, GreetedWell
<1>8. Owned'
  BY DEF Joint, Calm
<1> QED
  BY <1>4, <1>5, <1>6, <1>7, <1>8 DEF Joint

LEMMA CalmStep ==
    ASSUME IInv, PoolInv', Work', Calm, inbox' = inbox
    PROVE  IInv'
<1>1. LobbyInv' /\ Joint'
  BY CalmLobby, CalmJoint DEF IInv, Calm
<1>2. Post'
  BY CalmSets DEF IInv, Calm, Post
<1> QED
  BY <1>1, <1>2 DEF IInv

\* The worker is done with a handler or a read that has changed no slot ...
LEMMA RestStep ==
    ASSUME IInv, wrk.pc \notin {"idle", "let_go"}, ~Creating,
           wrk' = Return \/ wrk' = Continue,
           UNCHANGED <<pool, epoll, tasks, net, place, lobbies, inbox, maker,
                       lobbyProcess>>,
           told \subseteq told'
    PROVE  IInv'
<1>1. PoolInv'
  BY PoolKept DEF IInv, pool, entries, sizes
<1>2. Work' /\ wrk'.pc # "send_id"
  BY WorkRests DEF IInv
<1>3. Owned => Owned'
  BY OwnedKept DEF pool, entries
<1>4. Calm
  BY <1>2, <1>3 DEF Calm, Creating
<1> QED
  BY <1>1, <1>2, <1>4, CalmStep

\* ... or has released one.
LEMMA ReleaseStep ==
    ASSUME IInv, wrk.pc \notin {"idle", "send_id", "let_go"},
           wrk' = Return \/ wrk' = Continue,
           NEW s \in Slots, release_connection(s, NetworkTook),
           Creating => slots[s].sock = Ctl,
           UNCHANGED <<sizes, tasks, net, lobbies, inbox, maker, lobbyProcess>>,
           told \subseteq told'
    PROVE  IInv'
<1>1. /\ PoolInv'
      /\ \A c \in Conns : place[c] = "moved" => place'[c] = "moved"
      /\ \A t \in Slots : slots'[t] = IF t = s THEN EmptyEntry ELSE slots[t]
  BY PoolRelease DEF IInv, sizes
<1>2. Work' /\ wrk'.pc # "send_id"
  BY WorkRests DEF IInv
<1>3. \A t \in Slots : slots'[t].sock = Ctl => slots[t].sock = Ctl /\ t # s
  BY <1>1, Names DEF EmptyEntry
<1>4. Owned => Owned'
  <2>1. CASE Creating
    <3>1. \A t \in Slots : slots'[t].sock # Ctl
      BY <1>3, <2>1, Names DEF IInv, PoolInv, Homes, InUse
    <3> QED
      BY <3>1 DEF Owned
  <2>2. CASE ~Creating
    BY <1>3, <2>2, OwnedKept
  <2> QED
    BY <2>1, <2>2
<1>5. Calm
  BY <1>1, <1>2, <1>4 DEF Calm
<1> QED
  BY <1>1, <1>2, <1>5, CalmStep

\* Nobody outside the server's worker does anything to its pool or locals.
LEMMA WorkKept ==
    ASSUME Work, UNCHANGED <<slots, free, next_index, wrk, place, lobbies, maker>>,
           \A c \in Conns : epoll[c] = Absent => epoll'[c] = Absent
    PROVE  Work'
<1>1. Known' = Known
  BY DEF Known
<1>2. wrk.pc \in {"send_socket", "let_go"} => epoll'[Pending] = Absent
  BY Names DEF Work, Answering, InHand
<1> QED
  BY <1>1, <1>2 DEF Work, InHand, Answering, Creating, InUse, Pending, NoLobbyYet,
              Vacant

-----------------------------------------------------------------------------
(* The server's worker                                                     *)

\* Handlers that answer, or fail, without touching the pool.
LEMMA ServerRefuses ==
    ASSUME IInv, refuse \/ spawn_lobby_fails \/ join_unknown \/ attach_taken,
           UNCHANGED <<maker, lobbyProcess>>
    PROVE  IInv'
<1>1. ~attach_taken
  BY DEF attach_taken, IInv, Work, Creating, NoLobbyYet
<1>2. wrk.pc = "handle" /\ wrk' = Return
  BY <1>1 DEF refuse, spawn_lobby_fails, join_unknown, Handling, ReturnError
<1>3. told \subseteq told'
  BY DEF refuse, spawn_lobby_fails, join_unknown, attach_taken, ReturnError
<1>4. UNCHANGED <<pool, epoll, tasks, net, place, lobbies, inbox>>
  BY DEF refuse, spawn_lobby_fails, join_unknown, attach_taken, engineVars,
         loop, kernel
<1> QED
  BY <1>2, <1>3, <1>4, RestStep DEF Creating

\* A general command is answered, also if it is a complaint of the lobby.
LEMMA ServerAnswers ==
    ASSUME IInv, answer
    PROVE  IInv'
<1>1. wrk.pc = "handle" /\ wrk.slot \in Slots /\ wrk' = Continue
  BY DEF answer, execute_general, Handling, IInv, Work
<1>2. /\ UNCHANGED <<pool, epoll, tasks, net, place, lobbies, maker, told>>
      /\ UNCHANGED lobbyProcess
  BY DEF answer, execute_general, loop, history
<1>3. CASE Pending # Ctl
  <2>1. inbox' = inbox
    BY <1>3 DEF answer
  <2> QED
    BY <1>1, <1>2, <2>1, RestStep DEF Creating
<1>4. CASE Pending = Ctl
  <2>1. inbox' = [inbox EXCEPT ![Par] = Append(inbox[Par], L!Answer)]
    BY <1>4 DEF answer
  <2>2. ~NoLobbyYet
    BY <1>1, <1>4 DEF IInv, Joint, Owned, Creating, Pending
  <2>3. inbox \in [Conns -> Seq(Letters)] /\ inbox[Par] \in Seq(ParMail)
    BY DEF IInv, Post
  <2>4. /\ Append(inbox[Par], L!Answer) \in Seq(Letters)
        /\ Append(inbox[Par], L!Answer) \in Seq(ParMail)
    BY <2>3, ComplaintFields, Names
  <2>5. /\ inbox'[Par] = Append(inbox[Par], L!Answer)
        /\ \A c \in Conns : c # Par => inbox'[c] = inbox[c]
        /\ inbox' \in [Conns -> Seq(Letters)]
    BY <2>1, <2>3, <2>4, Names
  <2>6. inbox[Par] # <<>> => inbox'[Par] # <<>> /\ Head(inbox'[Par]) = Head(inbox[Par])
    BY <2>3, <2>5
  <2>7. PoolInv'
    BY <1>2, PoolKept DEF IInv, pool, entries, sizes
  <2>8. Work' /\ wrk'.pc # "send_id"
    BY <1>1, WorkRests DEF IInv
  <2>9. Owned => Owned'
    BY <1>1, <1>2, OwnedKept DEF pool, entries, Creating
  <2>10. Calm
    BY <1>1, <1>2, <2>2, <2>6, <2>8, <2>9 DEF Calm
  <2>11. LobbyInv' /\ Joint'
    BY <2>10, CalmLobby, CalmJoint DEF IInv, Calm
  <2>12. Post'
    BY <1>2, <2>4, <2>5, CalmSets DEF IInv, Post
  <2> QED
    BY <2>7, <2>8, <2>11, <2>12 DEF IInv
<1> QED
  BY <1>3, <1>4

LEMMA ServerCannotAnswer ==
    ASSUME IInv, execute_general_fails, UNCHANGED <<maker, lobbyProcess>>
    PROVE  IInv'
<1>1. /\ wrk.pc = "handle" /\ wrk.slot \in Slots /\ wrk' = Return
      /\ release_connection(wrk.slot, NetworkTook)
  BY DEF execute_general_fails, Handling, IInv, Work
<1>2. UNCHANGED <<sizes, tasks, net, lobbies, inbox, told>>
  BY DEF execute_general_fails, loop, kernel, history
<1> QED
  BY <1>1, <1>2, ReleaseStep DEF Creating

\* The receive loop releases a connection.
LEMMA ServerReleases ==
    ASSUME IInv,
           get_message_disconnected \/ get_message_fails \/ rearm_socket_fails,
           UNCHANGED <<lobbies, maker, lobbyProcess>>
    PROVE  IInv'
<1>1. /\ wrk.pc \in {"receive", "rearm"}
      /\ wrk' = Return \/ wrk' = Continue
      /\ release_connection(wrk.slot, NetworkTook)
  BY DEF get_message_disconnected, get_message_fails, rearm_socket_fails,
         NothingToRead
<1>2. UNCHANGED <<sizes, tasks, net, inbox, told>>
  BY DEF get_message_disconnected, get_message_fails, rearm_socket_fails,
         loop, kernel, history
<1>3. wrk.slot \in Slots
  BY <1>1 DEF IInv, Work
<1> QED
  BY <1>1, <1>2, <1>3, ReleaseStep DEF Creating

LEMMA ServerAttachFails ==
    ASSUME IInv, attach_fails(TRUE), UNCHANGED <<lobbies, maker, lobbyProcess>>
    PROVE  IInv'
<1>1. /\ wrk.pc = "subscribe" /\ wrk' = Return
      /\ release_connection(wrk.view, NetworkTook)
      /\ told \subseteq told'
  BY DEF attach_fails, ReturnError
<1>2. UNCHANGED <<sizes, tasks, net, inbox>>
  BY DEF attach_fails, loop, kernel
<1>3. wrk.view \in Slots /\ slots[wrk.view].sock = Ctl
  BY <1>1 DEF IInv, Work, Creating
<1> QED
  BY <1>1, <1>2, <1>3, ReleaseStep

\* A socket that is in use is subscribed; then the worker rests.
LEMMA ServerRearms ==
    ASSUME IInv, rearm_socket \/ resubscribe,
           UNCHANGED <<lobbies, maker, lobbyProcess>>
    PROVE  IInv'
<1>1. /\ wrk.pc \in {"rearm", "resubscribe"} /\ wrk' \in {Return, Continue}
      /\ epoll' = [epoll EXCEPT ![slots[wrk.slot].sock] = Armed(wrk.slot)]
  BY DEF rearm_socket, resubscribe, Pending
<1>2. UNCHANGED <<slots, buffer, free, next_index, counter, tasks, net, place, inbox, told>>
  BY DEF rearm_socket, resubscribe, pool, entries, sizes, loop, kernel, history
<1>3. wrk.slot \in Slots /\ InUse(wrk.slot)
  BY <1>1 DEF IInv, Work, InHand
<1>4. PoolInv'
  BY <1>1, <1>2, <1>3, PoolArmed DEF IInv
<1>5. Work' /\ wrk'.pc # "send_id"
  BY <1>1, WorkRests DEF IInv
<1>6. Owned => Owned'
  BY <1>1, <1>2, OwnedKept DEF Creating
<1>7. Calm
  BY <1>1, <1>2, <1>5, <1>6 DEF Calm
<1> QED
  BY <1>2, <1>4, <1>5, <1>7, CalmStep

\* The client is released, and the receive loop will release it again.
LEMMA ServerGivesUp ==
    ASSUME IInv, resubscribe_fails, UNCHANGED <<maker, lobbyProcess>>
    PROVE  IInv'
<1>1. /\ wrk.pc = "resubscribe" /\ wrk.slot \in Slots
      /\ release_connection(wrk.slot, NetworkTook)
      /\ wrk' = [Continue EXCEPT !.pc = "release_again"]
  BY DEF resubscribe_fails, IInv, Work
<1>2. UNCHANGED <<next_index, counter, tasks, net, lobbies, inbox, told>>
  BY DEF resubscribe_fails, sizes, loop
<1>3. /\ PoolInv'
      /\ \A c \in Conns : place[c] = "moved" => place'[c] = "moved"
      /\ \A t \in Slots : slots'[t] = IF t = wrk.slot THEN EmptyEntry ELSE slots[t]
  BY <1>1, <1>2, PoolRelease DEF IInv
<1>4. wrk' \in Locals /\ wrk'.pc = "release_again" /\ wrk'.slot \in Slots
  <2>1. Continue \in Locals /\ Continue.slot = wrk.slot
    BY <1>1, IdleTyped DEF Continue, Locals, Points
  <2> QED
    BY <1>1, <2>1 DEF Locals, Points
<1>5. Work'
  BY <1>4 DEF Work, InHand, Answering, Creating
<1>6. Owned => Owned'
  BY <1>1, <1>2, <1>3, OwnedKept, Names DEF Creating, EmptyEntry
<1>7. Calm
  BY <1>1, <1>2, <1>3, <1>4, <1>6 DEF Calm
<1> QED
  BY <1>2, <1>3, <1>5, <1>7, CalmStep

LEMMA ServerReleasesAgain ==
    ASSUME IInv, release_again, UNCHANGED <<maker, lobbyProcess>>
    PROVE  IInv'
<1>1. /\ wrk.pc = "release_again" /\ wrk.slot \in Slots /\ wrk' = Continue
      /\ release_connection(wrk.slot, NetworkTook)
  BY DEF release_again, IInv, Work
<1>2. UNCHANGED <<sizes, tasks, net, lobbies, inbox, told>>
  BY DEF release_again, loop, kernel, history
<1> QED
  BY <1>1, <1>2, ReleaseStep DEF Creating

\* A step of the worker that changes only its locals, in the receive loop or
\* a broadcast.
LEMMA LocalStep ==
    ASSUME IInv, Work', ~Creating, wrk.pc # "let_go", wrk'.pc # "send_id",
           UNCHANGED <<pool, epoll, tasks, net, place, lobbies, inbox, told,
                       maker, lobbyProcess>>
    PROVE  IInv'
<1>1. PoolInv'
  BY PoolKept DEF IInv, pool, entries, sizes
<1>2. Owned => Owned'
  BY OwnedKept DEF pool, entries
<1>3. Calm
  BY <1>2 DEF Calm, Creating
<1> QED
  BY <1>1, <1>3, CalmStep

LEMMA ServerChecks ==
    ASSUME IInv, check_alive, UNCHANGED <<lobbies, maker, lobbyProcess>>
    PROVE  IInv'
<1>1. wrk.pc = "check" /\ wrk.slot \in Slots
  BY DEF check_alive, IInv, Work
<1>2. UNCHANGED <<pool, epoll, tasks, net, place, inbox, told, slots>>
  BY DEF check_alive, engineVars, loop, kernel, pool, entries
<1>3. CASE wrk' = Return
  BY <1>1, <1>2, <1>3, RestStep DEF Creating
<1>4. CASE slots[wrk.slot].status = "ALIVE" /\ wrk' = [wrk EXCEPT !.pc = "receive"]
  <2>1. InUse(wrk.slot)
    BY <1>1, <1>4, SlotFacts DEF IInv
  <2>2. wrk' \in Locals /\ wrk'.pc = "receive" /\ wrk'.slot = wrk.slot
    BY <1>4 DEF IInv, Work, Locals, Points
  <2>3. Work'
    BY <1>1, <1>2, <2>1, <2>2 DEF Work, InHand, Answering, Creating, InUse
  <2> QED
    BY <1>1, <1>2, <2>2, <2>3, LocalStep DEF Creating
<1> QED
  BY <1>3, <1>4 DEF check_alive

LEMMA ServerWouldBlock ==
    ASSUME IInv, get_message_would_block, UNCHANGED <<lobbies, maker, lobbyProcess>>
    PROVE  IInv'
<1>1. wrk.pc = "receive" /\ wrk' = [wrk EXCEPT !.pc = "rearm"]
  BY DEF get_message_would_block, NothingToRead
<1>2. UNCHANGED <<pool, epoll, tasks, net, place, inbox, told, slots>>
  BY DEF get_message_would_block, engineVars, loop, kernel, pool, entries, history
<1>3. wrk' \in Locals /\ wrk'.pc = "rearm" /\ wrk'.slot = wrk.slot
  BY <1>1 DEF IInv, Work, Locals, Points
<1>4. Work'
  BY <1>1, <1>2, <1>3 DEF IInv, Work, InHand, Answering, Creating, InUse
<1> QED
  BY <1>1, <1>2, <1>3, <1>4, LocalStep DEF Creating

\* What a broadcast remembers.
LEMMA AudienceTyped ==
    ASSUME PoolInv
    PROVE  Audience \in SUBSET (Conns \cup {NoConn})
<1>1. \A s \in Slots : slots[s].sock \in Conns \cup {NoConn}
  BY DEF PoolInv, PoolTypes, EntryType
<1> QED
  BY <1>1 DEF Audience

LEMMA ServerChats ==
    ASSUME IInv, execute_chat, UNCHANGED <<maker, lobbyProcess>>
    PROVE  IInv'
<1>1. wrk.pc = "handle" /\ wrk.slot \in Slots
  BY DEF execute_chat, Handling, IInv, Work
<1>2. UNCHANGED <<pool, epoll, tasks, net, place, lobbies, inbox, told>>
  BY DEF execute_chat, engineVars, loop, kernel, history
<1>3. /\ wrk' \in Locals /\ wrk'.pc = "broadcast" /\ wrk'.index = 1
      /\ wrk'.slot = wrk.slot
  BY AudienceTyped DEF execute_chat, start_broadcast, IInv, Work, Locals, Points
<1>4. Work'
  BY <1>1, <1>3 DEF Work, InHand, Answering, Creating
<1> QED
  BY <1>1, <1>2, <1>3, <1>4, LocalStep DEF Creating

LEMMA ServerSkips ==
    ASSUME IInv, broadcast_skip, UNCHANGED <<lobbies, maker, lobbyProcess>>
    PROVE  IInv'
<1>1. /\ wrk.pc = "broadcast" /\ wrk.slot \in Slots /\ wrk.index >= 1
      /\ wrk.index \in Nat
  BY DEF broadcast_skip, IInv, Work, Locals
<1>2. UNCHANGED <<pool, epoll, tasks, net, place, inbox, told>>
  BY DEF broadcast_skip, engineVars, loop, kernel, history
<1>3. /\ wrk' \in Locals /\ wrk'.pc = "broadcast" /\ wrk'.index = wrk.index + 1
      /\ wrk'.slot = wrk.slot
  BY <1>1 DEF broadcast_skip, IInv, Work, Locals
<1>4. Work'
  BY <1>1, <1>3 DEF Work, InHand, Answering, Creating
<1> QED
  BY <1>1, <1>2, <1>3, <1>4, LocalStep DEF Creating

LEMMA ServerEndsBroadcast ==
    ASSUME IInv, broadcast_end, UNCHANGED <<lobbies, maker, lobbyProcess>>
    PROVE  IInv'
<1>1. wrk.pc = "broadcast" /\ wrk' = Continue
  BY DEF broadcast_end
<1>2. UNCHANGED <<pool, epoll, tasks, net, place, inbox, told>>
  BY DEF broadcast_end, engineVars, loop, kernel, history
<1> QED
  BY <1>1, <1>2, RestStep DEF Creating

LEMMA ServerSends ==
    ASSUME IInv, broadcast_send, UNCHANGED <<lobbies, maker, lobbyProcess>>
    PROVE  IInv'
<1>1. /\ wrk.pc = "broadcast" /\ wrk.slot \in Slots /\ wrk.index >= 1
      /\ wrk.index \in Nat /\ wrk.index < counter
  BY DEF broadcast_send, BroadcastTo, IInv, Work, Locals
<1>2. UNCHANGED <<sizes, tasks, net, inbox, told>>
  BY DEF broadcast_send, loop, kernel
<1>3. /\ wrk' \in Locals /\ wrk'.pc = "broadcast" /\ wrk'.index = wrk.index + 1
      /\ wrk'.slot = wrk.slot
  <2> DEFINE w == [wrk EXCEPT !.index = wrk.index + 1]
  <2>1. w \in Locals /\ w.pc = "broadcast" /\ w.index = wrk.index + 1 /\ w.slot = wrk.slot
    BY <1>1 DEF IInv, Work, Locals
  <2>2. wrk.audience \ {slots[wrk.index].sock} \in SUBSET (Conns \cup {NoConn})
    BY DEF IInv, Work, Locals
  <2>3. wrk' = [w EXCEPT !.audience = wrk.audience \ {slots[wrk.index].sock}]
    BY DEF broadcast_send, IInv, Work, Locals
  <2> HIDE DEF w
  <2> QED
    BY <2>1, <2>2, <2>3 DEF Locals
<1>4. Work'
  BY <1>1, <1>3 DEF Work, InHand, Answering, Creating
<1>5. CASE UNCHANGED <<entries, epoll, place>>
  <2>1. UNCHANGED <<pool, epoll, tasks, net, place, lobbies, inbox>>
    BY <1>2, <1>5 DEF pool
  <2> QED
    BY <1>1, <1>2, <1>3, <1>4, <2>1, LocalStep DEF Creating
<1>6. CASE release_connection(wrk.index, NetworkTook)
  <2>1. wrk.index \in Slots
    BY <1>1, Names DEF IInv, PoolInv, PoolTypes, Slots
  <2>2. UNCHANGED <<next_index, counter>>
    BY <1>2 DEF sizes
  <2>3. /\ PoolInv'
        /\ \A c \in Conns : place[c] = "moved" => place'[c] = "moved"
        /\ \A t \in Slots : slots'[t] = IF t = wrk.index THEN EmptyEntry ELSE slots[t]
    BY <1>2, <1>6, <2>1, <2>2, PoolRelease DEF IInv
  <2>4. Owned => Owned'
    BY <1>1, <2>3, OwnedKept, Names DEF Creating, EmptyEntry
  <2>5. Calm
    BY <1>1, <1>2, <1>3, <2>3, <2>4 DEF Calm
  <2> QED
    BY <1>2, <1>4, <2>3, <2>5, CalmStep
<1> QED
  BY <1>5, <1>6 DEF broadcast_send

\* epoll_wait reports an event; nobody is waiting to be accepted.
LEMMA ServerReports ==
    ASSUME IInv, NetworkThread, UNCHANGED <<lobbies, maker, lobbyProcess>>
    PROVE  IInv'
<1>1. net.pc = "wait" /\ Waiting = {}
  BY DEF IInv, PoolInv, Quiet, IdleNet, Waiting
<1>2. PICK c \in Conns : process_event(c)
  BY <1>1 DEF NetworkThread, accept_connections, accept_connections_fails,
         register_reused, assign_type, assign_socket, register_new, count_new,
         subscribe, subscribe_fails, rearm_listener
<1>3. /\ epoll' = [epoll EXCEPT ![c].armed = FALSE]
      /\ tasks' = Append(tasks, epoll[c].slot)
      /\ epoll[c].armed
  BY <1>2 DEF process_event, Queued
<1>4. UNCHANGED <<slots, buffer, free, next_index, counter, net, place, wrk,
                  inbox, told>>
  BY <1>2 DEF process_event, pool, entries, sizes, kernel, history
<1>5. epoll[c].slot \in Slots /\ epoll \in [Conns -> Watch] /\ tasks \in Seq(Slots)
  BY <1>3 DEF IInv, PoolInv, PoolTypes, Registered, Watch
<1>6. epoll' \in [Conns -> Watch] /\ tasks' \in Seq(Slots)
  <2>1. [epoll[c] EXCEPT !.armed = FALSE] \in Watch
    BY <1>5 DEF Watch
  <2>2. epoll' = [epoll EXCEPT ![c] = [epoll[c] EXCEPT !.armed = FALSE]]
    BY <1>3, <1>5
  <2>3. epoll' \in [Conns -> Watch]
    BY <1>5, <2>1, <2>2
  <2> QED
    BY <1>3, <1>5, <2>3
<1>7. \A d \in Conns : epoll'[d].slot = epoll[d].slot /\ (epoll'[d].armed => epoll[d].armed)
  BY <1>3, <1>5 DEF Watch
<1>8. PoolTypes' /\ Quiet'
  BY <1>4, <1>6 DEF IInv, PoolInv, PoolTypes, Quiet
<1>9. Homes'
  BY <1>4 DEF IInv, PoolInv, Homes, InUse
<1>10. Registered'
  BY <1>4, <1>7 DEF IInv, PoolInv, Registered
<1>11. Control'
  BY <1>4 DEF IInv, PoolInv, Control, NoLobbyYet, Vacant, InUse
<1>12. Work'
  <2>1. ~Absent.armed
    BY DEF Absent
  <2>2. \A d \in Conns : d # c => epoll'[d] = epoll[d]
    BY <1>3, <1>5
  <2>3. \A d \in Conns : epoll[d] = Absent => epoll'[d] = Absent
    BY <1>3, <2>1, <2>2
  <2> QED
    BY <1>4, <2>3, WorkKept DEF IInv
<1>13. Owned => Owned'
  BY <1>4, OwnedKept DEF Creating
<1>14. Calm
  BY <1>4, <1>13 DEF Calm
<1> QED
  BY <1>4, <1>8, <1>9, <1>10, <1>11, <1>12, <1>14, CalmStep DEF PoolInv

LEMMA ServerStarts ==
    ASSUME IInv, process_connection, UNCHANGED <<lobbies, maker, lobbyProcess>>
    PROVE  IInv'
<1>1. /\ wrk.pc = "idle" /\ tasks # <<>> /\ tasks' = Tail(tasks)
      /\ wrk' = [IdleWorker EXCEPT !.pc = "check", !.slot = Head(tasks)]
  BY DEF process_connection
<1>2. UNCHANGED <<slots, buffer, free, next_index, counter, epoll, net, place,
                  inbox, told>>
  BY DEF process_connection, pool, entries, sizes, kernel, history
<1>3. Head(tasks) \in Slots /\ tasks' \in Seq(Slots)
  BY <1>1, SeqTail DEF IInv, PoolInv, PoolTypes
<1>4. wrk' \in Locals /\ wrk'.pc = "check" /\ wrk'.slot \in Slots
  BY <1>1, <1>3, IdleTyped DEF Locals, Points
<1>5. Work'
  BY <1>4 DEF Work, InHand, Answering, Creating
<1>6. PoolTypes' /\ Quiet'
  BY <1>2, <1>3 DEF IInv, PoolInv, PoolTypes, Quiet
<1>7. Homes' /\ Registered'
  BY <1>2 DEF IInv, PoolInv, Homes, InUse, Registered
<1>8. Control'
  BY <1>2 DEF IInv, PoolInv, Control, NoLobbyYet, Vacant, InUse
<1>9. Owned => Owned'
  BY <1>1, <1>2, OwnedKept DEF Creating
<1>10. Calm
  BY <1>1, <1>2, <1>4, <1>9 DEF Calm
<1> QED
  BY <1>2, <1>5, <1>6, <1>7, <1>8, <1>10, CalmStep DEF PoolInv

LEMMA MailLetters ==
    ASSUME NEW c
    PROVE  Mail(c) \subseteq Letters
  BY WordFields, ComplaintFields DEF Mail

\* A message is taken from the buffer of slot s, or received into it.
LEMMA PoolBuffered ==
    ASSUME PoolInv, NEW s \in Slots, NEW q \in Seq(Mail(slots[s].sock)),
           buffer' = [buffer EXCEPT ![s] = q],
           UNCHANGED <<slots, free, next_index, counter, epoll, tasks, net,
                       place, lobbies>>
    PROVE  PoolInv'
<1>1. q \in Seq(Letters)
  BY MailLetters, SeqMonotonic
<1>2. buffer' \in [Slots -> Seq(Letters)]
  BY <1>1 DEF PoolInv, PoolTypes
<1>3. \A t \in Slots : buffer'[t] = IF t = s THEN q ELSE buffer[t]
  BY DEF PoolInv, PoolTypes
<1>4. PoolTypes' /\ Quiet'
  BY <1>2 DEF PoolInv, PoolTypes, Quiet
<1>5. \A t \in Slots : buffer'[t] \in Seq(Mail(slots'[t].sock))
  BY <1>3 DEF PoolInv, Homes
<1>6. Homes'
  BY <1>5 DEF PoolInv, Homes, InUse
<1>7. Registered'
  BY DEF PoolInv, Registered
<1>8. Control'
  BY DEF PoolInv, Control, NoLobbyYet, Vacant, InUse
<1> QED
  BY <1>4, <1>6, <1>7, <1>8 DEF PoolInv

\* The peer of c sends something, or something of it is received.
LEMMA CalmMail ==
    ASSUME IInv, PoolInv', Work', Calm, NEW c \in Conns, c # Par,
           NEW q \in Seq(Mail(c)), inbox' = [inbox EXCEPT ![c] = q]
    PROVE  IInv'
<1>1. LobbyInv' /\ Joint'
  BY CalmLobby, CalmJoint DEF IInv, Calm
<1>2. q \in Seq(Letters)
  BY MailLetters, SeqMonotonic
<1>3. inbox' \in [Conns -> Seq(Letters)]
  BY <1>2 DEF IInv, Post
<1>4. \A d \in Conns : inbox'[d] = IF d = c THEN q ELSE inbox[d]
  BY DEF IInv, Post
<1>5. \A d \in Conns : d # Par => inbox'[d] \in Seq(Mail(d))
  BY <1>4 DEF IInv, Post
<1>6. inbox'[Par] \in Seq(ParMail')
  BY <1>4, CalmSets, Names DEF IInv, Calm, Post
<1> QED
  BY <1>1, <1>3, <1>5, <1>6 DEF IInv, Post

\* The worker has a message to handle.
LEMMA WorkHandles ==
    ASSUME IInv, wrk.pc = "receive", NEW m \in Mail(Pending),
           wrk' = [wrk EXCEPT !.pc = "handle", !.msg = m],
           UNCHANGED slots
    PROVE  Work' /\ wrk'.pc = "handle"
<1>1. wrk.slot \in Slots /\ InUse(wrk.slot) /\ m \in Letters
  BY MailLetters DEF IInv, Work, InHand
<1>2. /\ wrk' \in Locals /\ wrk'.pc = "handle" /\ wrk'.slot = wrk.slot
      /\ wrk'.msg = m
  BY <1>1 DEF IInv, Work, Locals, Points
<1> QED
  BY <1>1, <1>2 DEF Work, InHand, Answering, Creating, InUse, Pending

LEMMA ServerTakesBuffered ==
    ASSUME IInv, get_message_buffered, UNCHANGED <<lobbies, maker, lobbyProcess>>
    PROVE  IInv'
<1> DEFINE s == wrk.slot
<1>1. /\ wrk.pc = "receive" /\ buffer[s] # <<>>
      /\ wrk' = [wrk EXCEPT !.pc = "handle", !.msg = Head(buffer[s])]
      /\ buffer' = [buffer EXCEPT ![s] = Tail(buffer[s])]
  BY DEF get_message_buffered
<1>2. UNCHANGED <<slots, free, next_index, counter, epoll, tasks, net, place,
                  inbox, told>>
  BY DEF get_message_buffered, sizes, loop, kernel, history
<1>3. s \in Slots
  BY <1>1 DEF IInv, Work
<1>4. buffer[s] \in Seq(Mail(Pending))
  BY <1>3 DEF IInv, PoolInv, Homes, Pending
<1>5. Head(buffer[s]) \in Mail(Pending) /\ Tail(buffer[s]) \in Seq(Mail(Pending))
  BY <1>1, <1>4, SeqTail
<1>6. PoolInv'
  BY <1>1, <1>2, <1>3, <1>5, PoolBuffered DEF IInv, Pending
<1>7. Work' /\ wrk'.pc = "handle"
  BY <1>1, <1>2, <1>5, WorkHandles
<1>8. Owned => Owned'
  BY <1>1, <1>2, OwnedKept DEF Creating
<1>9. Calm
  BY <1>1, <1>2, <1>7, <1>8 DEF Calm
<1> QED
  BY <1>2, <1>6, <1>7, <1>9, CalmStep

LEMMA ServerReceives ==
    ASSUME IInv, get_message_received, UNCHANGED <<lobbies, maker, lobbyProcess>>
    PROVE  IInv'
<1> DEFINE s == wrk.slot  c == Pending
<1>1. wrk.pc = "receive" /\ c # NoConn /\ s \in Slots
  BY DEF get_message_received, IInv, Work
<1>2. c \in Conns /\ c # Par
  BY <1>1, SlotFacts, Names DEF IInv, Pending
<1>3. PICK n \in 1 .. Len(inbox[c]) :
          /\ wrk' = [wrk EXCEPT !.pc = "handle", !.msg = Head(inbox[c])]
          /\ buffer' = [buffer EXCEPT ![s] = SubSeq(inbox[c], 2, n)]
          /\ inbox' = [inbox EXCEPT ![c] = SubSeq(inbox[c], n + 1, Len(inbox[c]))]
  BY DEF get_message_received
<1>4. UNCHANGED <<slots, free, next_index, counter, epoll, tasks, net, place, told>>
  BY DEF get_message_received, sizes, loop, history
<1>5. inbox[c] \in Seq(Mail(c))
  BY <1>2 DEF IInv, Post
<1>6. /\ Head(inbox[c]) \in Mail(c)
      /\ SubSeq(inbox[c], 2, n) \in Seq(Mail(c))
      /\ SubSeq(inbox[c], n + 1, Len(inbox[c])) \in Seq(Mail(c))
  BY <1>5, SeqParts
<1>7. PoolInv'
  BY <1>1, <1>3, <1>4, <1>6, PoolBuffered DEF IInv, Pending
<1>8. Work' /\ wrk'.pc = "handle"
  BY <1>1, <1>3, <1>4, <1>6, WorkHandles
<1>9. inbox'[Par] = inbox[Par]
  BY <1>2, <1>3, Names DEF IInv, Post
<1>10. Owned => Owned'
  BY <1>1, <1>4, OwnedKept DEF Creating
<1>11. Calm
  BY <1>1, <1>4, <1>8, <1>9, <1>10 DEF Calm
<1> QED
  BY <1>2, <1>3, <1>6, <1>7, <1>8, <1>11, CalmMail

LEMMA ServerFindsLobby ==
    ASSUME IInv, join_found, UNCHANGED <<maker, lobbyProcess>>
    PROVE  IInv'
<1> DEFINE k == wrk.msg.code
<1>1. /\ wrk.pc = "handle" /\ k \in Codes /\ lobbies[k] # NoLobby
      /\ wrk' = [wrk EXCEPT !.pc = "transfer", !.code = k, !.view = lobbies[k].slot]
  BY DEF join_found, Handling
<1>2. UNCHANGED <<pool, slots, epoll, tasks, net, place, inbox, told, lobbies>>
  BY DEF join_found, engineVars, pool, entries, loop, kernel, history
<1>3. lobbies[k].slot \in Slots /\ lobbies[k].ctrl = Ctl
  BY <1>1 DEF IInv, PoolInv, PoolTypes
<1>4. slots[lobbies[k].slot].sock \in {Ctl, NoConn}
  BY <1>1 DEF IInv, PoolInv, Control
<1>5. wrk \in Locals /\ wrk.slot \in Slots /\ InUse(wrk.slot) /\ wrk.msg \in Mail(Pending)
  BY <1>1 DEF IInv, Work, InHand, Answering
<1>6. Pending \in Clients
  BY <1>5, ComplaintFields DEF Mail, join_found, Handling
<1>7. /\ wrk' \in Locals /\ wrk'.pc = "transfer" /\ wrk'.code = k
      /\ wrk'.view = lobbies[k].slot /\ wrk'.slot = wrk.slot /\ wrk'.msg = wrk.msg
  BY <1>1, <1>3, <1>5 DEF Locals, Points
<1>8. Work'
  BY <1>1, <1>2, <1>3, <1>4, <1>5, <1>6, <1>7
     DEF Work, InHand, Answering, Creating, InUse, Pending, Known
<1> QED
  BY <1>1, <1>2, <1>7, <1>8, LocalStep DEF Creating

\* The control socket is put into an empty slot.
LEMMA PoolFilled ==
    ASSUME PoolInv, NEW s \in Slots, ~InUse(s), place[Ctl] = "held",
           \A t \in Slots : slots[t].sock # Ctl,
           NoLobbyYet,
           slots' = [slots EXCEPT ![s] = Entry("TO_LOBBY", Ctl)],
           free' \in Seq(Slots),
           next_index' \in 1 .. MaxSlots + 1, counter <= next_index',
           UNCHANGED <<buffer, counter, epoll, tasks, net, place, lobbies>>
    PROVE  PoolInv' /\ slots'[s].sock = Ctl /\ \A t \in Slots : InUse(t) => InUse(t)' /\ slots'[t] = slots[t]
<1>1. Entry("TO_LOBBY", Ctl) \in EntryType /\ Entry("TO_LOBBY", Ctl).sock = Ctl
  BY Names DEF Entry, EntryType
<1>2. slots' \in [Slots -> EntryType]
  BY <1>1 DEF PoolInv, PoolTypes
<1>3. \A t \in Slots : slots'[t] = IF t = s THEN Entry("TO_LOBBY", Ctl) ELSE slots[t]
  BY DEF PoolInv, PoolTypes
<1>4. \A t \in Slots : InUse(t)' <=> InUse(t) \/ t = s
  BY <1>1, <1>3, Names DEF InUse
<1>5. PoolTypes' /\ Quiet'
  BY <1>2 DEF PoolInv, PoolTypes, Quiet
<1>6. Homes'
  <2>1. \A t \in Slots : InUse(t)' => place'[slots'[t].sock] = "held"
    BY <1>1, <1>3, <1>4 DEF PoolInv, Homes
  <2>2. \A t, u \in Slots : slots'[t].sock = slots'[u].sock /\ InUse(t)' => t = u
    BY <1>1, <1>3, <1>4 DEF PoolInv, Homes
  <2>3. \A t \in Slots : ~InUse(t)' => slots'[t] = EmptyEntry
    BY <1>3, <1>4 DEF PoolInv, Homes
  <2>4. \A t \in Slots : buffer'[t] \in Seq(Mail(slots'[t].sock))
    <3>1. buffer[s] = <<>>
      BY SlotFacts
    <3> QED
      BY <1>3, <3>1 DEF PoolInv, Homes
  <2> QED
    BY <2>1, <2>2, <2>3, <2>4 DEF Homes, InUse
<1>7. Registered'
  <2>1. \A c \in Conns : epoll[c].slot \in Slots \cup {NoSlot}
    BY DEF PoolInv, PoolTypes, Watch
  <2>2. \A c \in Conns : epoll[c].slot # s
    BY Names DEF PoolInv, Registered, InUse
  <2> QED
    BY <1>3, <2>1, <2>2 DEF PoolInv, Registered
<1>8. Control'
  BY DEF PoolInv, Control, NoLobbyYet
<1> QED
  BY <1>1, <1>3, <1>4, <1>5, <1>6, <1>7, <1>8 DEF PoolInv

\* The worker has put the control socket into slot v.
LEMMA WorkAttached ==
    ASSUME IInv, wrk.pc = "attach", NEW v \in Slots, PoolInv',
           slots'[v].sock = Ctl,
           \A t \in Slots : InUse(t) => InUse(t)' /\ slots'[t] = slots[t],
           wrk' \in Locals, wrk'.pc \in {"count", "subscribe"},
           wrk'.slot = wrk.slot, wrk'.msg = wrk.msg, wrk'.ctrl = wrk.ctrl,
           wrk'.view = v, wrk'.pc = "count" => wrk'.count < next_index',
           UNCHANGED <<place, lobbies, maker>>
    PROVE  Work'
<1>1. /\ wrk.slot \in Slots /\ InUse(wrk.slot) /\ wrk.msg \in Mail(Pending)
      /\ wrk.ctrl = Ctl /\ place[Ctl] # "new" /\ maker = wrk.msg.from
      /\ NoLobbyYet /\ Pending \in Clients
  BY DEF IInv, Work, InHand, Answering, Creating
<1>2. InUse(wrk.slot)' /\ slots'[wrk.slot] = slots[wrk.slot]
  BY <1>1
<1>3. NoLobbyYet'
  BY <1>1 DEF NoLobbyYet
<1> QED
  BY <1>1, <1>2, <1>3 DEF Work, InHand, Answering, Creating, InUse, Pending

LEMMA ServerAttaches ==
    ASSUME IInv, attach_reused("TO_LOBBY") \/ attach_new("TO_LOBBY"),
           UNCHANGED <<lobbies, maker, lobbyProcess>>
    PROVE  IInv'
<1>1. wrk.pc = "attach"
  BY DEF attach_reused, attach_new
<1>2. /\ wrk \in Locals /\ wrk.ctrl = Ctl /\ place[Ctl] = "held" /\ NoLobbyYet
      /\ \A t \in Slots : slots[t].sock # Ctl
      /\ Vacant
  BY <1>1 DEF IInv, Work, Creating
<1>3. /\ free \in Seq(Slots) /\ next_index \in 1 .. MaxSlots + 1
      /\ counter \in Nat /\ counter <= next_index
  BY DEF IInv, PoolInv, PoolTypes
<1>4. PICK v \in Slots :
        /\ ~InUse(v)
        /\ slots' = [slots EXCEPT ![v] = Entry("TO_LOBBY", Ctl)]
        /\ free' \in Seq(Slots)
        /\ next_index' \in 1 .. MaxSlots + 1 /\ counter <= next_index'
        /\ wrk' \in Locals /\ wrk'.pc \in {"count", "subscribe"}
        /\ wrk'.slot = wrk.slot /\ wrk'.msg = wrk.msg /\ wrk'.ctrl = wrk.ctrl
        /\ wrk'.view = v /\ (wrk'.pc = "count" => wrk'.count < next_index')
  <2>1. CASE attach_reused("TO_LOBBY")
    <3> DEFINE v == Head(free)
    <3>1. /\ free # <<>> /\ free' = Tail(free) /\ next_index' = next_index
          /\ slots' = [slots EXCEPT ![v] = Entry("TO_LOBBY", Ctl)]
          /\ wrk' = [wrk EXCEPT !.pc = "subscribe", !.view = v]
      BY <1>2, <2>1 DEF attach_reused, sizes
    <3>2. v \in Slots /\ free' \in Seq(Slots)
      BY <1>3, <3>1, SeqTail
    <3>3. ~InUse(v)
      BY <1>2, <1>3, <3>1 DEF Vacant
    <3>4. /\ wrk' \in Locals /\ wrk'.pc = "subscribe"
          /\ wrk'.slot = wrk.slot /\ wrk'.msg = wrk.msg /\ wrk'.ctrl = wrk.ctrl
          /\ wrk'.view = v
      BY <1>2, <3>1, <3>2 DEF Locals, Points
    <3> QED
      BY <1>3, <3>1, <3>2, <3>3, <3>4
  <2>2. CASE attach_new("TO_LOBBY")
    <3> DEFINE v == next_index
    <3>1. /\ free' = free /\ next_index' = next_index + 1 /\ v \in Slots
          /\ slots' = [slots EXCEPT ![v] = Entry("TO_LOBBY", Ctl)]
          /\ wrk' = [wrk EXCEPT !.pc = "count", !.view = v, !.count = counter]
      BY <1>2, <2>2 DEF attach_new
    <3>2. ~InUse(v)
      BY <1>2, <1>3, <3>1 DEF Vacant
    <3>3. next_index' \in 1 .. MaxSlots + 1 /\ counter < next_index'
      BY <1>3, <3>1, Names DEF Slots
    <3>4. /\ wrk' \in Locals /\ wrk'.pc = "count"
          /\ wrk'.slot = wrk.slot /\ wrk'.msg = wrk.msg /\ wrk'.ctrl = wrk.ctrl
          /\ wrk'.view = v /\ wrk'.count = counter
      BY <1>2, <1>3, <3>1 DEF Locals, Points
    <3>5. counter <= next_index' /\ wrk'.count < next_index' /\ free' \in Seq(Slots)
      BY <1>3, <3>1, <3>3, <3>4
    <3> HIDE DEF v
    <3> QED
      BY <3>1, <3>2, <3>3, <3>4, <3>5
  <2> QED
    BY <2>1, <2>2
<1>5. UNCHANGED <<buffer, counter, epoll, tasks, net, place, inbox, told>>
  BY DEF attach_reused, attach_new, sizes, loop, kernel, history
<1>6. /\ PoolInv' /\ slots'[v].sock = Ctl
      /\ \A t \in Slots : InUse(t) => InUse(t)' /\ slots'[t] = slots[t]
  BY <1>2, <1>4, <1>5, PoolFilled DEF IInv
<1>7. Work'
  BY <1>1, <1>4, <1>5, <1>6, WorkAttached
<1>8. Owned'
  BY <1>4 DEF Owned, Creating
<1>9. Calm
  BY <1>1, <1>4, <1>5, <1>8 DEF Calm
<1> QED
  BY <1>5, <1>6, <1>7, <1>9, CalmStep

LEMMA ServerCounts ==
    ASSUME IInv, attach_count, UNCHANGED <<lobbies, maker, lobbyProcess>>
    PROVE  IInv'
<1>1. /\ wrk.pc = "count" /\ counter' = wrk.count + 1
      /\ wrk' = [wrk EXCEPT !.pc = "subscribe", !.count = 0]
  BY DEF attach_count
<1>2. UNCHANGED <<slots, buffer, free, next_index, epoll, tasks, net, place,
                  inbox, told>>
  BY DEF attach_count, entries, loop, kernel
<1>3. wrk \in Locals /\ wrk.count \in Nat /\ wrk.count < next_index
  BY <1>1 DEF IInv, Work, Locals
<1>4. next_index \in Nat
  BY DEF IInv, PoolInv, PoolTypes
<1>5. counter' \in Nat /\ counter' <= next_index'
  BY <1>1, <1>2, <1>3, <1>4
<1>6. PoolTypes' /\ Quiet'
  BY <1>2, <1>5 DEF IInv, PoolInv, PoolTypes, Quiet
<1>7. Homes' /\ Registered'
  BY <1>2 DEF IInv, PoolInv, Homes, InUse, Registered
<1>8. Control'
  BY <1>2 DEF IInv, PoolInv, Control, NoLobbyYet, Vacant, InUse
<1>9. /\ wrk' \in Locals /\ wrk'.pc = "subscribe" /\ wrk'.slot = wrk.slot
      /\ wrk'.msg = wrk.msg /\ wrk'.ctrl = wrk.ctrl /\ wrk'.view = wrk.view
  BY <1>1, <1>3 DEF Locals, Points
<1>10. Work'
  BY <1>1, <1>2, <1>9
     DEF IInv, Work, InHand, Answering, Creating, InUse, Pending, NoLobbyYet
<1>11. Owned'
  BY <1>9 DEF Owned, Creating
<1>12. Calm
  BY <1>1, <1>2, <1>9, <1>11 DEF Calm
<1> QED
  BY <1>2, <1>6, <1>7, <1>8, <1>10, <1>12, CalmStep DEF PoolInv

LEMMA ServerSubscribes ==
    ASSUME IInv, attach_subscribe("enlist"), UNCHANGED <<lobbies, maker, lobbyProcess>>
    PROVE  IInv'
<1>1. /\ wrk.pc = "subscribe" /\ wrk' = [wrk EXCEPT !.pc = "enlist"]
      /\ epoll' = [epoll EXCEPT ![slots[wrk.view].sock] = Armed(wrk.view)]
  BY DEF attach_subscribe
<1>2. UNCHANGED <<slots, buffer, free, next_index, counter, tasks, net, place,
                  inbox, told>>
  BY DEF attach_subscribe, pool, entries, sizes, loop, kernel, history
<1>3. wrk \in Locals /\ wrk.view \in Slots /\ InUse(wrk.view)
  BY <1>1, Names DEF IInv, Work, Creating, InUse
<1>4. PoolInv'
  BY <1>1, <1>2, <1>3, PoolArmed DEF IInv
<1>5. /\ wrk' \in Locals /\ wrk'.pc = "enlist" /\ wrk'.slot = wrk.slot
      /\ wrk'.msg = wrk.msg /\ wrk'.ctrl = wrk.ctrl /\ wrk'.view = wrk.view
  BY <1>1, <1>3 DEF Locals, Points
<1>6. Work'
  BY <1>1, <1>2, <1>5
     DEF IInv, Work, InHand, Answering, Creating, InUse, Pending, NoLobbyYet
<1>7. Owned'
  BY <1>5 DEF Owned, Creating
<1>8. Calm
  BY <1>1, <1>2, <1>5, <1>7 DEF Calm
<1> QED
  BY <1>2, <1>4, <1>6, <1>8, CalmStep

\* The client is removed from epoll.
LEMMA ServerUnsubscribes ==
    ASSUME IInv, transfer, UNCHANGED <<maker, lobbyProcess>>
    PROVE  IInv'
<1> DEFINE c == wrk.slot
<1>1. wrk.pc = "transfer" /\ wrk' = [wrk EXCEPT !.pc = "send_socket"]
  BY DEF transfer
<1>2. /\ c \in Slots /\ InUse(c) /\ wrk \in Locals /\ wrk.code \in Known
      /\ wrk.msg \in Mail(Pending) /\ Pending \in Clients
      /\ wrk.view \in Slots /\ slots[wrk.view].sock \in {Ctl, NoConn}
  BY <1>1 DEF IInv, Work, InHand, Answering
<1>3. UNCHANGED <<slots, buffer, free, next_index, counter, tasks, net, place,
                  inbox, told, lobbies>>
  BY DEF transfer, pool, entries, sizes, loop, kernel, history
<1>4. epoll' = [d \in Conns |-> IF d = slots[c].sock THEN Absent ELSE epoll[d]]
  BY <1>2, ReleaseEffect DEF transfer
<1>5. epoll' \in [Conns -> Watch] /\ epoll'[Pending] = Absent
  BY <1>2, <1>4, Names DEF IInv, PoolInv, PoolTypes, Absent, Watch, Pending
<1>6. PoolInv'
  BY <1>3, <1>4, <1>5, PoolUnwatched DEF IInv
<1>7. /\ wrk' \in Locals /\ wrk'.pc = "send_socket" /\ wrk'.slot = wrk.slot
      /\ wrk'.msg = wrk.msg /\ wrk'.view = wrk.view /\ wrk'.code = wrk.code
  BY <1>1, <1>2 DEF Locals, Points
<1>8. Work'
  BY <1>2, <1>3, <1>5, <1>7
     DEF Work, InHand, Answering, Creating, InUse, Pending, Known
<1>9. Owned => Owned'
  BY <1>1, <1>3, OwnedKept DEF Creating
<1>10. Calm
  BY <1>1, <1>3, <1>7, <1>9 DEF Calm
<1> QED
  BY <1>3, <1>6, <1>8, <1>10, CalmStep

\* The lobby cannot be reached, and its slot is released.
LEMMA ServerTransferFails ==
    ASSUME IInv, send_socket_fails, UNCHANGED <<maker, lobbyProcess>>
    PROVE  IInv'
<1> DEFINE v == wrk.view  c == wrk.slot
<1>1. wrk.pc = "send_socket" /\ release_connection(v, NetworkTook)
  BY DEF send_socket_fails
<1>2. /\ v \in Slots /\ slots[v].sock \in {Ctl, NoConn}
      /\ c \in Slots /\ InUse(c) /\ wrk \in Locals /\ wrk.code \in Known
      /\ Pending \in Clients
  BY <1>1 DEF IInv, Work, InHand, Answering
<1>3. UNCHANGED <<next_index, counter, tasks, net, inbox, told, lobbies>>
  BY DEF send_socket_fails, sizes, loop, kernel
<1>4. v # c
  BY <1>2, Names DEF Pending, InUse
<1>5. /\ PoolInv'
      /\ \A d \in Conns : place[d] = "moved" => place'[d] = "moved"
      /\ \A t \in Slots : slots'[t] = IF t = v THEN EmptyEntry ELSE slots[t]
  BY <1>1, <1>2, <1>3, PoolRelease DEF IInv
<1>6. /\ wrk' \in Locals /\ wrk'.pc = "resubscribe" /\ wrk'.slot = c
      /\ wrk'.code = wrk.code
  <2>1. Continue \in Locals /\ Continue.slot = c
    BY <1>2, IdleTyped DEF Continue, Locals, Points
  <2>2. wrk' = [Continue EXCEPT !.pc = "resubscribe", !.code = wrk.code]
    BY DEF send_socket_fails
  <2>3. wrk.code \in Codes \cup {0}
    BY <1>2 DEF Locals
  <2> QED
    BY <2>1, <2>2, <2>3 DEF Locals, Points
<1>7. Work'
  <2>1. slots'[c] = slots[c]
    BY <1>2, <1>4, <1>5
  <2>2. Known' = Known
    BY <1>3 DEF Known
  <2> QED
    BY <1>2, <1>6, <2>1, <2>2 DEF Work, InHand, Answering, Creating, InUse
<1>8. Owned => Owned'
  BY <1>1, <1>3, <1>5, OwnedKept, Names DEF Creating, EmptyEntry
<1>9. Calm
  BY <1>1, <1>3, <1>5, <1>6, <1>8 DEF Calm
<1> QED
  BY <1>3, <1>5, <1>7, <1>9, CalmStep

\* The server's last step with a client that the lobby may have by now.
LEMMA ServerLetsGo ==
    ASSUME IInv, let_go, UNCHANGED <<maker, lobbyProcess>>
    PROVE  IInv'
<1> DEFINE s == wrk.slot  d == Pending
<1>1. wrk.pc = "let_go" /\ wrk' = Continue
  BY DEF let_go
<1>2. /\ s \in Slots /\ InUse(s) /\ wrk.msg \in Mail(d) /\ d \in Clients
      /\ wrk.ctrl = Ctl /\ epoll[d] = Absent
  BY <1>1 DEF IInv, Work, InHand, Answering
<1>3. wrk.msg.from = d /\ d \in Conns /\ Ctl \in Controls
  BY <1>2, WordFields, Names DEF Mail
<1>4. UNCHANGED <<next_index, counter, tasks, net, inbox, told, lobbies>>
  BY DEF let_go, sizes, loop, kernel, history
<1>5. /\ slots' = [t \in Slots |-> IF t = s THEN EmptyEntry ELSE slots[t]]
      /\ buffer' = [t \in Slots |-> IF t = s THEN <<>> ELSE buffer[t]]
      /\ epoll' = epoll
      /\ place' = [c \in Conns |-> IF c = d THEN "moved" ELSE place[c]]
  <2>1. /\ slots' = SlotsWithout(<<s>>) /\ buffer' = BufferWithout(<<s>>)
        /\ epoll' = epoll
        /\ place' = [PlaceWithout(<<s>>) EXCEPT ![d] = "moved"]
    BY <1>2, <1>3 DEF let_go
  <2>2. /\ SlotsWithout(<<s>>) =
               [t \in Slots |-> IF t = s THEN EmptyEntry ELSE slots[t]]
        /\ BufferWithout(<<s>>) =
               [t \in Slots |-> IF t = s THEN <<>> ELSE buffer[t]]
        /\ PlaceWithout(<<s>>) =
               [c \in Conns |-> IF c = d THEN "gone" ELSE place[c]]
    BY <1>2, ReleaseEffect DEF Pending
  <2>3. place' = [c \in Conns |-> IF c = d THEN "moved" ELSE place[c]]
    <3> HIDE DEF d
    <3>1. place' = [[c \in Conns |-> IF c = d THEN "gone" ELSE place[c]]
                       EXCEPT ![d] = "moved"]
      BY <2>1, <2>2
    <3> QED
      BY <1>3, <3>1
  <2> QED
    BY <2>1, <2>2, <2>3
<1>6. GivenBack(s)
  BY DEF let_go, give_back, GivenBack
<1>7. epoll' \in [Conns -> Watch] /\ place' \in [Conns -> Places]
  BY <1>5 DEF IInv, PoolInv, PoolTypes, Places
<1>8. /\ free' \in Seq(Slots)
      /\ \A i \in 1 .. Len(free') :
             free'[i] = s \/ \E j \in 1 .. Len(free) : free'[i] = free[j]
  BY <1>2, <1>6, GiveBackEffect DEF IInv
<1>9. /\ \A c \in Conns : IF c = slots[s].sock THEN epoll'[c] = Absent
                          ELSE epoll'[c] \in {epoll[c], Absent}
      /\ \A c \in Conns : IF c = slots[s].sock THEN place'[c] \in {"gone", "moved"}
                          ELSE place'[c] = place[c]
  BY <1>2, <1>5 DEF Pending
<1>10. Releasing(s)
  BY <1>4, <1>5, <1>7, <1>8, <1>9 DEF Releasing
<1>11. /\ PoolInv'
       /\ \A c \in Conns : place[c] = "moved" => place'[c] = "moved"
       /\ \A t \in Slots : slots'[t] = IF t = s THEN EmptyEntry ELSE slots[t]
  BY <1>2, <1>10, PoolReleased DEF IInv
<1>12. Work' /\ wrk'.pc # "send_id"
  BY <1>1, WorkRests DEF IInv
<1>13. Owned => Owned'
  BY <1>1, <1>4, <1>11, OwnedKept, Names DEF Creating, EmptyEntry
<1>14. place'[d] = "moved"
  BY <1>3, <1>5
<1>15. Calm
  BY <1>1, <1>4, <1>11, <1>12, <1>13, <1>14 DEF Calm
<1> QED
  BY <1>4, <1>11, <1>12, <1>15, CalmStep

\* The lobby's process is started; its maker is the client that is served.
LEMMA ServerSpawns ==
    ASSUME IInv, spawn_lobby, maker' = wrk.msg.from, UNCHANGED lobbyProcess
    PROVE  IInv'
<1>1. /\ wrk.pc = "handle" /\ wrk \in Locals /\ wrk.slot \in Slots
      /\ InUse(wrk.slot) /\ wrk.msg \in Mail(Pending)
  BY DEF spawn_lobby, Handling, IInv, Work, InHand, Answering
<1>2. Pending \in Clients
  BY <1>1, ComplaintFields DEF Mail, spawn_lobby, Handling
<1>3. /\ place[Ctl] = "new" /\ place' = [place EXCEPT ![Ctl] = "held"]
      /\ wrk' = [wrk EXCEPT !.pc = "attach", !.ctrl = Ctl]
  <2>1. place[Par] # "new"
    BY DEF IInv, PoolInv, Quiet
  <2> QED
    BY <2>1, Names DEF spawn_lobby
<1>4. UNCHANGED <<slots, buffer, free, next_index, counter, epoll, tasks, net,
                  inbox, told, lobbies>>
  BY DEF spawn_lobby, pool, entries, sizes, loop, kernel, history
<1>5. NoLobbyYet /\ Vacant
  BY <1>3 DEF IInv, PoolInv, Control
<1>6. \A s \in Slots : slots[s].sock # Ctl
  BY <1>3, Names DEF IInv, PoolInv, Homes, InUse
<1>7. place' \in [Conns -> Places] /\ place'[Ctl] = "held"
      /\ \A c \in Conns : c # Ctl => place'[c] = place[c]
  BY <1>3, Names DEF IInv, PoolInv, PoolTypes, Places
<1>8. PoolInv'
  <2>1. PoolTypes' /\ Quiet'
    BY <1>4, <1>7, Names DEF IInv, PoolInv, PoolTypes, Quiet
  <2>2. Homes'
    <3>1. \A s \in Slots : InUse(s) => place'[slots[s].sock] = "held"
      BY <1>6, <1>7, SlotFacts DEF IInv
    <3> QED
      BY <1>4, <3>1 DEF IInv, PoolInv, Homes, InUse
  <2>3. Registered' /\ Control'
    BY <1>4, <1>7 DEF IInv, PoolInv, Registered, Control
  <2> QED
    BY <2>1, <2>2, <2>3 DEF PoolInv
<1>9. Work'
  <2>1. /\ wrk' \in Locals /\ wrk'.pc = "attach" /\ wrk'.slot = wrk.slot
        /\ wrk'.msg = wrk.msg /\ wrk'.ctrl = Ctl
    BY <1>1, <1>3, Names DEF Locals, Points
  <2>2. NoLobbyYet' /\ Vacant'
    BY <1>4, <1>5 DEF NoLobbyYet, Vacant, InUse
  <2> QED
    BY <1>2, <1>1, <1>4, <1>6, <1>7, <2>1, <2>2
       DEF Work, InHand, Answering, Creating, InUse, Pending
<1>10. LobbyInv'
  BY <1>4, CalmLobby DEF IInv
<1>11. Came' = Came /\ Known' = Known /\ Post'
  BY <1>4, CalmSets DEF IInv, Post
<1>12. Joint'
  <2>1. Unsent /\ Unsent' /\ greeted = {} /\ greeted' = {}
    BY <1>4, <1>5 DEF Unsent, NoLobbyYet, IInv, Joint, Silent, lobbyProcess
  <2>2. Silent'
    BY <1>4, <2>1 DEF IInv, Joint, Silent, Attaching, LPending, lobbyProcess
  <2>3. Moved'
    BY <1>1, <1>3, <1>7, <1>11, Names DEF IInv, Joint, Moved, Came, Leaving
  <2>4. Owned'
    BY <1>1, <1>3 DEF Owned, Creating, Locals
  <2> QED
    BY <2>1, <2>2, <2>3, <2>4 DEF Joint, IdFirst, GreetedWell
<1> QED
  BY <1>8, <1>9, <1>10, <1>11, <1>12 DEF IInv

\* More clients and more codes lead to the lobby.
LEMMA LobbyGrows ==
    ASSUME LobbyInv, Came \subseteq Came', Known \subseteq Known',
           l_place' \in [Conns -> Places],
           UNCHANGED <<l_slots, l_buffer, l_free, l_next_index, l_counter,
                       l_epoll, l_tasks, l_wrk>>
    PROVE  LobbyInv' /\ ParMail \subseteq ParMail'
<1>1. ParMail \subseteq ParMail'
  BY DEF ParMail, L!SetLobbyId, L!Answer
<1>2. \A c : LobbyMail(c) \subseteq LobbyMail(c)'
  BY <1>1 DEF LobbyMail
<1>3. \A s \in Slots : l_buffer[s] \in Seq(LobbyMail(l_slots[s].sock)')
  BY <1>2, SeqMonotonic DEF LobbyInv, LobbyHomes
<1>4. LobbyTypes'
  BY DEF LobbyInv, LobbyTypes
<1>5. LobbyHomes'
  BY <1>3 DEF LobbyInv, LobbyHomes, LobbyMail
<1>6. LobbyWork'
  BY <1>2 DEF LobbyInv, LobbyWork, LPending, Attaching, LobbyMail
<1> QED
  BY <1>1, <1>4, <1>5, <1>6 DEF LobbyInv

\* The lobby is entered under its code.
LEMMA ServerEnlists ==
    ASSUME IInv, attach, UNCHANGED <<maker, lobbyProcess>>
    PROVE  IInv'
<1> DEFINE v == wrk.view
<1>1. /\ wrk.pc = "enlist" /\ wrk \in Locals /\ wrk.slot \in Slots
      /\ InUse(wrk.slot) /\ wrk.msg \in Mail(Pending)
      /\ wrk.ctrl = Ctl /\ place[Ctl] # "new" /\ maker = wrk.msg.from
      /\ NoLobbyYet /\ v \in Slots /\ slots[v].sock = Ctl
      /\ Pending \in Clients
  BY DEF attach, IInv, Work, InHand, Answering, Creating
<1>2. PICK k \in Codes :
          /\ lobbies' = [lobbies EXCEPT ![k] = [slot |-> v, ctrl |-> Ctl]]
          /\ wrk' = [wrk EXCEPT !.pc = "send_id", !.code = k]
  BY <1>1 DEF attach
<1>3. UNCHANGED <<slots, buffer, free, next_index, counter, epoll, tasks, net,
                  place, inbox, told>>
  BY DEF attach, engineVars, pool, entries, sizes, loop, kernel, history
<1>4. \A j \in Codes : lobbies'[j] = IF j = k THEN [slot |-> v, ctrl |-> Ctl]
                                     ELSE lobbies[j]
  BY <1>2 DEF IInv, PoolInv, PoolTypes
<1>5. lobbies' \in [Codes -> {NoLobby} \cup [slot : Slots, ctrl : {Ctl}]]
  BY <1>1, <1>2 DEF IInv, PoolInv, PoolTypes
<1>6. PoolInv'
  <2>1. PoolTypes' /\ Quiet'
    BY <1>3, <1>5 DEF IInv, PoolInv, PoolTypes, Quiet
  <2>2. Homes' /\ Registered'
    BY <1>3 DEF IInv, PoolInv, Homes, Registered, InUse
  <2>3. Control'
    BY <1>1, <1>3, <1>4 DEF IInv, PoolInv, Control
  <2> QED
    BY <2>1, <2>2, <2>3 DEF PoolInv
<1>7. Came' = Came /\ Known \subseteq Known' /\ k \in Known'
  BY <1>4 DEF Came, Known, lobbyProcess
<1>8. Work'
  <2>1. /\ wrk' \in Locals /\ wrk'.pc = "send_id" /\ wrk'.slot = wrk.slot
        /\ wrk'.msg = wrk.msg /\ wrk'.ctrl = Ctl /\ wrk'.view = v /\ wrk'.code = k
    BY <1>1, <1>2 DEF Locals, Points
  <2> QED
    BY <1>1, <1>3, <1>7, <2>1 DEF Work, InHand, Answering, Creating, InUse, Pending
<1>9. LobbyInv' /\ ParMail \subseteq ParMail'
  BY <1>7, LobbyGrows DEF lobbyProcess, IInv, LobbyInv, LobbyTypes
<1>10. Post'
  <2>1. inbox[Par] \in Seq(ParMail')
    BY <1>9, SeqMonotonic DEF IInv, Post
  <2> QED
    BY <1>3, <2>1 DEF IInv, Post
<1>11. Joint'
  <2>1. Unsent /\ Unsent' /\ greeted = {} /\ greeted' = {}
    BY <1>1, <1>2 DEF Unsent, IInv, Work, Locals, Joint, Silent, lobbyProcess
  <2>2. Silent'
    BY <1>3, <2>1 DEF IInv, Joint, Silent, Attaching, LPending, lobbyProcess
  <2>3. Moved'
    BY <1>1, <1>3, <1>7 DEF IInv, Joint, Moved, Leaving
  <2>4. Owned'
    BY <1>1, <1>2 DEF Owned, Creating, Locals
  <2> QED
    BY <2>1, <2>2, <2>3, <2>4 DEF Joint, IdFirst, GreetedWell
<1> QED
  BY <1>6, <1>8, <1>9, <1>10, <1>11 DEF IInv

\* The id is the first message to the lobby.
LEMMA ServerSendsId ==
    ASSUME IInv, send_lobby_id
    PROVE  IInv'
<1> DEFINE m == L!SetLobbyId(wrk.code)
<1>1. /\ wrk.pc = "send_id" /\ wrk \in Locals /\ wrk.slot \in Slots
      /\ InUse(wrk.slot) /\ wrk.msg \in Mail(Pending)
      /\ wrk.view \in Slots /\ slots[wrk.view].sock = Ctl
      /\ wrk.code \in Known /\ Pending \in Clients
  BY DEF send_lobby_id, init_lobby, IInv, Work, InHand, Answering, Creating
<1>2. /\ inbox' = [inbox EXCEPT ![Par] = Append(inbox[Par], m)]
      /\ wrk' = [wrk EXCEPT !.pc = "transfer"]
      /\ UNCHANGED lobbyProcess
      /\ UNCHANGED <<slots, buffer, free, next_index, counter, epoll, tasks, net,
                     place, told, lobbies, maker>>
  BY DEF send_lobby_id, init_lobby, pool, entries, sizes, loop, history
<1>3. PoolInv' /\ LobbyInv'
  BY <1>2, PoolKept, CalmLobby DEF IInv
<1>4. Came' = Came /\ Known' = Known /\ ParMail' = ParMail
  BY <1>2, CalmSets
<1>5. Work' /\ wrk'.pc = "transfer"
  <2>1. /\ wrk' \in Locals /\ wrk'.pc = "transfer" /\ wrk'.slot = wrk.slot
        /\ wrk'.msg = wrk.msg /\ wrk'.view = wrk.view /\ wrk'.code = wrk.code
    BY <1>1, <1>2 DEF Locals, Points
  <2> QED
    BY <1>1, <1>2, <1>4, <2>1 DEF Work, InHand, Answering, Creating, InUse, Pending
<1>6. Unsent /\ inbox[Par] = <<>>
  BY <1>1 DEF Unsent, IInv, Joint, Silent
<1>7. m \in ParMail /\ m \in Letters /\ IsId(m)
  <2>1. m \in ParMail
    BY <1>1 DEF ParMail
  <2>2. IsId(m)
    BY DEF L!SetLobbyId, IsId
  <2> QED
    BY <2>1, <2>2, ParMailFields
<1>8. /\ inbox'[Par] = <<m>>
      /\ \A c \in Conns : c # Par => inbox'[c] = inbox[c]
      /\ inbox' \in [Conns -> Seq(Letters)]
  <2>1. inbox \in [Conns -> Seq(Letters)] /\ Append(inbox[Par], m) = <<m>>
    BY <1>6 DEF IInv, Post
  <2>2. <<m>> \in Seq(Letters)
    BY <1>7
  <2> HIDE DEF m
  <2> QED
    BY <1>2, <2>1, <2>2, Names
<1>9. Post'
  <2>1. <<m>> \in Seq(ParMail)
    BY <1>7
  <2> QED
    BY <1>4, <1>8, <2>1 DEF IInv, Post
<1>10. Joint'
  <2>1. ~Unsent'
    BY <1>1, <1>2, <1>4, <1>5, Names DEF Unsent, NoLobbyYet, NoLobby, Known
  <2>2. greeted' = {} /\ ~Attaching'
    BY <1>2, <1>6 DEF IInv, Joint, Silent, Attaching, lobbyProcess
  <2>3. \A s \in Slots : l_slots'[s].sock = Par => NextIsId(s)'
    <3> SUFFICES ASSUME NEW s \in Slots, l_slots[s].sock = Par
                 PROVE  NextIsId(s)'
      BY <1>2 DEF lobbyProcess
    <3>1. l_buffer'[s] = <<>>
      BY <1>2, <1>6 DEF IInv, Joint, Silent, lobbyProcess
    <3>2. ~(l_wrk'.pc = "handle" /\ l_wrk'.slot = s)
      BY <1>2, <1>6 DEF IInv, Joint, Silent, LPending, lobbyProcess
    <3>3. inbox'[Par] # <<>> /\ Head(inbox'[Par]) = m
      BY <1>8
    <3> HIDE DEF m
    <3> QED
      BY <1>7, <3>1, <3>2, <3>3 DEF NextIsId, IsId
  <2>4. Moved'
    BY <1>1, <1>2, <1>4 DEF IInv, Joint, Moved, Leaving
  <2> QED
    BY <2>1, <2>2, <2>3, <2>4 DEF Joint, Owned, Unsent, Silent, IdFirst, GreetedWell
<1> QED
  BY <1>3, <1>5, <1>9, <1>10 DEF IInv

\* If the id cannot be sent, its maker is told.
LEMMA ServerFailsId ==
    ASSUME IInv, init_lobby_fails, UNCHANGED <<maker, lobbyProcess>>
    PROVE  IInv'
<1>1. /\ wrk.pc = "send_id" /\ wrk' = Return
      /\ told' = told \cup ({Pending} \ {NoConn})
  BY DEF init_lobby_fails, ReturnError
<1>2. UNCHANGED <<slots, buffer, free, next_index, counter, epoll, tasks, net,
                  place, inbox, lobbies>>
  BY DEF init_lobby_fails, engineVars, pool, entries, sizes, loop, kernel
<1>3. /\ wrk.msg \in Mail(Pending) /\ maker = wrk.msg.from /\ wrk.code \in Known
      /\ Pending \in Clients
  BY <1>1 DEF IInv, Work, InHand, Answering, Creating
<1>4. Pending \in Clients /\ maker = Pending
  BY <1>3, WordFields DEF Mail
<1>5. Excused' /\ Unsent /\ greeted' = {}
  BY <1>1, <1>4, Names DEF Excused, Unsent, IInv, Joint, Silent, lobbyProcess
<1>6. PoolInv' /\ LobbyInv'
  BY <1>2, PoolKept, CalmLobby DEF IInv
<1>7. Work' /\ wrk'.pc # "send_id"
  BY <1>1, WorkRests DEF IInv
<1>8. Came' = Came /\ Known' = Known /\ Post'
  BY <1>2, CalmSets DEF IInv, Post
<1>9. Moved'
  BY <1>1, <1>2, <1>8 DEF IInv, Joint, Moved, Leaving
<1>10. Silent' /\ Owned'
  BY <1>2, <1>3, <1>7, <1>8, Names
     DEF Silent, Owned, Unsent, NoLobbyYet, NoLobby, Known
<1>11. Joint'
  BY <1>5, <1>9, <1>10 DEF Joint, IdFirst, GreetedWell
<1> QED
  BY <1>6, <1>7, <1>8, <1>11 DEF IInv

\* A client is sent to the lobby; the server still has it in a slot.
LEMMA ServerHandsOver ==
    ASSUME IInv, hand_over
    PROVE  IInv'
<1> DEFINE s == wrk.slot  d == Pending
<1>1. wrk.pc = "send_socket"
  BY DEF hand_over, send_socket
<1>2. /\ s \in Slots /\ InUse(s) /\ wrk.msg \in Mail(d) /\ wrk.code \in Known
      /\ wrk.view \in Slots /\ slots[wrk.view].sock \in {Ctl, NoConn}
      /\ d \in Clients /\ epoll[d] = Absent /\ wrk \in Locals
  BY <1>1 DEF IInv, Work, InHand, Answering
<1>3. slots[wrk.view].sock = Ctl
  BY <1>2 DEF hand_over, send_socket, send_message
<1>4. wrk' = [wrk EXCEPT !.pc = "let_go", !.ctrl = Ctl]
  BY <1>3 DEF hand_over, send_socket
<1>5. UNCHANGED <<slots, buffer, free, next_index, counter, epoll, tasks, net,
                  place, told, lobbies, maker>>
  BY DEF hand_over, send_socket, pool, entries, sizes, loop
<1>6. PoolInv'
  BY <1>5, PoolKept DEF IInv
<1>7. Work' /\ wrk'.pc = "let_go" /\ wrk'.slot = s
  <2>1. /\ wrk' \in Locals /\ wrk'.pc = "let_go" /\ wrk'.slot = s
        /\ wrk'.msg = wrk.msg /\ wrk'.ctrl = Ctl
    BY <1>2, <1>4, Names DEF Locals, Points
  <2> QED
    BY <1>2, <1>5, <2>1 DEF Work, InHand, Answering, Creating, InUse, Pending
<1>8. L!server_transfer(d)
  BY <1>3 DEF hand_over
<1>9. UNCHANGED <<l_slots, l_buffer, l_free, l_next_index, l_counter, l_epoll,
                  l_tasks, l_wrk, lobby_id, greeted>>
  BY <1>8 DEF L!server_transfer, L!pool, L!entries, L!sizes, L!loop, L!lobbyVars
<1>10. PICK a \in BOOLEAN :
          /\ l_place' = [l_place EXCEPT ![d] = IF a THEN "backlog" ELSE "gone"]
          /\ inbox' = [inbox EXCEPT ![Par] =
                           Append(inbox[Par], Descriptor(IF a THEN d ELSE NoConn))]
  <2>1. PICK a \in IF CallsMayFail THEN BOOLEAN ELSE {TRUE} :
          /\ l_place' = [l_place EXCEPT ![d] = IF a THEN "backlog" ELSE "gone"]
          /\ inbox' = [inbox EXCEPT ![Par] =
                           Append(inbox[Par], Descriptor(IF a THEN d ELSE NoConn))]
    BY <1>8 DEF L!server_transfer, Descriptor
  <2> QED
    BY <2>1
<1> DEFINE m == Descriptor(IF a THEN d ELSE NoConn)
<1>11. l_place \in [Conns -> Places] /\ d \in Conns
  BY <1>2, Names DEF IInv, LobbyInv, LobbyTypes
<1>12. l_place' \in [Conns -> Places]
  BY <1>10, <1>11 DEF Places
<1>13. Came' = Came \cup {d} /\ Known' = Known
  <2>1. \A c \in Clients : l_place'[c] # "new" <=> l_place[c] # "new" \/ c = d
    BY <1>2, <1>10, <1>11, Names
  <2>2. Came' = Came \cup {d}
    BY <1>2, <2>1 DEF Came
  <2> QED
    BY <1>5, <2>2 DEF Known
<1>14. LobbyInv' /\ ParMail \subseteq ParMail'
  BY <1>9, <1>12, <1>13, LobbyGrows DEF IInv
<1>15. m \in ParMail' /\ m \in Letters
  <2>1. (IF a THEN d ELSE NoConn) \in Came' \cup {NoConn}
    BY <1>13
  <2>2. m \in ParMail'
    BY <2>1 DEF ParMail
  <2>3. (IF a THEN d ELSE NoConn) \in Clients \cup {NoConn}
    BY <1>2
  <2> QED
    BY <2>2, <2>3 DEF Letters
<1> HIDE DEF m
<1>16. /\ inbox'[Par] = Append(inbox[Par], m)
       /\ \A c \in Conns : c # Par => inbox'[c] = inbox[c]
       /\ inbox' \in [Conns -> Seq(Letters)]
  <2>1. inbox \in [Conns -> Seq(Letters)]
    BY DEF IInv, Post
  <2>2. Append(inbox[Par], m) \in Seq(Letters)
    BY <1>15, <2>1, Names
  <2> QED
    BY <1>10, <2>1, <2>2, Names DEF m
<1>17. inbox[Par] \in Seq(ParMail) /\ inbox[Par] \in Seq(ParMail')
  BY <1>14, SeqMonotonic DEF IInv, Post
<1>18. Post'
  <2>1. Append(inbox[Par], m) \in Seq(ParMail')
    BY <1>15, <1>17
  <2> QED
    BY <1>16, <2>1 DEF IInv, Post
<1>19. Joint'
  <2>1. ~Unsent /\ ~Unsent'
    BY <1>1, <1>2, <1>5, <1>7, Names DEF Unsent, NoLobbyYet, NoLobby, Known
  <2>2. (Excused => Excused') /\ (Named => Named')
    BY <1>5, <1>9, <1>13 DEF Excused, Named
  <2>3. Moved'
    <3>1. \A c \in Came : place'[c] = "moved"
      BY <1>1, <1>5 DEF IInv, Joint, Moved, Leaving
    <3>2. wrk'.pc = "let_go" /\ Pending' = d
      BY <1>5, <1>7 DEF Pending
    <3> HIDE DEF d
    <3>3. \A c \in Came' : place'[c] = "moved" \/ c = d
      BY <1>13, <3>1
    <3> QED
      BY <3>2, <3>3 DEF Moved, Leaving
  <2>4. inbox[Par] # <<>> => inbox'[Par] # <<>> /\ Head(inbox'[Par]) = Head(inbox[Par])
    BY <1>16, <1>17
  <2>5. \A t \in Slots : NextIsId(t) => NextIsId(t)'
    BY <1>9, <2>4 DEF NextIsId, IsId
  <2>6. IdFirst'
    BY <1>9, <2>1, <2>2, <2>5 DEF IInv, Joint, IdFirst, Attaching
  <2>7. GreetedWell'
    BY <1>9, <1>13, <2>2 DEF IInv, Joint, GreetedWell
  <2> QED
    BY <2>1, <2>3, <2>6, <2>7 DEF Joint, Owned, Unsent, Silent
<1> QED
  BY <1>6, <1>7, <1>14, <1>18, <1>19 DEF IInv

LEMMA ServerWorkerStep ==
    ASSUME IInv, ServerWorker
    PROVE  IInv'
<1>1. ASSUME ReceiveLoop \/ Broadcast, UNCHANGED <<lobbies, maker, lobbyProcess>>
      PROVE  IInv'
  BY <1>1, ServerStarts, ServerChecks, ServerTakesBuffered, ServerReceives,
     ServerWouldBlock, ServerReleases, ServerRearms, ServerSkips, ServerSends,
     ServerEndsBroadcast DEF ReceiveLoop, Broadcast
<1>2. ASSUME Handlers,
             maker' = (IF wrk'.pc = "attach" THEN wrk.msg.from ELSE maker),
             UNCHANGED lobbyProcess
      PROVE  IInv'
  <2>1. CASE spawn_lobby
    <3>1. wrk'.pc = "attach"
      BY <2>1 DEF spawn_lobby, IInv, Work, Locals
    <3> QED
      BY <1>2, <2>1, <3>1, ServerSpawns
  <2>2. CASE refuse \/ spawn_lobby_fails \/ join_unknown \/ attach_taken
    <3>1. wrk'.pc # "attach"
      BY <2>2 DEF refuse, spawn_lobby_fails, join_unknown, attach_taken,
                  ReturnError, Return, IdleWorker
    <3> QED
      BY <1>2, <2>2, <3>1, ServerRefuses
  <2>3. CASE execute_general_fails
    <3>1. wrk'.pc # "attach"
      BY <2>3 DEF execute_general_fails, Return, IdleWorker
    <3> QED
      BY <1>2, <2>3, <3>1, ServerCannotAnswer
  <2>4. CASE execute_chat
    <3>1. wrk'.pc # "attach"
      BY <2>4 DEF execute_chat, start_broadcast, IInv, Work, Locals
    <3> QED
      BY <1>2, <2>4, <3>1, ServerChats
  <2>5. CASE attach_lobby
    <3>1. wrk'.pc # "attach"
      <4>1. wrk' = Return =>  wrk'.pc # "attach"
        BY DEF Return, IdleWorker
      <4>2. attach_fails(TRUE) => wrk' = Return
        BY DEF attach_fails, ReturnError
      <4>3. attach_reused("TO_LOBBY") \/ attach_new("TO_LOBBY") => wrk'.pc # "attach"
        BY DEF attach_reused, attach_new, IInv, Work, Locals
      <4>4. attach_count \/ attach_subscribe("enlist") => wrk'.pc # "attach"
        BY DEF attach_count, attach_subscribe, IInv, Work, Locals
      <4> QED
        BY <2>5, <4>1, <4>2, <4>3, <4>4 DEF attach_lobby
    <3> QED
      BY <1>2, <2>5, <3>1, ServerAttaches, ServerCounts, ServerSubscribes,
         ServerAttachFails DEF attach_lobby
  <2>6. CASE attach
    <3>1. wrk'.pc # "attach"
      BY <2>6 DEF attach, IInv, Work, Locals
    <3> QED
      BY <1>2, <2>6, <3>1, ServerEnlists
  <2>7. CASE init_lobby_fails
    <3>1. wrk'.pc # "attach"
      BY <2>7 DEF init_lobby_fails, ReturnError, Return, IdleWorker
    <3> QED
      BY <1>2, <2>7, <3>1, ServerFailsId
  <2>8. CASE join_found
    <3>1. wrk'.pc # "attach"
      BY <2>8 DEF join_found, IInv, Work, Locals
    <3> QED
      BY <1>2, <2>8, <3>1, ServerFindsLobby
  <2>9. CASE transfer
    <3>1. wrk'.pc # "attach"
      BY <2>9 DEF transfer, IInv, Work, Locals
    <3> QED
      BY <1>2, <2>9, <3>1, ServerUnsubscribes
  <2>10. CASE send_socket_fails
    <3>1. wrk'.pc # "attach"
      BY <2>10 DEF send_socket_fails, Continue, IdleWorker
    <3> QED
      BY <1>2, <2>10, <3>1, ServerTransferFails
  <2>11. CASE let_go \/ release_again
    <3>1. wrk'.pc # "attach"
      BY <2>11 DEF let_go, release_again, Continue, IdleWorker
    <3> QED
      BY <1>2, <2>11, <3>1, ServerLetsGo, ServerReleasesAgain
  <2>12. CASE resubscribe \/ resubscribe_fails
    <3>1. wrk'.pc # "attach"
      BY <2>12 DEF resubscribe, resubscribe_fails, Continue, IdleWorker
    <3>2. UNCHANGED lobbies
      BY <2>12 DEF resubscribe, resubscribe_fails
    <3> QED
      BY <1>2, <2>12, <3>1, <3>2, ServerRearms, ServerGivesUp
  <2> QED
    BY <1>2, <2>1, <2>2, <2>3, <2>4, <2>5, <2>6, <2>7, <2>8, <2>9, <2>10,
       <2>11, <2>12 DEF Handlers
<1> QED
  BY <1>1, <1>2, ServerAnswers, ServerSendsId, ServerHandsOver DEF ServerWorker

-----------------------------------------------------------------------------
(* Steps of the lobby: what they leave alone                               *)

LEMMA ServerKept ==
    ASSUME IInv, UNCHANGED serverProcess
    PROVE  /\ PoolInv' /\ Work' /\ Known' = Known
           /\ (Unsent' <=> Unsent) /\ (Excused' <=> Excused)
           /\ Owned' /\ (Came' = Came => Moved')
<1>1. UNCHANGED <<slots, buffer, free, next_index, counter, epoll, tasks, net,
                  place, wrk, told, lobbies, maker>>
  BY DEF serverProcess, pool, entries, sizes, loop, history
<1>2. PoolInv' /\ Work'
  BY <1>1, PoolKept, WorkKept DEF IInv
<1>3. Owned'
  BY <1>1, OwnedKept DEF IInv, Joint, Creating
<1>4. Came' = Came => Moved'
  BY <1>1 DEF IInv, Joint, Moved, Leaving, Pending
<1> QED
  BY <1>1, <1>2, <1>3, <1>4 DEF Known, Unsent, NoLobbyYet, Excused

LEMMA LobbyMailLetters ==
    ASSUME NEW c
    PROVE  LobbyMail(c) \subseteq Letters
  BY ParMailFields, AnyWordFields DEF LobbyMail

\* What the lobby reads and does, with the same clients and no mail.
LEMMA LobbyFrame ==
    ASSUME IInv, UNCHANGED serverProcess, LobbyInv', Joint', Came' = Came,
           inbox' = inbox
    PROVE  IInv'
<1>1. PoolInv' /\ Work' /\ Known' = Known
  BY ServerKept
<1>2. ParMail' = ParMail
  BY <1>1 DEF ParMail, L!SetLobbyId, L!Answer
<1>3. Post'
  BY <1>2 DEF IInv, Post
<1> QED
  BY <1>1, <1>3 DEF IInv

\* Once the lobby has its id, or its maker knows that it has none, it may do
\* anything but forget.
LEMMA SettledJoint ==
    ASSUME IInv, UNCHANGED serverProcess, Came' = Came, ~Unsent,
           Excused \/ Named',
           \A g \in greeted' : g \in greeted \/ Excused \/ g.code \in Known
    PROVE  Joint'
<1>1. /\ Known' = Known /\ ~Unsent' /\ (Excused' <=> Excused)
  BY ServerKept
<1>2. Moved' /\ Owned'
  BY ServerKept
<1>3. GreetedWell'
  BY <1>1 DEF IInv, Joint, GreetedWell
<1> QED
  BY <1>1, <1>2, <1>3 DEF Joint, Silent, IdFirst

\* A step that neither starts nor ends the handling of the server's messages,
\* except by refusing one.
LEMMA PlainJoint ==
    ASSUME IInv, UNCHANGED serverProcess, Came' = Came,
           UNCHANGED <<lobby_id, greeted>>, inbox'[Par] = inbox[Par],
           \A s \in Slots : l_slots'[s].sock = Par =>
               l_slots[s].sock = Par /\ l_buffer'[s] = l_buffer[s],
           ~Attaching', l_wrk'.pc # "handle",
           l_wrk.pc = "handle" => ~IsId(l_wrk.msg)
    PROVE  Joint'
<1>1. Known' = Known /\ (Unsent' <=> Unsent) /\ (Excused' <=> Excused)
  BY ServerKept
<1>2. Moved' /\ Owned'
  BY ServerKept
<1>3. GreetedWell'
  BY <1>1 DEF IInv, Joint, GreetedWell
<1>4. Silent'
  BY <1>1 DEF IInv, Joint, Silent
<1>5. IdFirst'
  <2>1. \A s \in Slots : l_slots'[s].sock = Par /\ NextIsId(s) => NextIsId(s)'
    BY DEF NextIsId, IsId
  <2>2. Named' <=> Named
    BY <1>1 DEF Named
  <2> QED
    BY <1>1, <2>1, <2>2 DEF IInv, Joint, IdFirst
<1> QED
  BY <1>2, <1>3, <1>4, <1>5 DEF Joint

LEMMA AttachingSettled ==
    ASSUME IInv, Attaching
    PROVE  ~Unsent /\ (Excused \/ Named)
  BY DEF IInv, Joint, Silent, IdFirst

LEMMA LobbyKept ==
    ASSUME IInv, UNCHANGED serverProcess,
           UNCHANGED <<l_slots, l_buffer, l_free, l_next_index, l_counter,
                       l_epoll, l_tasks, l_place>>
    PROVE  LobbyTypes' /\ LobbyHomes' /\ Came' = Came
<1>1. Came' = Came /\ Known' = Known
  BY ServerKept DEF Came
<1>2. \A c : LobbyMail(c)' = LobbyMail(c)
  BY <1>1 DEF LobbyMail, ParMail, L!SetLobbyId, L!Answer
<1>3. LobbyTypes'
  BY DEF IInv, LobbyInv, LobbyTypes
<1>4. LobbyHomes'
  BY <1>1, <1>2 DEF IInv, LobbyInv, LobbyHomes
<1> QED
  BY <1>1, <1>3, <1>4

LEMMA LobbyRests ==
    ASSUME LobbyWork, l_wrk.pc # "idle", l_wrk' = L!Return \/ l_wrk' = L!Continue
    PROVE  LobbyWork' /\ l_wrk'.pc \in {"idle", "check"}
<1>1. l_wrk.slot \in Slots /\ IdleWorker \in Locals
  BY IdleTyped DEF LobbyWork
<1>2. CASE l_wrk' = L!Return
  <2>1. l_wrk' = IdleWorker
    BY <1>2, LobbyNames DEF L!Return
  <2> QED
    BY <1>1, <2>1, IdleTyped DEF LobbyWork, Attaching
<1>3. CASE l_wrk' = L!Continue
  <2>1. l_wrk' = [IdleWorker EXCEPT !.pc = "check", !.slot = l_wrk.slot]
    BY <1>3, LobbyNames DEF L!Continue
  <2>2. l_wrk' \in Locals /\ l_wrk'.pc = "check" /\ l_wrk'.slot \in Slots
    BY <1>1, <2>1 DEF Locals, Points
  <2> QED
    BY <2>2 DEF LobbyWork, Attaching
<1> QED
  BY <1>2, <1>3

\* release_connection in the lobby.
LEMMA LobbyReleased ==
    ASSUME IInv, UNCHANGED serverProcess, NEW s \in Slots,
           L!release_connection(s, L!NetworkTook),
           UNCHANGED <<l_next_index, l_counter, l_tasks>>
    PROVE  /\ LobbyTypes' /\ LobbyHomes' /\ Came' = Came
           /\ \A t \in Slots : l_slots'[t].sock = Par =>
                  l_slots[t].sock = Par /\ l_buffer'[t] = l_buffer[t]
<1> DEFINE d == l_slots[s].sock
<1>1. \A t : t \in L!Range(<<s>>) <=> t = s
  BY DEF L!Range
<1>2. \A c \in Conns : c \in L!SocketsOf(<<s>>) <=> c = d
  BY <1>1, Names DEF L!SocketsOf
<1>3. /\ l_slots' = [t \in Slots |-> IF t = s THEN EmptyEntry ELSE l_slots[t]]
      /\ l_buffer' = [t \in Slots |-> IF t = s THEN <<>> ELSE l_buffer[t]]
  BY <1>1, LobbyNames
     DEF L!release_connection, L!SlotsWithout, L!BufferWithout
<1>4. /\ l_epoll' = [c \in Conns |-> IF c = d THEN Absent ELSE l_epoll[c]]
      /\ l_place' = [c \in Conns |-> IF c = d THEN "gone" ELSE l_place[c]]
  BY <1>2, LobbyNames
     DEF L!release_connection, L!EpollWithout, L!PlaceWithout
<1>5. l_free' = Append(l_free, s) \/ l_free' = l_free
  BY DEF L!release_connection, L!give_back
<1>6. /\ l_slots \in [Slots -> EntryType] /\ l_buffer \in [Slots -> Seq(Letters)]
      /\ l_free \in Seq(Slots) /\ l_epoll \in [Conns -> Watch]
      /\ l_place \in [Conns -> Places]
  BY DEF IInv, LobbyInv, LobbyTypes
<1>7. LobbyTypes'
  <2>1. l_slots' \in [Slots -> EntryType]
    BY <1>3, <1>6 DEF EmptyEntry, EntryType
  <2>2. l_buffer' \in [Slots -> Seq(Letters)]
    BY <1>3, <1>6
  <2>3. l_epoll' \in [Conns -> Watch] /\ l_place' \in [Conns -> Places]
    BY <1>4, <1>6 DEF Absent, Watch, Places
  <2>4. l_free' \in Seq(Slots)
    <3>1. Append(l_free, s) \in Seq(Slots)
      BY <1>6
    <3> QED
      BY <1>5, <1>6, <3>1
  <2> QED
    BY <2>1, <2>2, <2>3, <2>4 DEF IInv, LobbyInv, LobbyTypes
<1>8. Came' = Came /\ Known' = Known
  <2>1. d \in Came \cup {Par, NoConn}
    BY DEF IInv, LobbyInv, LobbyHomes
  <2>2. \A c \in Clients : l_place'[c] # "new" <=> l_place[c] # "new"
    BY <1>4, <2>1, Names DEF Came
  <2> QED
    BY <2>2, ServerKept DEF Came
<1>9. \A t \in Slots : l_slots'[t].sock = IF t = s THEN NoConn ELSE l_slots[t].sock
  BY <1>3 DEF EmptyEntry
<1>10. LobbyHomes'
  <2>1. \A t \in Slots : l_slots'[t].sock \in Came' \cup {Par, NoConn}
    BY <1>8, <1>9 DEF IInv, LobbyInv, LobbyHomes
  <2>2. \A t \in Slots : l_slots'[t].sock = Par => t = 1
    BY <1>9, Names DEF IInv, LobbyInv, LobbyHomes
  <2>3. \A t \in Slots : l_buffer'[t] \in Seq(LobbyMail(l_slots[t].sock)')
    <3> SUFFICES ASSUME NEW t \in Slots
                 PROVE  l_buffer'[t] \in Seq(LobbyMail(l_slots[t].sock)')
      OBVIOUS
    <3>1. t # s => l_slots'[t] = l_slots[t] /\ l_buffer'[t] = l_buffer[t]
      BY <1>3
    <3>2. l_buffer[t] \in Seq(LobbyMail(l_slots[t].sock))
      BY DEF IInv, LobbyInv, LobbyHomes
    <3>3. t = s => l_buffer'[t] = <<>>
      BY <1>3
    <3>4. LobbyMail(l_slots[t].sock)' = LobbyMail(l_slots'[t].sock)
      BY <1>8 DEF LobbyMail, ParMail, L!SetLobbyId, L!Answer
    <3>5. CASE t = s
      <4>1. <<>> \in Seq(LobbyMail(l_slots[t].sock)')
        OBVIOUS
      <4> QED
        BY <3>3, <3>5, <4>1
    <3>6. CASE t # s
      <4>1. l_buffer'[t] \in Seq(LobbyMail(l_slots'[t].sock))
        BY <3>1, <3>2, <3>6
      <4> QED
        BY <3>4, <4>1
    <3> QED
      BY <3>5, <3>6
  <2>4. \A i \in 1 .. Len(l_free') : l_slots'[l_free'[i]].sock # Par
    <3>1. \A i \in 1 .. Len(l_free) : l_free[i] \in Slots
      BY <1>6
    <3>2. \A i \in 1 .. Len(l_free) : l_slots'[l_free[i]].sock # Par
      BY <1>9, <3>1, Names DEF IInv, LobbyInv, LobbyHomes
    <3>3. l_slots'[s].sock # Par
      BY <1>9, Names
    <3>4. CASE l_free' = Append(l_free, s)
      <4>1. Len(l_free') = Len(l_free) + 1 /\ Len(l_free) \in Nat
        BY <1>6, <3>4
      <4>2. /\ \A i \in 1 .. Len(l_free) : l_free'[i] = l_free[i]
            /\ l_free'[Len(l_free) + 1] = s
        BY <1>6, <3>4
      <4>3. \A i \in 1 .. Len(l_free') : i \in 1 .. Len(l_free) \/ i = Len(l_free) + 1
        BY <4>1
      <4> QED
        BY <3>2, <3>3, <4>2, <4>3
    <3>5. CASE l_free' = l_free
      BY <3>2, <3>5
    <3> QED
      BY <1>5, <3>4, <3>5
  <2>5. \A c \in Conns : l_epoll'[c].armed => l_epoll'[c].slot # NoSlot
    BY <1>4 DEF IInv, LobbyInv, LobbyHomes, Absent
  <2> QED
    BY <2>1, <2>2, <2>3, <2>4, <2>5 DEF LobbyHomes
<1>11. \A t \in Slots : l_slots'[t].sock = Par =>
           l_slots[t].sock = Par /\ l_buffer'[t] = l_buffer[t]
  BY <1>3, <1>9, Names
<1> QED
  BY <1>7, <1>8, <1>10, <1>11

-----------------------------------------------------------------------------
(* The lobby                                                               *)

\* A step of the lobby's worker that ends in the receive loop and has left
\* its slots alone ...
LEMMA LobbyRestStep ==
    ASSUME IInv, UNCHANGED serverProcess, l_wrk.pc # "idle", ~Attaching,
           l_wrk' = L!Return \/ l_wrk' = L!Continue,
           l_wrk.pc = "handle" => ~IsId(l_wrk.msg),
           UNCHANGED <<l_slots, l_buffer, l_free, l_next_index, l_counter,
                       l_epoll, l_tasks, l_place, inbox, lobby_id, greeted>>
    PROVE  IInv'
<1>1. LobbyTypes' /\ LobbyHomes' /\ Came' = Came
  BY LobbyKept
<1>2. LobbyWork' /\ l_wrk'.pc \in {"idle", "check"}
  BY LobbyRests DEF IInv, LobbyInv
<1>3. Joint'
  BY <1>1, <1>2, PlainJoint DEF Attaching
<1> QED
  BY <1>1, <1>2, <1>3, LobbyFrame DEF LobbyInv

\* ... or has released one.
LEMMA LobbyReleaseStep ==
    ASSUME IInv, UNCHANGED serverProcess, l_wrk.pc \notin {"idle", "handle"},
           l_wrk' = L!Return \/ l_wrk' = L!Continue,
           NEW s \in Slots, L!release_connection(s, L!NetworkTook),
           UNCHANGED <<l_next_index, l_counter, l_tasks, inbox, lobby_id, greeted>>
    PROVE  IInv'
<1>1. /\ LobbyTypes' /\ LobbyHomes' /\ Came' = Came
      /\ \A t \in Slots : l_slots'[t].sock = Par =>
             l_slots[t].sock = Par /\ l_buffer'[t] = l_buffer[t]
  BY LobbyReleased
<1>2. LobbyWork' /\ l_wrk'.pc \in {"idle", "check"}
  BY LobbyRests DEF IInv, LobbyInv
<1>3. Joint'
  BY <1>1, <1>2, PlainJoint DEF Attaching
<1> QED
  BY <1>1, <1>2, <1>3, LobbyFrame DEF LobbyInv

LEMMA LobbyReleases ==
    ASSUME IInv, UNCHANGED serverProcess, UNCHANGED <<lobby_id, greeted>>,
           \/ L!get_message_disconnected \/ L!get_message_fails
           \/ L!rearm_socket_fails
    PROVE  IInv'
<1>1. /\ l_wrk.pc \in {"receive", "rearm"}
      /\ l_wrk' = L!Return \/ l_wrk' = L!Continue
      /\ L!release_connection(l_wrk.slot, L!NetworkTook)
  BY DEF L!get_message_disconnected, L!get_message_fails, L!rearm_socket_fails,
         L!NothingToRead
<1>2. UNCHANGED <<l_next_index, l_counter, l_tasks, inbox>>
  BY DEF L!get_message_disconnected, L!get_message_fails, L!rearm_socket_fails,
         L!sizes, L!loop, L!kernel
<1>3. l_wrk.slot \in Slots
  BY <1>1 DEF IInv, LobbyInv, LobbyWork
<1> QED
  BY <1>1, <1>2, <1>3, LobbyReleaseStep

LEMMA LobbyAttachFails ==
    ASSUME IInv, UNCHANGED serverProcess, UNCHANGED <<lobby_id, greeted>>,
           L!attach_fails(FALSE) \/ L!send_join_lobby_message_fails
    PROVE  IInv'
<1>1. /\ l_wrk.pc \in {"subscribe", "greet"} /\ l_wrk' = L!Return
      /\ L!release_connection(l_wrk.view, L!NetworkTook)
  BY DEF L!attach_fails, L!send_join_lobby_message_fails, L!ReturnError
<1>2. UNCHANGED <<l_next_index, l_counter, l_tasks, inbox>>
  BY DEF L!attach_fails, L!send_join_lobby_message_fails, L!sizes, L!loop, L!kernel
<1>3. l_wrk.view \in Slots
  BY <1>1 DEF IInv, LobbyInv, LobbyWork, Attaching
<1> QED
  BY <1>1, <1>2, <1>3, LobbyReleaseStep

LEMMA LobbyRefuses ==
    ASSUME IInv, UNCHANGED serverProcess, L!refuse
    PROVE  IInv'
<1>1. l_wrk.pc = "handle" /\ l_wrk' = L!Return /\ ~IsId(l_wrk.msg)
  BY DEF L!refuse, L!ReturnError, L!LobbyAction, IsId
<1>2. UNCHANGED <<l_slots, l_buffer, l_free, l_next_index, l_counter,
                  l_epoll, l_tasks, l_place, inbox, lobby_id, greeted>>
  BY DEF L!refuse, L!engineVars, L!pool, L!entries, L!sizes, L!loop, L!kernel,
         L!lobbyVars
<1> QED
  BY <1>1, <1>2, LobbyRestStep DEF Attaching

\* A message without a descriptor; the lobby may complain.
LEMMA LobbyAcceptsNothing ==
    ASSUME IInv, UNCHANGED serverProcess, L!accept_nothing
    PROVE  IInv'
<1>1. l_wrk.pc = "handle" /\ l_wrk' = L!Continue /\ ~IsId(l_wrk.msg)
  BY DEF L!accept_nothing, L!Handling, IsId
<1>2. UNCHANGED <<l_slots, l_buffer, l_free, l_next_index, l_counter,
                  l_epoll, l_tasks, l_place, lobby_id, greeted>>
  BY DEF L!accept_nothing, L!pool, L!entries, L!sizes, L!loop, L!lobbyVars
<1>3. CASE inbox' = inbox
  BY <1>1, <1>2, <1>3, LobbyRestStep DEF Attaching
<1>4. CASE inbox' = [inbox EXCEPT ![Ctl] = Append(inbox[Ctl], L!Complaint)]
  <2>1. LobbyTypes' /\ LobbyHomes' /\ Came' = Came
    BY <1>2, LobbyKept
  <2>2. LobbyWork' /\ l_wrk'.pc \in {"idle", "check"}
    BY <1>1, LobbyRests DEF IInv, LobbyInv
  <2>3. /\ inbox \in [Conns -> Seq(Letters)] /\ inbox[Ctl] \in Seq(Mail(Ctl))
        /\ L!Complaint \in Mail(Ctl) /\ L!Complaint \in Letters
    BY ComplaintFields, Names DEF IInv, Post
  <2>4. /\ Append(inbox[Ctl], L!Complaint) \in Seq(Letters)
        /\ Append(inbox[Ctl], L!Complaint) \in Seq(Mail(Ctl))
    BY <2>3, Names
  <2>5. /\ inbox'[Ctl] = Append(inbox[Ctl], L!Complaint)
        /\ \A c \in Conns : c # Ctl => inbox'[c] = inbox[c]
        /\ inbox' \in [Conns -> Seq(Letters)]
    BY <1>4, <2>3, <2>4, Names
  <2>6. Joint'
    BY <1>1, <1>2, <2>1, <2>2, <2>5, Names, PlainJoint DEF Attaching
  <2>7. PoolInv' /\ Work' /\ ParMail' = ParMail
    BY <2>1, ServerKept DEF ParMail, L!SetLobbyId, L!Answer
  <2>8. Post'
    BY <2>4, <2>5, <2>7, Names DEF IInv, Post
  <2> QED
    BY <2>1, <2>2, <2>6, <2>7, <2>8 DEF IInv, LobbyInv
<1> QED
  BY <1>3, <1>4 DEF L!accept_nothing

LEMMA LobbyEndsBroadcast ==
    ASSUME IInv, UNCHANGED serverProcess, UNCHANGED <<lobby_id, greeted>>,
           L!broadcast_end
    PROVE  IInv'
<1>1. l_wrk.pc = "broadcast" /\ l_wrk' = L!Continue
  BY DEF L!broadcast_end
<1>2. UNCHANGED <<l_slots, l_buffer, l_free, l_next_index, l_counter,
                  l_epoll, l_tasks, l_place, inbox>>
  BY DEF L!broadcast_end, L!engineVars, L!pool, L!entries, L!sizes, L!loop,
         L!kernel
<1> QED
  BY <1>1, <1>2, LobbyRestStep DEF Attaching

\* A step that changes only the locals of the lobby's worker.
LEMMA LobbyLocalStep ==
    ASSUME IInv, UNCHANGED serverProcess, LobbyWork', ~Attaching',
           l_wrk'.pc # "handle",
           l_wrk.pc = "handle" => ~IsId(l_wrk.msg),
           UNCHANGED <<l_slots, l_buffer, l_free, l_next_index, l_counter,
                       l_epoll, l_tasks, l_place, inbox, lobby_id, greeted>>
    PROVE  IInv'
<1>1. LobbyTypes' /\ LobbyHomes' /\ Came' = Came
  BY LobbyKept
<1>2. Joint'
  BY <1>1, PlainJoint
<1> QED
  BY <1>1, <1>2, LobbyFrame DEF LobbyInv

LEMMA LobbyChecks ==
    ASSUME IInv, UNCHANGED serverProcess, UNCHANGED <<lobby_id, greeted>>,
           L!check_alive
    PROVE  IInv'
<1>1. l_wrk.pc = "check" /\ l_wrk.slot \in Slots /\ l_wrk \in Locals
  BY DEF L!check_alive, IInv, LobbyInv, LobbyWork
<1>2. UNCHANGED <<l_slots, l_buffer, l_free, l_next_index, l_counter,
                  l_epoll, l_tasks, l_place, inbox>>
  BY DEF L!check_alive, L!engineVars, L!pool, L!entries, L!sizes, L!loop, L!kernel
<1>3. CASE l_wrk' = L!Return
  BY <1>1, <1>2, <1>3, LobbyRestStep DEF Attaching
<1>4. CASE l_wrk' = [l_wrk EXCEPT !.pc = "receive"]
  <2>1. l_wrk' \in Locals /\ l_wrk'.pc = "receive" /\ l_wrk'.slot = l_wrk.slot
    BY <1>1, <1>4 DEF Locals, Points
  <2>2. LobbyWork'
    BY <1>1, <2>1 DEF LobbyWork, Attaching
  <2> QED
    BY <1>1, <1>2, <2>1, <2>2, LobbyLocalStep DEF Attaching
<1> QED
  BY <1>3, <1>4 DEF L!check_alive

LEMMA LobbyWouldBlock ==
    ASSUME IInv, UNCHANGED serverProcess, UNCHANGED <<lobby_id, greeted>>,
           L!get_message_would_block
    PROVE  IInv'
<1>1. /\ l_wrk.pc = "receive" /\ l_wrk.slot \in Slots /\ l_wrk \in Locals
      /\ l_wrk' = [l_wrk EXCEPT !.pc = "rearm"]
  BY DEF L!get_message_would_block, L!NothingToRead, IInv, LobbyInv, LobbyWork
<1>2. UNCHANGED <<l_slots, l_buffer, l_free, l_next_index, l_counter,
                  l_epoll, l_tasks, l_place, inbox>>
  BY DEF L!get_message_would_block, L!engineVars, L!pool, L!entries, L!sizes,
         L!loop, L!kernel
<1>3. l_wrk' \in Locals /\ l_wrk'.pc = "rearm" /\ l_wrk'.slot = l_wrk.slot
  BY <1>1 DEF Locals, Points
<1>4. LobbyWork'
  BY <1>1, <1>3 DEF LobbyWork, Attaching
<1> QED
  BY <1>1, <1>2, <1>3, <1>4, LobbyLocalStep DEF Attaching

LEMMA LobbyChats ==
    ASSUME IInv, UNCHANGED serverProcess, L!execute_chat
    PROVE  IInv'
<1>1. /\ l_wrk.pc = "handle" /\ l_wrk.slot \in Slots /\ l_wrk \in Locals
      /\ ~IsId(l_wrk.msg)
      /\ l_wrk' = [l_wrk EXCEPT !.pc = "broadcast", !.index = 1,
                                !.audience = L!Audience]
  BY DEF L!execute_chat, L!Handling, L!start_broadcast, IsId, IInv, LobbyInv,
         LobbyWork
<1>2. UNCHANGED <<l_slots, l_buffer, l_free, l_next_index, l_counter,
                  l_epoll, l_tasks, l_place, inbox, lobby_id, greeted>>
  BY DEF L!execute_chat, L!engineVars, L!pool, L!entries, L!sizes, L!loop,
         L!kernel, L!lobbyVars
<1>3. L!Audience \in SUBSET (Conns \cup {NoConn})
  <2>1. \A s \in Slots : l_slots[s].sock \in Conns \cup {NoConn}
    BY DEF IInv, LobbyInv, LobbyTypes, EntryType
  <2> QED
    BY <2>1, LobbyNames DEF L!Audience
<1>4. /\ l_wrk' \in Locals /\ l_wrk'.pc = "broadcast" /\ l_wrk'.index = 1
      /\ l_wrk'.slot = l_wrk.slot
  BY <1>1, <1>3 DEF Locals, Points
<1>5. LobbyWork'
  BY <1>1, <1>4 DEF LobbyWork, Attaching
<1> QED
  BY <1>1, <1>2, <1>4, <1>5, LobbyLocalStep DEF Attaching

LEMMA LobbySkips ==
    ASSUME IInv, UNCHANGED serverProcess, UNCHANGED <<lobby_id, greeted>>,
           L!broadcast_skip
    PROVE  IInv'
<1>1. /\ l_wrk.pc = "broadcast" /\ l_wrk.slot \in Slots /\ l_wrk \in Locals
      /\ l_wrk.index \in Nat /\ l_wrk.index >= 1
      /\ l_wrk' = [l_wrk EXCEPT !.index = l_wrk.index + 1]
  BY DEF L!broadcast_skip, IInv, LobbyInv, LobbyWork, Locals
<1>2. UNCHANGED <<l_slots, l_buffer, l_free, l_next_index, l_counter,
                  l_epoll, l_tasks, l_place, inbox>>
  BY DEF L!broadcast_skip, L!engineVars, L!pool, L!entries, L!sizes, L!loop,
         L!kernel
<1>3. /\ l_wrk' \in Locals /\ l_wrk'.pc = "broadcast" /\ l_wrk'.slot = l_wrk.slot
      /\ l_wrk'.index = l_wrk.index + 1
  BY <1>1 DEF Locals
<1>4. LobbyWork'
  BY <1>1, <1>3 DEF LobbyWork, Attaching
<1> QED
  BY <1>1, <1>2, <1>3, <1>4, LobbyLocalStep DEF Attaching

LEMMA LobbySends ==
    ASSUME IInv, UNCHANGED serverProcess, UNCHANGED <<lobby_id, greeted>>,
           L!broadcast_send
    PROVE  IInv'
<1> DEFINE i == l_wrk.index
<1>1. /\ l_wrk.pc = "broadcast" /\ l_wrk.slot \in Slots /\ l_wrk \in Locals
      /\ i \in Nat /\ i >= 1 /\ i < l_counter
  BY DEF L!broadcast_send, L!BroadcastTo, IInv, LobbyInv, LobbyWork, Locals
<1>2. UNCHANGED <<l_next_index, l_counter, l_tasks, inbox>>
  BY DEF L!broadcast_send, L!sizes, L!loop, L!kernel
<1>3. /\ l_wrk' \in Locals /\ l_wrk'.pc = "broadcast" /\ l_wrk'.index = i + 1
      /\ l_wrk'.slot = l_wrk.slot
  <2> DEFINE w == [l_wrk EXCEPT !.index = l_wrk.index + 1]
  <2>1. /\ w \in Locals /\ w.pc = "broadcast" /\ w.index = l_wrk.index + 1
        /\ w.slot = l_wrk.slot
    BY <1>1 DEF Locals
  <2>2. l_wrk.audience \ {l_slots[l_wrk.index].sock} \in SUBSET (Conns \cup {NoConn})
    BY <1>1 DEF Locals
  <2>3. l_wrk' = [w EXCEPT !.audience = l_wrk.audience \ {l_slots[l_wrk.index].sock}]
    BY <1>1 DEF L!broadcast_send, Locals
  <2> HIDE DEF w
  <2> QED
    BY <2>1, <2>2, <2>3 DEF Locals
<1>4. LobbyWork'
  BY <1>1, <1>3 DEF LobbyWork, Attaching
<1>5. CASE UNCHANGED <<L!entries, l_epoll, l_place>>
  <2>1. UNCHANGED <<l_slots, l_buffer, l_free>>
    BY <1>5 DEF L!entries
  <2> QED
    BY <1>1, <1>2, <1>3, <1>4, <1>5, <2>1, LobbyLocalStep DEF Attaching
<1>6. CASE L!release_connection(i, L!NetworkTook)
  <2>1. i \in Slots
    BY <1>1, Names DEF IInv, LobbyInv, LobbyTypes, Slots
  <2>2. /\ LobbyTypes' /\ LobbyHomes' /\ Came' = Came
        /\ \A t \in Slots : l_slots'[t].sock = Par =>
               l_slots[t].sock = Par /\ l_buffer'[t] = l_buffer[t]
    BY <1>2, <1>6, <2>1, LobbyReleased
  <2>3. Joint'
    BY <1>1, <1>2, <1>3, <2>2, PlainJoint DEF Attaching
  <2> QED
    BY <1>2, <1>4, <2>2, <2>3, LobbyFrame DEF LobbyInv
<1> QED
  BY <1>5, <1>6 DEF L!broadcast_send

\* Epoll and the queue of slots change; what the lobby holds does not.
LEMMA LobbyWatches ==
    ASSUME IInv, UNCHANGED serverProcess,
           UNCHANGED <<l_slots, l_buffer, l_free, l_next_index, l_counter,
                       l_place, inbox, lobby_id, greeted>>,
           l_epoll' \in [Conns -> Watch], l_tasks' \in Seq(Slots),
           \A c \in Conns : l_epoll'[c].armed => l_epoll'[c].slot # NoSlot
    PROVE  LobbyTypes' /\ LobbyHomes' /\ Came' = Came
<1>1. Came' = Came /\ Known' = Known
  BY ServerKept DEF Came
<1>2. \A c : LobbyMail(c)' = LobbyMail(c)
  BY <1>1 DEF LobbyMail, ParMail, L!SetLobbyId, L!Answer
<1>3. LobbyTypes'
  BY DEF IInv, LobbyInv, LobbyTypes
<1>4. LobbyHomes'
  BY <1>1, <1>2 DEF IInv, LobbyInv, LobbyHomes
<1> QED
  BY <1>1, <1>3, <1>4

LEMMA LobbyReports ==
    ASSUME IInv, LobbyEvents
    PROVE  IInv'
<1>1. UNCHANGED serverProcess /\ UNCHANGED <<lobby_id, greeted>>
  BY DEF LobbyEvents, L!Events, L!lobbyVars
<1>2. PICK c \in Conns : L!process_event(c)
  BY LobbyNames DEF LobbyEvents, L!Events
<1>3. /\ l_epoll' = [l_epoll EXCEPT ![c].armed = FALSE]
      /\ l_tasks' = Append(l_tasks, l_epoll[c].slot)
      /\ l_epoll[c].armed
  BY <1>2 DEF L!process_event, L!Queued
<1>4. UNCHANGED <<l_slots, l_buffer, l_free, l_next_index, l_counter, l_place,
                  l_wrk, inbox>>
  BY <1>2 DEF L!process_event, L!pool, L!entries, L!sizes, L!kernel
<1>5. /\ l_epoll[c].slot \in Slots /\ l_epoll \in [Conns -> Watch]
      /\ l_tasks \in Seq(Slots)
  BY <1>3 DEF IInv, LobbyInv, LobbyTypes, LobbyHomes, Watch
<1>6. l_epoll' \in [Conns -> Watch] /\ l_tasks' \in Seq(Slots)
  <2>1. [l_epoll[c] EXCEPT !.armed = FALSE] \in Watch
    BY <1>5 DEF Watch
  <2>2. l_epoll' = [l_epoll EXCEPT ![c] = [l_epoll[c] EXCEPT !.armed = FALSE]]
    BY <1>3, <1>5
  <2>3. l_epoll' \in [Conns -> Watch]
    BY <1>5, <2>1, <2>2
  <2> QED
    BY <1>3, <1>5, <2>3
<1>7. \A d \in Conns : l_epoll'[d].armed => l_epoll'[d].slot # NoSlot
  BY <1>3, <1>5 DEF Watch, IInv, LobbyInv, LobbyHomes
<1>8. LobbyTypes' /\ LobbyHomes' /\ Came' = Came
  BY <1>1, <1>4, <1>6, <1>7, LobbyWatches
<1>9. ParMail' = ParMail
  BY <1>1, <1>8, ServerKept DEF ParMail, L!SetLobbyId, L!Answer
<1>10. LobbyWork'
  BY <1>4, <1>8, <1>9 DEF IInv, LobbyInv, LobbyWork, LPending, Attaching, LobbyMail
<1>11. Joint'
  <2>1. Known' = Known /\ (Unsent' <=> Unsent) /\ (Excused' <=> Excused)
    BY <1>1, ServerKept
  <2>2. Moved' /\ Owned'
    BY <1>1, <1>8, ServerKept
  <2>3. Silent' /\ GreetedWell'
    BY <1>1, <1>4, <2>1
       DEF IInv, Joint, Silent, GreetedWell, Attaching, LPending
  <2>4. IdFirst'
    BY <1>1, <1>4, <2>1
       DEF IInv, Joint, IdFirst, Named, Attaching, NextIsId, IsId
  <2> QED
    BY <2>2, <2>3, <2>4 DEF Joint
<1> QED
  BY <1>1, <1>4, <1>8, <1>10, <1>11, LobbyFrame DEF LobbyInv

LEMMA LobbyStarts ==
    ASSUME IInv, UNCHANGED serverProcess, UNCHANGED <<lobby_id, greeted>>,
           L!process_connection
    PROVE  IInv'
<1>1. /\ l_wrk.pc = "idle" /\ l_tasks # <<>> /\ l_tasks' = Tail(l_tasks)
      /\ l_wrk' = [IdleWorker EXCEPT !.pc = "check", !.slot = Head(l_tasks)]
  BY LobbyNames DEF L!process_connection
<1>2. UNCHANGED <<l_slots, l_buffer, l_free, l_next_index, l_counter, l_epoll,
                  l_place, inbox>>
  BY DEF L!process_connection, L!pool, L!entries, L!sizes, L!kernel
<1>3. Head(l_tasks) \in Slots /\ l_tasks' \in Seq(Slots)
  BY <1>1, SeqTail DEF IInv, LobbyInv, LobbyTypes
<1>4. l_wrk' \in Locals /\ l_wrk'.pc = "check" /\ l_wrk'.slot \in Slots
  BY <1>1, <1>3, IdleTyped DEF Locals, Points
<1>5. LobbyWork'
  BY <1>4 DEF LobbyWork, Attaching
<1>6. LobbyTypes' /\ LobbyHomes' /\ Came' = Came
  <2>1. /\ l_epoll' \in [Conns -> Watch]
        /\ \A c \in Conns : l_epoll'[c].armed => l_epoll'[c].slot # NoSlot
    BY <1>2 DEF IInv, LobbyInv, LobbyTypes, LobbyHomes
  <2> QED
    BY <1>2, <1>3, <2>1, LobbyWatches
<1>7. Joint'
  BY <1>1, <1>2, <1>4, <1>6, PlainJoint DEF Attaching
<1> QED
  BY <1>2, <1>5, <1>6, <1>7, LobbyFrame DEF LobbyInv

\* The socket of slot s is subscribed.
LEMMA LobbyArmed ==
    ASSUME IInv, UNCHANGED serverProcess, NEW s \in Slots,
           l_slots[s].sock # NoConn,
           l_epoll' = [l_epoll EXCEPT ![l_slots[s].sock] = L!Armed(s)],
           UNCHANGED <<l_slots, l_buffer, l_free, l_next_index, l_counter,
                       l_tasks, l_place, inbox, lobby_id, greeted>>
    PROVE  LobbyTypes' /\ LobbyHomes' /\ Came' = Came
<1>1. l_slots[s].sock \in Conns /\ L!Armed(s) \in Watch /\ L!Armed(s).slot # NoSlot
  BY Names DEF IInv, LobbyInv, LobbyTypes, EntryType, L!Armed, Watch
<1>2. l_epoll' \in [Conns -> Watch] /\ l_tasks' \in Seq(Slots)
  BY <1>1 DEF IInv, LobbyInv, LobbyTypes
<1>3. \A c \in Conns : l_epoll'[c].armed => l_epoll'[c].slot # NoSlot
  BY <1>1 DEF IInv, LobbyInv, LobbyTypes, LobbyHomes
<1> QED
  BY <1>2, <1>3, LobbyWatches

LEMMA LobbyRearms ==
    ASSUME IInv, UNCHANGED serverProcess, UNCHANGED <<lobby_id, greeted>>,
           L!rearm_socket
    PROVE  IInv'
<1>1. /\ l_wrk.pc = "rearm" /\ l_wrk' = L!Return /\ LPending # NoConn
      /\ l_epoll' = [l_epoll EXCEPT ![LPending] = L!Armed(l_wrk.slot)]
  BY DEF L!rearm_socket, L!Pending, LPending
<1>2. UNCHANGED <<l_slots, l_buffer, l_free, l_next_index, l_counter, l_tasks,
                  l_place, inbox>>
  BY DEF L!rearm_socket, L!pool, L!entries, L!sizes, L!loop, L!kernel
<1>3. l_wrk.slot \in Slots
  BY <1>1 DEF IInv, LobbyInv, LobbyWork
<1>4. LobbyTypes' /\ LobbyHomes' /\ Came' = Came
  BY <1>1, <1>2, <1>3, LobbyArmed DEF LPending
<1>5. LobbyWork' /\ l_wrk'.pc \in {"idle", "check"}
  BY <1>1, LobbyRests DEF IInv, LobbyInv
<1>6. Joint'
  BY <1>1, <1>2, <1>4, <1>5, PlainJoint DEF Attaching
<1> QED
  BY <1>2, <1>4, <1>5, <1>6, LobbyFrame DEF LobbyInv

\* The mail of the slot that the lobby's worker has in hand.
LEMMA LobbyBuffered ==
    ASSUME IInv, UNCHANGED serverProcess, NEW s \in Slots,
           NEW q \in Seq(LobbyMail(l_slots[s].sock)),
           l_buffer' = [l_buffer EXCEPT ![s] = q],
           UNCHANGED <<l_slots, l_free, l_next_index, l_counter, l_epoll,
                       l_tasks, l_place>>
    PROVE  /\ LobbyTypes' /\ LobbyHomes' /\ Came' = Came
           /\ \A t \in Slots : l_buffer'[t] = IF t = s THEN q ELSE l_buffer[t]
           /\ \A c : LobbyMail(c)' = LobbyMail(c)
<1>1. Came' = Came /\ Known' = Known
  BY ServerKept DEF Came
<1>2. \A c : LobbyMail(c)' = LobbyMail(c)
  BY <1>1 DEF LobbyMail, ParMail, L!SetLobbyId, L!Answer
<1>3. q \in Seq(Letters)
  BY LobbyMailLetters, SeqMonotonic
<1>4. /\ l_buffer' \in [Slots -> Seq(Letters)]
      /\ \A t \in Slots : l_buffer'[t] = IF t = s THEN q ELSE l_buffer[t]
  BY <1>3 DEF IInv, LobbyInv, LobbyTypes
<1>5. LobbyTypes'
  BY <1>4 DEF IInv, LobbyInv, LobbyTypes
<1>6. \A t \in Slots : l_buffer'[t] \in Seq(LobbyMail(l_slots[t].sock))
  BY <1>4 DEF IInv, LobbyInv, LobbyHomes
<1>7. LobbyHomes'
  BY <1>1, <1>2, <1>6 DEF IInv, LobbyInv, LobbyHomes
<1> QED
  BY <1>1, <1>2, <1>4, <1>5, <1>7

LEMMA LobbyHandles ==
    ASSUME IInv, l_wrk.pc = "receive", NEW m \in LobbyMail(LPending),
           \A c : LobbyMail(c)' = LobbyMail(c), UNCHANGED l_slots,
           l_wrk' = [l_wrk EXCEPT !.pc = "handle", !.msg = m]
    PROVE  LobbyWork' /\ l_wrk'.pc = "handle" /\ l_wrk'.slot = l_wrk.slot /\ l_wrk'.msg = m
<1>1. m \in Letters /\ l_wrk \in Locals /\ l_wrk.slot \in Slots
  BY LobbyMailLetters DEF IInv, LobbyInv, LobbyWork
<1>2. /\ l_wrk' \in Locals /\ l_wrk'.pc = "handle" /\ l_wrk'.slot = l_wrk.slot
      /\ l_wrk'.msg = m
  BY <1>1 DEF Locals, Points
<1>3. LPending' = LPending
  BY <1>2 DEF LPending
<1> QED
  BY <1>1, <1>2, <1>3 DEF LobbyWork, Attaching

LEMMA LobbyTakesBuffered ==
    ASSUME IInv, UNCHANGED serverProcess, UNCHANGED <<lobby_id, greeted>>,
           L!get_message_buffered
    PROVE  IInv'
<1> DEFINE s == l_wrk.slot  m == Head(l_buffer[s])
<1>1. /\ l_wrk.pc = "receive" /\ l_buffer[s] # <<>>
      /\ l_wrk' = [l_wrk EXCEPT !.pc = "handle", !.msg = m]
      /\ l_buffer' = [l_buffer EXCEPT ![s] = Tail(l_buffer[s])]
  BY DEF L!get_message_buffered
<1>2. UNCHANGED <<l_slots, l_free, l_next_index, l_counter, l_epoll, l_tasks,
                  l_place, inbox>>
  BY DEF L!get_message_buffered, L!sizes, L!loop, L!kernel
<1>3. s \in Slots /\ l_buffer[s] \in Seq(LobbyMail(LPending))
  BY <1>1 DEF IInv, LobbyInv, LobbyWork, LobbyHomes, LPending
<1>4. m \in LobbyMail(LPending) /\ Tail(l_buffer[s]) \in Seq(LobbyMail(LPending))
  BY <1>1, <1>3, SeqTail
<1>5. /\ LobbyTypes' /\ LobbyHomes' /\ Came' = Came
      /\ \A t \in Slots : l_buffer'[t] = IF t = s THEN Tail(l_buffer[s]) ELSE l_buffer[t]
      /\ \A c : LobbyMail(c)' = LobbyMail(c)
  BY <1>1, <1>2, <1>3, <1>4, LobbyBuffered DEF LPending
<1>6. LobbyWork' /\ l_wrk'.pc = "handle" /\ l_wrk'.slot = s /\ l_wrk'.msg = m
  BY <1>1, <1>2, <1>4, <1>5, LobbyHandles
<1>7. Joint'
  <2>1. Known' = Known /\ (Unsent' <=> Unsent) /\ (Excused' <=> Excused)
    BY ServerKept
  <2>2. Moved' /\ Owned'
    BY <1>5, ServerKept
  <2>3. GreetedWell'
    BY <2>1 DEF IInv, Joint, GreetedWell
  <2>4. Unsent => l_slots[s].sock # Par
    BY <1>1, <1>3 DEF IInv, Joint, Silent
  <2>5. Silent'
    BY <1>2, <1>5, <1>6, <2>1, <2>4 DEF IInv, Joint, Silent, Attaching, LPending
  <2>6. \A t \in Slots : l_slots[t].sock = Par /\ NextIsId(t) => NextIsId(t)'
    BY <1>1, <1>2, <1>5, <1>6 DEF NextIsId, IsId
  <2>7. IdFirst'
    BY <1>2, <1>6, <2>1, <2>6 DEF IInv, Joint, IdFirst, Named, Attaching
  <2> QED
    BY <2>2, <2>3, <2>5, <2>7 DEF Joint
<1> QED
  BY <1>2, <1>5, <1>6, <1>7, LobbyFrame DEF LobbyInv

LEMMA LobbyReceives ==
    ASSUME IInv, UNCHANGED serverProcess, UNCHANGED <<lobby_id, greeted>>,
           L!get_message_received
    PROVE  IInv'
<1> DEFINE s == l_wrk.slot  c == LPending  m == Head(inbox[c])
<1>1. /\ l_wrk.pc = "receive" /\ l_buffer[s] = <<>> /\ c # NoConn
      /\ s \in Slots
  BY DEF L!get_message_received, L!Pending, LPending, IInv, LobbyInv, LobbyWork
<1>2. PICK n \in 1 .. Len(inbox[c]) :
          /\ l_wrk' = [l_wrk EXCEPT !.pc = "handle", !.msg = m]
          /\ l_buffer' = [l_buffer EXCEPT ![s] = SubSeq(inbox[c], 2, n)]
          /\ inbox' = [inbox EXCEPT ![c] = SubSeq(inbox[c], n + 1, Len(inbox[c]))]
  BY DEF L!get_message_received, L!Pending, LPending
<1>3. UNCHANGED <<l_slots, l_free, l_next_index, l_counter, l_epoll, l_tasks,
                  l_place>>
  BY DEF L!get_message_received, L!sizes, L!loop
<1>4. c \in Conns /\ (c = Par \/ c \in Clients)
  <2>1. c \in Came \cup {Par, NoConn}
    BY <1>1 DEF IInv, LobbyInv, LobbyHomes, LPending
  <2> QED
    BY <1>1, <2>1, Names DEF Came
<1> DEFINE M == IF c = Par THEN ParMail ELSE Mail(c)
<1>5. inbox[c] \in Seq(M)
  BY <1>4 DEF IInv, Post
<1>6. M \subseteq LobbyMail(c)
  BY <1>4 DEF LobbyMail, Mail, AllWords
<1> HIDE DEF M
<1>7. /\ m \in M /\ SubSeq(inbox[c], 2, n) \in Seq(M)
      /\ SubSeq(inbox[c], n + 1, Len(inbox[c])) \in Seq(M)
  BY <1>5, SeqParts
<1>8. m \in LobbyMail(c) /\ SubSeq(inbox[c], 2, n) \in Seq(LobbyMail(c))
  BY <1>6, <1>7, SeqMonotonic
<1>9. /\ LobbyTypes' /\ LobbyHomes' /\ Came' = Came
      /\ \A t \in Slots : l_buffer'[t] =
             IF t = s THEN SubSeq(inbox[c], 2, n) ELSE l_buffer[t]
      /\ \A d : LobbyMail(d)' = LobbyMail(d)
  BY <1>1, <1>2, <1>3, <1>8, LobbyBuffered DEF LPending
<1>10. LobbyWork' /\ l_wrk'.pc = "handle" /\ l_wrk'.slot = s /\ l_wrk'.msg = m
  BY <1>1, <1>2, <1>3, <1>8, <1>9, LobbyHandles
<1>11. /\ inbox \in [Conns -> Seq(Letters)]
       /\ \A d \in Conns : inbox'[d] = IF d = c
              THEN SubSeq(inbox[c], n + 1, Len(inbox[c])) ELSE inbox[d]
  BY <1>2 DEF IInv, Post
<1>12. Known' = Known /\ (Unsent' <=> Unsent) /\ (Excused' <=> Excused)
  BY ServerKept
<1>13. Post'
  <2>1. ParMail' = ParMail
    BY <1>9, <1>12 DEF ParMail, L!SetLobbyId, L!Answer
  <2>2. SubSeq(inbox[c], n + 1, Len(inbox[c])) \in Seq(Letters)
    BY <1>6, <1>7, LobbyMailLetters, SeqMonotonic
  <2>3. inbox' \in [Conns -> Seq(Letters)]
    BY <1>2, <1>11, <2>2
  <2>4. \A d \in Conns : d # Par => inbox'[d] \in Seq(Mail(d))
    BY <1>7, <1>11 DEF M, IInv, Post
  <2>5. inbox'[Par] \in Seq(ParMail)
    BY <1>7, <1>11, Names DEF M, IInv, Post
  <2> QED
    BY <2>1, <2>3, <2>4, <2>5 DEF Post
<1>14. Joint'
  <2>1. inbox[c] # <<>>
    BY <1>2, <1>5
  <2>2. Moved' /\ Owned'
    BY <1>9, ServerKept
  <2>3. GreetedWell'
    BY <1>12 DEF IInv, Joint, GreetedWell
  <2>4. Unsent => c # Par
    BY <2>1 DEF IInv, Joint, Silent
  <2>5. c # Par => inbox'[Par] = inbox[Par]
    BY <1>11, Names
  <2>6. Silent'
    <3> SUFFICES ASSUME Unsent PROVE Silent'
      BY <1>12 DEF Silent
    <3>1. inbox'[Par] = <<>> /\ greeted' = {}
      BY <2>4, <2>5 DEF IInv, Joint, Silent
    <3>2. \A t \in Slots : l_slots'[t].sock = Par => l_buffer'[t] = <<>>
      BY <1>3, <1>9, <2>4 DEF IInv, Joint, Silent, LPending
    <3>3. ~Attaching' /\ LPending' # Par
      BY <1>3, <1>10, <2>4 DEF Attaching, LPending
    <3> QED
      BY <3>1, <3>2, <3>3 DEF Silent
  <2>7. ASSUME NEW t \in Slots, l_slots[t].sock = Par, NextIsId(t)
        PROVE  NextIsId(t)'
    <3>1. CASE t = s
      <4>1. c = Par
        BY <2>7, <3>1 DEF LPending
      <4>2. IsId(m)
        BY <1>1, <2>7, <3>1, <4>1 DEF NextIsId
      <4> HIDE DEF m, s
      <4> QED
        BY <1>10, <3>1, <4>2 DEF NextIsId, IsId
    <3>2. CASE t # s
      <4>1. c # Par
        BY <1>1, <2>7, <3>2 DEF LPending, IInv, LobbyInv, LobbyHomes
      <4>2. l_buffer'[t] = l_buffer[t] /\ inbox'[Par] = inbox[Par]
        BY <1>9, <2>5, <3>2, <4>1
      <4> QED
        BY <1>1, <1>10, <2>7, <3>2, <4>2 DEF NextIsId, IsId
    <3> QED
      BY <3>1, <3>2
  <2>8. IdFirst'
    BY <1>3, <1>10, <1>12, <2>7 DEF IInv, Joint, IdFirst, Named, Attaching
  <2> QED
    BY <2>2, <2>3, <2>6, <2>8 DEF Joint
<1> QED
  BY <1>9, <1>10, <1>13, <1>14, ServerKept DEF IInv, LobbyInv

\* A message of the server in the hands of the lobby's worker.
LEMMA FromServer ==
    ASSUME IInv, l_wrk.pc = "handle",
           l_wrk.msg.action \in {"SetLobbyId", "AcceptSocket"}
    PROVE  l_wrk.slot \in Slots /\ LPending = Par /\ l_wrk.msg \in ParMail /\ ~Unsent
<1>1. l_wrk.slot \in Slots /\ l_wrk.msg \in LobbyMail(LPending)
  BY DEF IInv, LobbyInv, LobbyWork
<1>2. LPending = Par /\ l_wrk.msg \in ParMail
  BY <1>1, AnyWordFields DEF LobbyMail
<1> QED
  BY <1>1, <1>2 DEF IInv, Joint, Silent

LEMMA LobbyNamed ==
    ASSUME IInv, UNCHANGED serverProcess, L!set_lobby_id
    PROVE  IInv'
<1>1. /\ l_wrk.pc = "handle" /\ l_wrk.msg.action = "SetLobbyId"
      /\ lobby_id' = l_wrk.msg.code /\ l_wrk' = L!Continue
  BY DEF L!set_lobby_id, L!Handling
<1>2. UNCHANGED <<l_slots, l_buffer, l_free, l_next_index, l_counter,
                  l_epoll, l_tasks, l_place, inbox, greeted>>
  BY DEF L!set_lobby_id, L!engineVars, L!pool, L!entries, L!sizes, L!loop, L!kernel
<1>3. ~Unsent /\ l_wrk.msg \in ParMail
  BY <1>1, FromServer
<1>4. Named'
  <2>1. l_wrk.msg.code \in Known
    BY <1>1, <1>3, ParMailFields
  <2> QED
    BY <1>1, <2>1, ServerKept DEF Named
<1>5. LobbyTypes' /\ LobbyHomes' /\ Came' = Came
  BY <1>2, LobbyKept
<1>6. LobbyWork'
  BY <1>1, LobbyRests DEF IInv, LobbyInv
<1>7. Joint'
  BY <1>2, <1>3, <1>4, <1>5, SettledJoint
<1> QED
  BY <1>2, <1>5, <1>6, <1>7, LobbyFrame DEF LobbyInv

\* A client comes in: the lobby has its id, or its maker knows that it has
\* none.
LEMMA LobbyAccepts ==
    ASSUME IInv, UNCHANGED serverProcess, L!accept_socket
    PROVE  IInv'
<1> DEFINE c == l_wrk.msg.socket
<1>1. /\ l_wrk.pc = "handle" /\ l_wrk.msg.action = "AcceptSocket" /\ c # NoConn
      /\ l_place' = [l_place EXCEPT ![c] = "held"]
      /\ l_wrk' = [l_wrk EXCEPT !.pc = "attach", !.ctrl = c]
  BY DEF L!accept_socket, L!Handling
<1>2. UNCHANGED <<l_slots, l_buffer, l_free, l_next_index, l_counter,
                  l_epoll, l_tasks, inbox, lobby_id, greeted>>
  BY DEF L!accept_socket, L!pool, L!entries, L!sizes, L!loop, L!kernel, L!lobbyVars
<1>3. l_wrk.slot \in Slots /\ LPending = Par /\ l_wrk.msg \in ParMail /\ ~Unsent
  BY <1>1, FromServer
<1>4. c \in Came /\ c \in Conns
  BY <1>1, <1>3, ParMailFields, Names DEF Came
<1>5. Excused \/ Named
  <2>1. ~NextIsId(l_wrk.slot)
    BY <1>1 DEF NextIsId, IsId
  <2> QED
    BY <1>3, <2>1 DEF IInv, Joint, IdFirst, LPending
<1>6. l_place \in [Conns -> Places]
  BY DEF IInv, LobbyInv, LobbyTypes
<1>7. l_place' \in [Conns -> Places]
  BY <1>1, <1>6 DEF Places
<1>8. Came' = Came
  <2>1. \A d \in Clients : l_place'[d] # "new" <=> l_place[d] # "new"
    BY <1>1, <1>4, <1>6, Names DEF Came
  <2> QED
    BY <2>1 DEF Came
<1>9. Known' = Known /\ ParMail' = ParMail
  BY <1>8, ServerKept DEF ParMail, L!SetLobbyId, L!Answer
<1>10. LobbyTypes'
  BY <1>2, <1>7 DEF IInv, LobbyInv, LobbyTypes
<1>11. LobbyHomes'
  BY <1>2, <1>8, <1>9 DEF IInv, LobbyInv, LobbyHomes, LobbyMail
<1>12. LobbyWork'
  <2>1. /\ l_wrk' \in Locals /\ l_wrk'.pc = "attach" /\ l_wrk'.slot = l_wrk.slot
        /\ l_wrk'.ctrl = c
    BY <1>1, <1>4 DEF IInv, LobbyInv, LobbyWork, Locals, Points
  <2> QED
    BY <1>3, <1>4, <1>8, <2>1 DEF LobbyWork, Attaching
<1>13. Joint'
  <2>1. Excused \/ Named'
    BY <1>2, <1>5, <1>9 DEF Named
  <2> QED
    BY <1>2, <1>3, <1>8, <2>1, SettledJoint
<1> QED
  BY <1>2, <1>8, <1>10, <1>11, <1>12, <1>13, LobbyFrame DEF LobbyInv

\* While a client is taken in, the id does not matter any more.
LEMMA AttachingJoint ==
    ASSUME IInv, UNCHANGED serverProcess, Attaching, Came' = Came,
           UNCHANGED lobby_id,
           \A g \in greeted' : g \in greeted \/ g.code = lobby_id
    PROVE  Joint'
<1>1. ~Unsent /\ (Excused \/ Named)
  BY AttachingSettled
<1>2. Excused \/ Named'
  BY <1>1, ServerKept DEF Named
<1>3. \A g \in greeted' : g \in greeted \/ Excused \/ g.code \in Known
  BY <1>1 DEF Named
<1> QED
  BY <1>1, <1>2, <1>3, SettledJoint

\* A client is put into a slot that does not hold the control socket.
LEMMA LobbyFilled ==
    ASSUME IInv, UNCHANGED serverProcess, NEW v \in Slots, NEW c \in Came,
           v # 1 \/ l_slots[v].sock # Par,
           l_slots' = [l_slots EXCEPT ![v] = L!Entry("TO_CLIENT", c)],
           l_free' = l_free \/ (l_free # <<>> /\ l_free' = Tail(l_free)),
           l_next_index' \in 2 .. MaxSlots + 1, l_counter <= l_next_index',
           UNCHANGED <<l_buffer, l_counter, l_epoll, l_tasks, l_place>>
    PROVE  LobbyTypes' /\ LobbyHomes' /\ Came' = Came
<1> DEFINE e == L!Entry("TO_CLIENT", c)
<1>1. e \in EntryType /\ e.sock = c /\ c \in Clients /\ c # Par
  BY Names DEF L!Entry, EntryType, Came
<1> HIDE DEF e
<1>2. /\ l_slots' \in [Slots -> EntryType]
      /\ \A t \in Slots : l_slots'[t] = IF t = v THEN e ELSE l_slots[t]
  BY <1>1 DEF IInv, LobbyInv, LobbyTypes, e
<1>3. Came' = Came /\ Known' = Known /\ ParMail' = ParMail
  BY ServerKept DEF Came, ParMail, L!SetLobbyId, L!Answer
<1>4. l_free \in Seq(Slots)
  BY DEF IInv, LobbyInv, LobbyTypes
<1>5. /\ l_free' \in Seq(Slots)
      /\ \A i \in 1 .. Len(l_free') : \E j \in 1 .. Len(l_free) : l_free'[i] = l_free[j]
  <2>1. CASE l_free' = l_free
    BY <1>4, <2>1
  <2>2. CASE l_free # <<>> /\ l_free' = Tail(l_free)
    <3>1. l_free' \in Seq(Slots) /\ Len(l_free') = Len(l_free) - 1 /\ Len(l_free) \in Nat
      BY <1>4, <2>2
    <3>2. \A i \in 1 .. Len(l_free') : i \in 1 .. Len(l_free) - 1 /\ i + 1 \in 1 .. Len(l_free)
      BY <3>1
    <3>3. \A i \in 1 .. Len(l_free) - 1 : l_free'[i] = l_free[i + 1]
      BY <1>4, <2>2, HeadTailProperties
    <3> QED
      BY <3>1, <3>2, <3>3
  <2> QED
    BY <2>1, <2>2
<1>6. LobbyTypes'
  BY <1>2, <1>5 DEF IInv, LobbyInv, LobbyTypes
<1>7. l_slots[v].sock # Par
  BY DEF IInv, LobbyInv, LobbyHomes
<1>8. LobbyHomes'
  <2>1. \A t \in Slots : l_slots'[t].sock \in Came' \cup {Par, NoConn}
    BY <1>1, <1>2, <1>3 DEF IInv, LobbyInv, LobbyHomes
  <2>2. \A t \in Slots : l_slots'[t].sock = Par => t = 1
    BY <1>1, <1>2 DEF IInv, LobbyInv, LobbyHomes
  <2>3. \A t \in Slots : l_buffer'[t] \in Seq(LobbyMail(l_slots[t].sock)')
    <3> SUFFICES ASSUME NEW t \in Slots
                 PROVE  l_buffer[t] \in Seq(LobbyMail(l_slots[t].sock)')
      OBVIOUS
    <3>1. l_buffer[t] \in Seq(LobbyMail(l_slots[t].sock))
      BY DEF IInv, LobbyInv, LobbyHomes
    <3>2. LobbyMail(l_slots[t].sock)' = LobbyMail(l_slots'[t].sock)
      BY <1>3 DEF LobbyMail
    <3>3. LobbyMail(l_slots'[t].sock) = LobbyMail(l_slots[t].sock)
      BY <1>1, <1>2, <1>7 DEF LobbyMail
    <3> QED
      BY <3>1, <3>2, <3>3
  <2>4. \A i \in 1 .. Len(l_free') : l_slots'[l_free'[i]].sock # Par
    <3> SUFFICES ASSUME NEW i \in 1 .. Len(l_free')
                 PROVE  l_slots'[l_free'[i]].sock # Par
      OBVIOUS
    <3>1. PICK j \in 1 .. Len(l_free) : l_free'[i] = l_free[j]
      BY <1>5
    <3>2. l_free[j] \in Slots /\ l_slots[l_free[j]].sock # Par
      BY <1>4 DEF IInv, LobbyInv, LobbyHomes
    <3> QED
      BY <1>1, <1>2, <3>1, <3>2
  <2>5. \A d \in Conns : l_epoll'[d].armed => l_epoll'[d].slot # NoSlot
    BY DEF IInv, LobbyInv, LobbyHomes
  <2> QED
    BY <2>1, <2>2, <2>3, <2>4, <2>5 DEF LobbyHomes
<1> QED
  BY <1>3, <1>6, <1>8

LEMMA LobbyAttaches ==
    ASSUME IInv, UNCHANGED serverProcess, UNCHANGED <<lobby_id, greeted>>,
           L!attach_reused("TO_CLIENT") \/ L!attach_new("TO_CLIENT")
    PROVE  IInv'
<1> DEFINE c == l_wrk.ctrl
<1>1. l_wrk.pc = "attach" /\ l_wrk \in Locals /\ c \in Came /\ l_wrk.slot \in Slots
  BY DEF L!attach_reused, L!attach_new, IInv, LobbyInv, LobbyWork
<1>2. /\ l_free \in Seq(Slots) /\ l_next_index \in 2 .. MaxSlots + 1
      /\ l_counter \in Nat /\ l_counter <= l_next_index
  BY DEF IInv, LobbyInv, LobbyTypes
<1>3. UNCHANGED <<l_buffer, l_counter, l_epoll, l_tasks, l_place, inbox>>
  BY DEF L!attach_reused, L!attach_new, L!sizes, L!loop, L!kernel
<1>4. CASE L!attach_reused("TO_CLIENT")
  <2> DEFINE v == Head(l_free)
  <2>1. /\ l_free # <<>> /\ l_free' = Tail(l_free) /\ l_next_index' = l_next_index
        /\ l_slots' = [l_slots EXCEPT ![v] = L!Entry("TO_CLIENT", c)]
        /\ l_wrk' = [l_wrk EXCEPT !.pc = "subscribe", !.view = v]
    BY <1>4 DEF L!attach_reused, L!sizes
  <2>2. v \in Slots /\ v = l_free[1] /\ 1 \in 1 .. Len(l_free)
    BY <1>2, <2>1
  <2>3. l_slots[v].sock # Par
    BY <2>2 DEF IInv, LobbyInv, LobbyHomes
  <2>4. LobbyTypes' /\ LobbyHomes' /\ Came' = Came
    BY <1>1, <1>2, <1>3, <2>1, <2>2, <2>3, LobbyFilled
  <2>5. /\ l_wrk' \in Locals /\ l_wrk'.pc = "subscribe" /\ l_wrk'.slot = l_wrk.slot
        /\ l_wrk'.view = v
    BY <1>1, <2>1, <2>2 DEF Locals, Points
  <2>6. LobbyWork'
    BY <1>1, <2>2, <2>5 DEF LobbyWork, Attaching
  <2>7. Joint'
    BY <1>1, <2>4, AttachingJoint DEF Attaching
  <2> QED
    BY <1>3, <2>4, <2>6, <2>7, LobbyFrame DEF LobbyInv
<1>5. CASE L!attach_new("TO_CLIENT")
  <2> DEFINE v == l_next_index
  <2>1. /\ l_free' = l_free /\ l_next_index' = l_next_index + 1 /\ v \in Slots
        /\ l_slots' = [l_slots EXCEPT ![v] = L!Entry("TO_CLIENT", c)]
        /\ l_wrk' = [l_wrk EXCEPT !.pc = "count", !.view = v, !.count = l_counter]
    BY <1>5, LobbyNames DEF L!attach_new
  <2>2. v # 1 /\ l_next_index' \in 2 .. MaxSlots + 1 /\ l_counter < l_next_index'
    BY <1>2, <2>1, Names DEF Slots
  <2>3. l_counter <= l_next_index'
    BY <1>2, <2>2
  <2>4. LobbyTypes' /\ LobbyHomes' /\ Came' = Came
    BY <1>1, <1>3, <2>1, <2>2, <2>3, LobbyFilled
  <2>5. /\ l_wrk' \in Locals /\ l_wrk'.pc = "count" /\ l_wrk'.slot = l_wrk.slot
        /\ l_wrk'.view = v /\ l_wrk'.count = l_counter
    BY <1>1, <1>2, <2>1 DEF Locals, Points
  <2>6. LobbyWork'
    BY <1>1, <2>1, <2>2, <2>5 DEF LobbyWork, Attaching
  <2>7. Joint'
    BY <1>1, <2>4, AttachingJoint DEF Attaching
  <2> QED
    BY <1>3, <2>4, <2>6, <2>7, LobbyFrame DEF LobbyInv
<1> QED
  BY <1>4, <1>5

LEMMA LobbyCounts ==
    ASSUME IInv, UNCHANGED serverProcess, UNCHANGED <<lobby_id, greeted>>,
           L!attach_count
    PROVE  IInv'
<1>1. /\ l_wrk.pc = "count" /\ l_counter' = l_wrk.count + 1
      /\ l_wrk' = [l_wrk EXCEPT !.pc = "subscribe", !.count = 0]
  BY DEF L!attach_count
<1>2. UNCHANGED <<l_slots, l_buffer, l_free, l_next_index, l_epoll, l_tasks,
                  l_place, inbox>>
  BY DEF L!attach_count, L!entries, L!loop, L!kernel
<1>3. /\ l_wrk \in Locals /\ l_wrk.count \in Nat /\ l_wrk.count < l_next_index
      /\ l_wrk.slot \in Slots /\ l_wrk.view \in Slots
  BY <1>1 DEF IInv, LobbyInv, LobbyWork, Locals, Attaching
<1>4. l_counter' \in Nat /\ l_counter' <= l_next_index'
  BY <1>1, <1>2, <1>3 DEF IInv, LobbyInv, LobbyTypes
<1>5. Came' = Came /\ ParMail' = ParMail
  BY <1>2, ServerKept DEF Came, ParMail, L!SetLobbyId, L!Answer
<1>6. LobbyTypes'
  BY <1>2, <1>4 DEF IInv, LobbyInv, LobbyTypes
<1>7. LobbyHomes'
  BY <1>2, <1>5 DEF IInv, LobbyInv, LobbyHomes, LobbyMail
<1>8. /\ l_wrk' \in Locals /\ l_wrk'.pc = "subscribe" /\ l_wrk'.slot = l_wrk.slot
      /\ l_wrk'.view = l_wrk.view
  BY <1>1, <1>3 DEF Locals, Points
<1>9. LobbyWork'
  BY <1>3, <1>8 DEF LobbyWork, Attaching
<1>10. Joint'
  BY <1>1, <1>5, AttachingJoint DEF Attaching
<1> QED
  BY <1>2, <1>5, <1>6, <1>7, <1>9, <1>10, LobbyFrame DEF LobbyInv

LEMMA LobbySubscribes ==
    ASSUME IInv, UNCHANGED serverProcess, UNCHANGED <<lobby_id, greeted>>,
           L!attach_subscribe("greet")
    PROVE  IInv'
<1>1. /\ l_wrk.pc = "subscribe" /\ l_wrk' = [l_wrk EXCEPT !.pc = "greet"]
      /\ l_slots[l_wrk.view].sock # NoConn
      /\ l_epoll' = [l_epoll EXCEPT ![l_slots[l_wrk.view].sock] = L!Armed(l_wrk.view)]
  BY DEF L!attach_subscribe, L!add_socket
<1>2. UNCHANGED <<l_slots, l_buffer, l_free, l_next_index, l_counter, l_tasks,
                  l_place, inbox>>
  BY DEF L!attach_subscribe, L!pool, L!entries, L!sizes, L!loop, L!kernel
<1>3. l_wrk \in Locals /\ l_wrk.view \in Slots /\ l_wrk.slot \in Slots
  BY <1>1 DEF IInv, LobbyInv, LobbyWork, Attaching
<1>4. LobbyTypes' /\ LobbyHomes' /\ Came' = Came
  BY <1>1, <1>2, <1>3, LobbyArmed
<1>5. /\ l_wrk' \in Locals /\ l_wrk'.pc = "greet" /\ l_wrk'.slot = l_wrk.slot
      /\ l_wrk'.view = l_wrk.view
  BY <1>1, <1>3 DEF Locals, Points
<1>6. LobbyWork'
  BY <1>3, <1>5 DEF LobbyWork, Attaching
<1>7. Joint'
  BY <1>1, <1>4, AttachingJoint DEF Attaching
<1> QED
  BY <1>2, <1>4, <1>6, <1>7, LobbyFrame DEF LobbyInv

\* The client is told the lobby's id.
LEMMA LobbyGreets ==
    ASSUME IInv, UNCHANGED serverProcess, L!send_join_lobby_message
    PROVE  IInv'
<1>1. /\ l_wrk.pc = "greet" /\ l_wrk' = L!Continue
      /\ greeted' = greeted \cup {[to |-> l_slots[l_wrk.view].sock, code |-> lobby_id]}
  BY DEF L!send_join_lobby_message
<1>2. UNCHANGED <<l_slots, l_buffer, l_free, l_next_index, l_counter,
                  l_epoll, l_tasks, l_place, inbox, lobby_id>>
  BY DEF L!send_join_lobby_message, L!engineVars, L!pool, L!entries, L!sizes,
         L!loop, L!kernel
<1>3. LobbyTypes' /\ LobbyHomes' /\ Came' = Came
  BY <1>2, LobbyKept
<1>4. LobbyWork'
  BY <1>1, LobbyRests DEF IInv, LobbyInv
<1>5. Joint'
  BY <1>1, <1>2, <1>3, AttachingJoint DEF Attaching
<1> QED
  BY <1>2, <1>3, <1>4, <1>5, LobbyFrame DEF LobbyInv

LEMMA LobbyWorkerStep ==
    ASSUME IInv, LobbyWorker
    PROVE  IInv'
<1>1. L!Worker /\ UNCHANGED serverProcess
  BY DEF LobbyWorker
<1>2. CASE (L!ReceiveLoop \/ L!Broadcast) /\ UNCHANGED <<lobby_id, greeted>>
  BY <1>1, <1>2, LobbyStarts, LobbyChecks, LobbyTakesBuffered, LobbyReceives,
     LobbyWouldBlock, LobbyReleases, LobbyRearms, LobbySkips, LobbySends,
     LobbyEndsBroadcast DEF L!ReceiveLoop, L!Broadcast
<1>3. CASE L!refuse \/ L!set_lobby_id \/ L!accept_nothing \/ L!accept_socket
           \/ L!send_join_lobby_message \/ L!execute_chat
  BY <1>1, <1>3, LobbyRefuses, LobbyNamed, LobbyAcceptsNothing, LobbyAccepts,
     LobbyGreets, LobbyChats
<1>4. CASE L!send_join_lobby_message_fails
  BY <1>1, <1>4, LobbyAttachFails DEF L!send_join_lobby_message_fails, L!lobbyVars
<1>5. CASE L!attach_socket
  BY <1>1, <1>5, LobbyAttaches, LobbyCounts, LobbySubscribes, LobbyAttachFails
     DEF L!attach_socket, L!lobbyVars
<1> QED
  BY <1>1, <1>2, <1>3, <1>4, <1>5 DEF L!Worker, L!lobbyVars

-----------------------------------------------------------------------------
(* Clients, faults and the initial states                                  *)

LEMMA NothingChanges ==
    ASSUME IInv, UNCHANGED <<serverProcess, inbox, lobbyProcess>>
    PROVE  IInv'
<1>1. PoolInv' /\ Work' /\ Owned'
  BY ServerKept
<1>2. Calm
  BY <1>1 DEF Calm, serverProcess, history, pool, entries
<1> QED
  BY <1>1, <1>2, CalmStep

\* A client sends, wherever its connection is.
LEMMA ClientSends ==
    ASSUME IInv, UNCHANGED serverProcess, UNCHANGED lobbyProcess,
           NEW c \in Clients, NEW m \in Messages,
           inbox' = [inbox EXCEPT ![c] = Append(inbox[c], From(c, m))]
    PROVE  IInv'
<1>1. c \in Conns /\ c # Par
  BY Names
<1>2. inbox[c] \in Seq(Mail(c)) /\ From(c, m) \in Mail(c)
  BY <1>1 DEF IInv, Post, Mail, Words
<1>3. Append(inbox[c], From(c, m)) \in Seq(Mail(c))
  BY <1>2
<1>4. inbox'[Par] = inbox[Par]
  BY <1>1, Names DEF IInv, Post
<1>5. PoolInv' /\ Work' /\ Owned'
  BY ServerKept
<1>6. Calm
  BY <1>4, <1>5 DEF Calm, serverProcess, history, pool, entries
<1> QED
  BY <1>1, <1>3, <1>5, <1>6, CalmMail

LEMMA OutsideStep ==
    ASSUME IInv, Outside
    PROVE  IInv'
<1>1. ASSUME NEW c \in Clients, NEW m \in Messages, client_send(c, m),
             UNCHANGED <<lobbies, maker, lobbyProcess>>
      PROVE  IInv'
  BY <1>1, ClientSends DEF client_send, serverProcess
<1>2. ASSUME NEW c \in Clients, NEW m \in Messages, L!client_send(c, m),
             UNCHANGED <<serverProcess, lobby_id, greeted>>
      PROVE  IInv'
  <2>1. L!From(c, m) = From(c, m)
    BY DEF L!From, From
  <2>2. UNCHANGED lobbyProcess
    BY <1>2 DEF L!client_send, lobbyProcess, L!pool, L!entries, L!sizes, L!loop,
                L!history
  <2> QED
    BY <1>2, <2>1, <2>2, ClientSends DEF L!client_send
<1> QED
  BY <1>1, <1>2 DEF Outside

LEMMA CloseStep ==
    ASSUME IInv, Faults \/ control_closed
    PROVE  IInv'
<1>1. ASSUME NEW c, peer_close(c), UNCHANGED <<lobbies, maker, lobbyProcess>>
      PROVE  IInv'
  BY <1>1, NothingChanges DEF peer_close, serverProcess
<1>2. ASSUME NEW c, L!peer_close(c), UNCHANGED <<serverProcess, lobby_id, greeted>>
      PROVE  IInv'
  <2>1. UNCHANGED <<lobbyProcess, inbox>>
    BY <1>2 DEF L!peer_close, lobbyProcess, L!pool, L!entries, L!sizes, L!loop,
                L!history
  <2> QED
    BY <1>2, <2>1, NothingChanges
<1> QED
  BY <1>1, <1>2 DEF Faults, control_closed

\* The order of the clients names each of them once.
LEMMA OrderOfClients ==
    ASSUME NEW order \in SetToSeqs(Clients)
    PROVE  LET n == Cardinality(Clients)
           IN  /\ n \in Nat /\ n <= MaxSlots /\ DOMAIN order = 1 .. n
               /\ \A i \in 1 .. n : order[i] \in Clients
               /\ \A i, j \in 1 .. n : order[i] = order[j] => i = j
               /\ \A c \in Clients : \E i \in 1 .. n : order[i] = c
<1> DEFINE n == Cardinality(Clients)
<1>1. IsFiniteSet(Clients) /\ n \in Nat /\ n <= MaxSlots
  BY HandoverAssumption, Names, FS_CardinalityType
<1>2. order \in [1 .. n -> Clients] /\ \A i, j \in 1 .. n : i # j => order[i] # order[j]
  BY DEF SetToSeqs
<1>3. order \in Injection(1 .. n, Clients)
  BY <1>2 DEF Injection, IsInjective
<1>4. Cardinality(1 .. n) = n
  <2>1. 1 \in Int /\ n \in Int
    BY <1>1
  <2>2. Cardinality(1 .. n) = IF 1 > n THEN 0 ELSE n - 1 + 1
    BY ONLY <2>1, FS_Interval
  <2> HIDE DEF n
  <2> QED
    BY <2>2, <1>1
<1>5. order \in Surjection(1 .. n, Clients)
  BY <1>1, <1>3, <1>4, FS_Injection
<1> HIDE DEF n
<1>6. /\ DOMAIN order = 1 .. n
      /\ \A i \in 1 .. n : order[i] \in Clients
      /\ \A i, j \in 1 .. n : order[i] = order[j] => i = j
      /\ \A c \in Clients : \E i \in 1 .. n : order[i] = c
  BY <1>2, <1>5 DEF Surjection
<1> QED
  BY <1>1, <1>6 DEF n

LEMMA InitPool ==
    ASSUME HandoverInit
    PROVE  PoolInv
<1> DEFINE n == Cardinality(Clients)
<1>1. PICK order \in SetToSeqs(Clients) :
          /\ slots = [s \in Slots |-> IF s \in DOMAIN order
                          THEN Entry("TO_CLIENT", order[s]) ELSE EmptyEntry]
          /\ epoll = [c \in Conns |-> IF c \in Clients
                          THEN Armed(CHOOSE s \in DOMAIN order : order[s] = c)
                          ELSE Absent]
  BY DEF HandoverInit
<1>2. /\ n \in Nat /\ n <= MaxSlots /\ DOMAIN order = 1 .. n
      /\ \A i \in 1 .. n : order[i] \in Clients
      /\ \A i, j \in 1 .. n : order[i] = order[j] => i = j
      /\ \A c \in Clients : \E i \in 1 .. n : order[i] = c
  BY OrderOfClients
<1>3. next_index = n + 1 /\ counter = n + 1
  BY DEF HandoverInit
<1> HIDE DEF n
<1>4. \A s \in Slots : s \in 1 .. n => slots[s] = Entry("TO_CLIENT", order[s])
  BY <1>1, <1>2
<1>5. \A s \in Slots : s \notin 1 .. n => slots[s] = EmptyEntry
  BY <1>1, <1>2
<1>6. \A s \in Slots : s \in 1 .. n =>
          slots[s].sock = order[s] /\ order[s] \in Clients /\ slots[s] \in EntryType
  <2>1. \A c \in Clients : /\ Entry("TO_CLIENT", c) \in EntryType
                           /\ Entry("TO_CLIENT", c).sock = c
    BY Names DEF Entry, EntryType
  <2> QED
    BY <1>2, <1>4, <2>1
<1>7. \A s \in Slots : s \notin 1 .. n => slots[s].sock = NoConn /\ slots[s] \in EntryType
  BY <1>5 DEF EmptyEntry, EntryType
<1>8. \A s \in Slots : InUse(s) <=> s \in 1 .. n
  BY <1>6, <1>7, Names DEF InUse
<1>9. \A c \in Clients : epoll[c].slot \in 1 .. n /\ order[epoll[c].slot] = c
                         /\ epoll[c] \in Watch
  <2> SUFFICES ASSUME NEW c \in Clients
               PROVE  epoll[c].slot \in 1 .. n /\ order[epoll[c].slot] = c
                      /\ epoll[c] \in Watch
    OBVIOUS
  <2> DEFINE k == CHOOSE s \in DOMAIN order : order[s] = c
  <2>1. k \in 1 .. n /\ order[k] = c
    BY <1>2
  <2>2. epoll[c] = Armed(k)
    BY <1>1, Names
  <2> HIDE DEF k
  <2>3. k \in Slots
    BY <1>2, <2>1, Names DEF Slots
  <2> QED
    BY <2>1, <2>2, <2>3 DEF Armed, Watch
<1>10. \A c \in Conns : c \notin Clients => epoll[c] = Absent
  BY <1>1
<1>11. place = [c \in Conns |-> IF c \in Clients THEN "held"
                                ELSE IF c = Ctl THEN "new" ELSE "moved"]
  BY DEF HandoverInit
<1>12. PoolTypes
  <2>1. slots \in [Slots -> EntryType]
    BY <1>1, <1>6, <1>7
  <2>2. epoll \in [Conns -> Watch]
    BY <1>1, <1>9, <1>10 DEF Absent, Watch
  <2>3. next_index \in 1 .. MaxSlots + 1 /\ counter \in Nat /\ counter <= next_index
    BY <1>2, <1>3, Names
  <2>4. buffer \in [Slots -> Seq(Letters)] /\ free \in Seq(Slots) /\ tasks \in Seq(Slots)
    BY DEF HandoverInit
  <2>5. place \in [Conns -> Places]
    BY <1>11 DEF Places
  <2>6. lobbies \in [Codes -> {NoLobby} \cup [slot : Slots, ctrl : {Ctl}]]
    BY DEF HandoverInit
  <2> QED
    BY <2>1, <2>2, <2>3, <2>4, <2>5, <2>6 DEF PoolTypes
<1>13. Quiet
  BY <1>11, Names DEF HandoverInit, Quiet
<1>14. Homes
  <2>1. \A s \in Slots : InUse(s) => place[slots[s].sock] = "held"
    BY <1>6, <1>8, <1>11, Names
  <2>2. \A s, t \in Slots : slots[s].sock = slots[t].sock /\ InUse(s) => s = t
    BY <1>2, <1>6, <1>8 DEF InUse
  <2>3. \A s \in Slots : ~InUse(s) => slots[s] = EmptyEntry
    BY <1>5, <1>8
  <2>4. \A s \in Slots : buffer[s] \in Seq(Mail(slots[s].sock))
    BY DEF HandoverInit
  <2> QED
    BY <2>1, <2>2, <2>3, <2>4 DEF Homes
<1>15. Registered
  <2> SUFFICES ASSUME NEW c \in Conns
               PROVE  /\ epoll[c].slot # NoSlot => slots[epoll[c].slot].sock = c
                      /\ epoll[c].armed => epoll[c].slot # NoSlot
    BY DEF Registered
  <2>1. CASE c \in Clients
    <3>1. epoll[c].slot \in 1 .. n /\ order[epoll[c].slot] = c
      BY <1>9, <2>1
    <3>2. epoll[c].slot \in Slots
      BY <1>2, <3>1, Names DEF Slots
    <3> QED
      BY <1>6, <3>1, <3>2, Names
  <2>2. CASE c \notin Clients
    BY <1>10, <2>2 DEF Absent
  <2> QED
    BY <2>1, <2>2
<1>16. Control
  <2>1. NoLobbyYet /\ free = <<>>
    BY DEF NoLobbyYet, HandoverInit
  <2>2. \A s \in Slots : s >= next_index => ~InUse(s)
    BY <1>2, <1>3, <1>8, Names
  <2>3. Vacant
    BY <2>1, <2>2 DEF Vacant
  <2> QED
    BY <2>1, <2>3 DEF Control, NoLobbyYet
<1> QED
  BY <1>12, <1>13, <1>14, <1>15, <1>16 DEF PoolInv

LEMMA InitLobby ==
    ASSUME HandoverInit
    PROVE  LobbyInv /\ Came = {}
<1>1. /\ l_slots = [s \in Slots |-> IF s = 1 THEN L!Entry("TO_PARENT", Par)
                                    ELSE EmptyEntry]
      /\ l_buffer = [s \in Slots |-> <<>>]
      /\ l_free = <<>> /\ l_next_index = 2 /\ l_counter = 2
      /\ l_epoll = [c \in Conns |-> IF c = Par THEN L!Armed(1) ELSE Absent]
      /\ l_tasks = <<>> /\ l_wrk = IdleWorker
      /\ l_place = [c \in Conns |-> IF c = Par THEN "held" ELSE "new"]
  BY LobbyNames DEF HandoverInit, L!LobbyInit, L!Root
<1>2. L!Entry("TO_PARENT", Par) \in EntryType /\ L!Entry("TO_PARENT", Par).sock = Par
  BY Names DEF L!Entry, EntryType
<1>3. EmptyEntry \in EntryType /\ EmptyEntry.sock = NoConn
  BY DEF EmptyEntry, EntryType
<1>4. /\ L!Armed(1) \in Watch /\ L!Armed(1).slot # NoSlot
      /\ Absent \in Watch /\ ~Absent.armed
  BY Names DEF L!Armed, Absent, Watch
<1>5. Came = {}
  BY <1>1, Names DEF Came
<1>6. LobbyTypes
  <2>1. l_slots \in [Slots -> EntryType]
    BY <1>1, <1>2, <1>3
  <2>2. l_epoll \in [Conns -> Watch] /\ l_place \in [Conns -> Places]
    BY <1>1, <1>4 DEF Places
  <2>3. l_buffer \in [Slots -> Seq(Letters)] /\ l_free \in Seq(Slots) /\ l_tasks \in Seq(Slots)
    BY <1>1
  <2>4. l_next_index \in 2 .. MaxSlots + 1 /\ l_counter \in Nat /\ l_counter <= l_next_index
    BY <1>1, Names
  <2> QED
    BY <2>1, <2>2, <2>3, <2>4 DEF LobbyTypes
<1>7. LobbyHomes
  <2>1. \A s \in Slots : l_slots[s].sock = IF s = 1 THEN Par ELSE NoConn
    BY <1>1, <1>2, <1>3
  <2>2. \A s \in Slots : l_buffer[s] \in Seq(LobbyMail(l_slots[s].sock))
    BY <1>1
  <2>3. \A c \in Conns : l_epoll[c].armed => l_epoll[c].slot # NoSlot
    BY <1>1, <1>4
  <2> QED
    BY <1>1, <2>1, <2>2, <2>3, Names DEF LobbyHomes
<1>8. LobbyWork
  BY <1>1, IdleTyped DEF LobbyWork, Attaching
<1> QED
  BY <1>5, <1>6, <1>7, <1>8 DEF LobbyInv

LEMMA InitPost ==
    ASSUME HandoverInit
    PROVE  Post
<1>1. inbox = [c \in Conns |-> IF c # Creator THEN <<>> ELSE <<FirstCommand>>]
  BY DEF HandoverInit, FirstCommand
<1>2. Creator \in Clients /\ Creator # Par /\ FirstCommand \in Words(Creator)
  BY HandoverAssumption, Names DEF Words
<1>3. FirstCommand \in Mail(Creator) /\ FirstCommand \in Letters
  BY <1>2, WordFields DEF Mail
<1> HIDE DEF FirstCommand
<1>4. <<FirstCommand>> \in Seq(Mail(Creator)) /\ <<FirstCommand>> \in Seq(Letters)
  BY <1>3
<1>5. inbox \in [Conns -> Seq(Letters)]
  BY <1>1, <1>4
<1>6. \A c \in Conns : c # Par => inbox[c] \in Seq(Mail(c))
  BY <1>1, <1>4
<1>7. inbox[Par] \in Seq(ParMail)
  BY <1>1, <1>2, Names
<1> QED
  BY <1>5, <1>6, <1>7 DEF Post

LEMMA InitIInv == HandoverInit => IInv
<1> SUFFICES ASSUME HandoverInit PROVE IInv
  OBVIOUS
<1>1. PoolInv /\ LobbyInv /\ Came = {} /\ Post
  BY InitPool, InitLobby, InitPost
<1>2. Work
  BY IdleTyped DEF HandoverInit, Work, InHand, Answering, Creating
<1>3. Owned
  <2>1. place[Ctl] = "new"
    BY Names DEF HandoverInit
  <2> QED
    BY <1>1, <2>1, Names DEF Owned, PoolInv, Homes, InUse
<1>4. Joint
  <2>1. Unsent /\ greeted = {} /\ l_wrk = IdleWorker
    BY LobbyNames DEF HandoverInit, L!LobbyInit, Unsent, NoLobbyYet
  <2>2. inbox[Par] = <<>>
    BY HandoverAssumption, Names DEF HandoverInit
  <2>3. \A s \in Slots : l_buffer[s] = <<>>
    BY LobbyNames DEF HandoverInit, L!LobbyInit
  <2> QED
    BY <1>1, <1>3, <2>1, <2>2, <2>3, IdleTyped
       DEF Joint, Moved, Silent, IdFirst, GreetedWell, Attaching
<1> QED
  BY <1>1, <1>2, <1>4 DEF IInv

-----------------------------------------------------------------------------
(* The theorems                                                            *)

\* Every step of the two processes keeps the invariant.
LEMMA StepIInv ==
    ASSUME IInv, [HandoverNext]_allVars
    PROVE  IInv'
<1>1. CASE ServerEvents
  BY <1>1, ServerReports DEF ServerEvents
<1>2. CASE ServerWorker
  BY <1>2, ServerWorkerStep
<1>3. CASE LobbyEvents
  BY <1>3, LobbyReports
<1>4. CASE LobbyWorker
  BY <1>4, LobbyWorkerStep
<1>5. CASE Outside
  BY <1>5, OutsideStep
<1>6. CASE Faults \/ control_closed
  BY <1>6, CloseStep
<1>7. CASE UNCHANGED allVars
  BY <1>7, NothingChanges DEF allVars, kernel
<1> QED
  BY <1>1, <1>2, <1>3, <1>4, <1>5, <1>6, <1>7 DEF HandoverNext

\* The invariant holds in every behaviour of the server and its lobby.
LEMMA Invariance == HandoverSpec => []IInv
  BY InitIInv, StepIInv, PTL DEF HandoverSpec

\* From the moment the lobby can have a client, the server has it neither in
\* epoll nor in a slot that anything but the end of that transfer will touch:
\* for any number of clients, commands, codes and slots, with calls that fail,
\* and however long the lobby runs between the server's sendmsg and the
\* release of the slot, every connection is served by one process at a time.
THEOREM HandoverOneProcess == HandoverSpec => []OneProcessPerClient
<1>1. IInv => OneProcessPerClient
  <2> SUFFICES ASSUME IInv, NEW c \in Clients, l_place[c] # "new"
               PROVE  /\ epoll[c] = Absent
                      /\ \A s \in Slots :
                             slots[s].sock = c => wrk.slot = s /\ wrk.pc = "let_go"
    BY DEF OneProcessPerClient
  <2>1. c \in Conns /\ c # NoConn /\ (place[c] = "moved" \/ Leaving(c))
    BY Names DEF IInv, Joint, Moved, Came
  <2>2. CASE place[c] = "moved"
    <3>1. \A s \in Slots : slots[s].sock # c
      BY <2>1, <2>2 DEF IInv, PoolInv, Homes, InUse
    <3>2. epoll[c] \in Watch /\ epoll[c].slot = NoSlot /\ ~epoll[c].armed
      BY <2>1, <3>1 DEF IInv, PoolInv, PoolTypes, Registered, Watch
    <3>3. epoll[c] = Absent
      BY <3>2 DEF Watch, Absent
    <3> QED
      BY <3>1, <3>3
  <2>3. CASE Leaving(c)
    <3>1. wrk.pc = "let_go" /\ wrk.slot \in Slots /\ slots[wrk.slot].sock = c
      BY <2>3 DEF Leaving, Pending, IInv, Work
    <3>2. epoll[c] = Absent
      BY <2>3, <3>1 DEF Leaving, IInv, Work
    <3>3. \A s \in Slots : slots[s].sock = c => wrk.slot = s
      BY <2>1, <3>1 DEF IInv, PoolInv, Homes, InUse
    <3> QED
      BY <3>1, <3>2, <3>3
  <2> QED
    BY <2>1, <2>2, <2>3
<1> QED
  BY <1>1, Invariance, PTL

\* The id is the first thing the lobby hears of the server, so the code a
\* client is told is one under which the server finds this lobby, unless the
\* lobby's maker was told that it failed: also if clients join while it
\* starts, the lobby is slow, or several messages arrive in one read.
THEOREM HandoverToldItsCode == HandoverSpec => []ToldItsCode
<1>1. IInv => ToldItsCode
  BY DEF IInv, Joint, GreetedWell, Excused, Known, ToldItsCode
<1> QED
  BY <1>1, Invariance, PTL

=============================================================================
