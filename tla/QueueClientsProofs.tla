------------------------- MODULE QueueClientsProofs -------------------------
(***************************************************************************)
(* Proofs about the ring without a semaphore (module QueueClients), for    *)
(* every size of the ring and all sets of pushers and poppers.             *)
(*                                                                         *)
(* The argument.  Indices are never reused, slots are: index k lives in    *)
(* slot k % RingSize.  The indices in use lie between that of the oldest   *)
(* unfinished pop and tail.  As long as no push laps a pop (~lapped) they  *)
(* fit into one lap of the ring (Room), so different indices in use have   *)
(* different slots.  Each index has at most one pusher and one popper      *)
(* (Owners); who they are and how far they have come determines the flag   *)
(* (Flags) and the object (Objects) of the slot.                           *)
(***************************************************************************)
EXTENDS QueueClients, FiniteSetTheorems, TLAPS

-----------------------------------------------------------------------------
(* The arithmetic of ring positions                                        *)

\* Division with remainder.
LEMMA DivMod ==
    ASSUME NEW i \in Nat, NEW n \in Nat \ {0}
    PROVE  /\ i \div n \in Nat
           /\ i % n \in 0 .. n - 1
           /\ i = n * (i \div n) + (i % n)
  OBVIOUS

\* Every index lies some whole number of laps behind its slot.
LEMMA Laps ==
    ASSUME NEW i \in Nat
    PROVE  /\ normilize_ring_slot(i) \in Slots
           /\ \E p \in Nat : i = RingSize * p + normilize_ring_slot(i)
  <1>1. /\ i \div RingSize \in Nat
        /\ i % RingSize \in 0 .. RingSize - 1
        /\ i = RingSize * (i \div RingSize) + (i % RingSize)
    BY RingAssumption, DivMod
  <1> QED BY <1>1, Zenon DEF normilize_ring_slot, Slots

\* Multiples of n are at least n apart.
LEMMA MultGap ==
    ASSUME NEW n \in Nat \ {0}, NEW p \in Nat, NEW q \in Nat, p < q
    PROVE  n * p + n <= n * q
  <1>1. PICK d \in Nat : q = p + 1 + d
    <2> WITNESS q - p - 1 \in Nat
    <2> QED OBVIOUS
  <1>2. n * (p + 1 + d) = n * p + n + n * d /\ n * d \in Nat
    OBVIOUS
  <1> QED BY <1>1, <1>2

\* A quotient and a remainder determine each other.
LEMMA RemainderUnique ==
    ASSUME NEW n \in Nat \ {0}, NEW p \in Nat, NEW q \in Nat,
           NEW a \in 0 .. n - 1, NEW b \in 0 .. n - 1,
           n * p + a = n * q + b
    PROVE  a = b /\ p = q
  <1>1. n * p \in Nat /\ n * q \in Nat
    OBVIOUS
  <1>2. CASE p = q
    BY <1>1, <1>2
  <1>3. CASE p < q
    <2>1. n * p + n <= n * q
      BY <1>3, MultGap
    <2> QED BY <1>1, <2>1
  <1>4. CASE q < p
    <2>1. n * q + n <= n * p
      BY <1>4, MultGap
    <2> QED BY <1>1, <2>1
  <1> QED BY <1>2, <1>3, <1>4

\* Two different indices less than a lap apart use different slots
\* (atomic_queue.h:117-120).
LEMMA NormDistinct ==
    ASSUME NEW i \in Nat, NEW j \in Nat, i < j, j < i + RingSize
    PROVE  normilize_ring_slot(i) # normilize_ring_slot(j)
  <1> SUFFICES ASSUME normilize_ring_slot(i) = normilize_ring_slot(j)
               PROVE  FALSE
    OBVIOUS
  <1>0. RingSize \in Nat \ {0}
    BY RingAssumption
  <1> DEFINE r == normilize_ring_slot(i)
  <1>1. PICK p \in Nat : i = RingSize * p + r
    BY Laps
  <1>2. PICK q \in Nat : j = RingSize * q + r
    BY Laps
  <1>3. r \in 0 .. RingSize - 1
    BY Laps DEF Slots
  <1> HIDE DEF r
  <1>4. RingSize * p \in Nat /\ RingSize * q \in Nat
    BY <1>0
  <1>5. p < q
    <2> SUFFICES ASSUME q < p PROVE FALSE
      BY <1>1, <1>2
    <2>1. RingSize * q + RingSize <= RingSize * p
      BY <1>0, MultGap
    <2> QED BY <2>1, <1>0, <1>1, <1>2, <1>3, <1>4
  <1>6. RingSize * p + RingSize <= RingSize * q
    BY <1>0, <1>5, MultGap
  <1> QED BY <1>6, <1>0, <1>1, <1>2, <1>3, <1>4

\* An index a lap later uses the same slot.
LEMMA NormPeriod ==
    ASSUME NEW i \in Nat
    PROVE  normilize_ring_slot(i + RingSize) = normilize_ring_slot(i)
  <1>0. RingSize \in Nat \ {0} /\ i + RingSize \in Nat
    BY RingAssumption
  <1> DEFINE a == normilize_ring_slot(i)
             b == normilize_ring_slot(i + RingSize)
  <1>1. PICK p \in Nat : i = RingSize * p + a
    BY Laps
  <1>2. PICK q \in Nat : i + RingSize = RingSize * q + b
    BY <1>0, Laps
  <1>3. a \in 0 .. RingSize - 1 /\ b \in 0 .. RingSize - 1
    BY <1>0, Laps DEF Slots
  <1> HIDE DEF a, b
  <1>4. RingSize * (p + 1) = RingSize * p + RingSize /\ RingSize * p \in Nat
    BY <1>0
  <1>5. RingSize * (p + 1) + a = RingSize * q + b /\ p + 1 \in Nat
    BY <1>0, <1>1, <1>2, <1>3, <1>4
  <1>6. a = b
    BY <1>0, <1>3, <1>5, RemainderUnique
  <1> QED BY <1>6 DEF a, b

-----------------------------------------------------------------------------

\* Which thread can be where: only takers pop, and only the main thread waits.
Places ==
    /\ use \in {"tags", "slots"}
    /\ pc \in [Threads -> QueuePoints]
    /\ \A t \in Threads :
           /\ pc[t] \in PushPoints => t \in Pushers
           /\ pc[t] \in PopPoints \cup WaitPoints => t \in Takers
           /\ pc[t] \in WaitPoints => use = "tags"

TypeOK == QueueTypeOK /\ Places

\* The points at which a thread owns an index.
OwnedPoints ==
    {"push_wait", "push_emplace", "push_publish",
     "pop_wait", "pop_take", "pop_clear", "pop_clear_again"}

\* An index that is claimed belongs to one pusher and one popper at most; the
\* popper may come first, and then waits for the pusher.
Owners ==
    /\ head <= tail
    /\ tail = Len(claimed)
    /\ \A t \in Pushers : PushOwns(t) =>
           /\ index[t] < tail
           /\ item[t] = claimed[index[t] + 1]
           /\ \/ head <= index[t]
              \/ \E p \in Poppers : pc[p] = "pop_wait" /\ index[p] = index[t]
           /\ \A u \in Pushers : PushOwns(u) /\ index[u] = index[t] => u = t
    /\ \A p \in Poppers : PopOwns(p) =>
           /\ index[p] < head
           /\ \A q \in Poppers : PopOwns(q) /\ index[q] = index[p] => q = p

\* No push has lapped a pop: all indices in use lie within one lap of the ring.
Room == tail <= OldestPop + RingSize

\* The elements that poppers have in their hands are those of their indices.
Delivered ==
    \A p \in Poppers :
        pc[p] \in {"pop_clear", "pop_clear_again", "popped"} =>
            item[p] = claimed[index[p] + 1]

\* The element of index k is published, and its popper has not cleared it.
Filled(k) ==
    /\ k < tail
    /\ \A t \in Pushers : PushOwns(t) => index[t] # k
    /\ \/ head <= k
       \/ \E p \in Poppers :
              pc[p] \in {"pop_wait", "pop_take", "pop_clear"} /\ index[p] = k

Flags ==
    \A k \in Nat : OldestPop <= k /\ k < OldestPop + RingSize =>
        (initialized[normilize_ring_slot(k)] <=> Filled(k))

\* The object of index k is built, and its popper has not taken it.
Built(k) ==
    /\ k < tail
    /\ \A t \in Pushers : pc[t] \in {"push_wait", "push_emplace"} => index[t] # k
    /\ \/ head <= k
       \/ \E p \in Poppers : pc[p] \in {"pop_wait", "pop_take"} /\ index[p] = k

Objects ==
    \A k \in Nat : OldestPop <= k /\ Built(k) =>
        object[normilize_ring_slot(k)] = claimed[k + 1]

Ring == Owners /\ Room /\ Flags /\ Objects

\* What the threads know between two accesses.
Locals ==
    /\ \A t \in Pushers :
           pc[t] \in {"push", "push_check", "push_claim"} => item[t] \in Items
    /\ \A p \in Poppers :
           /\ pc[p] = "pop_check" => index[p] <= head
           /\ pc[p] = "pop_claim" => index[p] < tail
           /\ pc[p] \in {"pop_clear", "pop_clear_again", "popped"} =>
                  index[p] < tail

\* The main thread is the only one to move head, and has seen an element.
MainSees ==
    /\ pc[Main] \in {"wait_flag", "ready"} =>
           SlotOf(Main) = normilize_ring_slot(head)
    /\ pc[Main] \in {"ready", "pop", "pop_check", "pop_claim"} => head < tail
    /\ pc[Main] \in {"pop_check", "pop_claim"} => index[Main] = head
    /\ pc[Main] # "empty"

IInv == TypeOK /\ Ring /\ Locals /\ Delivered /\ MainSees

-----------------------------------------------------------------------------
(* Constants and positions                                                 *)

\* The constants, as the proofs use them.
LEMMA Sizes ==
    /\ RingSize \in Nat /\ RingSize >= 2
    /\ Main \in Poppers /\ Main \notin Pushers
    /\ Pushers \subseteq Threads /\ Poppers \subseteq Threads
  BY RingAssumption, ClientAssumption DEF Threads

\* Different indices of one lap have different slots.
LEMMA SlotsDiffer ==
    ASSUME NEW lo \in Nat, NEW i \in Nat, NEW j \in Nat, i # j,
           lo <= i, i < lo + RingSize, lo <= j, j < lo + RingSize
    PROVE  normilize_ring_slot(i) # normilize_ring_slot(j)
  <1>1. CASE i < j
    BY <1>1, NormDistinct, Sizes
  <1>2. CASE j < i
    BY <1>2, NormDistinct, Sizes
  <1> QED BY <1>1, <1>2

\* An index beyond a lap has one a lap before it.
LEMMA LapBefore ==
    ASSUME NEW lo \in Nat, NEW hi \in Nat, NEW k \in Nat,
           lo + RingSize <= k, k < hi + RingSize
    PROVE  \E j \in Nat : k = j + RingSize /\ lo <= j /\ j < hi
  <1>1. RingSize \in Nat
    BY Sizes
  <1>2. k - RingSize \in Nat
    BY <1>1
  <1> WITNESS k - RingSize \in Nat
  <1> QED BY <1>1

\* The uint16_t of wait_for_data names the same slot as the head it was
\* loaded from, since the ring size divides its range (atomic_queue.h:93).
LEMMA NarrowKeepsSlot ==
    ASSUME NEW i \in Nat
    PROVE  /\ narrow(i) \in Nat
           /\ normilize_ring_slot(narrow(i)) = normilize_ring_slot(i)
  <1> DEFINE n == narrow(i)
             q == i \div NarrowLimit
             m == NarrowLimit \div RingSize
  <1>1. q \in Nat /\ n \in Nat /\ i = NarrowLimit * q + n
    BY RingAssumption, DivMod DEF narrow
  <1>2. m \in Nat /\ NarrowLimit = RingSize * m + (NarrowLimit % RingSize)
    BY RingAssumption, DivMod
  <1>3. NarrowLimit % RingSize = 0 /\ RingSize \in Nat \ {0}
    BY RingAssumption
  <1> DEFINE a == normilize_ring_slot(i)
             b == normilize_ring_slot(n)
  <1>4. PICK p \in Nat : i = RingSize * p + a
    BY Laps
  <1>5. PICK r \in Nat : n = RingSize * r + b
    BY <1>1, Laps
  <1>6. a \in 0 .. RingSize - 1 /\ b \in 0 .. RingSize - 1
    BY <1>1, Laps DEF Slots
  <1> HIDE DEF n, q, m, a, b
  <1>7. NarrowLimit * q = RingSize * (m * q)
    <2>1. NarrowLimit = RingSize * m
      BY <1>2, <1>3
    <2> QED BY <2>1, <1>1, <1>2, <1>3
  <1>8. m * q \in Nat
    BY <1>1, <1>2
  <1>9. RingSize * (m * q + r) = RingSize * (m * q) + RingSize * r
    BY <1>8, <1>3
  <1>10. RingSize * (m * q + r) + b = RingSize * p + a
    <2>1. RingSize * (m * q) \in Nat /\ RingSize * r \in Nat /\ RingSize * p \in Nat
      BY <1>3, <1>8
    <2> QED BY <2>1, <1>1, <1>4, <1>5, <1>6, <1>7, <1>9
  <1>11. m * q + r \in Nat
    BY <1>8
  <1>12. a = b
    BY <1>3, <1>6, <1>10, <1>11, RemainderUnique
  <1> QED BY <1>1, <1>12 DEF a, b, n

-----------------------------------------------------------------------------
(* The oldest unfinished pop                                               *)

\* Appending changes nothing that is there already.
LEMMA AppendKeeps ==
    ASSUME NEW S, NEW q \in Seq(S), NEW x \in S
    PROVE  \A k \in Nat : k < Len(q) => Append(q, x)[k + 1] = q[k + 1]
  OBVIOUS

\* Every set of naturals has a least element.
LEMMA MinNat ==
    ASSUME NEW S, S \subseteq Nat, S # {}
    PROVE  Min(S) \in S /\ \A y \in S : Min(S) <= y
  <1> DEFINE R == OpToRel(<, Nat)
  <1>1. PICK x \in S : \A y \in S : <<y, x>> \notin R
    <2>1. IsWellFoundedOn(R, Nat)
      BY NatLessThanWellFounded
    <2> HIDE DEF R
    <2> QED BY <2>1, WFMin
  <1>2. \A y \in S : x <= y
    <2> SUFFICES ASSUME NEW y \in S, y < x PROVE FALSE
      OBVIOUS
    <2>1. <<y, x>> \in R
      BY DEF OpToRel
    <2> QED BY <1>1, <2>1
  <1> QED BY <1>2 DEF Min

\* OldestPop is the least of head and the indices being popped.
OldestIs(o) ==
    /\ o \in Nat /\ o <= head
    /\ \A p \in Poppers : PopOwns(p) => o <= index[p]
    /\ o = head \/ \E p \in Poppers : PopOwns(p) /\ o = index[p]

\* OldestPop is what its name says.
LEMMA Oldest == TypeOK => OldestIs(OldestPop)
  <1> SUFFICES ASSUME TypeOK PROVE OldestIs(OldestPop)
    OBVIOUS
  <1> DEFINE S == {head} \cup {index[t] : t \in {p \in Poppers : PopOwns(p)}}
  <1>1. S \subseteq Nat /\ S # {}
    BY Sizes DEF TypeOK, QueueTypeOK
  <1>2. Min(S) \in S /\ \A y \in S : Min(S) <= y
    BY <1>1, MinNat
  <1>3. OldestPop = Min(S)
    BY DEF OldestPop
  <1> QED BY <1>1, <1>2, <1>3 DEF OldestIs

\* The same after a step.
LEMMA OldestAfter == TypeOK' => OldestIs(OldestPop)'
  BY Oldest, PTL

\* A step that moves neither head nor the indices being popped leaves it alone.
LEMMA OldestSame ==
    ASSUME TypeOK, TypeOK', head' = head,
           \A p \in Poppers :
               /\ PopOwns(p)' <=> PopOwns(p)
               /\ PopOwns(p) => index'[p] = index[p]
    PROVE  OldestPop' = OldestPop
  <1>1. OldestIs(OldestPop)
    BY Oldest
  <1>2. OldestIs(OldestPop)'
    BY OldestAfter
  <1> QED BY <1>1, <1>2 DEF OldestIs, TypeOK, QueueTypeOK

\* The indices in use lie within a lap.
LEMMA Lap ==
    ASSUME TypeOK, Owners, Room
    PROVE  /\ OldestPop \in Nat /\ OldestPop <= head
           /\ tail <= OldestPop + RingSize
           /\ \A p \in Poppers : PopOwns(p) =>
                  /\ index[p] \in Nat
                  /\ OldestPop <= index[p] /\ index[p] < OldestPop + RingSize
           /\ \A t \in Pushers : PushOwns(t) =>
                  /\ index[t] \in Nat
                  /\ OldestPop <= index[t] /\ index[t] < OldestPop + RingSize
  <1>1. OldestIs(OldestPop)
    BY Oldest
  <1>3. head \in Nat /\ tail \in Nat /\ \A t \in Threads : index[t] \in Nat
    BY DEF TypeOK, QueueTypeOK
  <1>4. tail <= OldestPop + RingSize
    BY DEF Room
  <1>5. ASSUME NEW p \in Poppers, pc[p] = "pop_wait" PROVE PopOwns(p)
    BY <1>5 DEF PopOwns
  <1> QED BY <1>1, <1>3, <1>4, <1>5, Sizes DEF OldestIs, Owners

-----------------------------------------------------------------------------
(* Types                                                                   *)

\* A step of a thread moves it to a point where it may be.
LEMMA GotoPlaces ==
    ASSUME TypeOK, NEW t \in Threads, NEW point \in QueuePoints,
           pc' = [pc EXCEPT ![t] = point], use' = use,
           point \in PushPoints => t \in Pushers,
           point \in PopPoints \cup WaitPoints => t \in Takers,
           point \in WaitPoints => use = "tags"
    PROVE  Places'
  BY DEF TypeOK, Places, Takers

\* Every step of a pusher keeps the types.
LEMMA PushTypes ==
    ASSUME IInv, NEW t \in Pushers, PushThread(t), use' = use
    PROVE  TypeOK'
  <1> USE Sizes DEF PushPoints, PopPoints, WaitPoints, QueuePoints, Goto
  <1>1. t \in Threads /\ pc \in [Threads -> QueuePoints]
    BY DEF IInv, TypeOK, Places
  <1>2. PICK point \in PushPoints \cup {"idle"} : pc' = [pc EXCEPT ![t] = point]
    BY DEF PushThread, start_push, end_push, call_try_push, PushStep, push_load_tail,
           push_load_head, push_claim_tail, push_claim_fails, push_await_slot,
           push_emplace, push_publish
  <1>3. Places'
    BY <1>1, <1>2, GotoPlaces DEF IInv
  <1>4. SlotOf(t) \in Slots
    BY <1>1, Laps DEF SlotOf, IInv, TypeOK, QueueTypeOK
  <1>5. QueueTypeOK'
    <2> USE <1>1, <1>4 DEF IInv, TypeOK, QueueTypeOK
    <2>1. CASE start_push(t)
      BY <2>1, ClientAssumption DEF start_push, call_try_push
    <2>2. CASE push_load_tail(t) \/ push_load_head(t) \/ push_claim_fails(t)
               \/ push_await_slot(t)
      BY <2>2 DEF push_load_tail, push_load_head, push_claim_fails, push_await_slot
    <2>3. CASE push_claim_tail(t)
      <3>1. item[t] \in Items
        BY <2>3 DEF push_claim_tail, Locals
      <3> QED BY <2>3, <3>1 DEF push_claim_tail
    <2>4. CASE push_emplace(t)
      BY <2>4 DEF push_emplace
    <2>5. CASE push_publish(t)
      BY <2>5 DEF push_publish
    <2>6. CASE end_push(t)
      BY <2>6 DEF end_push
    <2> QED BY <2>1, <2>2, <2>3, <2>4, <2>5, <2>6 DEF PushThread, PushStep
  <1> QED BY <1>3, <1>5 DEF TypeOK

\* Every step of a popper keeps the types.
LEMMA PopTypes ==
    ASSUME IInv, NEW t \in Poppers, PopThread(t), use' = use
    PROVE  TypeOK'
  <1> USE Sizes DEF PushPoints, PopPoints, WaitPoints, QueuePoints, Goto
  <1>1. t \in Threads /\ t \in Takers /\ pc \in [Threads -> QueuePoints]
    BY DEF IInv, TypeOK, Places, PopThread
  <1>2. PICK point \in PopPoints \cup WaitPoints \cup {"idle"} :
            /\ pc' = [pc EXCEPT ![t] = point]
            /\ point \in WaitPoints => use = "tags"
    <2>1. pc[t] \in WaitPoints => use = "tags"
      BY <1>1 DEF IInv, TypeOK, Places
    <2> QED BY <2>1 DEF PopThread, start_wait, call_wait_for_data, WaitStep,
           wait_load_head, wait_await_object, start_pop, call_try_pop, end_pop, PopStep,
           pop_load_head, pop_load_tail, pop_claim_head, pop_claim_fails,
           pop_await_object, pop_take, pop_clear, pop_clear_again
  <1>3. Places'
    BY <1>1, <1>2, GotoPlaces DEF IInv
  <1>4. SlotOf(t) \in Slots
    BY <1>1, Laps DEF SlotOf, IInv, TypeOK, QueueTypeOK
  <1>5. QueueTypeOK'
    <2> USE <1>1, <1>4 DEF IInv, TypeOK, QueueTypeOK
    <2>1. CASE start_wait(t) \/ wait_await_object(t) \/ start_pop(t)
               \/ pop_load_tail(t) \/ pop_claim_head(t) \/ pop_claim_fails(t)
               \/ pop_await_object(t)
      BY <2>1 DEF start_wait, call_wait_for_data, wait_await_object, start_pop,
           call_try_pop, pop_load_tail, pop_claim_head, pop_claim_fails,
           pop_await_object
    <2>2. CASE wait_load_head(t)
      BY <2>2, NarrowKeepsSlot DEF wait_load_head
    <2>3. CASE pop_load_head(t)
      BY <2>3 DEF pop_load_head
    <2>4. CASE pop_take(t)
      BY <2>4 DEF pop_take
    <2>5. CASE pop_clear(t) \/ pop_clear_again(t)
      BY <2>5 DEF pop_clear, pop_clear_again
    <2>6. CASE end_pop(t)
      BY <2>6 DEF end_pop
    <2> QED BY <2>1, <2>2, <2>3, <2>4, <2>5, <2>6 DEF PopThread, PopStep, WaitStep
  <1> QED BY <1>3, <1>5 DEF TypeOK

-----------------------------------------------------------------------------
(* Steps of a thread that owns no index                                    *)

\* What a thread does before it has claimed an index and after it has given it
\* up concerns nobody else.
LEMMA LocalStep ==
    ASSUME TypeOK, TypeOK', Ring,
           UNCHANGED <<head, tail, initialized, object, claimed>>,
           \A u \in Threads :
               \/ /\ pc'[u] = pc[u] /\ index'[u] = index[u] /\ item'[u] = item[u]
               \/ pc[u] \notin OwnedPoints /\ pc'[u] \notin OwnedPoints
    PROVE  Ring'
  <1> USE Sizes DEF OwnedPoints
  <1>1. OldestPop' = OldestPop
    <2>1. \A p \in Poppers :
              /\ PopOwns(p)' <=> PopOwns(p)
              /\ PopOwns(p) => index'[p] = index[p]
      BY DEF PopOwns
    <2> QED BY <2>1, OldestSame
  <1>2. Owners'
    BY DEF Ring, Owners, PushOwns, PopOwns
  <1>3. Room'
    BY <1>1 DEF Ring, Room
  <1>4. \A k \in Nat : Filled(k)' <=> Filled(k)
    BY DEF Filled, PushOwns
  <1>5. \A k \in Nat : Built(k)' <=> Built(k)
    BY DEF Built
  <1>6. Flags'
    BY <1>1, <1>4 DEF Ring, Flags
  <1>7. Objects'
    BY <1>1, <1>5 DEF Ring, Objects
  <1> QED BY <1>2, <1>3, <1>6, <1>7 DEF Ring

-----------------------------------------------------------------------------
(* Steps of a pusher                                                       *)

\* A claim takes an index that nobody has owned and that no flag stands for.
LEMMA ClaimTail ==
    ASSUME IInv, TypeOK', NEW t \in Pushers, push_claim_tail(t),
           tail' <= OldestPop + RingSize
    PROVE  Ring'
  <1> USE Sizes DEF Goto
  <1>1. /\ t \in Threads /\ pc[t] = "push_claim" /\ index[t] = tail
        /\ tail' = tail + 1 /\ claimed' = Append(claimed, item[t])
        /\ UNCHANGED <<head, initialized, object, index, item>>
        /\ pc' = [pc EXCEPT ![t] = "push_wait"]
        /\ item[t] \in Items
    BY DEF push_claim_tail, IInv, Locals
  <1>2. /\ head \in Nat /\ tail \in Nat /\ tail = Len(claimed) /\ head <= tail
        /\ claimed \in Seq(Items)
        /\ index \in [Threads -> Nat]
    BY DEF IInv, Ring, Owners, TypeOK, QueueTypeOK
  <1>3. /\ pc'[t] = "push_wait"
        /\ \A u \in Threads : u # t => pc'[u] = pc[u]
    BY <1>1 DEF IInv, TypeOK, Places
  <1>4. /\ Len(claimed') = tail + 1
        /\ claimed'[tail + 1] = item[t]
        /\ \A k \in Nat : k < tail => claimed'[k + 1] = claimed[k + 1]
    BY <1>1, <1>2
  <1>5. /\ \A u \in Pushers : u # t => (PushOwns(u)' <=> PushOwns(u))
        /\ PushOwns(t)'
        /\ ~PushOwns(t)
        /\ \A p \in Poppers : PopOwns(p)' <=> PopOwns(p)
    BY <1>1, <1>3 DEF PushOwns, PopOwns
  <1>6. OldestPop' = OldestPop
    BY <1>1, <1>5, OldestSame DEF IInv
  <1>7. Owners'
    <2> USE DEF IInv, Ring, Owners
    <2>1. head' <= tail' /\ tail' = Len(claimed')
      BY <1>1, <1>2, <1>4
    <2>2. ASSUME NEW u \in Pushers, PushOwns(u)'
          PROVE  /\ index'[u] < tail'
                 /\ item'[u] = claimed'[index'[u] + 1]
                 /\ \/ head' <= index'[u]
                    \/ \E p \in Poppers : pc'[p] = "pop_wait" /\ index'[p] = index'[u]
                 /\ \A v \in Pushers : PushOwns(v)' /\ index'[v] = index'[u] => v = u
      BY <1>1, <1>2, <1>3, <1>4, <1>5, <2>2
    <2>3. ASSUME NEW p \in Poppers, PopOwns(p)'
          PROVE  /\ index'[p] < head'
                 /\ \A q \in Poppers : PopOwns(q)' /\ index'[q] = index'[p] => q = p
      BY <1>1, <1>5, <2>3
    <2> QED BY <2>1, <2>2, <2>3
  <1>8. Room'
    BY <1>1, <1>6 DEF Room
  <1>9. \A k \in Nat : Filled(k)' <=> Filled(k)
    BY <1>1, <1>2, <1>3, <1>5 DEF Filled
  <1>10. \A k \in Nat : Built(k)' => k < tail /\ Built(k)
    BY <1>1, <1>2, <1>3 DEF Built
  <1>11. Flags'
    BY <1>1, <1>6, <1>9 DEF IInv, Ring, Flags
  <1>12. Objects'
    BY <1>1, <1>4, <1>6, <1>10 DEF IInv, Ring, Objects
  <1> QED BY <1>7, <1>8, <1>11, <1>12 DEF Ring

\* The push finds the flag down and goes on to the object.
LEMMA AwaitSlot ==
    ASSUME IInv, TypeOK', NEW t \in Pushers, push_await_slot(t)
    PROVE  Ring'
  <1> USE Sizes DEF Goto
  <1>1. /\ pc[t] = "push_wait" /\ pc' = [pc EXCEPT ![t] = "push_emplace"]
        /\ UNCHANGED <<head, tail, initialized, object, index, item, claimed>>
    BY DEF push_await_slot
  <1>2. /\ pc'[t] = "push_emplace"
        /\ \A u \in Threads : u # t => pc'[u] = pc[u]
    BY <1>1 DEF IInv, TypeOK, Places
  <1>3. /\ \A u \in Pushers : PushOwns(u)' <=> PushOwns(u)
        /\ \A p \in Poppers : PopOwns(p)' <=> PopOwns(p)
    BY <1>1, <1>2 DEF PushOwns, PopOwns
  <1>4. OldestPop' = OldestPop
    BY <1>1, <1>3, OldestSame DEF IInv
  <1>5. Owners'
    BY <1>1, <1>2, <1>3 DEF IInv, Ring, Owners
  <1>6. Room'
    BY <1>1, <1>4 DEF IInv, Ring, Room
  <1>7. Flags'
    <2>1. \A k \in Nat : Filled(k)' <=> Filled(k)
      BY <1>1, <1>2, <1>3 DEF Filled
    <2> QED BY <1>1, <1>4, <2>1 DEF IInv, Ring, Flags
  <1>8. Objects'
    <2>1. \A k \in Nat : Built(k)' <=> Built(k)
      BY <1>1, <1>2 DEF Built
    <2> QED BY <1>1, <1>4, <2>1 DEF IInv, Ring, Objects
  <1> QED BY <1>5, <1>6, <1>7, <1>8 DEF Ring

\* The object is built in a slot that no other index in use shares.
LEMMA Emplace ==
    ASSUME IInv, TypeOK', NEW t \in Pushers, push_emplace(t)
    PROVE  Ring'
  <1> USE Sizes DEF Goto
  <1>1. /\ pc[t] = "push_emplace" /\ pc' = [pc EXCEPT ![t] = "push_publish"]
        /\ object' = [object EXCEPT ![SlotOf(t)] = item[t]]
        /\ UNCHANGED <<head, tail, initialized, index, item, claimed>>
    BY DEF push_emplace
  <1>2. /\ pc'[t] = "push_publish"
        /\ \A u \in Threads : u # t => pc'[u] = pc[u]
    BY <1>1 DEF IInv, TypeOK, Places
  <1>3. /\ \A u \in Pushers : PushOwns(u)' <=> PushOwns(u)
        /\ \A p \in Poppers : PopOwns(p)' <=> PopOwns(p)
        /\ PushOwns(t)
    BY <1>1, <1>2 DEF PushOwns, PopOwns
  <1>4. OldestPop' = OldestPop
    BY <1>1, <1>3, OldestSame DEF IInv
  <1>5. Owners'
    BY <1>1, <1>2, <1>3 DEF IInv, Ring, Owners
  <1>6. Room'
    BY <1>1, <1>4 DEF IInv, Ring, Room
  <1>7. Flags'
    <2>1. \A k \in Nat : Filled(k)' <=> Filled(k)
      BY <1>1, <1>2, <1>3 DEF Filled
    <2> QED BY <1>1, <1>4, <2>1 DEF IInv, Ring, Flags
  <1>8. Objects'
    <2> SUFFICES ASSUME NEW k \in Nat, OldestPop <= k, Built(k)'
                 PROVE  object'[normilize_ring_slot(k)] = claimed[k + 1]
      BY <1>1, <1>4 DEF Objects
    <2>1. /\ index[t] \in Nat /\ OldestPop \in Nat
          /\ OldestPop <= index[t] /\ index[t] < OldestPop + RingSize
          /\ tail <= OldestPop + RingSize
      BY <1>3, Lap DEF IInv, Ring
    <2>2. k < tail /\ tail \in Nat
      BY <1>1 DEF Built, IInv, TypeOK, QueueTypeOK
    <2>3. normilize_ring_slot(k) \in Slots /\ object \in [Slots -> Items \cup {NoItem}]
      BY Laps DEF IInv, TypeOK, QueueTypeOK
    <2>4. CASE k = index[t]
      <3>1. item[t] = claimed[k + 1]
        BY <1>3, <2>4 DEF IInv, Ring, Owners
      <3> QED BY <1>1, <2>3, <2>4, <3>1 DEF SlotOf
    <2>5. CASE k # index[t]
      <3>1. normilize_ring_slot(k) # SlotOf(t)
        BY <2>1, <2>2, <2>5, SlotsDiffer DEF SlotOf
      <3>2. Built(k)
        BY <1>1, <1>2, <2>5 DEF Built
      <3> QED BY <1>1, <2>3, <3>1, <3>2 DEF IInv, Ring, Objects
    <2> QED BY <2>4, <2>5
  <1> QED BY <1>5, <1>6, <1>7, <1>8 DEF Ring

\* The flag goes up for the index that the push gives up.
LEMMA Publish ==
    ASSUME IInv, TypeOK', NEW t \in Pushers, push_publish(t)
    PROVE  Ring'
  <1> USE Sizes DEF Goto
  <1>1. /\ pc[t] = "push_publish" /\ pc' = [pc EXCEPT ![t] = "pushed"]
        /\ initialized' = [initialized EXCEPT ![SlotOf(t)] = TRUE]
        /\ item' = [item EXCEPT ![t] = NoItem]
        /\ UNCHANGED <<head, tail, object, index, claimed>>
    BY DEF push_publish
  <1>2. /\ pc'[t] = "pushed"
        /\ \A u \in Threads : u # t => pc'[u] = pc[u] /\ item'[u] = item[u]
    BY <1>1 DEF IInv, TypeOK, Places, QueueTypeOK
  <1>3. /\ \A u \in Pushers : u # t => (PushOwns(u)' <=> PushOwns(u))
        /\ \A p \in Poppers : PopOwns(p)' <=> PopOwns(p)
        /\ PushOwns(t) /\ ~PushOwns(t)'
    BY <1>1, <1>2 DEF PushOwns, PopOwns
  <1>4. OldestPop' = OldestPop
    BY <1>1, <1>3, OldestSame DEF IInv
  <1>5. Owners'
    BY <1>1, <1>2, <1>3 DEF IInv, Ring, Owners
  <1>6. Room'
    BY <1>1, <1>4 DEF IInv, Ring, Room
  <1>7. Flags'
    <2> SUFFICES ASSUME NEW k \in Nat, OldestPop <= k, k < OldestPop + RingSize
                 PROVE  initialized'[normilize_ring_slot(k)] <=> Filled(k)'
      BY <1>1, <1>4 DEF Flags
    <2>1. /\ index[t] \in Nat /\ OldestPop \in Nat
          /\ OldestPop <= index[t] /\ index[t] < OldestPop + RingSize
      BY <1>3, Lap DEF IInv, Ring
    <2>3. normilize_ring_slot(k) \in Slots /\ initialized \in [Slots -> BOOLEAN]
      BY Laps DEF IInv, TypeOK, QueueTypeOK
    <2>4. CASE k = index[t]
      <3>1. Filled(k)'
        BY <1>1, <1>2, <1>3, <2>4 DEF IInv, Ring, Owners, Filled
      <3> QED BY <1>1, <2>3, <2>4, <3>1 DEF SlotOf
    <2>5. CASE k # index[t]
      <3>1. normilize_ring_slot(k) # SlotOf(t)
        BY <2>1, <2>5, SlotsDiffer DEF SlotOf
      <3>2. Filled(k)' <=> Filled(k)
        BY <1>1, <1>2, <1>3, <2>5 DEF Filled
      <3>3. initialized'[normilize_ring_slot(k)] = initialized[normilize_ring_slot(k)]
        BY <1>1, <2>3, <3>1
      <3> QED BY <3>2, <3>3 DEF IInv, Ring, Flags
    <2> QED BY <2>4, <2>5
  <1>8. Objects'
    <2>1. \A k \in Nat : Built(k)' <=> Built(k)
      BY <1>1, <1>2 DEF Built
    <2> QED BY <1>1, <1>4, <2>1 DEF IInv, Ring, Objects
  <1> QED BY <1>5, <1>6, <1>7, <1>8 DEF Ring

-----------------------------------------------------------------------------
(* Steps of a popper                                                       *)

\* A pop claims the index at head, published or not.
LEMMA ClaimHead ==
    ASSUME IInv, TypeOK', NEW t \in Poppers, pop_claim_head(t)
    PROVE  Ring'
  <1> USE Sizes DEF Goto
  <1>1. /\ pc[t] = "pop_claim" /\ pc' = [pc EXCEPT ![t] = "pop_wait"]
        /\ index[t] = head /\ head' = head + 1
        /\ UNCHANGED <<tail, initialized, object, index, item, claimed>>
    BY DEF pop_claim_head
  <1>2. /\ pc'[t] = "pop_wait"
        /\ \A u \in Threads : u # t => pc'[u] = pc[u]
    BY <1>1 DEF IInv, TypeOK, Places
  <1>3. /\ \A u \in Pushers : PushOwns(u)' <=> PushOwns(u)
        /\ \A p \in Poppers : p # t => (PopOwns(p)' <=> PopOwns(p))
        /\ ~PopOwns(t) /\ PopOwns(t)'
    BY <1>1, <1>2 DEF PushOwns, PopOwns
  <1>4. head \in Nat /\ tail \in Nat /\ head < tail /\ index \in [Threads -> Nat]
    BY <1>1 DEF IInv, TypeOK, QueueTypeOK, Locals
  <1>5. OldestPop' = OldestPop
    BY <1>1, <1>3, <1>4, Oldest, OldestAfter DEF IInv, OldestIs
  <1>6. Owners'
    <2> USE DEF IInv, Ring, Owners
    <2>1. head' <= tail' /\ tail' = Len(claimed')
      BY <1>1, <1>4
    <2>2. ASSUME NEW u \in Pushers, PushOwns(u)'
          PROVE  /\ index'[u] < tail'
                 /\ item'[u] = claimed'[index'[u] + 1]
                 /\ \/ head' <= index'[u]
                    \/ \E p \in Poppers : pc'[p] = "pop_wait" /\ index'[p] = index'[u]
                 /\ \A v \in Pushers : PushOwns(v)' /\ index'[v] = index'[u] => v = u
      <3>1. CASE index[u] = head
        BY <1>1, <1>2, <1>3, <2>2, <3>1
      <3>2. CASE index[u] # head
        BY <1>1, <1>2, <1>3, <1>4, <2>2, <3>2
      <3> QED BY <3>1, <3>2
    <2>3. ASSUME NEW p \in Poppers, PopOwns(p)'
          PROVE  /\ index'[p] < head'
                 /\ \A q \in Poppers : PopOwns(q)' /\ index'[q] = index'[p] => q = p
      BY <1>1, <1>3, <1>4, <2>3
    <2> QED BY <2>1, <2>2, <2>3
  <1>7. Room'
    BY <1>1, <1>5 DEF IInv, Ring, Room
  <1>8. Flags'
    <2>1. \A k \in Nat : Filled(k)' <=> Filled(k)
      BY <1>1, <1>2, <1>3, <1>4 DEF Filled
    <2> QED BY <1>1, <1>5, <2>1 DEF IInv, Ring, Flags
  <1>9. Objects'
    <2>1. \A k \in Nat : Built(k)' <=> Built(k)
      BY <1>1, <1>2, <1>4 DEF Built
    <2> QED BY <1>1, <1>5, <2>1 DEF IInv, Ring, Objects
  <1> QED BY <1>6, <1>7, <1>8, <1>9 DEF Ring

\* A popper that has seen the flag is alone with its index.
LEMMA AwaitObject ==
    ASSUME IInv, TypeOK', NEW t \in Poppers, pop_await_object(t)
    PROVE  Ring'
  <1> USE Sizes DEF Goto
  <1>1. /\ pc[t] = "pop_wait" /\ pc' = [pc EXCEPT ![t] = "pop_take"]
        /\ initialized[SlotOf(t)]
        /\ UNCHANGED <<head, tail, initialized, object, index, item, claimed>>
    BY DEF pop_await_object
  <1>2. /\ pc'[t] = "pop_take"
        /\ \A u \in Threads : u # t => pc'[u] = pc[u]
    BY <1>1 DEF IInv, TypeOK, Places
  <1>3. /\ \A u \in Pushers : PushOwns(u)' <=> PushOwns(u)
        /\ \A p \in Poppers : PopOwns(p)' <=> PopOwns(p)
        /\ PopOwns(t)
    BY <1>1, <1>2 DEF PushOwns, PopOwns
  <1>4. OldestPop' = OldestPop
    BY <1>1, <1>3, OldestSame DEF IInv
  <1>5. Filled(index[t])
    <2>1. /\ index[t] \in Nat
          /\ OldestPop <= index[t] /\ index[t] < OldestPop + RingSize
      BY <1>3, Lap DEF IInv, Ring
    <2> QED BY <1>1, <2>1 DEF IInv, Ring, Flags, SlotOf
  <1>6. Owners'
    BY <1>1, <1>2, <1>3, <1>5 DEF IInv, Ring, Owners, Filled
  <1>7. Room'
    BY <1>1, <1>4 DEF IInv, Ring, Room
  <1>8. Flags'
    <2>1. \A k \in Nat : Filled(k)' <=> Filled(k)
      BY <1>1, <1>2, <1>3 DEF Filled
    <2> QED BY <1>1, <1>4, <2>1 DEF IInv, Ring, Flags
  <1>9. Objects'
    <2>1. \A k \in Nat : Built(k)' <=> Built(k)
      BY <1>1, <1>2 DEF Built
    <2> QED BY <1>1, <1>4, <2>1 DEF IInv, Ring, Objects
  <1> QED BY <1>6, <1>7, <1>8, <1>9 DEF Ring

\* The pop takes the object that was pushed under its index.
LEMMA Take ==
    ASSUME IInv, TypeOK', NEW t \in Poppers, pop_take(t)
    PROVE  Ring' /\ item'[t] = claimed[index[t] + 1] /\ index[t] < tail
  <1> USE Sizes DEF Goto
  <1>1. /\ pc[t] = "pop_take" /\ pc' = [pc EXCEPT ![t] = "pop_clear"]
        /\ item' = [item EXCEPT ![t] = object[SlotOf(t)]]
        /\ object' = [object EXCEPT ![SlotOf(t)] = NoItem]
        /\ UNCHANGED <<head, tail, initialized, index, claimed>>
    BY DEF pop_take
  <1>2. /\ pc'[t] = "pop_clear" /\ item'[t] = object[SlotOf(t)]
        /\ \A u \in Threads : u # t => pc'[u] = pc[u] /\ item'[u] = item[u]
    BY <1>1 DEF IInv, TypeOK, Places, QueueTypeOK
  <1>3. /\ \A u \in Pushers : PushOwns(u)' <=> PushOwns(u)
        /\ \A u \in Pushers : PushOwns(u) => u # t
        /\ \A p \in Poppers : PopOwns(p)' <=> PopOwns(p)
        /\ PopOwns(t)
    BY <1>1, <1>2 DEF PushOwns, PopOwns
  <1>4. OldestPop' = OldestPop
    BY <1>1, <1>3, OldestSame DEF IInv
  <1>5. Owners'
    BY <1>1, <1>2, <1>3 DEF IInv, Ring, Owners
  <1>6. Room'
    BY <1>1, <1>4 DEF IInv, Ring, Room
  <1>7. Flags'
    <2>1. \A k \in Nat : Filled(k)' <=> Filled(k)
      BY <1>1, <1>2, <1>3 DEF Filled
    <2> QED BY <1>1, <1>4, <2>1 DEF IInv, Ring, Flags
  <1>8. /\ index[t] \in Nat /\ OldestPop \in Nat /\ tail \in Nat /\ head \in Nat
        /\ OldestPop <= index[t] /\ index[t] < OldestPop + RingSize
        /\ tail <= OldestPop + RingSize
        /\ index[t] < head /\ head <= tail
    BY <1>3, Lap DEF IInv, Ring, Owners, TypeOK, QueueTypeOK
  <1>9. Built(index[t])
    <2>1. ASSUME NEW u \in Pushers, PushOwns(u), index[u] = index[t] PROVE FALSE
      <3>1. PICK p \in Poppers : pc[p] = "pop_wait" /\ index[p] = index[t]
        BY <1>8, <2>1 DEF IInv, Ring, Owners
      <3>2. p = t
        BY <1>3, <3>1 DEF IInv, Ring, Owners, PopOwns
      <3> QED BY <1>1, <3>1, <3>2
    <2> QED BY <1>1, <1>8, <2>1 DEF Built, PushOwns
  <1>10. Objects'
    <2> SUFFICES ASSUME NEW k \in Nat, OldestPop <= k, Built(k)'
                 PROVE  object'[normilize_ring_slot(k)] = claimed[k + 1]
      BY <1>1, <1>4 DEF Objects
    <2>1. k < tail /\ Built(k)
      BY <1>1, <1>2 DEF Built
    <2>2. k # index[t]
      BY <1>1, <1>2, <1>3, <1>8 DEF Built, IInv, Ring, Owners, PopOwns
    <2>3. normilize_ring_slot(k) # SlotOf(t)
      BY <1>8, <2>1, <2>2, SlotsDiffer DEF SlotOf
    <2>4. normilize_ring_slot(k) \in Slots /\ object \in [Slots -> Items \cup {NoItem}]
      BY Laps DEF IInv, TypeOK, QueueTypeOK
    <2> QED BY <1>1, <2>1, <2>3, <2>4 DEF IInv, Ring, Objects
  <1>11. item'[t] = claimed[index[t] + 1]
    BY <1>2, <1>8, <1>9 DEF IInv, Ring, Objects, SlotOf
  <1> QED BY <1>5, <1>6, <1>7, <1>8, <1>10, <1>11 DEF Ring

\* The flag goes down for the index whose object was taken.
LEMMA Clear ==
    ASSUME IInv, TypeOK', NEW t \in Poppers, pop_clear(t)
    PROVE  Ring'
  <1> USE Sizes DEF Goto
  <1>1. /\ pc[t] = "pop_clear" /\ pc' = [pc EXCEPT ![t] = "pop_clear_again"]
        /\ initialized' = [initialized EXCEPT ![SlotOf(t)] = FALSE]
        /\ UNCHANGED <<head, tail, object, index, item, claimed>>
    BY DEF pop_clear
  <1>2. /\ pc'[t] = "pop_clear_again"
        /\ \A u \in Threads : u # t => pc'[u] = pc[u]
    BY <1>1 DEF IInv, TypeOK, Places
  <1>3. /\ \A u \in Pushers : PushOwns(u)' <=> PushOwns(u)
        /\ \A p \in Poppers : PopOwns(p)' <=> PopOwns(p)
        /\ PopOwns(t)
    BY <1>1, <1>2 DEF PushOwns, PopOwns
  <1>4. OldestPop' = OldestPop
    BY <1>1, <1>3, OldestSame DEF IInv
  <1>5. Owners'
    BY <1>1, <1>2, <1>3 DEF IInv, Ring, Owners
  <1>6. Room'
    BY <1>1, <1>4 DEF IInv, Ring, Room
  <1>7. Objects'
    <2>1. \A k \in Nat : Built(k)' <=> Built(k)
      BY <1>1, <1>2 DEF Built
    <2> QED BY <1>1, <1>4, <2>1 DEF IInv, Ring, Objects
  <1>8. /\ index[t] \in Nat /\ OldestPop \in Nat /\ head \in Nat
        /\ OldestPop <= index[t] /\ index[t] < OldestPop + RingSize
        /\ index[t] < head
    BY <1>3, Lap DEF IInv, Ring, Owners, TypeOK, QueueTypeOK
  <1>9. Flags'
    <2> SUFFICES ASSUME NEW k \in Nat, OldestPop <= k, k < OldestPop + RingSize
                 PROVE  initialized'[normilize_ring_slot(k)] <=> Filled(k)'
      BY <1>1, <1>4 DEF Flags
    <2>3. normilize_ring_slot(k) \in Slots /\ initialized \in [Slots -> BOOLEAN]
      BY Laps DEF IInv, TypeOK, QueueTypeOK
    <2>4. CASE k = index[t]
      <3>1. ~Filled(k)'
        BY <1>1, <1>2, <1>3, <1>8, <2>4 DEF IInv, Ring, Owners, Filled, PopOwns
      <3> QED BY <1>1, <2>3, <2>4, <3>1 DEF SlotOf
    <2>5. CASE k # index[t]
      <3>1. normilize_ring_slot(k) # SlotOf(t)
        BY <1>8, <2>5, SlotsDiffer DEF SlotOf
      <3>2. Filled(k)' <=> Filled(k)
        BY <1>1, <1>2, <1>3, <2>5 DEF Filled
      <3>3. initialized'[normilize_ring_slot(k)] = initialized[normilize_ring_slot(k)]
        BY <1>1, <2>3, <3>1
      <3> QED BY <3>2, <3>3 DEF IInv, Ring, Flags
    <2> QED BY <2>4, <2>5
  <1> QED BY <1>5, <1>6, <1>7, <1>9 DEF Ring

\* The second clear finds the flag down, and the indices up to the next oldest
\* pop are free for the next lap.
LEMMA ClearAgain ==
    ASSUME IInv, TypeOK', NEW t \in Poppers, pop_clear_again(t)
    PROVE  Ring'
  <1> USE Sizes DEF Goto
  <1>1. /\ pc[t] = "pop_clear_again" /\ pc' = [pc EXCEPT ![t] = "popped"]
        /\ initialized' = [initialized EXCEPT ![SlotOf(t)] = FALSE]
        /\ UNCHANGED <<head, tail, object, index, item, claimed>>
    BY DEF pop_clear_again
  <1>2. /\ pc'[t] = "popped"
        /\ \A u \in Threads : u # t => pc'[u] = pc[u]
    BY <1>1 DEF IInv, TypeOK, Places
  <1>3. /\ \A u \in Pushers : PushOwns(u)' <=> PushOwns(u)
        /\ \A p \in Poppers : p # t => (PopOwns(p)' <=> PopOwns(p))
        /\ PopOwns(t) /\ ~PopOwns(t)'
    BY <1>1, <1>2 DEF PushOwns, PopOwns
  <1>4. /\ index[t] \in Nat /\ OldestPop \in Nat /\ head \in Nat /\ tail \in Nat
        /\ OldestPop <= index[t] /\ index[t] < OldestPop + RingSize
        /\ index[t] < head /\ head <= tail
        /\ tail <= OldestPop + RingSize
        /\ index \in [Threads -> Nat]
    BY <1>3, Lap DEF IInv, Ring, Owners, TypeOK, QueueTypeOK
  <1>5. /\ OldestPop' \in Nat /\ OldestPop <= OldestPop' /\ OldestPop' <= head
        /\ \A p \in Poppers : p # t /\ PopOwns(p) => OldestPop' <= index[p]
    BY <1>1, <1>3, <1>4, Oldest, OldestAfter DEF IInv, OldestIs
  <1>6. Owners'
    BY <1>1, <1>2, <1>3 DEF IInv, Ring, Owners
  <1>7. Room'
    <2> DEFINE before == OldestPop
               after == OldestPop'
    <2>1. /\ before \in Nat /\ after \in Nat /\ before <= after
          /\ tail \in Nat /\ tail <= before + RingSize /\ RingSize \in Nat
      BY <1>4, <1>5
    <2> HIDE DEF before, after
    <2>2. tail <= after + RingSize
      BY ONLY <2>1
    <2> QED BY <1>1, <2>2 DEF Room, after
  <1>8. \A k \in Nat : Filled(k)' <=> Filled(k)
    BY <1>1, <1>2, <1>3 DEF Filled
  <1>9. Objects'
    <2>1. \A k \in Nat : Built(k)' <=> Built(k)
      BY <1>1, <1>2 DEF Built
    <2> QED BY <1>1, <1>4, <1>5, <2>1 DEF IInv, Ring, Objects
  <1>10. initialized' = initialized
    <2>1. ~Filled(index[t])
      BY <1>1, <1>3, <1>4 DEF IInv, Ring, Owners, Filled, PopOwns
    <2>2. ~initialized[SlotOf(t)]
      BY <1>4, <2>1 DEF IInv, Ring, Flags, SlotOf
    <2>3. SlotOf(t) \in Slots /\ initialized \in [Slots -> BOOLEAN]
      BY <1>4, Laps DEF SlotOf, IInv, TypeOK, QueueTypeOK
    <2> QED BY <1>1, <2>2, <2>3
  <1>11. Flags'
    <2> SUFFICES ASSUME NEW k \in Nat, OldestPop' <= k, k < OldestPop' + RingSize
                 PROVE  initialized[normilize_ring_slot(k)] <=> Filled(k)
      BY <1>8, <1>10 DEF Flags
    <2>1. CASE k < OldestPop + RingSize
      BY <1>4, <1>5, <2>1 DEF IInv, Ring, Flags
    <2>2. CASE k >= OldestPop + RingSize
      <3>0. PICK j \in Nat : k = j + RingSize /\ OldestPop <= j /\ j < OldestPop'
        BY <1>4, <1>5, <2>2, LapBefore
      <3>2. j < head /\ j < OldestPop + RingSize
        BY <1>4, <1>5, <3>0
      <3>3. normilize_ring_slot(k) = normilize_ring_slot(j)
        BY <3>0, NormPeriod
      <3>4. ~Filled(j)
        BY <1>1, <1>4, <1>5, <3>0, <3>2 DEF Filled, PopOwns
      <3>5. ~Filled(k)
        BY <1>4, <2>2 DEF Filled
      <3> QED BY <3>0, <3>2, <3>3, <3>4, <3>5 DEF IInv, Ring, Flags
    <2> QED BY <1>4, <2>1, <2>2
  <1> QED BY <1>6, <1>7, <1>9, <1>11 DEF Ring

-----------------------------------------------------------------------------
(* The invariant                                                           *)

\* The invariant holds for the empty ring.
LEMMA InitInv == Init => IInv
  <1> SUFFICES ASSUME Init PROVE IInv
    OBVIOUS
  <1> USE Sizes DEF Init, QueueInit
  <1>1. TypeOK
    BY DEF TypeOK, QueueTypeOK, Places, QueuePoints, PushPoints, PopPoints, WaitPoints
  <1>2. Owners
    BY DEF Owners, PushOwns, PopOwns
  <1>3. OldestPop = 0
    BY <1>1, Oldest DEF OldestIs, PopOwns
  <1>4. Room
    BY <1>3 DEF Room
  <1>5. Flags
    BY Laps DEF Flags, Filled
  <1>6. Objects
    BY DEF Objects, Built
  <1>7. Locals /\ Delivered /\ MainSees
    BY DEF Locals, Delivered, MainSees
  <1> QED BY <1>1, <1>2, <1>4, <1>5, <1>6, <1>7 DEF IInv, Ring

\* Every step of a pusher keeps the invariant.
LEMMA PushInv ==
    ASSUME IInv, NEW t \in Pushers, PushThread(t), use' = use,
           tail' <= OldestPop + RingSize
    PROVE  IInv'
  <1> USE Sizes DEF Goto
  <1>1. TypeOK'
    BY PushTypes
  <1>2. /\ t \in Threads /\ t # Main /\ head \in Nat /\ tail \in Nat
        /\ pc \in [Threads -> QueuePoints] /\ index \in [Threads -> Nat]
        /\ item \in [Threads -> Items \cup {NoItem}]
        /\ tail = Len(claimed) /\ claimed \in Seq(Items)
    BY DEF IInv, TypeOK, Places, QueueTypeOK, Ring, Owners
  <1>3. OldestPop \in Nat
    BY Oldest DEF IInv, OldestIs
  <1>4. Ring'
    <2>1. CASE start_push(t)
      <3>1. /\ pc[t] = "idle" /\ pc' = [pc EXCEPT ![t] = "push"]
            /\ UNCHANGED <<head, tail, initialized, object, index, claimed>>
            /\ \E v : item' = [item EXCEPT ![t] = v]
        BY <2>1 DEF start_push, call_try_push
      <3> QED BY <1>1, <1>2, <3>1, LocalStep DEF IInv, OwnedPoints
    <2>2. CASE push_load_tail(t) \/ push_load_head(t) \/ push_claim_fails(t) \/ end_push(t)
      <3>1. PICK point \in {"push_check", "rejected", "push_claim", "push", "idle"} :
                /\ pc' = [pc EXCEPT ![t] = point]
                /\ pc[t] \notin OwnedPoints
                /\ UNCHANGED <<head, tail, initialized, object, claimed>>
                /\ \A u \in Threads \ {t} : index'[u] = index[u] /\ item'[u] = item[u]
        BY <1>2, <2>2 DEF push_load_tail, push_load_head, push_claim_fails, end_push,
                          OwnedPoints
      <3>4. /\ \A u \in Threads \ {t} : pc'[u] = pc[u]
            /\ pc'[t] \notin OwnedPoints
        BY <1>2, <3>1 DEF OwnedPoints
      <3> QED BY <1>1, <3>1, <3>4, LocalStep DEF IInv
    <2>3. CASE push_claim_tail(t)
      BY <1>1, <2>3, ClaimTail
    <2>4. CASE push_await_slot(t)
      BY <1>1, <2>4, AwaitSlot
    <2>5. CASE push_emplace(t)
      BY <1>1, <2>5, Emplace
    <2>6. CASE push_publish(t)
      BY <1>1, <2>6, Publish
    <2> QED BY <2>1, <2>2, <2>3, <2>4, <2>5, <2>6 DEF PushThread, PushStep
  <1>5. /\ head' = head /\ tail' \in Nat /\ tail <= tail'
        /\ \A k \in Nat : k < tail => claimed'[k + 1] = claimed[k + 1]
        /\ \A u \in Threads \ {t} :
               pc'[u] = pc[u] /\ index'[u] = index[u] /\ item'[u] = item[u]
        /\ pc'[t] \in PushPoints \cup {"idle"}
        /\ pc'[t] \in {"push", "push_check", "push_claim"} => item'[t] \in Items
    <2>0. pc[t] \in {"push", "push_check", "push_claim"} => item[t] \in Items
      BY DEF IInv, Locals
    <2> USE <1>2 DEF PushPoints
    <2>1. CASE start_push(t)
      BY <2>1, ClientAssumption DEF start_push, call_try_push
    <2>2. CASE push_load_tail(t) \/ push_load_head(t) \/ push_claim_fails(t)
      BY <2>0, <2>2 DEF push_load_tail, push_load_head, push_claim_fails
    <2>3. CASE push_claim_tail(t)
      <3>1. claimed' = Append(claimed, item[t]) /\ item[t] \in Items
        BY <2>0, <2>3 DEF push_claim_tail
      <3>2. \A k \in Nat : k < Len(claimed) =>
                Append(claimed, item[t])[k + 1] = claimed[k + 1]
        BY ONLY <1>2, <3>1, AppendKeeps
      <3>3. /\ tail' = tail + 1 /\ pc' = [pc EXCEPT ![t] = "push_wait"]
            /\ UNCHANGED <<head, index, item>>
        BY <2>3 DEF push_claim_tail
      <3>4. \A k \in Nat : k < tail => claimed'[k + 1] = claimed[k + 1]
        BY ONLY <1>2, <3>1, <3>2
      <3> QED BY <3>3, <3>4
    <2>4. CASE push_await_slot(t) \/ push_emplace(t) \/ push_publish(t) \/ end_push(t)
      BY <2>4 DEF push_await_slot, push_emplace, push_publish, end_push
    <2> QED BY <2>1, <2>2, <2>3, <2>4 DEF PushThread, PushStep
  <1>6. Locals'
    <2>1. \A u \in Pushers :
              pc'[u] \in {"push", "push_check", "push_claim"} => item'[u] \in Items
      <3>1. \A u \in Pushers :
                pc[u] \in {"push", "push_check", "push_claim"} => item[u] \in Items
        BY DEF IInv, Locals
      <3> QED
        BY <1>5, <3>1 DEF Threads
    <2>2. \A p \in Poppers :
              /\ pc[p] = "pop_check" => index[p] <= head
              /\ pc[p] = "pop_claim" => index[p] < tail
              /\ pc[p] \in {"pop_clear", "pop_clear_again", "popped"} =>
                     index[p] < tail
      BY DEF IInv, Locals
    <2>3. \A p \in Poppers :
              /\ pc'[p] = "pop_check" => index'[p] <= head'
              /\ pc'[p] = "pop_claim" => index'[p] < tail'
              /\ pc'[p] \in {"pop_clear", "pop_clear_again", "popped"} =>
                     index'[p] < tail'
      <3> SUFFICES ASSUME NEW p \in Poppers
                   PROVE  /\ pc'[p] = "pop_check" => index'[p] <= head'
                          /\ pc'[p] = "pop_claim" => index'[p] < tail'
                          /\ pc'[p] \in {"pop_clear", "pop_clear_again", "popped"} =>
                                 index'[p] < tail'
        OBVIOUS
      <3>1. CASE p = t
        BY <1>5, <3>1 DEF PushPoints
      <3>2. CASE p # t
        <4>1. /\ pc'[p] = pc[p] /\ index'[p] = index[p] /\ index[p] \in Nat
              /\ head' = head /\ tail' \in Nat /\ tail <= tail'
          BY <1>2, <1>5, <3>2 DEF Threads
        <4> QED
          BY <1>2, <2>2, <4>1
      <3> QED
        BY <3>1, <3>2
    <2> QED
      BY <2>1, <2>3 DEF Locals
  <1>7. Delivered'
    <2> SUFFICES ASSUME NEW p \in Poppers,
                        pc'[p] \in {"pop_clear", "pop_clear_again", "popped"}
                 PROVE  item'[p] = claimed'[index'[p] + 1]
      BY DEF Delivered
    <2>1. p # t
      BY <1>5 DEF PushPoints
    <2>2. pc'[p] = pc[p] /\ index'[p] = index[p] /\ item'[p] = item[p]
      BY <1>5, <2>1 DEF Threads
    <2>3. item[p] = claimed[index[p] + 1] /\ index[p] < tail
      BY <2>2 DEF IInv, Delivered, Locals
    <2>4. index[p] \in Nat
      BY <1>2 DEF Threads
    <2>5. claimed'[index[p] + 1] = claimed[index[p] + 1]
      BY <1>5, <2>3, <2>4
    <2> QED
      BY <2>2, <2>3, <2>5
  <1>8. MainSees'
    BY <1>2, <1>5 DEF IInv, MainSees, SlotOf
  <1> QED BY <1>1, <1>4, <1>6, <1>7, <1>8 DEF IInv

\* The main thread after wait_for_data: there is an element at head.
LEMMA WaitOver ==
    ASSUME IInv, wait_await_object(Main)
    PROVE  head < tail
  <1> USE Sizes
  <1>1. pc[Main] = "wait_flag" /\ initialized[normilize_ring_slot(head)]
    BY DEF wait_await_object, IInv, MainSees
  <1>2. \A p \in Poppers : ~PopOwns(p)
    BY <1>1 DEF IInv, TypeOK, Places, Takers, PopOwns, PopPoints, WaitPoints
  <1>3. OldestPop = head /\ head \in Nat
    BY <1>2, Oldest DEF IInv, OldestIs
  <1> QED BY <1>1, <1>3 DEF IInv, Ring, Flags, Filled

\* Every step of a popper keeps the invariant.
LEMMA PopInv ==
    ASSUME IInv, NEW t \in Poppers, PopThread(t), use' = use
    PROVE  IInv'
  <1> USE Sizes DEF Goto
  <1>1. TypeOK'
    BY PopTypes
  <1>2. /\ t \in Threads /\ t \in Takers /\ head \in Nat /\ tail \in Nat
        /\ pc \in [Threads -> QueuePoints] /\ index \in [Threads -> Nat]
        /\ item \in [Threads -> Items \cup {NoItem}]
        /\ head <= tail
    BY DEF IInv, TypeOK, Places, QueueTypeOK, Ring, Owners, PopThread
  <1>3. OldestPop \in Nat
    BY Oldest DEF IInv, OldestIs
  <1>4. Ring'
    <2>1. CASE start_wait(t) \/ WaitStep(t) \/ start_pop(t) \/ pop_load_head(t)
               \/ pop_load_tail(t) \/ pop_claim_fails(t) \/ end_pop(t)
      <3>1. PICK point \in {"wait", "wait_flag", "ready", "pop", "pop_check",
                            "pop_claim", "empty", "idle"} :
                /\ pc' = [pc EXCEPT ![t] = point]
                /\ pc[t] \notin OwnedPoints
                /\ UNCHANGED <<head, tail, initialized, object, claimed>>
                /\ \A u \in Threads \ {t} : index'[u] = index[u] /\ item'[u] = item[u]
        BY <1>2, <2>1 DEF start_wait, call_wait_for_data, WaitStep, wait_load_head,
             wait_await_object, start_pop, call_try_pop, pop_load_head, pop_load_tail,
             pop_claim_fails, end_pop, OwnedPoints
      <3>4. /\ \A u \in Threads \ {t} : pc'[u] = pc[u]
            /\ pc'[t] \notin OwnedPoints
        BY <1>2, <3>1 DEF OwnedPoints
      <3> QED BY <1>1, <3>1, <3>4, LocalStep DEF IInv
    <2>2. CASE pop_claim_head(t)
      BY <1>1, <2>2, ClaimHead
    <2>3. CASE pop_await_object(t)
      BY <1>1, <2>3, AwaitObject
    <2>4. CASE pop_take(t)
      BY <1>1, <2>4, Take
    <2>5. CASE pop_clear(t)
      BY <1>1, <2>5, Clear
    <2>6. CASE pop_clear_again(t)
      BY <1>1, <2>6, ClearAgain
    <2> QED BY <2>1, <2>2, <2>3, <2>4, <2>5, <2>6 DEF PopThread, PopStep
  <1>5. /\ tail' = tail /\ head' \in Nat /\ head <= head' /\ claimed' = claimed
        /\ \A u \in Threads \ {t} :
               pc'[u] = pc[u] /\ index'[u] = index[u] /\ item'[u] = item[u]
        /\ pc'[t] \notin PushPoints
        /\ pc'[t] = "pop_check" => index'[t] <= head'
        /\ pc'[t] = "pop_claim" => index'[t] < tail
        /\ pc'[t] \in {"pop_clear", "pop_clear_again", "popped"} =>
               index'[t] < tail /\ item'[t] = claimed[index'[t] + 1]
    <2> USE <1>2 DEF PushPoints
    <2>1. CASE start_wait(t) \/ WaitStep(t) \/ start_pop(t) \/ pop_load_head(t)
               \/ pop_claim_fails(t) \/ end_pop(t)
      BY <2>1 DEF start_wait, call_wait_for_data, WaitStep, wait_load_head,
             wait_await_object, start_pop, call_try_pop, pop_load_head,
             pop_claim_fails, end_pop
    <2>2. CASE pop_load_tail(t)
      BY <2>2 DEF pop_load_tail, IInv, Locals
    <2>3. CASE pop_claim_head(t) \/ pop_await_object(t)
      BY <2>3 DEF pop_claim_head, pop_await_object
    <2>4. CASE pop_take(t)
      <3>1. item'[t] = claimed[index[t] + 1] /\ index[t] < tail
        BY <1>1, <2>4, Take
      <3> QED BY <2>4, <3>1 DEF pop_take
    <2>5. CASE pop_clear(t) \/ pop_clear_again(t)
      BY <2>5 DEF pop_clear, pop_clear_again, IInv, Locals, Delivered
    <2> QED BY <2>1, <2>2, <2>3, <2>4, <2>5 DEF PopThread, PopStep
  <1>6. Locals'
    BY <1>2, <1>5 DEF IInv, Locals, PushPoints
  <1>7. Delivered'
    BY <1>2, <1>5 DEF IInv, Delivered
  <1>8. MainSees'
    <2>1. CASE t # Main
      <3>1. pc[Main] \notin PopPoints \cup WaitPoints
        BY <1>2, <2>1 DEF IInv, TypeOK, Places, Takers
      <3> QED BY <1>5, <2>1, <3>1 DEF MainSees, PopPoints, WaitPoints
    <2>2. CASE t = Main
      <3> USE <1>2, <2>2 DEF MainSees, SlotOf
      <3>1. CASE start_wait(t) \/ start_pop(t) \/ end_pop(t)
        <4>1. use = "tags"
          BY DEF Takers
        <4> QED BY <3>1, <4>1 DEF start_wait, call_wait_for_data, start_pop,
                                   call_try_pop, end_pop, IInv
      <3>2. CASE wait_load_head(t)
        BY <3>2, NarrowKeepsSlot DEF wait_load_head
      <3>3. CASE wait_await_object(t)
        BY <3>3, WaitOver DEF wait_await_object, IInv
      <3>4. CASE pop_load_head(t) \/ pop_load_tail(t) \/ pop_claim_fails(t)
                 \/ pop_claim_head(t)
        BY <3>4 DEF pop_load_head, pop_load_tail, pop_claim_fails, pop_claim_head, IInv
      <3>5. CASE pop_await_object(t) \/ pop_take(t) \/ pop_clear(t) \/ pop_clear_again(t)
        BY <3>5 DEF pop_await_object, pop_take, pop_clear, pop_clear_again
      <3> QED BY <3>1, <3>2, <3>3, <3>4, <3>5 DEF PopThread, PopStep, WaitStep
    <2> QED BY <2>1, <2>2
  <1> QED BY <1>1, <1>4, <1>6, <1>7, <1>8 DEF IInv

\* Nothing changes when nothing changes.
LEMMA StutterInv == IInv /\ UNCHANGED vars => IInv'
  <1> SUFFICES ASSUME IInv, UNCHANGED vars PROVE IInv'
    OBVIOUS
  <1> USE DEF vars, queueVars
  <1>1. TypeOK'
    BY DEF IInv, TypeOK, Places, QueueTypeOK, Takers
  <1>2. OldestPop' = OldestPop
    BY DEF OldestPop, PopOwns
  <1>3. Ring'
    BY <1>2 DEF IInv, Ring, Owners, Room, Flags, Objects, Filled, Built, PushOwns, PopOwns
  <1> QED BY <1>1, <1>3 DEF IInv, Locals, Delivered, MainSees, SlotOf

\* A step that laps no pop keeps the invariant.
LEMMA StepInv ==
    ASSUME IInv, [Next]_vars, ~lapped'
    PROVE  IInv'
  <1>1. CASE Next
    <2>1. use' = use /\ ~(tail' > OldestPop + RingSize)
      BY <1>1 DEF Next, Track
    <2>2. CASE \E t \in Poppers : PopThread(t)
      BY <2>1, <2>2, PopInv
    <2>3. ASSUME NEW t \in Pushers, PushThread(t) PROVE IInv'
      <3>1. TypeOK' /\ OldestPop \in Nat
        BY <2>1, <2>3, PushTypes, Oldest DEF IInv, OldestIs
      <3>2. tail' <= OldestPop + RingSize
        BY <2>1, <3>1, Sizes DEF TypeOK, QueueTypeOK
      <3> QED BY <2>1, <2>3, <3>2, PushInv
    <2> QED BY <1>1, <2>2, <2>3 DEF Next
  <1>2. CASE UNCHANGED vars
    BY <1>2, StutterInv
  <1> QED BY <1>1, <1>2

\* Until a push laps a pop, the invariant holds.
LEMMA Invariant == Spec => [](lapped \/ IInv)
  <1>1. (lapped \/ IInv) /\ [Next]_vars => (lapped \/ IInv)'
    <2>1. lapped /\ [Next]_vars => lapped'
      BY DEF Next, Track, vars
    <2> QED BY <2>1, StepInv
  <1> QED BY <1>1, InitInv, PTL DEF Spec

-----------------------------------------------------------------------------
(* Theorems                                                                *)

\* Elements leave the ring in the order of the claims, each to one popper.
THEOREM DeliveredInOrder == Spec => []FifoDelivery
  <1>1. lapped \/ IInv => FifoDelivery
    BY DEF IInv, Delivered, FifoDelivery
  <1> QED BY <1>1, Invariant, PTL

\* No two threads are at the object of one slot, and no two sleep on one flag.
THEOREM SlotsExclusive == Spec => []OneThreadPerSlot
  <1>1. lapped \/ IInv => OneThreadPerSlot
    <2> SUFFICES ASSUME IInv, NEW t \in Threads, NEW u \in Threads, t # u,
                        (AtObject(t) /\ AtObject(u)) \/ (Sleeps(t) /\ Sleeps(u))
                 PROVE  SlotOf(t) # SlotOf(u)
      BY DEF OneThreadPerSlot
    <2> USE Sizes
    <2>1. /\ OldestPop \in Nat
          /\ \A p \in Poppers : PopOwns(p) =>
                 /\ index[p] \in Nat
                 /\ OldestPop <= index[p] /\ index[p] < OldestPop + RingSize
          /\ \A p \in Pushers : PushOwns(p) =>
                 /\ index[p] \in Nat
                 /\ OldestPop <= index[p] /\ index[p] < OldestPop + RingSize
      BY Lap DEF IInv, Ring
    <2>2. \A p \in Pushers : PushOwns(p) => ~initialized[SlotOf(p)]
      BY <2>1 DEF IInv, Ring, Flags, SlotOf, Filled
    <2>3. \A p \in Threads :
              /\ pc[p] \in PushPoints => p \in Pushers
              /\ pc[p] \in PopPoints \cup WaitPoints => p \in Takers /\ p \in Poppers
      BY DEF IInv, TypeOK, Places, Takers
    <2>4. ASSUME NEW p \in Poppers, pc[p] = "pop_take"
          PROVE  \A q \in Pushers : PushOwns(q) => index[q] # index[p]
      <3> SUFFICES ASSUME NEW q \in Pushers, PushOwns(q), index[q] = index[p] PROVE FALSE
        OBVIOUS
      <3>1. PopOwns(p) /\ index[p] < head
        BY <2>4 DEF PopOwns, IInv, Ring, Owners
      <3>2. PICK r \in Poppers : pc[r] = "pop_wait" /\ index[r] = index[p]
        BY <2>1, <3>1 DEF IInv, Ring, Owners, TypeOK, QueueTypeOK
      <3>3. r = p
        BY <3>1, <3>2 DEF IInv, Ring, Owners, PopOwns
      <3> QED BY <2>4, <3>2, <3>3
    <2>5. CASE AtObject(t) /\ AtObject(u)
      <3>1. /\ pc[t] = "push_emplace" => t \in Pushers /\ PushOwns(t)
            /\ pc[t] = "pop_take" => t \in Poppers /\ PopOwns(t)
            /\ pc[u] = "push_emplace" => u \in Pushers /\ PushOwns(u)
            /\ pc[u] = "pop_take" => u \in Poppers /\ PopOwns(u)
            /\ pc[t] \in {"push_emplace", "pop_take"}
            /\ pc[u] \in {"push_emplace", "pop_take"}
        BY <2>3, <2>5 DEF AtObject, PushOwns, PopOwns, PushPoints, PopPoints
      <3>2. index[t] # index[u]
        BY <2>4, <3>1 DEF IInv, Ring, Owners
      <3> QED BY <2>1, <3>1, <3>2, SlotsDiffer DEF SlotOf
    <2>6. CASE Sleeps(t) /\ Sleeps(u)
      <3>1. /\ pc[t] # "push_wait" /\ pc[u] # "push_wait"
        BY <2>2, <2>3, <2>6 DEF Sleeps, PushOwns, PushPoints
      <3>2. /\ pc[t] \in {"pop_wait", "wait_flag"} /\ t \in Takers /\ t \in Poppers
            /\ pc[u] \in {"pop_wait", "wait_flag"} /\ u \in Takers /\ u \in Poppers
        BY <2>3, <2>6, <3>1 DEF Sleeps, PopPoints, WaitPoints
      <3>3. pc[t] # "wait_flag" /\ pc[u] # "wait_flag"
        BY <3>2 DEF IInv, TypeOK, Places, Takers, WaitPoints
      <3>4. PopOwns(t) /\ PopOwns(u)
        BY <3>2, <3>3 DEF PopOwns
      <3>5. index[t] # index[u]
        BY <3>2, <3>4 DEF IInv, Ring, Owners
      <3> QED BY <2>1, <3>2, <3>4, <3>5, SlotsDiffer DEF SlotOf
    <2> QED BY <2>5, <2>6
  <1> QED BY <1>1, Invariant, PTL

\* Once wait_for_data has returned, try_pop of the main thread finds the element.
THEOREM WaitIsReliable == Spec => []WaitSeesTheHead
  <1>1. lapped \/ IInv => WaitSeesTheHead
    BY DEF IInv, MainSees, WaitSeesTheHead
  <1> QED BY <1>1, Invariant, PTL

\* Positions one short of a lap apart are the only ones the test takes for a
\* full ring, if both counters are those of one moment.
LEMMA FullTest ==
    ASSUME NEW busy \in Nat, NEW free \in Nat, busy <= free,
           free <= busy + RingSize, LooksFull(free, busy)
    PROVE  free = busy + RingSize - 1
  <1> DEFINE a == normilize_ring_slot(free)
             b == normilize_ring_slot(busy)
  <1>0. RingSize \in Nat \ {0} /\ RingSize >= 2
    BY Sizes
  <1>1. PICK p \in Nat : free = RingSize * p + a
    BY Laps
  <1>2. PICK q \in Nat : busy = RingSize * q + b
    BY Laps
  <1>3. a \in 0 .. RingSize - 1 /\ b \in 0 .. RingSize - 1 /\ a + 1 = b
    BY Laps DEF Slots, LooksFull
  <1> HIDE DEF a, b
  <1>4. RingSize * p \in Nat /\ RingSize * q \in Nat
    BY <1>0
  <1>5. q < p
    <2>1. CASE p < q
      <3>1. RingSize * p + RingSize <= RingSize * q
        BY <1>0, <2>1, MultGap
      <3> QED BY <1>0, <1>1, <1>2, <1>3, <1>4, <3>1
    <2>2. CASE p = q
      BY <1>1, <1>2, <1>3, <1>4, <2>2
    <2> QED BY <2>1, <2>2
  <1>6. RingSize * (q + 1) = RingSize * q + RingSize
    BY <1>0
  <1>7. p = q + 1
    <2> SUFFICES ASSUME q + 1 < p PROVE FALSE
      BY <1>5
    <2>1. RingSize * (q + 1) + RingSize <= RingSize * p
      BY <1>0, MultGap
    <2> QED BY <1>0, <1>1, <1>2, <1>3, <1>4, <1>6, <2>1
  <1> QED BY <1>0, <1>1, <1>2, <1>3, <1>4, <1>6, <1>7

\* A push is refused only by a ring that is one short of full, or when another
\* push has moved tail between its two loads.
THEOREM RefusalsExplained == Spec => RefusedWithCause
  <1>1. ASSUME IInv, [Next]_vars, NEW t \in Pushers,
               pc[t] = "push_check", pc'[t] = "rejected", tail = index[t]
        PROVE  tail = head + RingSize - 1
    <2> USE Sizes
    <2>1. pc \in [Threads -> QueuePoints] /\ t \in Threads
      BY <1>1 DEF IInv, TypeOK, Places
    <2>2. Next
      BY <1>1 DEF vars, queueVars
    <2>3. ASSUME NEW u \in Threads, NEW point, pc' = [pc EXCEPT ![u] = point]
          PROVE  u = t
      BY <1>1, <2>1, <2>3
    <2>4. PushThread(t) \/ PopThread(t)
      <3>1. ASSUME NEW u \in Pushers, PushThread(u) PROVE u = t
        <4>1. \E point : pc' = [pc EXCEPT ![u] = point]
          BY <3>1 DEF PushThread, start_push, end_push, call_try_push, PushStep,
               push_load_tail, push_load_head, push_claim_tail, push_claim_fails,
               push_await_slot, push_emplace, push_publish, Goto
        <4> QED BY <2>3, <4>1
      <3>2. ASSUME NEW u \in Poppers, PopThread(u) PROVE u = t
        <4>1. \E point : pc' = [pc EXCEPT ![u] = point]
          BY <3>2 DEF PopThread, start_wait, call_wait_for_data, WaitStep,
               wait_load_head, wait_await_object, start_pop, call_try_pop, end_pop,
               PopStep, pop_load_head, pop_load_tail, pop_claim_head,
               pop_claim_fails, pop_await_object, pop_take, pop_clear,
               pop_clear_again, Goto
        <4> QED BY <2>3, <4>1
      <3> QED BY <2>2, <3>1, <3>2 DEF Next
    <2>5. push_load_head(t)
      <3>1. ~PopThread(t)
        BY <1>1 DEF PopThread, start_wait, WaitStep, wait_load_head,
             wait_await_object, start_pop, end_pop, PopStep, pop_load_head,
             pop_load_tail, pop_claim_head, pop_claim_fails, pop_await_object,
             pop_take, pop_clear, pop_clear_again
      <3> QED BY <1>1, <2>4, <3>1 DEF PushThread, start_push, end_push, PushStep,
             push_load_tail, push_claim_tail, push_claim_fails, push_await_slot,
             push_emplace, push_publish
    <2>6. LooksFull(tail, head)
      BY <1>1, <2>1, <2>5 DEF push_load_head, Goto
    <2>7. /\ head \in Nat /\ tail \in Nat /\ head <= tail
          /\ OldestPop <= head /\ OldestPop \in Nat
          /\ tail <= OldestPop + RingSize
      BY <1>1, Lap DEF IInv, Ring, Owners, TypeOK, QueueTypeOK
    <2> QED BY <2>6, <2>7, FullTest
  <1>2. (lapped \/ IInv) /\ [Next]_vars =>
            [\A t \in Pushers :
                 pc[t] = "push_check" /\ pc'[t] = "rejected" =>
                     lapped \/ tail = head + RingSize - 1 \/ tail # index[t]]_vars
    BY <1>1
  <1> QED BY <1>2, Invariant, PTL DEF Spec, RefusedWithCause

=============================================================================
