--------------------------- MODULE SchedulerProofs ---------------------------
(***************************************************************************)
(* Proofs about module Scheduler, for every ring size, number of permits   *)
(* below it and number of tasks.                                           *)
(***************************************************************************)
EXTENDS Scheduler, TLAPS

-----------------------------------------------------------------------------
(* The arithmetic of ring positions                                        *)

\* Division with remainder.
LEMMA DivMod ==
    ASSUME NEW i \in Nat, NEW n \in Nat \ {0}
    PROVE  /\ i \div n \in Nat
           /\ i % n \in 0 .. n - 1
           /\ i = n * (i \div n) + (i % n)
  OBVIOUS

\* Every index lies some whole number of laps behind its slot.
LEMMA Laps ==
    ASSUME NEW i \in Nat
    PROVE  /\ normilize_ring_slot(i) \in Slots
           /\ \E p \in Nat : i = RingSize * p + normilize_ring_slot(i)
  <1>1. /\ i \div RingSize \in Nat
        /\ i % RingSize \in 0 .. RingSize - 1
        /\ i = RingSize * (i \div RingSize) + (i % RingSize)
    BY RingAssumption, DivMod
  <1> QED BY <1>1, Zenon DEF normilize_ring_slot, Slots

\* Multiples of n are at least n apart.
LEMMA MultGap ==
    ASSUME NEW n \in Nat \ {0}, NEW p \in Nat, NEW q \in Nat, p < q
    PROVE  n * p + n <= n * q
  <1>1. PICK d \in Nat : q = p + 1 + d
    <2> WITNESS q - p - 1 \in Nat
    <2> QED OBVIOUS
  <1>2. n * (p + 1 + d) = n * p + n + n * d /\ n * d \in Nat
    OBVIOUS
  <1> QED BY <1>1, <1>2

\* A quotient and a remainder determine each other.
LEMMA RemainderUnique ==
    ASSUME NEW n \in Nat \ {0}, NEW p \in Nat, NEW q \in Nat,
           NEW a \in 0 .. n - 1, NEW b \in 0 .. n - 1,
           n * p + a = n * q + b
    PROVE  a = b /\ p = q
  <1>1. n * p \in Nat /\ n * q \in Nat
    OBVIOUS
  <1>2. CASE p = q
    BY <1>1, <1>2
  <1>3. CASE p < q
    <2>1. n * p + n <= n * q
      BY <1>3, MultGap
    <2> QED BY <1>1, <2>1
  <1>4. CASE q < p
    <2>1. n * q + n <= n * p
      BY <1>4, MultGap
    <2> QED BY <1>1, <2>1
  <1> QED BY <1>2, <1>3, <1>4

\* Two different indices less than a lap apart use different slots
\* (atomic_queue.h:117-120).
LEMMA NormDistinct ==
    ASSUME NEW i \in Nat, NEW j \in Nat, i < j, j < i + RingSize
    PROVE  normilize_ring_slot(i) # normilize_ring_slot(j)
  <1> SUFFICES ASSUME normilize_ring_slot(i) = normilize_ring_slot(j)
               PROVE  FALSE
    OBVIOUS
  <1>0. RingSize \in Nat \ {0}
    BY RingAssumption
  <1> DEFINE r == normilize_ring_slot(i)
  <1>1. PICK p \in Nat : i = RingSize * p + r
    BY Laps
  <1>2. PICK q \in Nat : j = RingSize * q + r
    BY Laps
  <1>3. r \in 0 .. RingSize - 1
    BY Laps DEF Slots
  <1> HIDE DEF r
  <1>4. RingSize * p \in Nat /\ RingSize * q \in Nat
    BY <1>0
  <1>5. p < q
    <2> SUFFICES ASSUME q < p PROVE FALSE
      BY <1>1, <1>2
    <2>1. RingSize * q + RingSize <= RingSize * p
      BY <1>0, MultGap
    <2> QED BY <2>1, <1>0, <1>1, <1>2, <1>3, <1>4
  <1>6. RingSize * p + RingSize <= RingSize * q
    BY <1>0, <1>5, MultGap
  <1> QED BY <1>6, <1>0, <1>1, <1>2, <1>3, <1>4

\* An index a lap later uses the same slot.
LEMMA NormPeriod ==
    ASSUME NEW i \in Nat
    PROVE  normilize_ring_slot(i + RingSize) = normilize_ring_slot(i)
  <1>0. RingSize \in Nat \ {0} /\ i + RingSize \in Nat
    BY RingAssumption
  <1> DEFINE a == normilize_ring_slot(i)
             b == normilize_ring_slot(i + RingSize)
  <1>1. PICK p \in Nat : i = RingSize * p + a
    BY Laps
  <1>2. PICK q \in Nat : i + RingSize = RingSize * q + b
    BY <1>0, Laps
  <1>3. a \in 0 .. RingSize - 1 /\ b \in 0 .. RingSize - 1
    BY <1>0, Laps DEF Slots
  <1> HIDE DEF a, b
  <1>4. RingSize * (p + 1) = RingSize * p + RingSize /\ RingSize * p \in Nat
    BY <1>0
  <1>5. RingSize * (p + 1) + a = RingSize * q + b /\ p + 1 \in Nat
    BY <1>0, <1>1, <1>2, <1>3, <1>4
  <1>6. a = b
    BY <1>0, <1>3, <1>5, RemainderUnique
  <1> QED BY <1>6 DEF a, b

\* The test for a full ring (atomic_queue.h:73) is false whenever two slots
\* or more are free.
LEMMA NotFull ==
    ASSUME NEW free \in Nat, NEW busy \in Nat,
           busy <= free, free + 1 < busy + RingSize
    PROVE  ~LooksFull(free, busy)
  <1> SUFFICES ASSUME LooksFull(free, busy) PROVE FALSE
    OBVIOUS
  <1>0. RingSize \in Nat \ {0} /\ free + 1 \in Nat
    BY RingAssumption
  <1> DEFINE a == normilize_ring_slot(free)
             b == normilize_ring_slot(free + 1)
             c == normilize_ring_slot(busy)
  <1>1. PICK p \in Nat : free = RingSize * p + a
    BY Laps
  <1>2. PICK q \in Nat : free + 1 = RingSize * q + b
    BY <1>0, Laps
  <1>3. a \in 0 .. RingSize - 1 /\ b \in 0 .. RingSize - 1 /\ c \in 0 .. RingSize - 1
    BY <1>0, Laps DEF Slots
  <1>4. a + 1 = c
    BY DEF LooksFull
  <1>5. c # b
    BY <1>0, NormDistinct
  <1> HIDE DEF a, b, c
  <1>6. RingSize * p \in Nat
    BY <1>0
  <1>7. RingSize * p + c = RingSize * q + b
    BY <1>0, <1>1, <1>2, <1>3, <1>4, <1>6
  <1>8. c = b
    BY <1>0, <1>3, <1>7, RemainderUnique
  <1> QED BY <1>5, <1>8

-----------------------------------------------------------------------------

\* One unit where a thread is at one of the given points.
At(t, points) == IF pc[t] \in points THEN 1 ELSE 0

\* Main has a permit and no index yet; it has an index and has not
\* published; it has an index and has not announced the task.
HasPermit == At(Main, {"push", "push_check", "push_claim"})
Unpublished == At(Main, {"push_wait", "push_emplace", "push_publish"})
Unannounced ==
    At(Main, {"push_wait", "push_emplace", "push_publish", "pushed"})

\* The worker has an announcement and no index yet; it has an index whose
\* permit is not given back.
HasAnnouncement == At(Worker, {"pop", "pop_check", "pop_claim"})
Unreturned ==
    At(Worker, {"pop_wait", "pop_take", "pop_clear", "pop_clear_again",
                "popped"})

\* Every permit is free, held by main, or spent on a task in the ring; every
\* task in the ring is announced, in the worker's hands or still main's.
Accounting ==
    /\ push_task_semaphore + HasPermit + tail + Unreturned = Permits + head
    /\ pop_task_semaphore + HasAnnouncement + head + Unannounced = tail

\* The indices the threads remember are the ones at the ends of the queue.
Positions ==
    /\ tail = Len(claimed)
    /\ tail <= MaxTasks
    /\ pc[Main] \in {"push", "push_check", "push_claim"} => tail < MaxTasks
    /\ pc[Main] \in {"push_check", "push_claim"} => index[Main] = tail
    /\ Unpublished = 1 => index[Main] + 1 = tail
    /\ pc[Worker] \in {"pop_check", "pop_claim"} => index[Worker] = head
    /\ Unreturned = 1 => index[Worker] + 1 = head
    /\ pc[Main] # "rejected"
    /\ pc[Worker] # "empty"

\* The slots of published tasks hold them; all the others, up to the one the
\* worker has not given back, are free.
RingContents ==
    /\ \A k \in Nat : head <= k /\ k + Unpublished < tail =>
           /\ initialized[normilize_ring_slot(k)]
           /\ object[normilize_ring_slot(k)] = claimed[k + 1]
    /\ \A k \in Nat : tail <= k + Unpublished /\ k + Unreturned < head + RingSize =>
           ~initialized[normilize_ring_slot(k)]

\* What main and the worker hold on the way in and out of a slot.
InHand ==
    /\ pc[Main] \in {"push", "push_check", "push_claim"} => item[Main] \in Items
    /\ Unpublished = 1 => item[Main] = claimed[index[Main] + 1]
    /\ pc[Main] = "push_publish" => object[SlotOf(Main)] = item[Main]
    /\ pc[Worker] \in {"pop_wait", "pop_take"} =>
           /\ initialized[SlotOf(Worker)]
           /\ object[SlotOf(Worker)] = claimed[index[Worker] + 1]
    /\ pc[Worker] \in {"pop_clear", "pop_clear_again", "popped", "run"} =>
           item[Worker] = claimed[index[Worker] + 1]
    /\ pc[Worker] \in {"pop_clear_again", "popped"} =>
           ~initialized[SlotOf(Worker)]
    /\ pc[Worker] = "run" => index[Worker] + 1 = head

\* What has been executed is a prefix of what has been pushed.
History ==
    /\ Len(executed) + Unreturned + At(Worker, {"run"}) = head
    /\ \A i \in 1 .. Len(executed) : executed[i] = claimed[i]

IInv == TypeOK /\ Accounting /\ Positions /\ RingContents /\ InHand /\ History

-----------------------------------------------------------------------------

\* The two threads and the sizes.
LEMMA Constants ==
    /\ Threads = {Main, Worker}
    /\ Main # Worker
    /\ RingSize \in Nat
    /\ Permits \in Nat
    /\ Permits >= 1
    /\ Permits < RingSize
    /\ MaxTasks \in Nat
    /\ NoItem \notin Items
  BY SchedulerAssumption, RingAssumption, ItemAssumption DEF Threads

\* The invariant holds initially: every permit free, every slot empty.
LEMMA InitInv == Init => IInv
  <1> SUFFICES ASSUME Init PROVE IInv
    OBVIOUS
  <1> USE Constants DEF Init, QueueInit
  <1>1. TypeOK
    BY DEF TypeOK, QueueTypeOK, QueuePoints, PushPoints, PopPoints, WaitPoints, Slots
  <1>2. Accounting /\ Positions /\ InHand /\ History
    BY DEF Accounting, Positions, InHand, History, HasPermit, Unpublished,
           Unannounced, HasAnnouncement, Unreturned, At
  <1>3. RingContents
    BY Laps DEF RingContents, Unpublished, Unreturned, At
  <1> QED BY <1>1, <1>2, <1>3 DEF IInv

-----------------------------------------------------------------------------

\* The counts are zero or one.
LEMMA Counts ==
    /\ HasPermit \in {0, 1}
    /\ Unpublished \in {0, 1}
    /\ Unannounced \in {0, 1}
    /\ HasAnnouncement \in {0, 1}
    /\ Unreturned \in {0, 1}
    /\ Unpublished <= Unannounced
  BY DEF HasPermit, Unpublished, Unannounced, HasAnnouncement, Unreturned, At

\* The types the steps below need.
Typing ==
    /\ head \in Nat /\ tail \in Nat
    /\ push_task_semaphore \in Nat /\ pop_task_semaphore \in Nat
    /\ initialized \in [Slots -> BOOLEAN]
    /\ object \in [Slots -> Items \cup {NoItem}]
    /\ index \in [{Main, Worker} -> Nat]
    /\ item \in [{Main, Worker} -> Items \cup {NoItem}]
    /\ Len(executed) \in Nat

\* The permits keep the indices in use less than a lap apart.
Spread ==
    /\ head + HasAnnouncement + Unannounced <= tail
    /\ tail + HasPermit + Unreturned < head + RingSize

\* Main's slot differs from those of all other indices of the lap that begins
\* with the oldest index in use.
MainSlot ==
    /\ index[Main] \in Nat /\ index[Main] + 1 = tail
    /\ SlotOf(Main) \in Slots
    /\ \A k \in Nat :
           /\ head <= k + Unreturned
           /\ k + Unreturned < head + RingSize
           /\ k # index[Main]
           => normilize_ring_slot(k) # SlotOf(Main)

\* The worker's slot differs from those of the next RingSize - 1 indices.
WorkerSlot ==
    /\ index[Worker] \in Nat /\ index[Worker] + 1 = head
    /\ SlotOf(Worker) \in Slots
    /\ \A k \in Nat : head <= k /\ k + 1 < head + RingSize =>
           normilize_ring_slot(k) # SlotOf(Worker)

\* The invariant implies the types.
LEMMA TypingHolds == IInv => Typing
  BY Constants DEF IInv, TypeOK, QueueTypeOK, Typing

\* The accounting of the permits implies the bound on the indices.
LEMMA SpreadHolds == IInv => Spread
  BY Constants, Counts DEF IInv, TypeOK, QueueTypeOK, Accounting, Spread

\* What the bound means for the slot main has claimed.
LEMMA MainSlotHolds == IInv /\ Unpublished = 1 => MainSlot
  <1> SUFFICES ASSUME IInv, Unpublished = 1 PROVE MainSlot
    OBVIOUS
  <1>0. Typing /\ Spread
    BY TypingHolds, SpreadHolds
  <1>1. /\ index[Main] \in Nat /\ index[Main] + 1 = tail
        /\ RingSize \in Nat
    BY Constants DEF IInv, TypeOK, QueueTypeOK, Positions
  <1>2. Unannounced = 1
    BY DEF Unpublished, Unannounced, At
  <1>3. /\ head <= index[Main] + Unreturned
        /\ index[Main] + Unreturned < head + RingSize
    BY <1>0, <1>1, <1>2, Counts DEF Typing, Spread
  <1>4. ASSUME NEW k \in Nat,
               head <= k + Unreturned, k + Unreturned < head + RingSize,
               k # index[Main]
        PROVE  normilize_ring_slot(k) # normilize_ring_slot(index[Main])
    <2>1. CASE k < index[Main]
      <3>1. index[Main] < k + RingSize
        BY <1>0, <1>1, <1>3, <1>4, Counts DEF Typing
      <3> QED BY <1>1, <2>1, <3>1, NormDistinct
    <2>2. CASE index[Main] < k
      <3>1. k < index[Main] + RingSize
        BY <1>0, <1>1, <1>3, <1>4, Counts DEF Typing
      <3> QED BY <1>1, <2>2, <3>1, NormDistinct
    <2> QED BY <1>1, <1>4, <2>1, <2>2
  <1> QED BY <1>1, <1>4, Laps DEF SlotOf, MainSlot

\* What the bound means for the slot the worker has claimed.
LEMMA WorkerSlotHolds == IInv /\ Unreturned = 1 => WorkerSlot
  <1> SUFFICES ASSUME IInv, Unreturned = 1 PROVE WorkerSlot
    OBVIOUS
  <1>1. /\ index[Worker] \in Nat /\ index[Worker] + 1 = head
        /\ RingSize \in Nat
    BY Constants DEF IInv, TypeOK, QueueTypeOK, Positions
  <1>2. ASSUME NEW k \in Nat, head <= k, k + 1 < head + RingSize
        PROVE  normilize_ring_slot(k) # normilize_ring_slot(index[Worker])
    <2>1. index[Worker] < k /\ k < index[Worker] + RingSize
      BY <1>1, <1>2
    <2> QED BY <1>1, <2>1, NormDistinct
  <1> QED BY <1>1, <1>2, Laps DEF SlotOf, WorkerSlot

\* Main and the worker are never in one slot.
LEMMA SlotsApart ==
    ASSUME IInv, Unpublished = 1, Unreturned = 1
    PROVE  /\ SlotOf(Main) # SlotOf(Worker)
           /\ SlotOf(Main) \in Slots
           /\ SlotOf(Worker) \in Slots
  <1>1. MainSlot /\ WorkerSlot /\ Typing /\ Spread
    BY MainSlotHolds, WorkerSlotHolds, TypingHolds, SpreadHolds
  <1>2. Unannounced = 1
    BY DEF Unpublished, Unannounced, At
  <1>3. head <= index[Main] /\ index[Main] + 1 < head + RingSize
    BY <1>1, <1>2, Constants, Counts DEF Typing, Spread, MainSlot
  <1> QED BY <1>1, <1>3 DEF MainSlot, WorkerSlot, SlotOf

\* Taking a permit (scheduler.h:52).
LEMMA push_task_beginInv ==
    ASSUME IInv, push_task_begin
    PROVE  IInv'
  <1> USE Constants DEF IInv
  <1>1. Typing /\ Spread
    BY TypingHolds, SpreadHolds
  <1>2. /\ pc[Main] = "idle"
        /\ pc'[Main] = "push" /\ pc'[Worker] = pc[Worker]
        /\ pc' \in [Threads -> QueuePoints \cup {"run"}]
    BY DEF TypeOK, QueueTypeOK, Positions, QueuePoints,
           PushPoints, PopPoints, WaitPoints, push_task_begin, call_try_push, Goto
  <1>3. /\ HasPermit = 0 /\ HasPermit' = 1
        /\ Unpublished = 0 /\ Unpublished' = 0
        /\ Unannounced = 0 /\ Unannounced' = 0
        /\ HasAnnouncement' = HasAnnouncement /\ HasAnnouncement \in {0, 1}
        /\ Unreturned' = Unreturned /\ Unreturned \in {0, 1}
        /\ At(Worker, {"run"})' = At(Worker, {"run"}) /\ At(Worker, {"run"}) \in {0, 1}
    BY <1>2 DEF HasPermit, Unpublished, Unannounced,
           HasAnnouncement, Unreturned, At
  <1> USE DEF push_task_begin, call_try_push, Typing
  <1>4. Accounting' /\ Positions' /\ RingContents' /\ InHand' /\ History'
    <2>1. Accounting'
      BY <1>1, <1>2, <1>3 DEF Accounting
    <2>2. Positions'
      BY <1>1, <1>2, <1>3 DEF Accounting, Positions, TypeOK, QueueTypeOK
    <2>3. RingContents'
      BY <1>1, <1>2, <1>3 DEF RingContents
    <2>4. InHand'
      BY <1>1, <1>2, <1>3 DEF Positions, InHand, SlotOf, TypeOK, QueueTypeOK
    <2>5. History'
      BY <1>1, <1>2, <1>3 DEF History
    <2> QED BY <2>1, <2>2, <2>3, <2>4, <2>5
  <1>5. TypeOK'
    BY <1>1, <1>2, <1>3, <1>4 DEF TypeOK, QueueTypeOK, QueuePoints,
           PushPoints, PopPoints, WaitPoints, Accounting
  <1> QED BY <1>4, <1>5 DEF IInv

\* Announcing the task (scheduler.h:57); try_push has returned true.
LEMMA push_task_endInv ==
    ASSUME IInv, push_task_end
    PROVE  IInv'
  <1> USE Constants DEF IInv
  <1>1. Typing /\ Spread
    BY TypingHolds, SpreadHolds
  <1>2. /\ pc[Main] = "pushed"
        /\ pc'[Main] = "idle" /\ pc'[Worker] = pc[Worker]
        /\ pc' \in [Threads -> QueuePoints \cup {"run"}]
    BY DEF TypeOK, QueueTypeOK, Positions, QueuePoints,
           PushPoints, PopPoints, WaitPoints, push_task_end, Goto
  <1>3. /\ HasPermit = 0 /\ HasPermit' = 0
        /\ Unpublished = 0 /\ Unpublished' = 0
        /\ Unannounced = 1 /\ Unannounced' = 0
        /\ HasAnnouncement' = HasAnnouncement /\ HasAnnouncement \in {0, 1}
        /\ Unreturned' = Unreturned /\ Unreturned \in {0, 1}
        /\ At(Worker, {"run"})' = At(Worker, {"run"}) /\ At(Worker, {"run"}) \in {0, 1}
    BY <1>2 DEF HasPermit, Unpublished, Unannounced,
           HasAnnouncement, Unreturned, At
  <1> USE DEF push_task_end, Typing
  <1>4. Accounting' /\ Positions' /\ RingContents' /\ InHand' /\ History'
    <2>1. Accounting'
      BY <1>1, <1>2, <1>3 DEF Accounting
    <2>2. Positions'
      BY <1>1, <1>2, <1>3 DEF Accounting, Positions, TypeOK, QueueTypeOK
    <2>3. RingContents'
      BY <1>1, <1>2, <1>3 DEF RingContents
    <2>4. InHand'
      BY <1>1, <1>2, <1>3 DEF Positions, InHand, SlotOf, TypeOK, QueueTypeOK
    <2>5. History'
      BY <1>1, <1>2, <1>3 DEF History
    <2> QED BY <2>1, <2>2, <2>3, <2>4, <2>5
  <1>5. TypeOK'
    BY <1>1, <1>2, <1>3, <1>4 DEF TypeOK, QueueTypeOK, QueuePoints,
           PushPoints, PopPoints, WaitPoints, Accounting
  <1> QED BY <1>4, <1>5 DEF IInv

\* Taking an announcement (scheduler.cpp:33).
LEMMA try_get_task_beginInv ==
    ASSUME IInv, try_get_task_begin
    PROVE  IInv'
  <1> USE Constants DEF IInv
  <1>1. Typing /\ Spread
    BY TypingHolds, SpreadHolds
  <1>2. /\ pc[Worker] = "idle"
        /\ pc'[Worker] = "pop" /\ pc'[Main] = pc[Main]
        /\ pc' \in [Threads -> QueuePoints \cup {"run"}]
    BY DEF TypeOK, QueueTypeOK, Positions, QueuePoints,
           PushPoints, PopPoints, WaitPoints, try_get_task_begin, call_try_pop, Goto
  <1>3. /\ HasAnnouncement = 0 /\ HasAnnouncement' = 1
        /\ Unreturned = 0 /\ Unreturned' = 0
        /\ At(Worker, {"run"}) = 0 /\ At(Worker, {"run"})' = 0
        /\ HasPermit' = HasPermit /\ HasPermit \in {0, 1}
        /\ Unpublished' = Unpublished /\ Unpublished \in {0, 1}
        /\ Unannounced' = Unannounced /\ Unannounced \in {0, 1}
    BY <1>2 DEF HasPermit, Unpublished, Unannounced,
           HasAnnouncement, Unreturned, At
  <1> USE DEF try_get_task_begin, call_try_pop, Typing
  <1>4. Accounting' /\ Positions' /\ RingContents' /\ InHand' /\ History'
    <2>1. Accounting'
      BY <1>1, <1>2, <1>3 DEF Accounting
    <2>2. Positions'
      BY <1>1, <1>2, <1>3 DEF Accounting, Positions, TypeOK, QueueTypeOK
    <2>3. RingContents'
      BY <1>1, <1>2, <1>3 DEF RingContents
    <2>4. InHand'
      BY <1>1, <1>2, <1>3 DEF Positions, InHand, SlotOf, TypeOK, QueueTypeOK
    <2>5. History'
      BY <1>1, <1>2, <1>3 DEF History
    <2> QED BY <2>1, <2>2, <2>3, <2>4, <2>5
  <1>5. TypeOK'
    BY <1>1, <1>2, <1>3, <1>4 DEF TypeOK, QueueTypeOK, QueuePoints,
           PushPoints, PopPoints, WaitPoints, Accounting
  <1> QED BY <1>4, <1>5 DEF IInv

\* Giving the permit back (scheduler.cpp:36): the slot of the finished pop
\* joins the free ones, a lap ahead.
LEMMA try_get_task_endInv ==
    ASSUME IInv, try_get_task_end
    PROVE  IInv'
  <1> USE Constants DEF IInv
  <1>1. Typing /\ Spread
    BY TypingHolds, SpreadHolds
  <1>2. /\ pc[Worker] = "popped"
        /\ pc'[Worker] = "run" /\ pc'[Main] = pc[Main]
        /\ pc' \in [Threads -> QueuePoints \cup {"run"}]
    BY DEF TypeOK, QueueTypeOK, Positions, QueuePoints,
           PushPoints, PopPoints, WaitPoints, try_get_task_end, Goto
  <1>3. /\ HasAnnouncement = 0 /\ HasAnnouncement' = 0
        /\ Unreturned = 1 /\ Unreturned' = 0
        /\ At(Worker, {"run"}) = 0 /\ At(Worker, {"run"})' = 1
        /\ HasPermit' = HasPermit /\ HasPermit \in {0, 1}
        /\ Unpublished' = Unpublished /\ Unpublished \in {0, 1}
        /\ Unannounced' = Unannounced /\ Unannounced \in {0, 1}
    BY <1>2 DEF HasPermit, Unpublished, Unannounced,
           HasAnnouncement, Unreturned, At
  <1>4. WorkerSlot
    BY <1>3, WorkerSlotHolds
  <1> USE DEF try_get_task_end, Typing, WorkerSlot
  <1>5. Accounting'
    BY <1>1, <1>2, <1>3, <1>4 DEF Accounting
  <1>6. Positions'
    BY <1>1, <1>2, <1>3, <1>4 DEF TypeOK, QueueTypeOK, Positions
  <1>7. TypeOK'
    BY <1>1, <1>2, <1>3, <1>4, <1>5 DEF TypeOK, QueueTypeOK, QueuePoints,
           PushPoints, PopPoints, WaitPoints, Accounting
  <1>8. RingContents'
    <2>1. ASSUME NEW k \in Nat, head' <= k, k + Unpublished' < tail'
          PROVE  /\ initialized'[normilize_ring_slot(k)]
                 /\ object'[normilize_ring_slot(k)] = claimed'[k + 1]
      <3>1. head <= k /\ k + Unpublished < tail
        BY <1>1, <1>2, <1>3, <1>4, <2>1 DEF Spread
      <3>2. /\ initialized[normilize_ring_slot(k)]
            /\ object[normilize_ring_slot(k)] = claimed[k + 1]
        BY <3>1 DEF RingContents
      <3>3. k + 1 < head + RingSize
        BY <1>1, <1>2, <1>3, <1>4, <3>1 DEF Spread
      <3>4. normilize_ring_slot(k) \in Slots /\ normilize_ring_slot(k) # SlotOf(Worker)
        BY <1>4, <3>1, <3>3, Laps
      <3> QED BY <1>1, <1>2, <1>3, <1>4, <3>2, <3>4
    <2>2. ASSUME NEW k \in Nat, tail' <= k + Unpublished',
                 k + Unreturned' < head' + RingSize
          PROVE  ~initialized'[normilize_ring_slot(k)]
      <3>1. CASE k + 1 < head + RingSize
        BY <1>1, <1>2, <1>3, <2>2, <3>1 DEF RingContents
      <3>2. CASE k = index[Worker] + RingSize
        BY <1>2, <1>4, <3>2, NormPeriod DEF InHand, SlotOf
      <3>3. k + 1 < head + RingSize \/ k = index[Worker] + RingSize
        BY <1>1, <1>2, <1>3, <1>4, <2>2
      <3> QED BY <3>1, <3>2, <3>3
    <2> QED BY <2>1, <2>2 DEF RingContents
  <1>9. InHand'
    BY <1>1, <1>2, <1>3, <1>4 DEF InHand, Positions, SlotOf
  <1>10. History'
    BY <1>1, <1>2, <1>3, <1>4 DEF History
  <1> QED BY <1>5, <1>6, <1>7, <1>8, <1>9, <1>10 DEF IInv

\* Running the executor (scheduler.cpp:52).
LEMMA execute_taskInv ==
    ASSUME IInv, execute_task
    PROVE  IInv'
  <1> USE Constants DEF IInv
  <1>1. Typing /\ Spread
    BY TypingHolds, SpreadHolds
  <1>a. pc[Worker] = "run" /\ index[Worker] + 1 = head /\ item[Worker] = claimed[index[Worker] + 1]
    BY DEF execute_task, InHand
  <1>b. Unreturned = 0 /\ At(Worker, {"run"}) = 1
    BY <1>a DEF Unreturned, At
  <1>c. /\ item[Worker] = claimed[Len(executed) + 1]
        /\ Len(executed) + 1 \in 1 .. Len(claimed)
        /\ item[Worker] \in Items
    <2>1. Len(executed) + 1 = head
      BY <1>1, <1>b DEF History, Typing
    <2>2. head <= Len(claimed)
      BY <1>1, Counts DEF Spread, Typing, Positions
    <2>3. index[Worker] = Len(executed)
      BY <1>1, <1>a, <2>1 DEF Typing
    <2>4. Len(executed) + 1 \in 1 .. Len(claimed)
      BY <1>1, <2>1, <2>2 DEF Typing
    <2> QED BY <1>a, <2>3, <2>4 DEF TypeOK, QueueTypeOK
  <1>2. /\ pc[Worker] = "run"
        /\ pc'[Worker] = "idle" /\ pc'[Main] = pc[Main]
        /\ pc' \in [Threads -> QueuePoints \cup {"run"}]
        /\ executed' \in Seq(Items)
        /\ Len(executed') = Len(executed) + 1
        /\ executed'[Len(executed) + 1] = claimed[Len(executed) + 1]
        /\ \A i \in 1 .. Len(executed) : executed'[i] = executed[i]
        /\ item' = [item EXCEPT ![Worker] = NoItem]
        /\ UNCHANGED <<head, tail, initialized, object, index, claimed,
                       push_task_semaphore, pop_task_semaphore>>
    BY <1>a, <1>c DEF TypeOK, QueueTypeOK, Positions, QueuePoints,
           PushPoints, PopPoints, WaitPoints, execute_task, Goto
  <1>3. /\ HasAnnouncement = 0 /\ HasAnnouncement' = 0
        /\ Unreturned = 0 /\ Unreturned' = 0
        /\ At(Worker, {"run"}) = 1 /\ At(Worker, {"run"})' = 0
        /\ HasPermit' = HasPermit /\ HasPermit \in {0, 1}
        /\ Unpublished' = Unpublished /\ Unpublished \in {0, 1}
        /\ Unannounced' = Unannounced /\ Unannounced \in {0, 1}
    BY <1>2 DEF HasPermit, Unpublished, Unannounced,
           HasAnnouncement, Unreturned, At
  <1> USE DEF Typing
  <1>5. Accounting'
    BY <1>1, <1>2, <1>3 DEF Accounting
  <1>6. Positions'
    BY <1>1, <1>2, <1>3 DEF TypeOK, QueueTypeOK, Positions
  <1>7. TypeOK'
    BY <1>1, <1>2, <1>3, <1>5 DEF TypeOK, QueueTypeOK, QueuePoints,
           PushPoints, PopPoints, WaitPoints, Accounting
  <1>8. RingContents'
    BY <1>1, <1>2, <1>3 DEF RingContents
  <1>9. InHand'
    BY <1>1, <1>2, <1>3 DEF InHand, Positions, SlotOf
  <1>10. History'
    BY <1>1, <1>2, <1>3 DEF History
  <1> QED BY <1>5, <1>6, <1>7, <1>8, <1>9, <1>10 DEF IInv

\* try_push loads tail.
LEMMA push_load_tailInv ==
    ASSUME IInv, push_load_tail(Main),
           UNCHANGED <<push_task_semaphore, pop_task_semaphore, executed>>
    PROVE  IInv'
  <1> USE Constants DEF IInv
  <1>1. Typing /\ Spread
    BY TypingHolds, SpreadHolds
  <1>2. /\ pc[Main] = "push"
        /\ pc'[Main] = "push_check" /\ pc'[Worker] = pc[Worker]
        /\ pc' \in [Threads -> QueuePoints \cup {"run"}]
    BY DEF TypeOK, QueueTypeOK, Positions, QueuePoints,
           PushPoints, PopPoints, WaitPoints, push_load_tail, Goto
  <1>3. /\ HasPermit = 1 /\ HasPermit' = 1
        /\ Unpublished = 0 /\ Unpublished' = 0
        /\ Unannounced = 0 /\ Unannounced' = 0
        /\ HasAnnouncement' = HasAnnouncement /\ HasAnnouncement \in {0, 1}
        /\ Unreturned' = Unreturned /\ Unreturned \in {0, 1}
        /\ At(Worker, {"run"})' = At(Worker, {"run"}) /\ At(Worker, {"run"}) \in {0, 1}
    BY <1>2 DEF HasPermit, Unpublished, Unannounced,
           HasAnnouncement, Unreturned, At
  <1> USE DEF push_load_tail, Typing
  <1>4. Accounting' /\ Positions' /\ RingContents' /\ InHand' /\ History'
    <2>1. Accounting'
      BY <1>1, <1>2, <1>3 DEF Accounting
    <2>2. Positions'
      BY <1>1, <1>2, <1>3 DEF Accounting, Positions, TypeOK, QueueTypeOK
    <2>3. RingContents'
      BY <1>1, <1>2, <1>3 DEF RingContents
    <2>4. InHand'
      BY <1>1, <1>2, <1>3 DEF Positions, InHand, SlotOf, TypeOK, QueueTypeOK
    <2>5. History'
      BY <1>1, <1>2, <1>3 DEF History
    <2> QED BY <2>1, <2>2, <2>3, <2>4, <2>5
  <1>5. TypeOK'
    BY <1>1, <1>2, <1>3, <1>4 DEF TypeOK, QueueTypeOK, QueuePoints,
           PushPoints, PopPoints, WaitPoints, Accounting
  <1> QED BY <1>4, <1>5 DEF IInv

\* try_push loads head; main's permit keeps the ring from looking full.
LEMMA push_load_headInv ==
    ASSUME IInv, push_load_head(Main),
           UNCHANGED <<push_task_semaphore, pop_task_semaphore, executed>>
    PROVE  IInv'
  <1> USE Constants DEF IInv
  <1>1. Typing /\ Spread
    BY TypingHolds, SpreadHolds
  <1>a. ~LooksFull(index[Main], head)
    <2>1. HasPermit = 1 /\ index[Main] = tail
      BY DEF push_load_head, HasPermit, At, Positions
    <2>2. head <= tail /\ tail + 1 < head + RingSize
      BY <1>1, <2>1, Counts DEF Typing, Spread
    <2> QED BY <1>1, <2>1, <2>2, NotFull DEF Typing
  <1>2. /\ pc[Main] = "push_check"
        /\ pc'[Main] = "push_claim" /\ pc'[Worker] = pc[Worker]
        /\ pc' \in [Threads -> QueuePoints \cup {"run"}]
    BY <1>a DEF TypeOK, QueueTypeOK, Positions, QueuePoints,
           PushPoints, PopPoints, WaitPoints, push_load_head, Goto
  <1>3. /\ HasPermit = 1 /\ HasPermit' = 1
        /\ Unpublished = 0 /\ Unpublished' = 0
        /\ Unannounced = 0 /\ Unannounced' = 0
        /\ HasAnnouncement' = HasAnnouncement /\ HasAnnouncement \in {0, 1}
        /\ Unreturned' = Unreturned /\ Unreturned \in {0, 1}
        /\ At(Worker, {"run"})' = At(Worker, {"run"}) /\ At(Worker, {"run"}) \in {0, 1}
    BY <1>2 DEF HasPermit, Unpublished, Unannounced,
           HasAnnouncement, Unreturned, At
  <1> USE DEF push_load_head, Typing
  <1>4. Accounting' /\ Positions' /\ RingContents' /\ InHand' /\ History'
    <2>1. Accounting'
      BY <1>1, <1>2, <1>3 DEF Accounting
    <2>2. Positions'
      BY <1>1, <1>2, <1>3 DEF Accounting, Positions, TypeOK, QueueTypeOK
    <2>3. RingContents'
      BY <1>1, <1>2, <1>3 DEF RingContents
    <2>4. InHand'
      BY <1>1, <1>2, <1>3 DEF Positions, InHand, SlotOf, TypeOK, QueueTypeOK
    <2>5. History'
      BY <1>1, <1>2, <1>3 DEF History
    <2> QED BY <2>1, <2>2, <2>3, <2>4, <2>5
  <1>5. TypeOK'
    BY <1>1, <1>2, <1>3, <1>4 DEF TypeOK, QueueTypeOK, QueuePoints,
           PushPoints, PopPoints, WaitPoints, Accounting
  <1> QED BY <1>4, <1>5 DEF IInv

\* try_push claims an index: main's permit becomes a task in the ring.
LEMMA push_claim_tailInv ==
    ASSUME IInv, push_claim_tail(Main),
           UNCHANGED <<push_task_semaphore, pop_task_semaphore, executed>>
    PROVE  IInv'
  <1> USE Constants DEF IInv
  <1>1. Typing /\ Spread
    BY TypingHolds, SpreadHolds
  <1>a. item[Main] \in Items /\ claimed \in Seq(Items) /\ tail = Len(claimed)
    BY DEF push_claim_tail, TypeOK, QueueTypeOK, Positions, InHand
  <1>b. claimed' = Append(claimed, item[Main])
    BY DEF push_claim_tail
  <1>c. /\ claimed' \in Seq(Items)
        /\ Len(claimed') = Len(claimed) + 1
        /\ claimed'[tail + 1] = item[Main]
        /\ \A k \in 1 .. tail : claimed'[k] = claimed[k]
    BY <1>a, <1>b
  <1>2. /\ pc[Main] = "push_claim"
        /\ pc'[Main] = "push_wait" /\ pc'[Worker] = pc[Worker]
        /\ pc' \in [Threads -> QueuePoints \cup {"run"}]
        /\ tail' = tail + 1
        /\ UNCHANGED <<head, initialized, object, index, item>>
    BY DEF TypeOK, QueueTypeOK, Positions, QueuePoints,
           PushPoints, PopPoints, WaitPoints, push_claim_tail, Goto
  <1>3. /\ HasPermit = 1 /\ HasPermit' = 0
        /\ Unpublished = 0 /\ Unpublished' = 1
        /\ Unannounced = 0 /\ Unannounced' = 1
        /\ HasAnnouncement' = HasAnnouncement /\ HasAnnouncement \in {0, 1}
        /\ Unreturned' = Unreturned /\ Unreturned \in {0, 1}
        /\ At(Worker, {"run"})' = At(Worker, {"run"}) /\ At(Worker, {"run"}) \in {0, 1}
    BY <1>2 DEF HasPermit, Unpublished, Unannounced,
           HasAnnouncement, Unreturned, At
  <1> USE DEF Typing
  <1>5. Accounting'
    BY <1>1, <1>2, <1>3 DEF Accounting
  <1>6. Positions'
    BY <1>1, <1>2, <1>3, <1>c DEF TypeOK, QueueTypeOK, Positions
  <1>7. TypeOK'
    BY <1>1, <1>2, <1>3, <1>5, <1>c DEF TypeOK, QueueTypeOK, QueuePoints,
           PushPoints, PopPoints, WaitPoints, Accounting
  <1>8. RingContents'
    <2>1. ASSUME NEW k \in Nat, head' <= k, k + Unpublished' < tail'
          PROVE  /\ initialized'[normilize_ring_slot(k)]
                 /\ object'[normilize_ring_slot(k)] = claimed'[k + 1]
      <3>1. head <= k /\ k + Unpublished < tail /\ k + 1 \in 1 .. tail
        BY <1>1, <1>2, <1>3, <2>1
      <3>2. /\ initialized[normilize_ring_slot(k)]
            /\ object[normilize_ring_slot(k)] = claimed[k + 1]
        BY <3>1 DEF RingContents
      <3> QED BY <1>2, <1>c, <3>1, <3>2
    <2>2. ASSUME NEW k \in Nat, tail' <= k + Unpublished',
                 k + Unreturned' < head' + RingSize
          PROVE  ~initialized'[normilize_ring_slot(k)]
      <3>1. tail <= k + Unpublished /\ k + Unreturned < head + RingSize
        BY <1>1, <1>2, <1>3, <2>2
      <3> QED BY <1>2, <3>1 DEF RingContents
    <2> QED BY <2>1, <2>2 DEF RingContents
  <1>9. InHand'
    <2>1. index[Main] = tail
      BY <1>2 DEF Positions
    <2>2. pc[Worker] \in {"pop_wait", "pop_take", "pop_clear", "pop_clear_again",
                          "popped", "run"} => index[Worker] + 1 \in 1 .. tail
      <3>1. pc[Worker] \in {"pop_wait", "pop_take", "pop_clear", "pop_clear_again",
                            "popped", "run"} => index[Worker] + 1 = head
        BY DEF InHand, Positions, Unreturned, At
      <3>2. head <= tail
        BY <1>1, <1>3, Counts DEF Spread
      <3> QED BY <1>1, <3>1, <3>2
    <2> QED BY <1>1, <1>2, <1>3, <1>c, <2>1, <2>2 DEF InHand, SlotOf
  <1>10. History'
    <2>1. Len(executed) <= tail
      BY <1>1, <1>2, <1>3, Counts DEF History, Spread
    <2>2. \A i \in 1 .. Len(executed) : i \in 1 .. tail
      BY <1>1, <2>1
    <2> QED BY <1>1, <1>2, <1>3, <1>c, <2>2 DEF History
  <1> QED BY <1>5, <1>6, <1>7, <1>8, <1>9, <1>10 DEF IInv

\* try_push finds its slot free.
LEMMA push_await_slotInv ==
    ASSUME IInv, push_await_slot(Main),
           UNCHANGED <<push_task_semaphore, pop_task_semaphore, executed>>
    PROVE  IInv'
  <1> USE Constants DEF IInv
  <1>1. Typing /\ Spread
    BY TypingHolds, SpreadHolds
  <1>2. /\ pc[Main] = "push_wait"
        /\ pc'[Main] = "push_emplace" /\ pc'[Worker] = pc[Worker]
        /\ pc' \in [Threads -> QueuePoints \cup {"run"}]
    BY DEF TypeOK, QueueTypeOK, Positions, QueuePoints,
           PushPoints, PopPoints, WaitPoints, push_await_slot, Goto
  <1>3. /\ HasPermit = 0 /\ HasPermit' = 0
        /\ Unpublished = 1 /\ Unpublished' = 1
        /\ Unannounced = 1 /\ Unannounced' = 1
        /\ HasAnnouncement' = HasAnnouncement /\ HasAnnouncement \in {0, 1}
        /\ Unreturned' = Unreturned /\ Unreturned \in {0, 1}
        /\ At(Worker, {"run"})' = At(Worker, {"run"}) /\ At(Worker, {"run"}) \in {0, 1}
    BY <1>2 DEF HasPermit, Unpublished, Unannounced,
           HasAnnouncement, Unreturned, At
  <1> USE DEF push_await_slot, Typing
  <1>4. Accounting' /\ Positions' /\ RingContents' /\ InHand' /\ History'
    <2>1. Accounting'
      BY <1>1, <1>2, <1>3 DEF Accounting
    <2>2. Positions'
      BY <1>1, <1>2, <1>3 DEF Accounting, Positions, TypeOK, QueueTypeOK
    <2>3. RingContents'
      BY <1>1, <1>2, <1>3 DEF RingContents
    <2>4. InHand'
      BY <1>1, <1>2, <1>3 DEF Positions, InHand, SlotOf, TypeOK, QueueTypeOK
    <2>5. History'
      BY <1>1, <1>2, <1>3 DEF History
    <2> QED BY <2>1, <2>2, <2>3, <2>4, <2>5
  <1>5. TypeOK'
    BY <1>1, <1>2, <1>3, <1>4 DEF TypeOK, QueueTypeOK, QueuePoints,
           PushPoints, PopPoints, WaitPoints, Accounting
  <1> QED BY <1>4, <1>5 DEF IInv

\* try_push constructs the object in a slot nobody else uses.
LEMMA push_emplaceInv ==
    ASSUME IInv, push_emplace(Main),
           UNCHANGED <<push_task_semaphore, pop_task_semaphore, executed>>
    PROVE  IInv'
  <1> USE Constants DEF IInv
  <1>1. Typing /\ Spread
    BY TypingHolds, SpreadHolds
  <1>2. /\ pc[Main] = "push_emplace"
        /\ pc'[Main] = "push_publish" /\ pc'[Worker] = pc[Worker]
        /\ pc' \in [Threads -> QueuePoints \cup {"run"}]
    BY DEF TypeOK, QueueTypeOK, Positions, QueuePoints,
           PushPoints, PopPoints, WaitPoints, push_emplace, Goto
  <1>3. /\ HasPermit = 0 /\ HasPermit' = 0
        /\ Unpublished = 1 /\ Unpublished' = 1
        /\ Unannounced = 1 /\ Unannounced' = 1
        /\ HasAnnouncement' = HasAnnouncement /\ HasAnnouncement \in {0, 1}
        /\ Unreturned' = Unreturned /\ Unreturned \in {0, 1}
        /\ At(Worker, {"run"})' = At(Worker, {"run"}) /\ At(Worker, {"run"}) \in {0, 1}
    BY <1>2 DEF HasPermit, Unpublished, Unannounced,
           HasAnnouncement, Unreturned, At
  <1>4. MainSlot
    BY <1>3, MainSlotHolds
  <1> USE DEF push_emplace, Typing, MainSlot
  <1>5. Accounting'
    BY <1>1, <1>2, <1>3, <1>4 DEF Accounting
  <1>6. Positions'
    BY <1>1, <1>2, <1>3, <1>4 DEF TypeOK, QueueTypeOK, Positions
  <1>7. TypeOK'
    BY <1>1, <1>2, <1>3, <1>4, <1>5, Laps DEF TypeOK, QueueTypeOK, QueuePoints,
           PushPoints, PopPoints, WaitPoints, Accounting, SlotOf, Slots, InHand
  <1>8. RingContents'
    <2>1. ASSUME NEW k \in Nat, head' <= k, k + Unpublished' < tail'
          PROVE  /\ initialized'[normilize_ring_slot(k)]
                 /\ object'[normilize_ring_slot(k)] = claimed'[k + 1]
      <3>1. head <= k /\ k + Unpublished < tail
        BY <1>1, <1>2, <1>3, <1>4, <2>1 DEF Spread
      <3>2. /\ initialized[normilize_ring_slot(k)]
            /\ object[normilize_ring_slot(k)] = claimed[k + 1]
        BY <3>1 DEF RingContents
      <3>3. /\ head <= k + Unreturned /\ k + Unreturned < head + RingSize
            /\ k # index[Main]
        BY <1>1, <1>2, <1>3, <1>4, <3>1 DEF Spread
      <3>4. normilize_ring_slot(k) \in Slots /\ normilize_ring_slot(k) # SlotOf(Main)
        BY <1>4, <3>1, <3>3, Laps
      <3> QED BY <1>1, <1>2, <1>3, <1>4, <3>2, <3>4
    <2>2. ASSUME NEW k \in Nat, tail' <= k + Unpublished',
                 k + Unreturned' < head' + RingSize
          PROVE  ~initialized'[normilize_ring_slot(k)]
      BY <1>1, <1>2, <1>3, <1>4, <2>2, Laps DEF Spread, Positions, RingContents
    <2> QED BY <2>1, <2>2 DEF RingContents
  <1>9. InHand'
    <2>1. pc[Worker] \in {"pop_wait", "pop_take", "pop_clear_again", "popped"} =>
              SlotOf(Worker) # SlotOf(Main) /\ SlotOf(Worker) \in Slots
      BY <1>3, SlotsApart DEF Unreturned, At
    <2>2. SlotOf(Main)' = SlotOf(Main) /\ SlotOf(Worker)' = SlotOf(Worker)
      BY DEF SlotOf
    <2> QED BY <1>1, <1>2, <1>3, <1>4, <2>1, <2>2 DEF InHand
  <1>10. History'
    BY <1>1, <1>2, <1>3, <1>4 DEF History
  <1> QED BY <1>5, <1>6, <1>7, <1>8, <1>9, <1>10 DEF IInv

\* try_push publishes the object: its index joins the published ones.
LEMMA push_publishInv ==
    ASSUME IInv, push_publish(Main),
           UNCHANGED <<push_task_semaphore, pop_task_semaphore, executed>>
    PROVE  IInv'
  <1> USE Constants DEF IInv
  <1>1. Typing /\ Spread
    BY TypingHolds, SpreadHolds
  <1>2. /\ pc[Main] = "push_publish"
        /\ pc'[Main] = "pushed" /\ pc'[Worker] = pc[Worker]
        /\ pc' \in [Threads -> QueuePoints \cup {"run"}]
    BY DEF TypeOK, QueueTypeOK, Positions, QueuePoints,
           PushPoints, PopPoints, WaitPoints, push_publish, Goto
  <1>3. /\ HasPermit = 0 /\ HasPermit' = 0
        /\ Unpublished = 1 /\ Unpublished' = 0
        /\ Unannounced = 1 /\ Unannounced' = 1
        /\ HasAnnouncement' = HasAnnouncement /\ HasAnnouncement \in {0, 1}
        /\ Unreturned' = Unreturned /\ Unreturned \in {0, 1}
        /\ At(Worker, {"run"})' = At(Worker, {"run"}) /\ At(Worker, {"run"}) \in {0, 1}
    BY <1>2 DEF HasPermit, Unpublished, Unannounced,
           HasAnnouncement, Unreturned, At
  <1>4. MainSlot
    BY <1>3, MainSlotHolds
  <1> USE DEF push_publish, Typing, MainSlot
  <1>5. Accounting'
    BY <1>1, <1>2, <1>3, <1>4 DEF Accounting
  <1>6. Positions'
    BY <1>1, <1>2, <1>3, <1>4 DEF TypeOK, QueueTypeOK, Positions
  <1>7. TypeOK'
    BY <1>1, <1>2, <1>3, <1>4, <1>5, Laps DEF TypeOK, QueueTypeOK, QueuePoints,
           PushPoints, PopPoints, WaitPoints, Accounting, SlotOf, Slots, InHand
  <1>8. RingContents'
    <2>1. ASSUME NEW k \in Nat, head' <= k, k + Unpublished' < tail'
          PROVE  /\ initialized'[normilize_ring_slot(k)]
                 /\ object'[normilize_ring_slot(k)] = claimed'[k + 1]
      <3>1. CASE k = index[Main]
        BY <1>1, <1>2, <1>3, <1>4, <3>1 DEF InHand, SlotOf
      <3>2. CASE k # index[Main]
        <4>1. head <= k /\ k + Unpublished < tail
          BY <1>1, <1>2, <1>3, <1>4, <2>1, <3>2
        <4>2. /\ initialized[normilize_ring_slot(k)]
              /\ object[normilize_ring_slot(k)] = claimed[k + 1]
          BY <4>1 DEF RingContents
        <4>3. head <= k + Unreturned /\ k + Unreturned < head + RingSize
          BY <1>1, <1>3, <4>1 DEF Spread
        <4>4. normilize_ring_slot(k) \in Slots /\ normilize_ring_slot(k) # SlotOf(Main)
          BY <1>4, <3>2, <4>3, Laps
        <4> QED BY <1>1, <1>2, <1>4, <4>2, <4>4
      <3> QED BY <3>1, <3>2
    <2>2. ASSUME NEW k \in Nat, tail' <= k + Unpublished',
                 k + Unreturned' < head' + RingSize
          PROVE  ~initialized'[normilize_ring_slot(k)]
      <3>1. tail <= k + Unpublished /\ k + Unreturned < head + RingSize
        BY <1>1, <1>2, <1>3, <2>2
      <3>2. head <= k + Unreturned /\ k # index[Main]
        BY <1>1, <1>2, <1>3, <1>4, <2>2 DEF Spread
      <3>3. normilize_ring_slot(k) \in Slots /\ normilize_ring_slot(k) # SlotOf(Main)
        BY <1>4, <3>1, <3>2, Laps
      <3> QED BY <1>1, <1>2, <1>4, <3>1, <3>3 DEF RingContents
    <2> QED BY <2>1, <2>2 DEF RingContents
  <1>9. InHand'
    <2>1. pc[Worker] \in {"pop_wait", "pop_take", "pop_clear_again", "popped"} =>
              SlotOf(Worker) # SlotOf(Main) /\ SlotOf(Worker) \in Slots
      BY <1>3, SlotsApart DEF Unreturned, At
    <2>2. SlotOf(Main)' = SlotOf(Main) /\ SlotOf(Worker)' = SlotOf(Worker)
      BY DEF SlotOf
    <2> QED BY <1>1, <1>2, <1>3, <1>4, <2>1, <2>2 DEF InHand
  <1>10. History'
    BY <1>1, <1>2, <1>3, <1>4 DEF History
  <1> QED BY <1>5, <1>6, <1>7, <1>8, <1>9, <1>10 DEF IInv

\* try_pop loads head.
LEMMA pop_load_headInv ==
    ASSUME IInv, pop_load_head(Worker),
           UNCHANGED <<push_task_semaphore, pop_task_semaphore, executed>>
    PROVE  IInv'
  <1> USE Constants DEF IInv
  <1>1. Typing /\ Spread
    BY TypingHolds, SpreadHolds
  <1>2. /\ pc[Worker] = "pop"
        /\ pc'[Worker] = "pop_check" /\ pc'[Main] = pc[Main]
        /\ pc' \in [Threads -> QueuePoints \cup {"run"}]
    BY DEF TypeOK, QueueTypeOK, Positions, QueuePoints,
           PushPoints, PopPoints, WaitPoints, pop_load_head, Goto
  <1>3. /\ HasAnnouncement = 1 /\ HasAnnouncement' = 1
        /\ Unreturned = 0 /\ Unreturned' = 0
        /\ At(Worker, {"run"}) = 0 /\ At(Worker, {"run"})' = 0
        /\ HasPermit' = HasPermit /\ HasPermit \in {0, 1}
        /\ Unpublished' = Unpublished /\ Unpublished \in {0, 1}
        /\ Unannounced' = Unannounced /\ Unannounced \in {0, 1}
    BY <1>2 DEF HasPermit, Unpublished, Unannounced,
           HasAnnouncement, Unreturned, At
  <1> USE DEF pop_load_head, Typing
  <1>4. Accounting' /\ Positions' /\ RingContents' /\ InHand' /\ History'
    <2>1. Accounting'
      BY <1>1, <1>2, <1>3 DEF Accounting
    <2>2. Positions'
      BY <1>1, <1>2, <1>3 DEF Accounting, Positions, TypeOK, QueueTypeOK
    <2>3. RingContents'
      BY <1>1, <1>2, <1>3 DEF RingContents
    <2>4. InHand'
      BY <1>1, <1>2, <1>3 DEF Positions, InHand, SlotOf, TypeOK, QueueTypeOK
    <2>5. History'
      BY <1>1, <1>2, <1>3 DEF History
    <2> QED BY <2>1, <2>2, <2>3, <2>4, <2>5
  <1>5. TypeOK'
    BY <1>1, <1>2, <1>3, <1>4 DEF TypeOK, QueueTypeOK, QueuePoints,
           PushPoints, PopPoints, WaitPoints, Accounting
  <1> QED BY <1>4, <1>5 DEF IInv

\* try_pop loads tail; the announcement means that there is a task.
LEMMA pop_load_tailInv ==
    ASSUME IInv, pop_load_tail(Worker),
           UNCHANGED <<push_task_semaphore, pop_task_semaphore, executed>>
    PROVE  IInv'
  <1> USE Constants DEF IInv
  <1>1. Typing /\ Spread
    BY TypingHolds, SpreadHolds
  <1>a. index[Worker] # tail
    <2>1. HasAnnouncement = 1 /\ index[Worker] = head
      BY DEF pop_load_tail, HasAnnouncement, At, Positions
    <2> QED BY <1>1, <2>1, Counts DEF Typing, Spread
  <1>2. /\ pc[Worker] = "pop_check"
        /\ pc'[Worker] = "pop_claim" /\ pc'[Main] = pc[Main]
        /\ pc' \in [Threads -> QueuePoints \cup {"run"}]
    BY <1>a DEF TypeOK, QueueTypeOK, Positions, QueuePoints,
           PushPoints, PopPoints, WaitPoints, pop_load_tail, Goto
  <1>3. /\ HasAnnouncement = 1 /\ HasAnnouncement' = 1
        /\ Unreturned = 0 /\ Unreturned' = 0
        /\ At(Worker, {"run"}) = 0 /\ At(Worker, {"run"})' = 0
        /\ HasPermit' = HasPermit /\ HasPermit \in {0, 1}
        /\ Unpublished' = Unpublished /\ Unpublished \in {0, 1}
        /\ Unannounced' = Unannounced /\ Unannounced \in {0, 1}
    BY <1>2 DEF HasPermit, Unpublished, Unannounced,
           HasAnnouncement, Unreturned, At
  <1> USE DEF pop_load_tail, Typing
  <1>4. Accounting' /\ Positions' /\ RingContents' /\ InHand' /\ History'
    <2>1. Accounting'
      BY <1>1, <1>2, <1>3 DEF Accounting
    <2>2. Positions'
      BY <1>1, <1>2, <1>3 DEF Accounting, Positions, TypeOK, QueueTypeOK
    <2>3. RingContents'
      BY <1>1, <1>2, <1>3 DEF RingContents
    <2>4. InHand'
      BY <1>1, <1>2, <1>3 DEF Positions, InHand, SlotOf, TypeOK, QueueTypeOK
    <2>5. History'
      BY <1>1, <1>2, <1>3 DEF History
    <2> QED BY <2>1, <2>2, <2>3, <2>4, <2>5
  <1>5. TypeOK'
    BY <1>1, <1>2, <1>3, <1>4 DEF TypeOK, QueueTypeOK, QueuePoints,
           PushPoints, PopPoints, WaitPoints, Accounting
  <1> QED BY <1>4, <1>5 DEF IInv

\* try_pop claims the oldest published task.
LEMMA pop_claim_headInv ==
    ASSUME IInv, pop_claim_head(Worker),
           UNCHANGED <<push_task_semaphore, pop_task_semaphore, executed>>
    PROVE  IInv'
  <1> USE Constants DEF IInv
  <1>1. Typing /\ Spread
    BY TypingHolds, SpreadHolds
  <1>2. /\ pc[Worker] = "pop_claim"
        /\ pc'[Worker] = "pop_wait" /\ pc'[Main] = pc[Main]
        /\ pc' \in [Threads -> QueuePoints \cup {"run"}]
        /\ head' = head + 1
        /\ UNCHANGED <<tail, initialized, object, index, item, claimed>>
    BY DEF TypeOK, QueueTypeOK, Positions, QueuePoints,
           PushPoints, PopPoints, WaitPoints, pop_claim_head, Goto
  <1>3. /\ HasAnnouncement = 1 /\ HasAnnouncement' = 0
        /\ Unreturned = 0 /\ Unreturned' = 1
        /\ At(Worker, {"run"}) = 0 /\ At(Worker, {"run"})' = 0
        /\ HasPermit' = HasPermit /\ HasPermit \in {0, 1}
        /\ Unpublished' = Unpublished /\ Unpublished \in {0, 1}
        /\ Unannounced' = Unannounced /\ Unannounced \in {0, 1}
    BY <1>2 DEF HasPermit, Unpublished, Unannounced,
           HasAnnouncement, Unreturned, At
  <1> USE DEF Typing
  <1>5. Accounting'
    BY <1>1, <1>2, <1>3 DEF Accounting
  <1>6. Positions'
    BY <1>1, <1>2, <1>3 DEF TypeOK, QueueTypeOK, Positions
  <1>7. TypeOK'
    BY <1>1, <1>2, <1>3, <1>5 DEF TypeOK, QueueTypeOK, QueuePoints,
           PushPoints, PopPoints, WaitPoints, Accounting
  <1>8. RingContents'
    <2>1. ASSUME NEW k \in Nat, head' <= k, k + Unpublished' < tail'
          PROVE  /\ initialized'[normilize_ring_slot(k)]
                 /\ object'[normilize_ring_slot(k)] = claimed'[k + 1]
      <3>1. head <= k /\ k + Unpublished < tail
        BY <1>1, <1>2, <1>3, <2>1 DEF Spread
      <3>2. /\ initialized[normilize_ring_slot(k)]
            /\ object[normilize_ring_slot(k)] = claimed[k + 1]
        BY <3>1 DEF RingContents
      <3> QED BY <1>1, <1>2, <1>3, <3>2
    <2>2. ASSUME NEW k \in Nat, tail' <= k + Unpublished',
                 k + Unreturned' < head' + RingSize
          PROVE  ~initialized'[normilize_ring_slot(k)]
      BY <1>1, <1>2, <1>3, <2>2, Laps DEF Spread, Positions, RingContents
    <2> QED BY <2>1, <2>2 DEF RingContents
  <1>9. InHand'
    <2>1. index[Worker] = head
      BY <1>2 DEF Positions
    <2>2. head + Unpublished < tail
      BY <1>1, <1>3, Counts DEF Spread
    <2>3. /\ initialized[normilize_ring_slot(head)]
          /\ object[normilize_ring_slot(head)] = claimed[head + 1]
      BY <1>1, <2>2 DEF RingContents
    <2> QED BY <1>2, <1>3, <2>1, <2>3 DEF InHand, SlotOf
  <1>10. History'
    BY <1>1, <1>2, <1>3 DEF History
  <1> QED BY <1>5, <1>6, <1>7, <1>8, <1>9, <1>10 DEF IInv

\* try_pop finds the object published.
LEMMA pop_await_objectInv ==
    ASSUME IInv, pop_await_object(Worker),
           UNCHANGED <<push_task_semaphore, pop_task_semaphore, executed>>
    PROVE  IInv'
  <1> USE Constants DEF IInv
  <1>1. Typing /\ Spread
    BY TypingHolds, SpreadHolds
  <1>2. /\ pc[Worker] = "pop_wait"
        /\ pc'[Worker] = "pop_take" /\ pc'[Main] = pc[Main]
        /\ pc' \in [Threads -> QueuePoints \cup {"run"}]
    BY DEF TypeOK, QueueTypeOK, Positions, QueuePoints,
           PushPoints, PopPoints, WaitPoints, pop_await_object, Goto
  <1>3. /\ HasAnnouncement = 0 /\ HasAnnouncement' = 0
        /\ Unreturned = 1 /\ Unreturned' = 1
        /\ At(Worker, {"run"}) = 0 /\ At(Worker, {"run"})' = 0
        /\ HasPermit' = HasPermit /\ HasPermit \in {0, 1}
        /\ Unpublished' = Unpublished /\ Unpublished \in {0, 1}
        /\ Unannounced' = Unannounced /\ Unannounced \in {0, 1}
    BY <1>2 DEF HasPermit, Unpublished, Unannounced,
           HasAnnouncement, Unreturned, At
  <1> USE DEF pop_await_object, Typing
  <1>4. Accounting' /\ Positions' /\ RingContents' /\ InHand' /\ History'
    <2>1. Accounting'
      BY <1>1, <1>2, <1>3 DEF Accounting
    <2>2. Positions'
      BY <1>1, <1>2, <1>3 DEF Accounting, Positions, TypeOK, QueueTypeOK
    <2>3. RingContents'
      BY <1>1, <1>2, <1>3 DEF RingContents
    <2>4. InHand'
      BY <1>1, <1>2, <1>3 DEF Positions, InHand, SlotOf, TypeOK, QueueTypeOK
    <2>5. History'
      BY <1>1, <1>2, <1>3 DEF History
    <2> QED BY <2>1, <2>2, <2>3, <2>4, <2>5
  <1>5. TypeOK'
    BY <1>1, <1>2, <1>3, <1>4 DEF TypeOK, QueueTypeOK, QueuePoints,
           PushPoints, PopPoints, WaitPoints, Accounting
  <1> QED BY <1>4, <1>5 DEF IInv

\* try_pop takes the object out of a slot nobody else uses.
LEMMA pop_takeInv ==
    ASSUME IInv, pop_take(Worker),
           UNCHANGED <<push_task_semaphore, pop_task_semaphore, executed>>
    PROVE  IInv'
  <1> USE Constants DEF IInv
  <1>1. Typing /\ Spread
    BY TypingHolds, SpreadHolds
  <1>2. /\ pc[Worker] = "pop_take"
        /\ pc'[Worker] = "pop_clear" /\ pc'[Main] = pc[Main]
        /\ pc' \in [Threads -> QueuePoints \cup {"run"}]
    BY DEF TypeOK, QueueTypeOK, Positions, QueuePoints,
           PushPoints, PopPoints, WaitPoints, pop_take, Goto
  <1>3. /\ HasAnnouncement = 0 /\ HasAnnouncement' = 0
        /\ Unreturned = 1 /\ Unreturned' = 1
        /\ At(Worker, {"run"}) = 0 /\ At(Worker, {"run"})' = 0
        /\ HasPermit' = HasPermit /\ HasPermit \in {0, 1}
        /\ Unpublished' = Unpublished /\ Unpublished \in {0, 1}
        /\ Unannounced' = Unannounced /\ Unannounced \in {0, 1}
    BY <1>2 DEF HasPermit, Unpublished, Unannounced,
           HasAnnouncement, Unreturned, At
  <1>4. WorkerSlot
    BY <1>3, WorkerSlotHolds
  <1> USE DEF pop_take, Typing, WorkerSlot
  <1>5. Accounting'
    BY <1>1, <1>2, <1>3, <1>4 DEF Accounting
  <1>6. Positions'
    BY <1>1, <1>2, <1>3, <1>4 DEF TypeOK, QueueTypeOK, Positions
  <1>7. TypeOK'
    BY <1>1, <1>2, <1>3, <1>4, <1>5, Laps DEF TypeOK, QueueTypeOK, QueuePoints,
           PushPoints, PopPoints, WaitPoints, Accounting, SlotOf, Slots, InHand
  <1>8. RingContents'
    <2>1. ASSUME NEW k \in Nat, head' <= k, k + Unpublished' < tail'
          PROVE  /\ initialized'[normilize_ring_slot(k)]
                 /\ object'[normilize_ring_slot(k)] = claimed'[k + 1]
      <3>1. head <= k /\ k + Unpublished < tail
        BY <1>1, <1>2, <1>3, <1>4, <2>1 DEF Spread
      <3>2. /\ initialized[normilize_ring_slot(k)]
            /\ object[normilize_ring_slot(k)] = claimed[k + 1]
        BY <3>1 DEF RingContents
      <3>3. k + 1 < head + RingSize
        BY <1>1, <1>2, <1>3, <1>4, <3>1 DEF Spread
      <3>4. normilize_ring_slot(k) \in Slots /\ normilize_ring_slot(k) # SlotOf(Worker)
        BY <1>4, <3>1, <3>3, Laps
      <3> QED BY <1>1, <1>2, <1>3, <1>4, <3>2, <3>4
    <2>2. ASSUME NEW k \in Nat, tail' <= k + Unpublished',
                 k + Unreturned' < head' + RingSize
          PROVE  ~initialized'[normilize_ring_slot(k)]
      BY <1>1, <1>2, <1>3, <1>4, <2>2, Laps DEF Spread, Positions, RingContents
    <2> QED BY <2>1, <2>2 DEF RingContents
  <1>9. InHand'
    <2>1. pc[Main] = "push_publish" =>
              SlotOf(Worker) # SlotOf(Main) /\ SlotOf(Main) \in Slots
      BY <1>3, SlotsApart DEF Unpublished, At
    <2>2. SlotOf(Main)' = SlotOf(Main) /\ SlotOf(Worker)' = SlotOf(Worker)
      BY DEF SlotOf
    <2> QED BY <1>1, <1>2, <1>3, <1>4, <2>1, <2>2 DEF InHand
  <1>10. History'
    BY <1>1, <1>2, <1>3, <1>4 DEF History
  <1> QED BY <1>5, <1>6, <1>7, <1>8, <1>9, <1>10 DEF IInv

\* take clears the flag.
LEMMA pop_clearInv ==
    ASSUME IInv, pop_clear(Worker),
           UNCHANGED <<push_task_semaphore, pop_task_semaphore, executed>>
    PROVE  IInv'
  <1> USE Constants DEF IInv
  <1>1. Typing /\ Spread
    BY TypingHolds, SpreadHolds
  <1>2. /\ pc[Worker] = "pop_clear"
        /\ pc'[Worker] = "pop_clear_again" /\ pc'[Main] = pc[Main]
        /\ pc' \in [Threads -> QueuePoints \cup {"run"}]
    BY DEF TypeOK, QueueTypeOK, Positions, QueuePoints,
           PushPoints, PopPoints, WaitPoints, pop_clear, Goto
  <1>3. /\ HasAnnouncement = 0 /\ HasAnnouncement' = 0
        /\ Unreturned = 1 /\ Unreturned' = 1
        /\ At(Worker, {"run"}) = 0 /\ At(Worker, {"run"})' = 0
        /\ HasPermit' = HasPermit /\ HasPermit \in {0, 1}
        /\ Unpublished' = Unpublished /\ Unpublished \in {0, 1}
        /\ Unannounced' = Unannounced /\ Unannounced \in {0, 1}
    BY <1>2 DEF HasPermit, Unpublished, Unannounced,
           HasAnnouncement, Unreturned, At
  <1>4. WorkerSlot
    BY <1>3, WorkerSlotHolds
  <1> USE DEF pop_clear, Typing, WorkerSlot
  <1>5. Accounting'
    BY <1>1, <1>2, <1>3, <1>4 DEF Accounting
  <1>6. Positions'
    BY <1>1, <1>2, <1>3, <1>4 DEF TypeOK, QueueTypeOK, Positions
  <1>7. TypeOK'
    BY <1>1, <1>2, <1>3, <1>4, <1>5, Laps DEF TypeOK, QueueTypeOK, QueuePoints,
           PushPoints, PopPoints, WaitPoints, Accounting, SlotOf, Slots, InHand
  <1>8. RingContents'
    <2>1. ASSUME NEW k \in Nat, head' <= k, k + Unpublished' < tail'
          PROVE  /\ initialized'[normilize_ring_slot(k)]
                 /\ object'[normilize_ring_slot(k)] = claimed'[k + 1]
      <3>1. head <= k /\ k + Unpublished < tail
        BY <1>1, <1>2, <1>3, <1>4, <2>1 DEF Spread
      <3>2. /\ initialized[normilize_ring_slot(k)]
            /\ object[normilize_ring_slot(k)] = claimed[k + 1]
        BY <3>1 DEF RingContents
      <3>3. k + 1 < head + RingSize
        BY <1>1, <1>2, <1>3, <1>4, <3>1 DEF Spread
      <3>4. normilize_ring_slot(k) \in Slots /\ normilize_ring_slot(k) # SlotOf(Worker)
        BY <1>4, <3>1, <3>3, Laps
      <3> QED BY <1>1, <1>2, <1>3, <1>4, <3>2, <3>4
    <2>2. ASSUME NEW k \in Nat, tail' <= k + Unpublished',
                 k + Unreturned' < head' + RingSize
          PROVE  ~initialized'[normilize_ring_slot(k)]
      BY <1>1, <1>2, <1>3, <1>4, <2>2, Laps DEF Spread, Positions, RingContents
    <2> QED BY <2>1, <2>2 DEF RingContents
  <1>9. InHand'
    BY <1>1, <1>2, <1>3, <1>4 DEF InHand, Positions, SlotOf
  <1>10. History'
    BY <1>1, <1>2, <1>3, <1>4 DEF History
  <1> QED BY <1>5, <1>6, <1>7, <1>8, <1>9, <1>10 DEF IInv

\* try_pop clears the flag again; main cannot have published in between.
LEMMA pop_clear_againInv ==
    ASSUME IInv, pop_clear_again(Worker),
           UNCHANGED <<push_task_semaphore, pop_task_semaphore, executed>>
    PROVE  IInv'
  <1> USE Constants DEF IInv
  <1>1. Typing /\ Spread
    BY TypingHolds, SpreadHolds
  <1>2. /\ pc[Worker] = "pop_clear_again"
        /\ pc'[Worker] = "popped" /\ pc'[Main] = pc[Main]
        /\ pc' \in [Threads -> QueuePoints \cup {"run"}]
    BY DEF TypeOK, QueueTypeOK, Positions, QueuePoints,
           PushPoints, PopPoints, WaitPoints, pop_clear_again, Goto
  <1>3. /\ HasAnnouncement = 0 /\ HasAnnouncement' = 0
        /\ Unreturned = 1 /\ Unreturned' = 1
        /\ At(Worker, {"run"}) = 0 /\ At(Worker, {"run"})' = 0
        /\ HasPermit' = HasPermit /\ HasPermit \in {0, 1}
        /\ Unpublished' = Unpublished /\ Unpublished \in {0, 1}
        /\ Unannounced' = Unannounced /\ Unannounced \in {0, 1}
    BY <1>2 DEF HasPermit, Unpublished, Unannounced,
           HasAnnouncement, Unreturned, At
  <1>4. WorkerSlot
    BY <1>3, WorkerSlotHolds
  <1> USE DEF pop_clear_again, Typing, WorkerSlot
  <1>5. Accounting'
    BY <1>1, <1>2, <1>3, <1>4 DEF Accounting
  <1>6. Positions'
    BY <1>1, <1>2, <1>3, <1>4 DEF TypeOK, QueueTypeOK, Positions
  <1>7. TypeOK'
    BY <1>1, <1>2, <1>3, <1>4, <1>5, Laps DEF TypeOK, QueueTypeOK, QueuePoints,
           PushPoints, PopPoints, WaitPoints, Accounting, SlotOf, Slots, InHand
  <1>8. RingContents'
    <2>1. ASSUME NEW k \in Nat, head' <= k, k + Unpublished' < tail'
          PROVE  /\ initialized'[normilize_ring_slot(k)]
                 /\ object'[normilize_ring_slot(k)] = claimed'[k + 1]
      <3>1. head <= k /\ k + Unpublished < tail
        BY <1>1, <1>2, <1>3, <1>4, <2>1 DEF Spread
      <3>2. /\ initialized[normilize_ring_slot(k)]
            /\ object[normilize_ring_slot(k)] = claimed[k + 1]
        BY <3>1 DEF RingContents
      <3>3. k + 1 < head + RingSize
        BY <1>1, <1>2, <1>3, <1>4, <3>1 DEF Spread
      <3>4. normilize_ring_slot(k) \in Slots /\ normilize_ring_slot(k) # SlotOf(Worker)
        BY <1>4, <3>1, <3>3, Laps
      <3> QED BY <1>1, <1>2, <1>3, <1>4, <3>2, <3>4
    <2>2. ASSUME NEW k \in Nat, tail' <= k + Unpublished',
                 k + Unreturned' < head' + RingSize
          PROVE  ~initialized'[normilize_ring_slot(k)]
      BY <1>1, <1>2, <1>3, <1>4, <2>2, Laps DEF Spread, Positions, RingContents
    <2> QED BY <2>1, <2>2 DEF RingContents
  <1>9. InHand'
    BY <1>1, <1>2, <1>3, <1>4 DEF InHand, Positions, SlotOf
  <1>10. History'
    BY <1>1, <1>2, <1>3, <1>4 DEF History
  <1> QED BY <1>5, <1>6, <1>7, <1>8, <1>9, <1>10 DEF IInv

\* The indices a thread has loaded are still current: neither loses a race.
LEMMA NoLostRace ==
    ASSUME IInv
    PROVE  ~push_claim_fails(Main) /\ ~pop_claim_fails(Worker)
  BY DEF IInv, Positions, push_claim_fails, pop_claim_fails

\* A stuttering step.
LEMMA StutterInv ==
    ASSUME IInv, UNCHANGED vars
    PROVE  IInv'
  <1> USE DEF IInv, vars, queueVars
  <1>1. /\ HasPermit' = HasPermit /\ Unpublished' = Unpublished
        /\ Unannounced' = Unannounced /\ HasAnnouncement' = HasAnnouncement
        /\ Unreturned' = Unreturned
        /\ At(Worker, {"run"})' = At(Worker, {"run"})
    BY DEF HasPermit, Unpublished, Unannounced, HasAnnouncement, Unreturned, At
  <1>2. TypeOK'
    BY DEF TypeOK, QueueTypeOK
  <1>3. Accounting' /\ Positions' /\ History'
    BY <1>1 DEF Accounting, Positions, History
  <1>4. RingContents' /\ InHand'
    BY <1>1 DEF RingContents, InHand, SlotOf
  <1> QED BY <1>2, <1>3, <1>4

\* The invariant is inductive.
LEMMA NextInv == IInv /\ [Next]_vars => IInv'
  <1> SUFFICES ASSUME IInv, [Next]_vars PROVE IInv'
    OBVIOUS
  <1>1. CASE MainThread
    <2>1. CASE push_task_begin
      BY <2>1, push_task_beginInv
    <2>2. CASE push_task_end
      BY <2>2, push_task_endInv
    <2>3. CASE MainStep
      BY <2>3, NoLostRace, push_load_tailInv, push_load_headInv,
         push_claim_tailInv, push_await_slotInv, push_emplaceInv,
         push_publishInv DEF MainStep, PushStep
    <2> QED BY <1>1, <2>1, <2>2, <2>3 DEF MainThread
  <1>2. CASE WorkerThread
    <2>1. CASE try_get_task_begin
      BY <2>1, try_get_task_beginInv
    <2>2. CASE try_get_task_end
      BY <2>2, try_get_task_endInv
    <2>3. CASE execute_task
      BY <2>3, execute_taskInv
    <2>4. CASE WorkerStep
      BY <2>4, NoLostRace, pop_load_headInv, pop_load_tailInv,
         pop_claim_headInv, pop_await_objectInv, pop_takeInv, pop_clearInv,
         pop_clear_againInv DEF WorkerStep, PopStep
    <2> QED BY <1>2, <2>1, <2>2, <2>3, <2>4 DEF WorkerThread
  <1>3. CASE UNCHANGED vars
    BY <1>3, StutterInv
  <1> QED BY <1>1, <1>2, <1>3 DEF Next

\* The inductive invariant holds in every reachable state.
THEOREM Invariance == Spec => []IInv
  <1>1. Init => IInv
    BY InitInv
  <1>2. IInv /\ [Next]_vars => IInv'
    BY NextInv
  <1> QED BY <1>1, <1>2, PTL DEF Spec, Safety

-----------------------------------------------------------------------------

\* The variables keep their types and the semaphores their ranges, so
\* neither counting_semaphore can exceed its maximum.
THEOREM TypeCorrect == Spec => []TypeOK
  <1>1. IInv => TypeOK
    BY DEF IInv
  <1> QED BY <1>1, Invariance, PTL

\* scheduler.h:54-56 is right: with fewer permits than ring slots and one
\* worker, try_push never returns false to push_task.
THEOREM NeverRejected == Spec => []PushTaskNeverRejected
  <1>1. IInv => PushTaskNeverRejected
    BY DEF IInv, Positions, PushTaskNeverRejected
  <1> QED BY <1>1, Invariance, PTL

\* A worker that has passed pop_task_semaphore_ finds a task.
THEOREM NeverEmptyHanded == Spec => []WorkerNeverEmptyHanded
  <1>1. IInv => WorkerNeverEmptyHanded
    BY DEF IInv, Positions, WorkerNeverEmptyHanded
  <1> QED BY <1>1, Invariance, PTL

\* Main and the worker never touch one slot at a time, so object_ has no data
\* race, main does not sleep in try_push and the doubled clear is harmless.
THEOREM SlotsNeverShared == Spec => []SlotsDisjoint
  <1>1. IInv => SlotsDisjoint
    <2> SUFFICES ASSUME IInv, PushOwns(Main) PROVE SlotsDisjoint
      BY DEF SlotsDisjoint
    <2>1. Unpublished = 1
      BY DEF PushOwns, Unpublished, At
    <2>2. PopOwns(Worker) => Unreturned = 1
      BY DEF PopOwns, Unreturned, At
    <2>3. Typing /\ Spread /\ MainSlot
      BY <2>1, TypingHolds, SpreadHolds, MainSlotHolds
    <2>4. tail <= index[Main] + Unpublished /\ index[Main] + Unreturned < head + RingSize
      BY <2>1, <2>3, Constants, Counts DEF Typing, Spread, MainSlot
    <2>5. ~initialized[SlotOf(Main)]
      BY <2>3, <2>4 DEF IInv, RingContents, SlotOf, MainSlot
    <2> QED BY <2>1, <2>2, <2>5, SlotsApart DEF SlotsDisjoint
  <1> QED BY <1>1, Invariance, PTL

\* Every task is executed at most once, in the order of push_task, and no
\* pushed task is skipped.
THEOREM FifoExecution == Spec => []ExecutedInOrder
  <1>1. IInv => ExecutedInOrder
    <2> SUFFICES ASSUME IInv PROVE ExecutedInOrder
      OBVIOUS
    <2>1. Typing /\ Spread
      BY TypingHolds, SpreadHolds
    <2>2. At(Worker, {"run"}) \in {0, 1}
      BY DEF At
    <2>3. Len(executed) <= Len(claimed)
      BY <2>1, <2>2, Counts DEF IInv, History, Positions, Typing, Spread
    <2> QED BY <2>3 DEF IInv, History, ExecutedInOrder
  <1> QED BY <1>1, Invariance, PTL

\* A step of the scheduler is a step of the bounded FIFO or changes nothing
\* that the FIFO can see.
LEMMA StepSimulation == IInv /\ [Next]_vars => [Fifo!FifoNext]_(Fifo!fifoVars)
  <1> SUFFICES ASSUME IInv, [Next]_vars
               PROVE  Fifo!FifoNext \/ UNCHANGED <<claimed, executed>>
    BY DEF Fifo!fifoVars
  <1>0. Typing /\ Spread
    BY TypingHolds, SpreadHolds
  <1>1. CASE push_claim_tail(Main) /\ UNCHANGED executed
    <2>1. /\ pc[Main] = "push_claim"
          /\ claimed' = Append(claimed, item[Main])
          /\ item[Main] \in Items
          /\ tail = Len(claimed) /\ tail < MaxTasks
      BY <1>1 DEF push_claim_tail, IInv, InHand, Positions
    <2>2. HasPermit = 1
      BY <2>1 DEF HasPermit, At
    <2>3. At(Worker, {"run"}) \in {0, 1}
      BY DEF At
    <2>4. Len(executed) + Unreturned + At(Worker, {"run"}) = head
      BY DEF IInv, History
    <2>5. push_task_semaphore + HasPermit + tail + Unreturned = Permits + head
      BY DEF IInv, Accounting
    <2>6. Len(claimed) < Len(executed) + (Permits + 1)
      BY <1>0, <2>1, <2>2, <2>3, <2>4, <2>5, Constants, Counts DEF Typing
    <2> QED BY <1>1, <2>1, <2>6 DEF Fifo!FifoNext, Fifo!Accept
  <1>2. CASE execute_task
    <2>1. /\ pc[Worker] = "run"
          /\ executed' = Append(executed, item[Worker])
          /\ UNCHANGED claimed
          /\ item[Worker] = claimed[index[Worker] + 1]
          /\ index[Worker] + 1 = head
      BY <1>2 DEF execute_task, IInv, InHand
    <2>2. Unreturned = 0 /\ At(Worker, {"run"}) = 1
      BY <2>1 DEF Unreturned, At
    <2>3. Len(executed) + 1 = head /\ tail = Len(claimed)
      BY <1>0, <2>2 DEF IInv, History, Positions, Typing
    <2>4. Len(executed) < Len(claimed)
      BY <1>0, <2>3, Counts DEF Typing, Spread
    <2>5. executed' = Append(executed, claimed[Len(executed) + 1])
      BY <2>1, <2>3
    <2> QED BY <2>1, <2>4, <2>5 DEF Fifo!FifoNext, Fifo!Execute
  <1>3. CASE UNCHANGED <<claimed, executed>>
    BY <1>3
  <1>4. \/ push_claim_tail(Main) /\ UNCHANGED executed
        \/ execute_task
        \/ UNCHANGED <<claimed, executed>>
    BY DEF Next, MainThread, WorkerThread, MainStep, WorkerStep, PushStep,
           PopStep, push_task_begin, push_task_end, try_get_task_begin,
           try_get_task_end, call_try_push, call_try_pop, push_load_tail,
           push_load_head, push_claim_fails, push_await_slot, push_emplace,
           push_publish, pop_load_head, pop_load_tail, pop_claim_head,
           pop_claim_fails, pop_await_object, pop_take, pop_clear,
           pop_clear_again, vars, queueVars
  <1> QED BY <1>1, <1>2, <1>3, <1>4

\* push_task and worker_loop together implement the bounded FIFO TaskFifo
\* (its safety part).
THEOREM RefinesFifo == Spec => Fifo!FifoSafety
  <1>1. Init => Fifo!FifoInit
    BY DEF Init, QueueInit, Fifo!FifoInit
  <1>2. IInv /\ [Next]_vars => [Fifo!FifoNext]_(Fifo!fifoVars)
    BY StepSimulation
  <1> QED BY <1>1, <1>2, Invariance, PTL DEF Spec, Safety, Fifo!FifoSafety

=============================================================================
