----------------------------- MODULE AtomicQueue -----------------------------
(***************************************************************************)
(* The lock-free ring of src/src/core/atomic_queue.h, one action for each  *)
(* access to shared memory (all of them sequentially consistent in the     *)
(* code).  The module holds the operations only; QueueClients and          *)
(* Scheduler say which threads call them and when.                         *)
(*                                                                         *)
(* A thread enters try_push at "push" and leaves it at "pushed" (true) or  *)
(* "rejected" (false); it enters try_pop at "pop" and leaves it at         *)
(* "popped" or "empty" (nullopt); it enters wait_for_data at "wait" and    *)
(* leaves it at "ready".  atomic::wait(v) followed by the re-check of the  *)
(* flag is one step, enabled when the flag has changed: every store that   *)
(* a thread waits for is followed by a notify in the same operation.       *)
(* The 64-bit counters head and tail are natural numbers here: they would  *)
(* need 2^64 operations to wrap.                                           *)
(***************************************************************************)
EXTENDS Naturals, Sequences

CONSTANTS
    RingSize,     \* RING_BUFFER_SIZE, 4096 in the code
    NarrowLimit,  \* 2^16: wait_for_data keeps head in a uint16_t
    Pushers,      \* threads that call try_push
    Poppers,      \* threads that call try_pop and wait_for_data
    Items,        \* what is queued: slot numbers, task tags, tasks, lines
    NoItem        \* no object: a destroyed or moved-from object_

ASSUME RingAssumption ==
    /\ RingSize \in Nat \ {0, 1}
    /\ NarrowLimit \in Nat \ {0}
    /\ NarrowLimit % RingSize = 0

ASSUME ItemAssumption == NoItem \notin Items

VARIABLES
    head,         \* head: index of the next element to pop
    tail,         \* tail: index of the next free element
    initialized,  \* AtomicSlot::is_initialized_ of every ring slot
    object,       \* AtomicSlot::object_ of every ring slot
    pc,           \* where each thread stands in an operation
    index,        \* its local last_free_index / last_busy_index
    item,         \* the object it pushes, or has popped
    claimed       \* history: claimed[i+1] is the item pushed at index i

queueVars == <<head, tail, initialized, object, pc, index, item, claimed>>

Threads == Pushers \cup Poppers
Slots == 0 .. RingSize - 1

\* The names of the program points, by operation.
PushPoints ==
    {"push", "push_check", "push_claim", "push_wait", "push_emplace",
     "push_publish", "pushed", "rejected"}
PopPoints ==
    {"pop", "pop_check", "pop_claim", "pop_wait", "pop_take", "pop_clear",
     "pop_clear_again", "popped", "empty"}
WaitPoints == {"wait", "wait_flag", "ready"}
QueuePoints == {"idle"} \cup PushPoints \cup PopPoints \cup WaitPoints

\* RING_BUFFER_SIZE is a power of two, so the mask is a remainder.
normilize_ring_slot(i) == i % RingSize

\* The implicit conversion of head.load() to uint16_t.
narrow(i) == i % NarrowLimit

\* The slot a thread works on between its claim and its return.
SlotOf(t) == normilize_ring_slot(index[t])

QueueInit ==
    /\ head = 0
    /\ tail = 0
    /\ initialized = [s \in Slots |-> FALSE]
    /\ object = [s \in Slots |-> NoItem]
    /\ pc = [t \in Threads |-> "idle"]
    /\ index = [t \in Threads |-> 0]
    /\ item = [t \in Threads |-> NoItem]
    /\ claimed = <<>>

Goto(t, point) == pc' = [pc EXCEPT ![t] = point]

-----------------------------------------------------------------------------
(* try_push                                                                *)

\* The call: the thread arrives with the object it wants to queue.
call_try_push(t, v) ==
    /\ Goto(t, "push")
    /\ item' = [item EXCEPT ![t] = v]
    /\ UNCHANGED <<head, tail, initialized, object, index, claimed>>

push_load_tail(t) ==
    /\ pc[t] = "push"
    /\ index' = [index EXCEPT ![t] = tail]
    /\ Goto(t, "push_check")
    /\ UNCHANGED <<head, tail, initialized, object, item, claimed>>

\* Mutant: the ring counts as full when the positions meet, as when it is empty.
LooksFull_meets(free, busy) ==
    normilize_ring_slot(free) = normilize_ring_slot(busy)

\* The test for a full ring.  It compares normalized positions without
\* normalizing the sum, so it is never true for the last slot of the ring.
LooksFull(free, busy) ==
    normilize_ring_slot(free) + 1 = normilize_ring_slot(busy)

push_load_head(t) ==
    /\ pc[t] = "push_check"
    /\ Goto(t, IF LooksFull(index[t], head) THEN "rejected" ELSE "push_claim")
    /\ UNCHANGED <<head, tail, initialized, object, index, item, claimed>>

\* Mutant: the compare-exchange of tail is a plain store.
push_claim_tail_stored(t) ==
    /\ pc[t] = "push_claim"
    /\ tail' = index[t] + 1
    /\ claimed' = Append(claimed, item[t])
    /\ Goto(t, "push_wait")
    /\ UNCHANGED <<head, initialized, object, index, item>>

push_claim_tail(t) ==
    /\ pc[t] = "push_claim"
    /\ tail = index[t]
    /\ tail' = tail + 1
    /\ claimed' = Append(claimed, item[t])
    /\ Goto(t, "push_wait")
    /\ UNCHANGED <<head, initialized, object, index, item>>

\* Mutant: after a lost race the counters are not loaded again.
push_claim_fails_no_reload(t) ==
    /\ pc[t] = "push_claim"
    /\ tail # index[t]
    /\ Goto(t, "push_check")
    /\ UNCHANGED <<head, tail, initialized, object, index, item, claimed>>

push_claim_fails(t) ==
    /\ pc[t] = "push_claim"
    /\ tail # index[t]
    /\ Goto(t, "push")
    /\ UNCHANGED <<head, tail, initialized, object, index, item, claimed>>

push_await_slot(t) ==
    /\ pc[t] = "push_wait"
    /\ ~initialized[SlotOf(t)]
    /\ Goto(t, "push_emplace")
    /\ UNCHANGED <<head, tail, initialized, object, index, item, claimed>>

\* Mutant: the slot is computed from tail again, which the claim has moved.
push_emplace_at_tail(t) ==
    /\ pc[t] = "push_emplace"
    /\ object' = [object EXCEPT ![normilize_ring_slot(tail)] = item[t]]
    /\ Goto(t, "push_publish")
    /\ UNCHANGED <<head, tail, initialized, index, item, claimed>>

push_emplace(t) ==
    /\ pc[t] = "push_emplace"
    /\ object' = [object EXCEPT ![SlotOf(t)] = item[t]]
    /\ Goto(t, "push_publish")
    /\ UNCHANGED <<head, tail, initialized, index, item, claimed>>

\* Mutant: the flag is not set.
push_publish_no_flag(t) ==
    /\ pc[t] = "push_publish"
    /\ item' = [item EXCEPT ![t] = NoItem]
    /\ Goto(t, "pushed")
    /\ UNCHANGED <<head, tail, initialized, object, index, claimed>>

push_publish(t) ==
    /\ pc[t] = "push_publish"
    /\ initialized' = [initialized EXCEPT ![SlotOf(t)] = TRUE]
    /\ item' = [item EXCEPT ![t] = NoItem]
    /\ Goto(t, "pushed")
    /\ UNCHANGED <<head, tail, object, index, claimed>>

-----------------------------------------------------------------------------
(* try_pop                                                                 *)

call_try_pop(t) ==
    /\ Goto(t, "pop")
    /\ UNCHANGED <<head, tail, initialized, object, index, item, claimed>>

pop_load_head(t) ==
    /\ pc[t] = "pop"
    /\ index' = [index EXCEPT ![t] = head]
    /\ Goto(t, "pop_check")
    /\ UNCHANGED <<head, tail, initialized, object, item, claimed>>

pop_load_tail(t) ==
    /\ pc[t] = "pop_check"
    /\ Goto(t, IF index[t] = tail THEN "empty" ELSE "pop_claim")
    /\ UNCHANGED <<head, tail, initialized, object, index, item, claimed>>

pop_claim_head(t) ==
    /\ pc[t] = "pop_claim"
    /\ head = index[t]
    /\ head' = head + 1
    /\ Goto(t, "pop_wait")
    /\ UNCHANGED <<tail, initialized, object, index, item, claimed>>

\* Unlike try_push, a lost race is not retried: the caller sees nullopt.
pop_claim_fails(t) ==
    /\ pc[t] = "pop_claim"
    /\ head # index[t]
    /\ Goto(t, "empty")
    /\ UNCHANGED <<head, tail, initialized, object, index, item, claimed>>

\* Mutant: the object is taken without looking at the flag.
pop_await_object_unchecked(t) ==
    /\ pc[t] = "pop_wait"
    /\ Goto(t, "pop_take")
    /\ UNCHANGED <<head, tail, initialized, object, index, item, claimed>>

pop_await_object(t) ==
    /\ pc[t] = "pop_wait"
    /\ initialized[SlotOf(t)]
    /\ Goto(t, "pop_take")
    /\ UNCHANGED <<head, tail, initialized, object, index, item, claimed>>

\* AtomicSlot::take moves the object out and destroys it ...
pop_take(t) ==
    /\ pc[t] = "pop_take"
    /\ item' = [item EXCEPT ![t] = object[SlotOf(t)]]
    /\ object' = [object EXCEPT ![SlotOf(t)] = NoItem]
    /\ Goto(t, "pop_clear")
    /\ UNCHANGED <<head, tail, initialized, index, claimed>>

\* ... and clears the flag; from here on a pusher may reuse the slot.
pop_clear(t) ==
    /\ pc[t] = "pop_clear"
    /\ initialized' = [initialized EXCEPT ![SlotOf(t)] = FALSE]
    /\ Goto(t, "pop_clear_again")
    /\ UNCHANGED <<head, tail, object, index, item, claimed>>

\* try_pop clears the flag a second time, then notifies and returns.
pop_clear_again(t) ==
    /\ pc[t] = "pop_clear_again"
    /\ initialized' = [initialized EXCEPT ![SlotOf(t)] = FALSE]
    /\ Goto(t, "popped")
    /\ UNCHANGED <<head, tail, object, index, item, claimed>>

-----------------------------------------------------------------------------
(* wait_for_data                                                           *)

call_wait_for_data(t) ==
    /\ Goto(t, "wait")
    /\ UNCHANGED <<head, tail, initialized, object, index, item, claimed>>

wait_load_head(t) ==
    /\ pc[t] = "wait"
    /\ index' = [index EXCEPT ![t] = narrow(head)]
    /\ Goto(t, "wait_flag")
    /\ UNCHANGED <<head, tail, initialized, object, item, claimed>>

\* Mutant: a spurious wake-up is taken for data.
wait_await_object_once(t) ==
    /\ pc[t] = "wait_flag"
    /\ Goto(t, "ready")
    /\ UNCHANGED <<head, tail, initialized, object, index, item, claimed>>

wait_await_object(t) ==
    /\ pc[t] = "wait_flag"
    /\ initialized[SlotOf(t)]
    /\ Goto(t, "ready")
    /\ UNCHANGED <<head, tail, initialized, object, index, item, claimed>>

-----------------------------------------------------------------------------

PushStep(t) ==
    \/ push_load_tail(t)
    \/ push_load_head(t)
    \/ push_claim_tail(t)
    \/ push_claim_fails(t)
    \/ push_await_slot(t)
    \/ push_emplace(t)
    \/ push_publish(t)

PopStep(t) ==
    \/ pop_load_head(t)
    \/ pop_load_tail(t)
    \/ pop_claim_head(t)
    \/ pop_claim_fails(t)
    \/ pop_await_object(t)
    \/ pop_take(t)
    \/ pop_clear(t)
    \/ pop_clear_again(t)

WaitStep(t) == wait_load_head(t) \/ wait_await_object(t)

\* Program points at which a thread owns the ring index it has claimed.
PushOwns(t) == pc[t] \in {"push_wait", "push_emplace", "push_publish"}
PopOwns(t) ==
    pc[t] \in {"pop_wait", "pop_take", "pop_clear", "pop_clear_again"}

QueueTypeOK ==
    /\ head \in Nat
    /\ tail \in Nat
    /\ initialized \in [Slots -> BOOLEAN]
    /\ object \in [Slots -> Items \cup {NoItem}]
    /\ index \in [Threads -> Nat]
    /\ item \in [Threads -> Items \cup {NoItem}]
    /\ claimed \in Seq(Items)

=============================================================================
