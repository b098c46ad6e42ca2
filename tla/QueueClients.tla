---------------------------- MODULE QueueClients ----------------------------
(***************************************************************************)
(* The threads that share an AtomicQueue without a semaphore around it:    *)
(*   - the tag queue of Scheduler::coroutine_loop, pushed by the network   *)
(*     and the console thread and emptied by the main thread, which calls  *)
(*     wait_for_data before every try_pop (use = "tags");                  *)
(*   - available_slots_ of ObjectPool, pushed and popped by the worker and *)
(*     by the network thread with no waiting (use = "slots").              *)
(* The callers push without asking for room, and nothing in the ring stops *)
(* a push from lapping a pop that has claimed its index but is not         *)
(* finished.  lapped remembers that this has happened: from then on a pop  *)
(* may erase the flag of a newer element, and the ring promises nothing.   *)
(***************************************************************************)
EXTENDS AtomicQueue, FiniteSetsExt

CONSTANTS
    Tag,        \* what each producer pushes into the tag queue
    Main,       \* the main thread, the only popper of the tag queue
    MaxPushes   \* bound: how many elements are pushed in each use

ASSUME ClientAssumption ==
    /\ IsFiniteSet(Pushers)
    /\ Tag \in [Pushers -> Items]
    /\ Main \in Poppers \ Pushers
    /\ MaxPushes \in [{"tags", "slots"} -> Nat]

VARIABLES
    use,     \* which of the two queues this is
    lapped   \* history: a push has claimed the slot of an unfinished pop

vars == <<queueVars, use, lapped>>

\* Who pops: the main thread, or the threads that also push.
Takers == IF use = "tags" THEN {Main} ELSE Poppers \ {Main}

\* Pushers that are inside try_push and have not claimed an index yet.
Contending ==
    {t \in Pushers : pc[t] \in {"push", "push_check", "push_claim"}}

\* The index of the oldest pop that is not finished, or of the next one.
OldestPop == Min({head} \cup {index[t] : t \in {p \in Poppers : PopOwns(p)}})

\* A thread pushes whenever it likes, until MaxPushes elements are queued.
start_push(t) ==
    /\ pc[t] = "idle"
    /\ Len(claimed) + Cardinality(Contending) < MaxPushes[use]
    /\ \E v \in IF use = "tags" THEN {Tag[t]} ELSE Items : call_try_push(t, v)

\* Every caller without a semaphore ignores what try_push returns.
end_push(t) ==
    /\ pc[t] \in {"pushed", "rejected"}
    /\ Goto(t, "idle")
    /\ item' = [item EXCEPT ![t] = NoItem]
    /\ UNCHANGED <<head, tail, initialized, object, index, claimed>>

start_wait(t) ==
    /\ use = "tags"
    /\ pc[t] = "idle"
    /\ call_wait_for_data(t)

start_pop(t) ==
    /\ pc[t] = (IF use = "tags" THEN "ready" ELSE "idle")
    /\ call_try_pop(t)

\* The popper uses the element and drops it, or sees nullopt.
end_pop(t) ==
    /\ pc[t] \in {"popped", "empty"}
    /\ Goto(t, "idle")
    /\ item' = [item EXCEPT ![t] = NoItem]
    /\ UNCHANGED <<head, tail, initialized, object, index, claimed>>

\* The claim of index tail reaches round the ring to an unfinished pop.
Track ==
    /\ lapped' = (lapped \/ tail' > OldestPop + RingSize)
    /\ UNCHANGED use

Init == QueueInit /\ use \in {"tags", "slots"} /\ lapped = FALSE

PushThread(t) == start_push(t) \/ PushStep(t) \/ end_push(t)
PopThread(t) ==
    /\ t \in Takers
    /\ start_wait(t) \/ WaitStep(t) \/ start_pop(t) \/ PopStep(t) \/ end_pop(t)

Next ==
    /\ (\E t \in Pushers : PushThread(t)) \/ (\E t \in Poppers : PopThread(t))
    /\ Track

\* The operating system schedules every thread; nobody is made to start a
\* push or, in the pool, a pop.
Fairness ==
    /\ \A t \in Pushers : WF_vars((PushStep(t) \/ end_push(t)) /\ Track)
    /\ WF_vars(PopThread(Main) /\ Track)

Spec == Init /\ [][Next]_vars /\ Fairness

-----------------------------------------------------------------------------

\* try_pop returns the element that try_push claimed the same index for:
\* elements leave the ring in the order of the claims, none is lost, none is
\* seen twice, as long as no push laps a pop (atomic_queue.h:41-63 and 65-90).
FifoDelivery ==
    \A t \in Poppers :
        ~lapped /\ pc[t] \in {"pop_clear", "pop_clear_again", "popped"} =>
            item[t] = claimed[index[t] + 1]

AtObject(t) == pc[t] \in {"push_emplace", "pop_take"}

\* A thread that sleeps on the flag of its slot until another one notifies.
Sleeps(t) ==
    \/ pc[t] = "push_wait" /\ initialized[SlotOf(t)]
    \/ pc[t] \in {"pop_wait", "wait_flag"} /\ ~initialized[SlotOf(t)]

\* object_ is not atomic: no two threads are at an access to the object of one
\* slot (emplace at atomic_queue.h:83, take at atomic_queue.h:15).  And
\* notify_one is enough: no two threads sleep on the flag of one slot
\* (atomic_queue.h:52, 81 and 100), so the sleeper is the one that is woken.
\* Both as long as no push laps a pop.
OneThreadPerSlot ==
    \A t, u \in Threads :
        /\ ~lapped
        /\ t # u
        /\ (AtObject(t) /\ AtObject(u)) \/ (Sleeps(t) /\ Sleeps(u))
        => SlotOf(t) # SlotOf(u)

\* The only popper of a queue that waits first never gets nullopt after
\* wait_for_data has returned: the narrowed head still names the slot of the
\* next element (atomic_queue.h:93, scheduler.cpp:59-61).
WaitSeesTheHead ==
    ~lapped =>
        /\ pc[Main] \in {"wait_flag", "ready"} =>
               SlotOf(Main) = normilize_ring_slot(head)
        /\ pc[Main] # "empty"

\* try_push answers false only if the ring is one short of full, or if another
\* push has moved tail since this one has loaded it: then the old tail is
\* compared with a newer head and a ring that has room looks full
\* (atomic_queue.h:67-74).  A queue with a single producer is never refused
\* while it has room.
RefusedWithCause ==
    [][\A t \in Pushers :
           pc[t] = "push_check" /\ pc'[t] = "rejected" =>
               lapped \/ tail = head + RingSize - 1 \/ tail # index[t]]_vars

\* A tag whose index is claimed is popped eventually: no wake-up is
\* missed and no flag is lost, as long as no push laps a pop.
EveryElementPopped ==
    \A k \in 1 .. MaxPushes["tags"] :
        (use = "tags" /\ Len(claimed) >= k) ~> (head >= k \/ lapped)

\* try_push is lock-free: a thread that tries for ever loses the race to ever
\* new claims of others, never to nothing (atomic_queue.h:66-79).  That one
\* thread does not lose for ever is not promised.
PushLockFree ==
    \A t \in Pushers :
        []<>(t \notin Contending) \/ []<><<tail' > tail>>_tail

-----------------------------------------------------------------------------
=============================================================================
