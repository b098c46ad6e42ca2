------------------------------ MODULE Scheduler ------------------------------
(***************************************************************************)
(* The task queue of src/src/core/scheduler.h and scheduler.cpp: the main  *)
(* thread (its coroutines) calls push_task, the thread of thread_pool_{1}  *)
(* runs worker_loop.  Two counting semaphores surround an AtomicQueue,     *)
(* whose operations are the steps of module AtomicQueue.                   *)
(***************************************************************************)
EXTENDS AtomicQueue

CONSTANTS
    Main,      \* the thread that runs the coroutines
    Worker,    \* the only thread of thread_pool_
    Permits,   \* initial value of push_task_semaphore_, 4095 in the code
    MaxTasks   \* bound: how many tasks are ever pushed

ASSUME SchedulerAssumption ==
    /\ Main # Worker
    /\ Pushers = {Main}
    /\ Poppers = {Worker}
    /\ Permits \in 1 .. RingSize - 1
    /\ MaxTasks \in Nat

VARIABLES
    push_task_semaphore,  \* free permits for push_task
    pop_task_semaphore,   \* tasks announced to the worker
    executed              \* history: the tasks given to their executors

vars == <<queueVars, push_task_semaphore, pop_task_semaphore, executed>>

Init ==
    /\ QueueInit
    /\ push_task_semaphore = Permits
    /\ pop_task_semaphore = 0
    /\ executed = <<>>

\* Mutant: push_task does not take a permit.
push_task_begin_unlimited ==
    /\ pc[Main] = "idle"
    /\ Len(claimed) < MaxTasks
    /\ \E v \in Items : call_try_push(Main, v)
    /\ UNCHANGED <<push_task_semaphore, pop_task_semaphore, executed>>

\* push_task: acquire a permit, build the task, call try_push ...
push_task_begin ==
    /\ pc[Main] = "idle"
    /\ Len(claimed) < MaxTasks
    /\ push_task_semaphore > 0
    /\ push_task_semaphore' = push_task_semaphore - 1
    /\ \E v \in Items : call_try_push(Main, v)
    /\ UNCHANGED <<pop_task_semaphore, executed>>

\* ... and announce it, whatever try_push has returned.
push_task_end ==
    /\ pc[Main] \in {"pushed", "rejected"}
    /\ pop_task_semaphore' = pop_task_semaphore + 1
    /\ Goto(Main, "idle")
    /\ item' = [item EXCEPT ![Main] = NoItem]
    /\ UNCHANGED <<head, tail, initialized, object, index, claimed,
                   push_task_semaphore, executed>>

\* Mutant: the worker does not wait to be told that there is a task.
try_get_task_begin_polling ==
    /\ pc[Worker] = "idle"
    /\ call_try_pop(Worker)
    /\ UNCHANGED <<pop_task_semaphore, push_task_semaphore, executed>>

try_get_task_begin ==
    /\ pc[Worker] = "idle"
    /\ pop_task_semaphore > 0
    /\ pop_task_semaphore' = pop_task_semaphore - 1
    /\ call_try_pop(Worker)
    /\ UNCHANGED <<push_task_semaphore, executed>>

\* Mutant: the permit of a popped task is not given back.
try_get_task_end_kept ==
    /\ pc[Worker] \in {"popped", "empty"}
    /\ Goto(Worker, IF pc[Worker] = "popped" THEN "run" ELSE "idle")
    /\ UNCHANGED <<head, tail, initialized, object, index, item, claimed,
                   push_task_semaphore, pop_task_semaphore, executed>>

\* A popped task frees its place in the ring; after a nullopt the
\* announcement is put back and worker_loop starts over.
try_get_task_end ==
    /\ pc[Worker] \in {"popped", "empty"}
    /\ IF pc[Worker] = "popped"
       THEN /\ push_task_semaphore' = push_task_semaphore + 1
            /\ Goto(Worker, "run")
            /\ UNCHANGED pop_task_semaphore
       ELSE /\ pop_task_semaphore' = pop_task_semaphore + 1
            /\ Goto(Worker, "idle")
            /\ UNCHANGED push_task_semaphore
    /\ UNCHANGED <<head, tail, initialized, object, index, item, claimed,
                   executed>>

\* worker_loop runs the executor of the task to its end.
execute_task ==
    /\ pc[Worker] = "run"
    /\ executed' = Append(executed, item[Worker])
    /\ item' = [item EXCEPT ![Worker] = NoItem]
    /\ Goto(Worker, "idle")
    /\ UNCHANGED <<head, tail, initialized, object, index, claimed,
                   push_task_semaphore, pop_task_semaphore>>

MainStep == PushStep(Main)
    /\ UNCHANGED <<push_task_semaphore, pop_task_semaphore, executed>>
WorkerStep == PopStep(Worker)
    /\ UNCHANGED <<push_task_semaphore, pop_task_semaphore, executed>>

MainThread == push_task_begin \/ MainStep \/ push_task_end
WorkerThread ==
    \/ try_get_task_begin
    \/ WorkerStep
    \/ try_get_task_end
    \/ execute_task

Next == MainThread \/ WorkerThread

\* Both threads are scheduled; main need not push another task.
Fairness == WF_vars(MainStep \/ push_task_end) /\ WF_vars(WorkerThread)

Safety == Init /\ [][Next]_vars
Spec == Safety /\ Fairness

-----------------------------------------------------------------------------

\* Every variable keeps its type; the semaphores stay in their ranges.
TypeOK ==
    /\ QueueTypeOK
    /\ pc \in [Threads -> QueuePoints \cup {"run"}]
    /\ pc[Main] \in {"idle"} \cup PushPoints
    /\ pc[Worker] \in {"idle", "run"} \cup PopPoints
    /\ push_task_semaphore \in 0 .. Permits
    /\ pop_task_semaphore \in 0 .. Permits
    /\ executed \in Seq(Items)

\* push_task may ignore the result of try_push: "this is invariant and ...
\* should never happen" (scheduler.h:54-56).
PushTaskNeverRejected == pc[Main] # "rejected"

\* A worker that has been told of a task gets it: try_pop neither finds the
\* ring empty nor loses a race (scheduler.cpp:33-37), so the loop never spins.
WorkerNeverEmptyHanded == pc[Worker] # "empty"

\* The permits keep main out of the slot the worker is still emptying: main
\* never sleeps inside try_push (atomic_queue.h:80-82) and the worker's
\* second clear of a flag never erases a new task (atomic_queue.h:56).
SlotsDisjoint ==
    PushOwns(Main) =>
        /\ ~initialized[SlotOf(Main)]
        /\ PopOwns(Worker) => SlotOf(Worker) # SlotOf(Main)

\* The tasks executed are the tasks pushed, each once and in order.
ExecutedInOrder ==
    /\ Len(executed) <= Len(claimed)
    /\ \A i \in 1 .. Len(executed) : executed[i] = claimed[i]

\* The hand-over implements the bounded FIFO.  A task leaves the ring before
\* it is executed, so one more than Permits can be in flight.
Fifo == INSTANCE TaskFifo WITH
            Capacity <- Permits + 1, Tasks <- Items, MaxTasks <- MaxTasks,
            accepted <- claimed, executed <- executed

\* Refinement, with the promise that every accepted task is executed.
ImplementsFifo == Fifo!FifoSpec

\* A producer held back by the permits gets one again: the worker frees a
\* place without being asked (scheduler.h:52, scheduler.cpp:36).
ProducerUnblocked == push_task_semaphore = 0 ~> push_task_semaphore > 0

=============================================================================
