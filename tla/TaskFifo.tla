------------------------------ MODULE TaskFifo ------------------------------
(***************************************************************************)
(* What Scheduler::push_task and worker_loop promise together: a bounded   *)
(* first-in first-out hand-over.  Every accepted task is executed exactly  *)
(* once, in the order of acceptance, and the producer is held back when    *)
(* the backlog has reached Capacity.                                       *)
(***************************************************************************)
EXTENDS Naturals, Sequences

CONSTANTS
    Capacity,  \* tasks accepted and not yet executed
    Tasks,     \* tasks
    MaxTasks   \* bound: how many tasks are ever accepted

VARIABLES
    accepted,  \* every task accepted so far, in order
    executed   \* every task executed so far, in order

fifoVars == <<accepted, executed>>

FifoInit == accepted = <<>> /\ executed = <<>>

Accept ==
    /\ Len(accepted) < MaxTasks
    /\ Len(accepted) < Len(executed) + Capacity
    /\ \E v \in Tasks : accepted' = Append(accepted, v)
    /\ UNCHANGED executed

Execute ==
    /\ Len(executed) < Len(accepted)
    /\ executed' = Append(executed, accepted[Len(executed) + 1])
    /\ UNCHANGED accepted

FifoNext == Accept \/ Execute

\* The safety part, and the whole promise: no accepted task waits forever.
FifoSafety == FifoInit /\ [][FifoNext]_fifoVars
FifoSpec == FifoSafety /\ WF_fifoVars(Execute)

=============================================================================
