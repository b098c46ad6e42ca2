----------------------------- MODULE MemoryPool -----------------------------
(***************************************************************************)
(* AllocatorPool::allocate of src/src/core/memory_manager.cpp, called by   *)
(* several threads (the network thread and the worker, through             *)
(* ObjectPool::push_to_pool).  Addresses are counted in chunks from the    *)
(* start of the pool.                                                      *)
(*                                                                         *)
(* Nothing in the repository calls deallocate, so free_indexes_queue is    *)
(* always empty and its try_pop always returns nothing: the ring of free   *)
(* indexes is not modelled.                                                *)
(***************************************************************************)
EXTENDS Naturals, FiniteSets

CONSTANTS
    Threads,     \* the threads that allocate
    NodeChunks,  \* chunks in PAGES_PER_NODE pages
    MaxIndex     \* RING_BUFFER_SIZE, the last index ever issued

ASSUME PoolAssumption ==
    /\ NodeChunks \in Nat \ {0}
    /\ MaxIndex \in Nat

VARIABLES
    last_not_issued_index,
    actual_memory_end,
    accessible,   \* kernel: chunks below this one may be read and written
    permit,       \* page_allocation_permit
    pc,           \* the point of each thread in allocate
    new_index,    \* its local new_index
    current_end,  \* its local current_memory_end
    issued        \* history: the chunks each thread was given

vars == <<last_not_issued_index, actual_memory_end, accessible, permit, pc,
          new_index, current_end, issued>>

Init ==
    /\ last_not_issued_index = 0
    /\ actual_memory_end = 0
    /\ accessible = 0
    /\ permit = 1
    /\ pc = [t \in Threads |-> "idle"]
    /\ new_index = [t \in Threads |-> 0]
    /\ current_end = [t \in Threads |-> 0]
    /\ issued = [t \in Threads |-> {}]

Goto(t, point) == pc' = [pc EXCEPT ![t] = point]

-----------------------------------------------------------------------------
(* allocate                                                                *)

load_index(t) ==
    /\ pc[t] = "idle"
    /\ new_index' = [new_index EXCEPT ![t] = last_not_issued_index]
    /\ Goto(t, "loop")
    /\ UNCHANGED <<last_not_issued_index, actual_memory_end, accessible,
                   permit, current_end, issued>>

\* The pool is exhausted: std::nullopt.
refuse(t) ==
    /\ pc[t] = "loop"
    /\ new_index[t] > MaxIndex
    /\ Goto(t, "idle")
    /\ UNCHANGED <<last_not_issued_index, actual_memory_end, accessible,
                   permit, new_index, current_end, issued>>

\* The end of the next chunk, (new_index + 1) * chunk_size, is compared with
\* the end of the memory.
NeedsMemory(t) == new_index[t] + 1 >= actual_memory_end

load_end(t) ==
    /\ pc[t] = "loop"
    /\ new_index[t] <= MaxIndex
    /\ current_end' = [current_end EXCEPT ![t] = actual_memory_end]
    /\ Goto(t, IF NeedsMemory(t) THEN "acquire" ELSE "exchange")
    /\ UNCHANGED <<last_not_issued_index, actual_memory_end, accessible,
                   permit, new_index, issued>>

acquire_permit(t) ==
    /\ pc[t] = "acquire"
    /\ permit = 1
    /\ permit' = 0
    /\ Goto(t, "protect")
    /\ UNCHANGED <<last_not_issued_index, actual_memory_end, accessible,
                   new_index, current_end, issued>>

acquire_fails(t) ==
    /\ pc[t] = "acquire"
    /\ permit = 0
    /\ Goto(t, "wait")
    /\ UNCHANGED <<last_not_issued_index, actual_memory_end, accessible,
                   permit, new_index, current_end, issued>>

\* allocate_new_node: mprotect, then fetch_add, then notify_all.
protect(t) ==
    /\ pc[t] = "protect"
    /\ accessible' = actual_memory_end + NodeChunks
    /\ Goto(t, "advance")
    /\ UNCHANGED <<last_not_issued_index, actual_memory_end, permit,
                   new_index, current_end, issued>>

advance_end(t) ==
    /\ pc[t] = "advance"
    /\ actual_memory_end' = actual_memory_end + NodeChunks
    /\ Goto(t, "notify")
    /\ UNCHANGED <<last_not_issued_index, accessible, permit, new_index,
                   current_end, issued>>

\* Mutant: nobody is woken.
notify_all_forgotten(t) ==
    /\ pc[t] = "notify"
    /\ Goto(t, "release")
    /\ UNCHANGED <<last_not_issued_index, actual_memory_end, accessible,
                   permit, new_index, current_end, issued>>

notify_all(t) ==
    /\ pc[t] = "notify"
    /\ pc' = [u \in Threads |->
                  IF u = t THEN "release"
                  ELSE IF pc[u] = "asleep" THEN "wait" ELSE pc[u]]
    /\ UNCHANGED <<last_not_issued_index, actual_memory_end, accessible,
                   permit, new_index, current_end, issued>>

release_permit(t) ==
    /\ pc[t] = "release"
    /\ permit' = 1
    /\ Goto(t, "exchange")
    /\ UNCHANGED <<last_not_issued_index, actual_memory_end, accessible,
                   new_index, current_end, issued>>

\* Mutant: a thread that could not grow the memory goes on at once.
wait_for_end_skipped(t) ==
    /\ pc[t] = "wait"
    /\ Goto(t, "exchange")
    /\ UNCHANGED <<last_not_issued_index, actual_memory_end, accessible,
                   permit, new_index, current_end, issued>>

\* actual_memory_end.wait(current_memory_end): sleep if the end is still the
\* one that was read, until a notification; then look again.
wait_for_end(t) ==
    /\ pc[t] = "wait"
    /\ Goto(t, IF actual_memory_end = current_end[t] THEN "asleep" ELSE "exchange")
    /\ UNCHANGED <<last_not_issued_index, actual_memory_end, accessible,
                   permit, new_index, current_end, issued>>

\* Mutant: a load and a store.
issue_stored(t) ==
    /\ pc[t] = "exchange"
    /\ last_not_issued_index' = new_index[t] + 1
    /\ issued' = [issued EXCEPT ![t] = @ \cup {new_index[t]}]
    /\ Goto(t, "idle")
    /\ UNCHANGED <<actual_memory_end, accessible, permit, new_index,
                   current_end>>

\* The compare-exchange on last_not_issued_index succeeds ...
issue(t) ==
    /\ pc[t] = "exchange"
    /\ last_not_issued_index = new_index[t]
    /\ last_not_issued_index' = new_index[t] + 1
    /\ issued' = [issued EXCEPT ![t] = @ \cup {new_index[t]}]
    /\ Goto(t, "idle")
    /\ UNCHANGED <<actual_memory_end, accessible, permit, new_index,
                   current_end>>

\* ... or loads the index it finds, and the loop goes round.
issue_fails(t) ==
    /\ pc[t] = "exchange"
    /\ last_not_issued_index # new_index[t]
    /\ new_index' = [new_index EXCEPT ![t] = last_not_issued_index]
    /\ Goto(t, "loop")
    /\ UNCHANGED <<last_not_issued_index, actual_memory_end, accessible,
                   permit, current_end, issued>>

\* The steps of a call in progress.
allocate(t) ==
    \/ refuse(t) \/ load_end(t)
    \/ acquire_permit(t) \/ acquire_fails(t)
    \/ protect(t) \/ advance_end(t) \/ notify_all(t) \/ release_permit(t)
    \/ wait_for_end(t)
    \/ issue(t) \/ issue_fails(t)

Next == \E t \in Threads : load_index(t) \/ allocate(t)

\* A thread inside allocate is scheduled; nobody has to call it.
Spec == Init /\ [][Next]_vars /\ \A t \in Threads : WF_vars(allocate(t))

-----------------------------------------------------------------------------
(* Properties                                                              *)

Points == {"idle", "loop", "acquire", "protect", "advance", "notify",
           "release", "wait", "asleep", "exchange"}

\* Every variable keeps its type.
TypeOK ==
    /\ last_not_issued_index \in Nat
    /\ actual_memory_end \in Nat
    /\ accessible \in Nat
    /\ permit \in {0, 1}
    /\ pc \in [Threads -> Points]
    /\ new_index \in [Threads -> Nat]
    /\ current_end \in [Threads -> Nat]
    /\ issued \in [Threads -> SUBSET Nat]

\* No chunk is given to two callers (memory_manager.cpp:136-139).
ChunksExclusive ==
    \A t, u \in Threads : t # u => issued[t] \cap issued[u] = {}

\* Every chunk handed out is readable and writable to its last byte, however
\* the threads that grow the memory and those that wait for it overtake each
\* other (memory_manager.cpp:124-135): nothing rechecks after the wait.
ChunksBacked ==
    \A t \in Threads : \A i \in issued[t] : i + 1 <= accessible

\* The memory that allocate believes in is there: the end is never moved past
\* what mprotect has opened (memory_manager.cpp:170-184).
EndAccessible == actual_memory_end <= accessible

\* allocate returns: a thread that lost the permit is never left asleep, even
\* if the end it waits on was read after the growth it waits for
\* (memory_manager.cpp:128-134).  It takes nodes of at least two chunks: a
\* thread can then wait for a second growth only after the index has moved on,
\* and the permit's holder finds its exchange lost and grows the memory again.
AllocateReturns == \A t \in Threads : (pc[t] # "idle") ~> (pc[t] = "idle")

=============================================================================
