-------------------------- MODULE MemoryPoolProofs --------------------------
(***************************************************************************)
(* For every set of threads, every size of a node and every limit, allocate *)
(* gives each chunk to one caller only and only when it is backed by       *)
(* memory.                                                                 *)
(*                                                                         *)
(* The argument: only the holder of the permit moves the end of the memory *)
(* (PermitHeld), the end never runs ahead of mprotect (Opened), and a      *)
(* thread that reaches the compare-exchange has seen the end move past its *)
(* chunk (LocalsCurrent), whether it grew the memory itself or waited.     *)
(***************************************************************************)
EXTENDS MemoryPool, TLAPS

Growing == {"protect", "advance", "notify", "release"}

\* At most one thread is between try_acquire and release.
PermitHeld ==
    /\ \A t \in Threads : pc[t] \in Growing => permit = 0
    /\ \A t, u \in Threads : pc[t] \in Growing /\ pc[u] \in Growing => t = u

\* mprotect comes before the end is moved.
Opened ==
    /\ EndAccessible
    /\ \A t \in Threads :
           pc[t] = "advance" => accessible = actual_memory_end + NodeChunks

\* The locals of allocate are bounds that stay true while it runs.
LocalsCurrent ==
    /\ last_not_issued_index <= actual_memory_end
    /\ \A t \in Threads :
           /\ new_index[t] <= last_not_issued_index
           /\ pc[t] \in {"acquire", "wait", "asleep", "protect", "advance"} =>
                  /\ new_index[t] <= current_end[t]
                  /\ current_end[t] <= actual_memory_end
           /\ pc[t] \in {"notify", "release", "exchange"} =>
                  new_index[t] + 1 <= actual_memory_end

\* Chunks are issued below last_not_issued_index.
IssuedBelow ==
    /\ \A t \in Threads : \A i \in issued[t] : i < last_not_issued_index
    /\ ChunksExclusive

IInv == TypeOK /\ PermitHeld /\ Opened /\ LocalsCurrent /\ IssuedBelow

\* The constructor's state: nothing issued, no memory, the permit free.
LEMMA InitIInv == Init => IInv
BY PoolAssumption DEF Init, IInv, TypeOK, PermitHeld, Opened, LocalsCurrent, IssuedBelow,
    Growing, EndAccessible, ChunksExclusive, Points

\* Every step of allocate keeps the types.
LEMMA TypeStep == TypeOK /\ [Next]_vars => TypeOK'
<1> SUFFICES ASSUME TypeOK, [Next]_vars PROVE TypeOK'
  OBVIOUS
<1> USE PoolAssumption DEF TypeOK, Points, Goto
<1>1. CASE UNCHANGED vars
  BY <1>1 DEF vars
<1>2. ASSUME NEW t \in Threads, load_index(t) PROVE TypeOK'
  BY <1>2 DEF load_index
<1>3. ASSUME NEW t \in Threads, refuse(t) \/ load_end(t) PROVE TypeOK'
  BY <1>3 DEF refuse, load_end
<1>4. ASSUME NEW t \in Threads, acquire_permit(t) \/ acquire_fails(t) PROVE TypeOK'
  BY <1>4 DEF acquire_permit, acquire_fails
<1>5. ASSUME NEW t \in Threads, protect(t) \/ advance_end(t) PROVE TypeOK'
  BY <1>5 DEF protect, advance_end
<1>6. ASSUME NEW t \in Threads, notify_all(t) \/ release_permit(t) PROVE TypeOK'
  BY <1>6 DEF notify_all, release_permit
<1>7. ASSUME NEW t \in Threads, wait_for_end(t) PROVE TypeOK'
  BY <1>7 DEF wait_for_end
<1>8. ASSUME NEW t \in Threads, issue(t) \/ issue_fails(t) PROVE TypeOK'
  BY <1>8 DEF issue, issue_fails
<1>9. QED
  BY <1>1, <1>2, <1>3, <1>4, <1>5, <1>6, <1>7, <1>8 DEF Next, allocate

\* One thread at a time grows the memory.
LEMMA PermitStep == TypeOK /\ PermitHeld /\ [Next]_vars => PermitHeld'
<1> SUFFICES ASSUME TypeOK, PermitHeld, [Next]_vars PROVE PermitHeld'
  OBVIOUS
<1> USE DEF TypeOK, PermitHeld, Growing, Points, Goto
<1>1. CASE UNCHANGED vars
  BY <1>1 DEF vars
<1>2. ASSUME NEW t \in Threads, load_index(t) PROVE PermitHeld'
  BY <1>2 DEF load_index
<1>3. ASSUME NEW t \in Threads, refuse(t) \/ load_end(t) PROVE PermitHeld'
  BY <1>3 DEF refuse, load_end
<1>4. ASSUME NEW t \in Threads, acquire_permit(t) \/ acquire_fails(t) PROVE PermitHeld'
  BY <1>4 DEF acquire_permit, acquire_fails
<1>5. ASSUME NEW t \in Threads, protect(t) \/ advance_end(t) PROVE PermitHeld'
  BY <1>5 DEF protect, advance_end
<1>6. ASSUME NEW t \in Threads, notify_all(t) \/ release_permit(t) PROVE PermitHeld'
  BY <1>6 DEF notify_all, release_permit
<1>7. ASSUME NEW t \in Threads, wait_for_end(t) PROVE PermitHeld'
  BY <1>7 DEF wait_for_end
<1>8. ASSUME NEW t \in Threads, issue(t) \/ issue_fails(t) PROVE PermitHeld'
  BY <1>8 DEF issue, issue_fails
<1>9. QED
  BY <1>1, <1>2, <1>3, <1>4, <1>5, <1>6, <1>7, <1>8 DEF Next, allocate

\* Only protect and advance_end touch the memory; the permit makes them
\* alternate.
LEMMA OpenedStep == IInv /\ [Next]_vars => Opened'
<1> SUFFICES ASSUME IInv, [Next]_vars PROVE Opened'
  OBVIOUS
<1> USE PoolAssumption DEF IInv, TypeOK, Opened, EndAccessible, Points, Goto
<1>1. CASE UNCHANGED vars
  BY <1>1 DEF vars
<1>2. ASSUME NEW t \in Threads, load_index(t) PROVE Opened'
  BY <1>2 DEF load_index
<1>3. ASSUME NEW t \in Threads, refuse(t) \/ load_end(t) PROVE Opened'
  BY <1>3 DEF refuse, load_end
<1>4. ASSUME NEW t \in Threads, acquire_permit(t) \/ acquire_fails(t) PROVE Opened'
  BY <1>4 DEF acquire_permit, acquire_fails
<1>5. ASSUME NEW t \in Threads, protect(t) \/ advance_end(t) PROVE Opened'
  BY <1>5 DEF protect, advance_end, PermitHeld, Growing
<1>6. ASSUME NEW t \in Threads, notify_all(t) \/ release_permit(t) PROVE Opened'
  BY <1>6 DEF notify_all, release_permit
<1>7. ASSUME NEW t \in Threads, wait_for_end(t) PROVE Opened'
  BY <1>7 DEF wait_for_end
<1>8. ASSUME NEW t \in Threads, issue(t) \/ issue_fails(t) PROVE Opened'
  BY <1>8 DEF issue, issue_fails
<1>9. QED
  BY <1>1, <1>2, <1>3, <1>4, <1>5, <1>6, <1>7, <1>8 DEF Next, allocate

\* The end only grows, so what a thread has learnt of it stays true.
LEMMA LocalsStep == IInv /\ [Next]_vars => LocalsCurrent'
<1> SUFFICES ASSUME IInv, [Next]_vars PROVE LocalsCurrent'
  OBVIOUS
<1> USE PoolAssumption DEF IInv, TypeOK, LocalsCurrent, Points, Goto
<1>1. CASE UNCHANGED vars
  BY <1>1 DEF vars
<1>2. ASSUME NEW t \in Threads, load_index(t) PROVE LocalsCurrent'
  BY <1>2 DEF load_index
<1>3. ASSUME NEW t \in Threads, refuse(t) \/ load_end(t) PROVE LocalsCurrent'
  BY <1>3 DEF refuse, load_end, NeedsMemory
<1>4. ASSUME NEW t \in Threads, acquire_permit(t) \/ acquire_fails(t)
      PROVE LocalsCurrent'
  BY <1>4 DEF acquire_permit, acquire_fails
<1>5. ASSUME NEW t \in Threads, protect(t) \/ advance_end(t) PROVE LocalsCurrent'
  BY <1>5 DEF protect, advance_end
<1>6. ASSUME NEW t \in Threads, notify_all(t) \/ release_permit(t)
      PROVE LocalsCurrent'
  BY <1>6 DEF notify_all, release_permit
<1>7. ASSUME NEW t \in Threads, wait_for_end(t) PROVE LocalsCurrent'
  BY <1>7 DEF wait_for_end
<1>8. ASSUME NEW t \in Threads, issue(t) \/ issue_fails(t) PROVE LocalsCurrent'
  BY <1>8 DEF issue, issue_fails
<1>9. QED
  BY <1>1, <1>2, <1>3, <1>4, <1>5, <1>6, <1>7, <1>8 DEF Next, allocate

\* A chunk is issued by the one thread whose compare-exchange moves the index
\* past it.
LEMMA IssuedStep == TypeOK /\ IssuedBelow /\ [Next]_vars => IssuedBelow'
<1> SUFFICES ASSUME TypeOK, IssuedBelow, [Next]_vars PROVE IssuedBelow'
  OBVIOUS
<1> USE DEF IssuedBelow, ChunksExclusive
<1>1. ASSUME UNCHANGED <<issued, last_not_issued_index>> PROVE IssuedBelow'
  BY <1>1
<1>2. ASSUME NEW t \in Threads, issue(t) PROVE IssuedBelow'
  <2>1. /\ issued' = [issued EXCEPT ![t] = @ \cup {last_not_issued_index}]
        /\ last_not_issued_index' = last_not_issued_index + 1
    BY <1>2 DEF issue, TypeOK
  <2>2. \A u \in Threads : \A i \in issued'[u] : i < last_not_issued_index'
    BY <2>1 DEF TypeOK
  <2>3. \A u, v \in Threads : u # v => issued'[u] \cap issued'[v] = {}
    BY <2>1 DEF TypeOK
  <2>4. QED
    BY <2>2, <2>3
<1>3. ASSUME NEW t \in Threads, load_index(t) \/ (allocate(t) /\ ~issue(t))
      PROVE UNCHANGED <<issued, last_not_issued_index>>
  BY <1>3 DEF load_index, allocate, refuse, load_end, acquire_permit,
      acquire_fails, protect, advance_end, notify_all, release_permit,
      wait_for_end, issue_fails
<1>4. QED
  BY <1>1, <1>2, <1>3 DEF Next, vars

\* The inductive invariant holds in every behaviour.
THEOREM Invariance == Spec => []IInv
<1>1. IInv /\ [Next]_vars => IInv'
  BY TypeStep, PermitStep, OpenedStep, LocalsStep, IssuedStep DEF IInv
<1>2. QED
  BY <1>1, InitIInv, PTL DEF Spec

\* No chunk is given to two callers, whatever the number of threads.
THEOREM Exclusive == Spec => []ChunksExclusive
<1>1. IInv => ChunksExclusive
  BY DEF IInv, IssuedBelow
<1>2. QED
  BY <1>1, Invariance, PTL

\* A chunk handed out is backed by memory, although nothing rechecks the end
\* after the wait.
THEOREM Backed == Spec => []ChunksBacked
<1>1. IInv => ChunksBacked
  <2> SUFFICES ASSUME IInv, NEW t \in Threads, NEW i \in issued[t]
               PROVE i + 1 <= accessible
    BY DEF ChunksBacked
  <2>1. i \in Nat /\ i < last_not_issued_index
    BY DEF IInv, IssuedBelow, TypeOK
  <2>2. QED
    BY <2>1 DEF IInv, LocalsCurrent, Opened, EndAccessible, TypeOK
<1>2. QED
  BY <1>1, Invariance, PTL

\* The end of the memory is never moved past what mprotect has opened.
THEOREM NeverPastTheMemory == Spec => []EndAccessible
<1>1. IInv => EndAccessible
  BY DEF IInv, Opened
<1>2. QED
  BY <1>1, Invariance, PTL

=============================================================================
