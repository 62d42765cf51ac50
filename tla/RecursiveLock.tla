---------------------------- MODULE RecursiveLock ----------------------------
(***************************************************************************)
(* What lock_kmod promises its callers: every process has one lock of its  *)
(* own, which a thread that has it may take again; it is free once it has  *)
(* been released as often as it was taken.  Nothing is said here of slots, *)
(* retries or who waits; LockKmod implements this lock.                    *)
(***************************************************************************)
EXTENDS Naturals

CONSTANTS Procs, Threads, ProcOf, Nobody

VARIABLES owner, depth

TypeOK ==
  /\ owner \in [Procs -> Threads \cup {Nobody}]
  /\ depth \in [Procs -> Nat]

Init ==
  /\ owner = [p \in Procs |-> Nobody]
  /\ depth = [p \in Procs |-> 0]

\* The lock is free, or t takes once more the lock it has.
Acquire(t) ==
  LET p == ProcOf[t] IN
  /\ owner[p] \in {Nobody, t}
  /\ owner' = [owner EXCEPT ![p] = t]
  /\ depth' = [depth EXCEPT ![p] = @ + 1]

\* Only the owner gives the lock back, and the last time frees it.
Release(t) ==
  LET p == ProcOf[t] IN
  /\ owner[p] = t
  /\ depth' = [depth EXCEPT ![p] = @ - 1]
  /\ owner' = [owner EXCEPT ![p] = IF depth[p] = 1 THEN Nobody ELSE t]

Next == \E t \in Threads : Acquire(t) \/ Release(t)

Spec == Init /\ [][Next]_<<owner, depth>>
=============================================================================
