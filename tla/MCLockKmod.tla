----------------------------- MODULE MCLockKmod -----------------------------
(***************************************************************************)
(* LockKmod for TLC: process A has two threads, B has one.                 *)
(***************************************************************************)
EXTENDS LockKmod, TLC

CONSTANTS t1, t2, t3, A, B

\* Two processes, the smallest with sharing and with a stranger.
TwoProcs == {A, B}
ThreeThreads == {t1, t2, t3}
ThreeThreadsProc == t1 :> A @@ t2 :> A @@ t3 :> B

\* The threads of A may be exchanged.
Siblings == Permutations({t1, t2})
=============================================================================
