------------------------- MODULE ClassThread_proof --------------------------
(***************************************************************************)
(* Proofs about the system call of lock_kmod (LockKmod), and about what    *)
(* the run class_thread puts side by side: the program bestoffer that      *)
(* calls it (BestOffer), and the loading of a module that registers a      *)
(* system call (KmodLifecycle).                                            *)
(***************************************************************************)
EXTENDS BestOffer, KmodLifecycle, WellFoundedInduction, TLAPS

(***************************************************************************)
(* Proofs about LockKmod, for every set of processes and threads, every    *)
(* size of the slot table, number of tries and width of count.             *)
(*                                                                         *)
(* MutualExclusion speaks of what the library has handed out, the kernel   *)
(* of tid and count, so the invariant that carries the proof, IInv, ties   *)
(* the two: a slot's count is what its owner still owes and nobody else    *)
(* of the process owes anything (LockOK).  For that to survive a step, the *)
(* slot a call works on must be its process's and be the only one          *)
(* (SlotOK), what TestTake saw must still hold when Take acts on it, and   *)
(* the two mutexes must be held by whoever is in their critical section    *)
(* (MutexOK).  PhaseOK says which command is at which place of the code.   *)
(* The same invariant carries the refinement of RecursiveLock at the end.  *)
(***************************************************************************)

MutexOK ==
  \A t \in Threads :
    /\ pc[t] \in {"scan", "insert"} <=> info_mutex = t
    /\ \A i \in Index :
         data_mutex[i] = t
           <=> pc[t] \in {"test", "take", "release"} /\ proc[t] = i

PhaseOK ==
  \A t \in Threads :
    /\ pc[t] \in {"waiting", "test", "take"} => cmd[t] = "LockMutex"
    /\ pc[t] = "release" => cmd[t] = "UnlockMutex"
    /\ pc[t] = "insert" => cmd[t] # "UnlockMutex"
    /\ pc[t] = "data" => cmd[t] \in {"LockMutex", "UnlockMutex"}
    /\ pc[t] = "user" => cmd[t] = "Other"
    /\ pc[t] # "exited" /\ cmd[t] = "LockMutex" => depth[t] < MaxDepth
    /\ Owed(t) \in 0 .. MaxDepth

SlotOK ==
  /\ OneSlotPerProcess
  /\ \A t \in Threads :
       /\ pc[t] \in {"data", "test", "take", "release"} =>
            procs[proc[t]] # NULL /\ procs[proc[t]].pid = ProcOf[t]
       /\ pc[t] = "insert" => procs[proc[t]] = NULL /\ Matches(t) = {}
       /\ pc[t] = "take" => Available(t)

\* A slot is free and its process owes nothing, or its owner alone owes.
SlotFree(s) ==
  s.count = 0 /\ \A t \in Threads : ProcOf[t] = s.pid => Owed(t) = 0
SlotTaken(s) ==
  /\ s.count > 0 /\ s.tid \in Threads /\ ProcOf[s.tid] = s.pid
  /\ Owed(s.tid) = s.count
  /\ \A t \in Threads : ProcOf[t] = s.pid /\ t # s.tid => Owed(t) = 0
LockOK ==
  /\ \A i \in Index : procs[i] # NULL => SlotFree(procs[i]) \/ SlotTaken(procs[i])
  /\ \A t \in Threads : Owed(t) > 0 => Matches(t) # {}

IInv == TypeOK /\ MutexOK /\ PhaseOK /\ SlotOK /\ LockOK
-----------------------------------------------------------------------------
\* A step that leaves the slots and everybody's debts alone keeps LockOK.
LEMMA LockFrame ==
  ASSUME LockOK, procs' = procs, \A t \in Threads : Owed(t)' = Owed(t)
  PROVE  LockOK'
<1>1. \A t \in Threads : Matches(t)' = Matches(t)
  BY DEF Matches
<1>2. ASSUME NEW i \in Index, procs'[i] # NULL
      PROVE  SlotFree(procs[i])' \/ SlotTaken(procs[i])'
  <2>1. SlotFree(procs[i]) \/ SlotTaken(procs[i])
    BY <1>2 DEF LockOK
  <2>2. CASE SlotFree(procs[i])
    BY <2>2 DEF SlotFree
  <2>3. CASE SlotTaken(procs[i])
    BY <2>3 DEF SlotTaken
  <2> QED
    BY <2>1, <2>2, <2>3
<1> QED
  BY <1>1, <1>2 DEF LockOK

LEMMA InitEstablishes == Init => IInv
<1> SUFFICES ASSUME Init PROVE IInv
  OBVIOUS
<1> USE ProcessAssumption, NamesAssumption, BoundsAssumption
<1>1. TypeOK
  BY DEF Init, TypeOK, Index, Commands
<1>2. MutexOK /\ PhaseOK
  BY DEF Init, MutexOK, PhaseOK, Owed
<1>3. SlotOK
  BY DEF Init, SlotOK, OneSlotPerProcess
<1>4. LockOK
  BY DEF Init, LockOK, Owed
<1> QED
  BY <1>1, <1>2, <1>3, <1>4 DEF IInv
-----------------------------------------------------------------------------
(* Steps that leave the slot table alone. *)

LEMMA CallPreserves ==
  ASSUME IInv, NEW t \in Threads, NEW m \in Commands, Call(t, m)
  PROVE  IInv'
<1> USE ProcessAssumption, NamesAssumption, BoundsAssumption
<1>0. TypeOK /\ MutexOK /\ PhaseOK /\ SlotOK /\ LockOK
  BY DEF IInv
<1>1. TypeOK'
  BY <1>0 DEF Call, Goto, kernelVars, TypeOK, Commands
<1>2. MutexOK'
  BY <1>0 DEF Call, Goto, kernelVars, MutexOK, TypeOK
<1>3. PhaseOK' /\ \A u \in Threads : Owed(u)' = Owed(u)
  BY <1>0 DEF Call, Goto, kernelVars, PhaseOK, Owed, TypeOK, Commands
<1>4. SlotOK'
  BY <1>0 DEF Call, Goto, kernelVars, SlotOK, OneSlotPerProcess, Matches, Available, TypeOK
<1>5. LockOK'
  BY <1>0, <1>3, LockFrame DEF Call, Goto, kernelVars
<1> QED
  BY <1>1, <1>2, <1>3, <1>4, <1>5 DEF IInv

LEMMA RetryPreserves ==
  ASSUME IInv, NEW t \in Threads, Retry(t)
  PROVE  IInv'
<1> USE ProcessAssumption, NamesAssumption, BoundsAssumption
<1>0. TypeOK /\ MutexOK /\ PhaseOK /\ SlotOK /\ LockOK
  BY DEF IInv
<1>1. TypeOK'
  BY <1>0 DEF Retry, Goto, kernelVars, TypeOK, Commands
<1>2. MutexOK'
  BY <1>0 DEF Retry, Goto, kernelVars, MutexOK, TypeOK
<1>3. PhaseOK' /\ \A u \in Threads : Owed(u)' = Owed(u)
  BY <1>0 DEF Retry, Goto, kernelVars, PhaseOK, Owed, TypeOK, Commands
<1>4. SlotOK'
  BY <1>0 DEF Retry, Goto, kernelVars, SlotOK, OneSlotPerProcess, Matches, Available, TypeOK
<1>5. LockOK'
  BY <1>0, <1>3, LockFrame DEF Retry, Goto, kernelVars
<1> QED
  BY <1>1, <1>2, <1>3, <1>4, <1>5 DEF IInv

LEMMA ExitPreserves ==
  ASSUME IInv, NEW p \in Procs, Exit(p)
  PROVE  IInv'
<1> USE ProcessAssumption, NamesAssumption, BoundsAssumption
<1>0. TypeOK /\ MutexOK /\ PhaseOK /\ SlotOK /\ LockOK
  BY DEF IInv
<1>1. TypeOK'
  BY <1>0 DEF Exit, kernelVars, TypeOK, Commands
<1>2. MutexOK'
  BY <1>0 DEF Exit, kernelVars, MutexOK, TypeOK
<1>3. PhaseOK' /\ \A u \in Threads : Owed(u)' = Owed(u)
  BY <1>0 DEF Exit, kernelVars, PhaseOK, Owed, TypeOK, Commands
<1>4. SlotOK'
  BY <1>0 DEF Exit, kernelVars, SlotOK, OneSlotPerProcess, Matches, Available, TypeOK
<1>5. LockOK'
  BY <1>0, <1>3, LockFrame DEF Exit, kernelVars
<1> QED
  BY <1>1, <1>2, <1>3, <1>4, <1>5 DEF IInv

LEMMA InfoLockPreserves ==
  ASSUME IInv, NEW t \in Threads, InfoLock(t)
  PROVE  IInv'
<1> USE ProcessAssumption, NamesAssumption, BoundsAssumption
<1>0. TypeOK /\ MutexOK /\ PhaseOK /\ SlotOK /\ LockOK
  BY DEF IInv
<1>1. TypeOK'
  BY <1>0 DEF InfoLock, Goto, TypeOK, Commands
<1>2. MutexOK'
  BY <1>0 DEF InfoLock, Goto, MutexOK, TypeOK
<1>3. PhaseOK' /\ \A u \in Threads : Owed(u)' = Owed(u)
  BY <1>0 DEF InfoLock, Goto, PhaseOK, Owed, TypeOK, Commands
<1>4. SlotOK'
  BY <1>0 DEF InfoLock, Goto, SlotOK, OneSlotPerProcess, Matches, Available, TypeOK
<1>5. LockOK'
  BY <1>0, <1>3, LockFrame DEF InfoLock, Goto
<1> QED
  BY <1>1, <1>2, <1>3, <1>4, <1>5 DEF IInv

LEMMA ScanFoundPreserves ==
  ASSUME IInv, NEW t \in Threads, ScanFound(t)
  PROVE  IInv'
<1> USE ProcessAssumption, NamesAssumption, BoundsAssumption
<1>0. TypeOK /\ MutexOK /\ PhaseOK /\ SlotOK /\ LockOK
  BY DEF IInv
<1>1. TypeOK'
  <2>1. PICK i \in Index : Dispatch(t, i)
    BY DEF ScanFound, Matches
  <2>2. CASE cmd[t] \in {"LockMutex", "UnlockMutex"}
    BY <1>0, <2>1, <2>2 DEF ScanFound, Dispatch, Goto, TypeOK
  <2>3. CASE cmd[t] \notin {"LockMutex", "UnlockMutex"}
    <3>1. 0 \in Index /\ 0 \in 0 .. MaxTry - 1
      BY DEF Index
    <3>2. ready' \subseteq Procs /\ depth' = depth
      BY <1>0, <2>1, <2>3 DEF Dispatch, Return, TypeOK
    <3> QED
      BY <1>0, <2>1, <2>3, <3>1, <3>2
      DEF ScanFound, Dispatch, Return, Goto, TypeOK, Commands
  <2> QED
    BY <2>2, <2>3
<1>2. MutexOK'
  BY <1>0 DEF ScanFound, Dispatch, Return, Goto, Matches, MutexOK, TypeOK
<1>3. PhaseOK' /\ \A u \in Threads : Owed(u)' = Owed(u)
  BY <1>0 DEF ScanFound, Dispatch, Return, Goto, Matches, PhaseOK, Owed, TypeOK, Commands
<1>4. SlotOK'
  BY <1>0 DEF ScanFound, Dispatch, Return, Goto, Matches, SlotOK, OneSlotPerProcess, Matches, Available, TypeOK
<1>5. LockOK'
  BY <1>0, <1>3, LockFrame DEF ScanFound, Dispatch, Return, Goto, Matches
<1> QED
  BY <1>1, <1>2, <1>3, <1>4, <1>5 DEF IInv

LEMMA ScanFreePreserves ==
  ASSUME IInv, NEW t \in Threads, ScanFree(t)
  PROVE  IInv'
<1> USE ProcessAssumption, NamesAssumption, BoundsAssumption
<1>0. TypeOK /\ MutexOK /\ PhaseOK /\ SlotOK /\ LockOK
  BY DEF IInv
<1>1. TypeOK'
  BY <1>0 DEF ScanFree, Goto, kernelVars, Free, TypeOK, Commands
<1>2. MutexOK'
  BY <1>0 DEF ScanFree, Goto, kernelVars, Free, MutexOK, TypeOK
<1>a. cmd[t] # "UnlockMutex"
  <2> SUFFICES ASSUME cmd[t] = "UnlockMutex" PROVE FALSE
    OBVIOUS
  <2>1. Owed(t) = depth[t] + 1 /\ depth[t] \in Nat
    BY <1>0 DEF ScanFree, Owed, TypeOK
  <2> QED
    BY <1>0, <2>1 DEF ScanFree, LockOK
<1>3. PhaseOK' /\ \A u \in Threads : Owed(u)' = Owed(u)
  BY <1>0, <1>a DEF ScanFree, Goto, kernelVars, Free, PhaseOK, Owed, TypeOK, Commands
<1>4. SlotOK'
  BY <1>0 DEF ScanFree, Goto, kernelVars, Free, SlotOK, OneSlotPerProcess, Matches, Available, TypeOK
<1>5. LockOK'
  BY <1>0, <1>3, LockFrame DEF ScanFree, Goto, kernelVars, Free
<1> QED
  BY <1>1, <1>2, <1>3, <1>4, <1>5 DEF IInv

LEMMA ScanFullPreserves ==
  ASSUME IInv, NEW t \in Threads, ScanFull(t)
  PROVE  IInv'
<1> USE ProcessAssumption, NamesAssumption, BoundsAssumption
<1>0. TypeOK /\ MutexOK /\ PhaseOK /\ SlotOK /\ LockOK
  BY DEF IInv
<1>1. TypeOK'
  BY <1>0 DEF ScanFull, Return, Goto, TypeOK, Commands, Index
<1>2. MutexOK'
  BY <1>0 DEF ScanFull, Return, Goto, MutexOK, TypeOK
<1>a. cmd[t] # "UnlockMutex"
  <2> SUFFICES ASSUME cmd[t] = "UnlockMutex" PROVE FALSE
    OBVIOUS
  <2>1. Owed(t) = depth[t] + 1 /\ depth[t] \in Nat
    BY <1>0 DEF ScanFull, Owed, TypeOK
  <2> QED
    BY <1>0, <2>1 DEF ScanFull, LockOK
<1>3. PhaseOK' /\ \A u \in Threads : Owed(u)' = Owed(u)
  BY <1>0, <1>a DEF ScanFull, Return, Goto, PhaseOK, Owed, TypeOK, Commands
<1>4. SlotOK'
  BY <1>0 DEF ScanFull, Return, Goto, SlotOK, OneSlotPerProcess, Matches, Available, TypeOK
<1>5. LockOK'
  BY <1>0, <1>3, LockFrame DEF ScanFull, Return, Goto
<1> QED
  BY <1>1, <1>2, <1>3, <1>4, <1>5 DEF IInv

LEMMA DataLockPreserves ==
  ASSUME IInv, NEW t \in Threads, DataLock(t)
  PROVE  IInv'
<1> USE ProcessAssumption, NamesAssumption, BoundsAssumption
<1>0. TypeOK /\ MutexOK /\ PhaseOK /\ SlotOK /\ LockOK
  BY DEF IInv
<1>1. TypeOK'
  BY <1>0 DEF DataLock, Goto, TypeOK, Commands
<1>2. MutexOK'
  BY <1>0 DEF DataLock, Goto, MutexOK, TypeOK
<1>3. PhaseOK' /\ \A u \in Threads : Owed(u)' = Owed(u)
  BY <1>0 DEF DataLock, Goto, PhaseOK, Owed, TypeOK, Commands
<1>4. SlotOK'
  BY <1>0 DEF DataLock, Goto, SlotOK, OneSlotPerProcess, Matches, Available, TypeOK
<1>5. LockOK'
  BY <1>0, <1>3, LockFrame DEF DataLock, Goto
<1> QED
  BY <1>1, <1>2, <1>3, <1>4, <1>5 DEF IInv

LEMMA TestTakePreserves ==
  ASSUME IInv, NEW t \in Threads, TestTake(t)
  PROVE  IInv'
<1> USE ProcessAssumption, NamesAssumption, BoundsAssumption
<1>0. TypeOK /\ MutexOK /\ PhaseOK /\ SlotOK /\ LockOK
  BY DEF IInv
<1>1. TypeOK'
  BY <1>0 DEF TestTake, Goto, kernelVars, TypeOK, Commands
<1>2. MutexOK'
  BY <1>0 DEF TestTake, Goto, kernelVars, MutexOK, TypeOK
<1>3. PhaseOK' /\ \A u \in Threads : Owed(u)' = Owed(u)
  BY <1>0 DEF TestTake, Goto, kernelVars, PhaseOK, Owed, TypeOK, Commands
<1>4. SlotOK'
  BY <1>0 DEF TestTake, Goto, kernelVars, SlotOK, OneSlotPerProcess, Matches, Available, TypeOK
<1>5. LockOK'
  BY <1>0, <1>3, LockFrame DEF TestTake, Goto, kernelVars
<1> QED
  BY <1>1, <1>2, <1>3, <1>4, <1>5 DEF IInv

LEMMA TestFailPreserves ==
  ASSUME IInv, NEW t \in Threads, TestFail(t)
  PROVE  IInv'
<1> USE ProcessAssumption, NamesAssumption, BoundsAssumption
<1>0. TypeOK /\ MutexOK /\ PhaseOK /\ SlotOK /\ LockOK
  BY DEF IInv
<1>1. TypeOK'
  <2>1. data_mutex' \in [Index -> Threads \cup {Nobody}]
    BY <1>0 DEF TestFail, DataUnlock, TypeOK
  <2>2. CASE trycount[t] + 1 = MaxTry
    <3>1. 0 \in Index /\ 0 \in 0 .. MaxTry - 1
      BY DEF Index
    <3>2. cmd[t] = "LockMutex"
      BY <1>0 DEF TestFail, PhaseOK
    <3> QED
      BY <1>0, <2>1, <2>2, <3>1, <3>2
      DEF TestFail, Return, Goto, TypeOK, Commands
  <2>3. CASE trycount[t] + 1 # MaxTry
    <3>1. trycount[t] + 1 \in 0 .. MaxTry - 1
      BY <1>0, <2>3 DEF TypeOK
    <3>2. trycount' \in [Threads -> 0 .. MaxTry - 1]
      BY <1>0, <2>3, <3>1 DEF TestFail, TypeOK
    <3> QED
      BY <1>0, <2>1, <2>3, <3>2 DEF TestFail, Goto, TypeOK
  <2> QED
    BY <2>2, <2>3
<1>2. MutexOK'
  BY <1>0 DEF TestFail, DataUnlock, Return, Goto, MutexOK, TypeOK
<1>3. PhaseOK' /\ \A u \in Threads : Owed(u)' = Owed(u)
  BY <1>0 DEF TestFail, DataUnlock, Return, Goto, PhaseOK, Owed, TypeOK, Commands
<1>4. SlotOK'
  BY <1>0 DEF TestFail, DataUnlock, Return, Goto, SlotOK, OneSlotPerProcess, Matches, Available, TypeOK
<1>5. LockOK'
  BY <1>0, <1>3, LockFrame DEF TestFail, DataUnlock, Return, Goto
<1> QED
  BY <1>1, <1>2, <1>3, <1>4, <1>5 DEF IInv

-----------------------------------------------------------------------------
(* Steps that change a slot. *)

\* The process had no slot, so it owed nothing: its new slot is free.
LEMMA InsertPreserves ==
  ASSUME IInv, NEW t \in Threads, Insert(t)
  PROVE  IInv'
<1> USE ProcessAssumption, NamesAssumption, BoundsAssumption, NullAssumption
<1>0. TypeOK /\ MutexOK /\ PhaseOK /\ SlotOK /\ LockOK
  BY DEF IInv
<1>1. PICK g \in Threads \cup {Nobody} :
        procs' = [procs EXCEPT ![proc[t]] =
                    [pid |-> ProcOf[t], tid |-> g, count |-> 0]]
  BY DEF Insert
<1> DEFINE new == [pid |-> ProcOf[t], tid |-> g, count |-> 0]
<1>2. new \in Slot /\ new # NULL /\ new.pid = ProcOf[t] /\ new.count = 0
  BY DEF Slot
<1> HIDE DEF new
<1>3. /\ proc[t] \in Index /\ procs[proc[t]] = NULL /\ Matches(t) = {}
      /\ procs \in [Index -> Slot \cup {NULL}]
      /\ cmd[t] # "UnlockMutex"
  BY <1>0 DEF Insert, TypeOK, SlotOK, PhaseOK
<1>4. /\ procs'[proc[t]] = new
      /\ \A i \in Index : i # proc[t] => procs'[i] = procs[i]
      /\ procs' \in [Index -> Slot \cup {NULL}]
  BY <1>1, <1>2, <1>3 DEF new
<1>5. Dispatch(t, proc[t])
  BY DEF Insert
<1>6. TypeOK'
  <2>1. CASE cmd[t] \in {"LockMutex", "UnlockMutex"}
    BY <1>0, <1>3, <1>4, <1>5, <2>1 DEF Dispatch, Goto, TypeOK
  <2>2. CASE cmd[t] \notin {"LockMutex", "UnlockMutex"}
    <3>1. 0 \in Index /\ 0 \in 0 .. MaxTry - 1
      BY DEF Index
    <3>2. ready' \subseteq Procs /\ depth' = depth
      BY <1>0, <1>5, <2>2 DEF Dispatch, Return, TypeOK
    <3> QED
      BY <1>0, <1>4, <1>5, <2>2, <3>1, <3>2
      DEF Dispatch, Return, Goto, TypeOK, Commands
  <2> QED
    BY <2>1, <2>2
<1>7. MutexOK'
  BY <1>0, <1>5 DEF Insert, Dispatch, Return, Goto, MutexOK, TypeOK
<1>8. PhaseOK' /\ \A u \in Threads : Owed(u)' = Owed(u)
  BY <1>0, <1>3, <1>5
  DEF Insert, Dispatch, Return, Goto, PhaseOK, Owed, TypeOK, Commands
<1>9. SlotOK'
  <2>1. OneSlotPerProcess'
    BY <1>0, <1>2, <1>3, <1>4 DEF SlotOK, OneSlotPerProcess, Matches
  <2>2. ASSUME NEW u \in Threads, u # t
        PROVE  /\ pc'[u] = pc[u] /\ proc'[u] = proc[u] /\ pc[u] # "insert"
               /\ proc[u] \in Index
    BY <1>0, <1>5, <2>2
    DEF Insert, Dispatch, Return, Goto, MutexOK, TypeOK
  <2>3. ASSUME NEW u \in Threads, u # t,
               pc[u] \in {"data", "test", "take", "release"}
        PROVE  proc[u] # proc[t] /\ procs'[proc[u]] = procs[proc[u]]
    BY <1>0, <1>3, <1>4, <2>2, <2>3 DEF SlotOK
  <2>4. pc'[t] \in {"data", "user", "waiting"}
        /\ (pc'[t] = "data" => proc'[t] = proc[t])
    BY <1>0, <1>5 DEF Dispatch, Return, Goto, TypeOK
  <2>5. ASSUME NEW u \in Threads
        PROVE /\ pc'[u] \in {"data", "test", "take", "release"} =>
                   procs'[proc'[u]] # NULL /\ procs'[proc'[u]].pid = ProcOf[u]
              /\ pc'[u] # "insert"
              /\ pc'[u] = "take" => Available(u)'
    BY <1>0, <1>2, <1>4, <2>2, <2>3, <2>4 DEF SlotOK, Available
  <2> QED
    BY <2>1, <2>5 DEF SlotOK
<1>10. LockOK'
  <2>1. \A u \in Threads : ProcOf[u] = ProcOf[t] => Owed(u) = 0
    <3>1. \A u \in Threads : ProcOf[u] = ProcOf[t] => Matches(u) = {}
      BY <1>3 DEF Matches
    <3>2. \A u \in Threads : Owed(u) \in Nat
      BY <1>0 DEF PhaseOK
    <3> QED
      BY <1>0, <3>1, <3>2 DEF LockOK
  <2>2. ASSUME NEW i \in Index, i = proc[t] PROVE SlotFree(procs[i])'
    BY <1>2, <1>4, <1>8, <2>1, <2>2 DEF SlotFree
  <2>3. ASSUME NEW i \in Index, i # proc[t], procs'[i] # NULL
        PROVE  SlotFree(procs[i])' \/ SlotTaken(procs[i])'
    <3>1. procs'[i] = procs[i]
      BY <1>4, <2>3
    <3>2. SlotFree(procs[i]) \/ SlotTaken(procs[i])
      BY <1>0, <2>3, <3>1 DEF LockOK
    <3>3. CASE SlotFree(procs[i])
      BY <1>8, <3>1, <3>3 DEF SlotFree
    <3>4. CASE SlotTaken(procs[i])
      BY <1>8, <3>1, <3>4 DEF SlotTaken
    <3> QED
      BY <3>2, <3>3, <3>4
  <2>4. \A u \in Threads : Matches(u) \subseteq Matches(u)'
    BY <1>3, <1>4 DEF Matches
  <2>5. \A u \in Threads : Owed(u)' > 0 => Matches(u)' # {}
    BY <1>0, <1>8, <2>4 DEF LockOK
  <2> QED
    BY <2>2, <2>3, <2>5 DEF LockOK
<1> QED
  BY <1>6, <1>7, <1>8, <1>9, <1>10 DEF IInv

\* What Take and Release share: the slot of t is rewritten under its mutex,
\* keeps its pid, and only the debt of t changes.
LEMMA RewritePreserves ==
  ASSUME IInv, NEW t \in Threads, pc[t] \in {"take", "release"},
         NEW s \in Slot, s.pid = ProcOf[t],
         procs' = [procs EXCEPT ![proc[t]] = s],
         DataUnlock(t), Return(t, 0), UNCHANGED info_mutex,
         Owed(t)' \in 0 .. MaxDepth, depth'[t] \in 0 .. MaxDepth,
         s.count = Owed(t)', s.tid = t,
         \A u \in Threads \ {t} : ProcOf[u] = ProcOf[t] => Owed(u) = 0
  PROVE  IInv'
<1> USE ProcessAssumption, NamesAssumption, BoundsAssumption, NullAssumption
<1>0. TypeOK /\ MutexOK /\ PhaseOK /\ SlotOK /\ LockOK
  BY DEF IInv
<1>1. /\ proc[t] \in Index /\ procs[proc[t]] # NULL
      /\ procs[proc[t]].pid = ProcOf[t]
      /\ procs \in [Index -> Slot \cup {NULL}]
  BY <1>0 DEF TypeOK, SlotOK
<1>2. /\ procs'[proc[t]] = s /\ s # NULL
      /\ \A i \in Index : i # proc[t] => procs'[i] = procs[i]
      /\ procs' \in [Index -> Slot \cup {NULL}]
  BY <1>1
<1>3. /\ pc' = [pc EXCEPT ![t] = "user"]
      /\ \A u \in Threads : u # t => depth'[u] = depth[u] /\ cmd'[u] = cmd[u]
                                     /\ proc'[u] = proc[u]
      /\ depth' \in [Threads -> 0 .. MaxDepth]
      /\ cmd'[t] = "Other"
  BY <1>0 DEF Return, Goto, TypeOK
<1>4. \A u \in Threads : u # t => Owed(u)' = Owed(u)
  BY <1>0, <1>3 DEF Owed, TypeOK
<1>5. TypeOK'
  <2>1. 0 \in Index /\ 0 \in 0 .. MaxTry - 1
    BY DEF Index
  <2>2. ready' \subseteq Procs /\ cmd' \in [Threads -> Commands]
        /\ proc' \in [Threads -> Index] /\ trycount' \in [Threads -> 0 .. MaxTry - 1]
    BY <1>0, <2>1 DEF Return, TypeOK, Commands
  <2>3. data_mutex' \in [Index -> Threads \cup {Nobody}]
    BY <1>0 DEF DataUnlock, TypeOK
  <2> QED
    BY <1>0, <1>2, <1>3, <2>2, <2>3 DEF TypeOK
<1>6. MutexOK'
  BY <1>0, <1>3 DEF DataUnlock, MutexOK, TypeOK
<1>7. PhaseOK'
  BY <1>0, <1>3, <1>4 DEF PhaseOK, TypeOK
<1>8. SlotOK'
  <2>1. OneSlotPerProcess'
    BY <1>0, <1>1, <1>2 DEF SlotOK, OneSlotPerProcess
  <2>2. \A u \in Threads : Matches(u)' = Matches(u)
    BY <1>1, <1>2 DEF Matches
  <2>3. ASSUME NEW u \in Threads, u # t
        PROVE  /\ pc[u] \in {"data", "test", "take", "release"} =>
                    procs'[proc[u]] # NULL /\ procs'[proc[u]].pid = ProcOf[u]
               /\ pc[u] = "insert" => procs'[proc[u]] = NULL
               /\ pc[u] = "take" => procs'[proc[u]] = procs[proc[u]]
    <3>1. proc[u] \in Index
      BY <1>0 DEF TypeOK
    <3>2. pc[u] = "take" => proc[u] # proc[t]
      BY <1>0, <1>1, <2>3, <3>1 DEF MutexOK
    <3> QED
      BY <1>0, <1>1, <1>2, <3>1, <3>2 DEF SlotOK
  <2>4. ASSUME NEW u \in Threads, u # t
        PROVE  pc'[u] = pc[u] /\ proc'[u] = proc[u]
    BY <1>0, <1>3, <2>4 DEF TypeOK
  <2>5. pc'[t] = "user"
    BY <1>0, <1>3 DEF TypeOK
  <2> QED
    BY <1>0, <2>1, <2>2, <2>3, <2>4, <2>5 DEF SlotOK, Available
<1>9. LockOK'
  <2>1. ASSUME NEW i \in Index, i = proc[t]
        PROVE  SlotFree(procs[i])' \/ SlotTaken(procs[i])'
    <3>1. \A u \in Threads \ {t} : ProcOf[u] = ProcOf[t] => Owed(u)' = 0
      BY <1>4
    <3>2. CASE s.count = 0
      BY <1>2, <2>1, <3>1, <3>2 DEF SlotFree
    <3>3. CASE s.count # 0
      <4>1. s.count > 0
        BY <3>3
      <4> QED
        BY <1>2, <2>1, <3>1, <4>1 DEF SlotTaken
    <3> QED
      BY <3>2, <3>3
  <2>2. ASSUME NEW i \in Index, i # proc[t], procs'[i] # NULL
        PROVE  SlotFree(procs[i])' \/ SlotTaken(procs[i])'
    <3>1. procs'[i] = procs[i] /\ procs[i].pid # ProcOf[t]
      BY <1>0, <1>1, <1>2, <2>2 DEF SlotOK, OneSlotPerProcess
    <3>2. SlotFree(procs[i]) \/ SlotTaken(procs[i])
      BY <1>0, <2>2, <3>1 DEF LockOK
    <3>3. \A u \in Threads : ProcOf[u] = procs[i].pid => Owed(u)' = Owed(u)
      BY <1>4, <3>1
    <3>4. CASE SlotFree(procs[i])
      BY <3>1, <3>3, <3>4 DEF SlotFree
    <3>5. CASE SlotTaken(procs[i])
      BY <3>1, <3>3, <3>5 DEF SlotTaken
    <3> QED
      BY <3>2, <3>4, <3>5
  <2>3. \A u \in Threads : Matches(u)' = Matches(u)
    BY <1>1, <1>2 DEF Matches
  <2>4. Matches(t) # {}
    BY <1>1 DEF Matches
  <2>5. \A u \in Threads : Owed(u)' > 0 => Matches(u)' # {}
    BY <1>0, <1>4, <2>3, <2>4 DEF LockOK
  <2> QED
    BY <2>1, <2>2, <2>5 DEF LockOK
<1> QED
  BY <1>5, <1>6, <1>7, <1>8, <1>9 DEF IInv

\* The state of the slot a take or release works on.
LEMMA OwnSlot ==
  ASSUME IInv, NEW t \in Threads, pc[t] \in {"take", "release"}
  PROVE  /\ proc[t] \in Index /\ procs[proc[t]] \in Slot
         /\ procs \in [Index -> Slot \cup {NULL}]
         /\ procs[proc[t]].pid = ProcOf[t]
         /\ procs[proc[t]].count = Owed(t)
         /\ \A u \in Threads \ {t} : ProcOf[u] = ProcOf[t] => Owed(u) = 0
<1>1. /\ proc[t] \in Index /\ procs[proc[t]] # NULL
      /\ procs[proc[t]].pid = ProcOf[t]
      /\ procs \in [Index -> Slot \cup {NULL}]
  BY DEF IInv, TypeOK, SlotOK
<1>2. SlotFree(procs[proc[t]]) \/ SlotTaken(procs[proc[t]])
  BY <1>1 DEF IInv, LockOK
<1>3. CASE SlotFree(procs[proc[t]])
  BY <1>1, <1>3, NullAssumption DEF SlotFree
<1>4. CASE SlotTaken(procs[proc[t]])
  <2>1. procs[proc[t]].tid = t
    <3>1. CASE pc[t] = "take"
      <4>1. Available(t)
        BY <3>1 DEF IInv, SlotOK
      <4> QED
        BY <1>4, <4>1 DEF SlotTaken, Available
    <3>2. CASE pc[t] = "release"
      <4>1. Owed(t) > 0
        BY <3>2 DEF IInv, PhaseOK, TypeOK, Owed
      <4> QED
        BY <1>1, <1>4, <4>1 DEF SlotTaken
    <3> QED
      BY <3>1, <3>2
  <2> QED
    BY <1>1, <1>4, <2>1 DEF SlotTaken
<1> QED
  BY <1>2, <1>3, <1>4

LEMMA TakePreserves ==
  ASSUME IInv, NEW t \in Threads, Take(t)
  PROVE  IInv'
<1> USE BoundsAssumption, NamesAssumption, ProcessAssumption
<1> DEFINE new == [pid |-> procs[proc[t]].pid, tid |-> t,
                   count |-> (procs[proc[t]].count + 1) % CountMod]
<1>1. /\ proc[t] \in Index /\ procs[proc[t]] \in Slot
      /\ procs \in [Index -> Slot \cup {NULL}]
      /\ procs[proc[t]].pid = ProcOf[t]
      /\ procs[proc[t]].count = Owed(t)
      /\ \A u \in Threads \ {t} : ProcOf[u] = ProcOf[t] => Owed(u) = 0
  BY OwnSlot DEF Take
<1>2. pc[t] = "take" /\ cmd[t] = "LockMutex" /\ Owed(t) = depth[t]
      /\ depth[t] \in Nat /\ depth[t] < MaxDepth
  BY DEF Take, IInv, PhaseOK, Owed, TypeOK
<1>3. (Owed(t) + 1) % CountMod = Owed(t) + 1
  BY <1>2
<1>4. new \in Slot /\ new.pid = ProcOf[t] /\ new.tid = t
      /\ new.count = Owed(t) + 1
  <2>1. ProcOf[t] \in Procs
    OBVIOUS
  <2> QED
    BY <1>1, <1>2, <1>3, <2>1 DEF Slot
<1>5. procs' = [procs EXCEPT ![proc[t]] = new]
  BY <1>1 DEF Take
<1> HIDE DEF new
<1>6. depth'[t] = depth[t] + 1 /\ pc'[t] = "user"
  BY <1>2 DEF Take, Return, Goto, IInv, TypeOK
<1>7. Owed(t)' = Owed(t) + 1
  BY <1>2, <1>6 DEF Owed
<1> QED
  <2>1. Owed(t)' \in 0 .. MaxDepth /\ depth'[t] \in 0 .. MaxDepth
    BY <1>2, <1>6, <1>7
  <2>2. DataUnlock(t) /\ Return(t, 0) /\ UNCHANGED info_mutex
    BY DEF Take
  <2>3. new.count = Owed(t)'
    BY <1>4, <1>7
  <2>4. pc[t] \in {"take", "release"}
    BY <1>2
  <2> QED
    BY <1>1, <1>4, <1>5, <2>1, <2>2, <2>3, <2>4, RewritePreserves

LEMMA ReleasePreserves ==
  ASSUME IInv, NEW t \in Threads, Release(t)
  PROVE  IInv'
<1> USE BoundsAssumption, NamesAssumption, ProcessAssumption
<1> DEFINE new == [procs[proc[t]] EXCEPT !.count = (@ - 1) % CountMod]
<1>1. /\ proc[t] \in Index /\ procs[proc[t]] \in Slot
      /\ procs \in [Index -> Slot \cup {NULL}]
      /\ procs[proc[t]].pid = ProcOf[t]
      /\ procs[proc[t]].count = Owed(t)
      /\ \A u \in Threads \ {t} : ProcOf[u] = ProcOf[t] => Owed(u) = 0
  BY OwnSlot DEF Release
<1>2. pc[t] = "release" /\ cmd[t] = "UnlockMutex" /\ Owed(t) = depth[t] + 1
      /\ depth[t] \in Nat /\ Owed(t) <= MaxDepth
  BY DEF Release, IInv, PhaseOK, Owed, TypeOK
<1>3. (Owed(t) - 1) % CountMod = Owed(t) - 1
  BY <1>2
<1>a. procs[proc[t]].tid = t
  BY <1>1, <1>2, NullAssumption DEF IInv, LockOK, SlotFree, SlotTaken
<1>4. new \in Slot /\ new.pid = ProcOf[t] /\ new.tid = t
      /\ new.count = Owed(t) - 1
  BY <1>1, <1>2, <1>3, <1>a DEF Slot
<1>5. procs' = [procs EXCEPT ![proc[t]] = new]
  BY <1>1 DEF Release
<1> HIDE DEF new
<1>6. depth'[t] = depth[t] /\ pc'[t] = "user"
  BY <1>2 DEF Release, Return, Goto, IInv, TypeOK
<1>7. Owed(t)' = Owed(t) - 1
  BY <1>2, <1>6 DEF Owed
<1> QED
  <2>1. Owed(t)' \in 0 .. MaxDepth /\ depth'[t] \in 0 .. MaxDepth
    BY <1>2, <1>6, <1>7
  <2>2. DataUnlock(t) /\ Return(t, 0) /\ UNCHANGED info_mutex
    BY DEF Release
  <2>3. new.count = Owed(t)'
    BY <1>4, <1>7
  <2>4. pc[t] \in {"take", "release"}
    BY <1>2
  <2> QED
    BY <1>1, <1>4, <1>5, <2>1, <2>2, <2>3, <2>4, RewritePreserves
-----------------------------------------------------------------------------
LEMMA StutterPreserves ==
  ASSUME IInv, UNCHANGED vars
  PROVE  IInv'
<1>0. TypeOK /\ MutexOK /\ PhaseOK /\ SlotOK /\ LockOK
  BY DEF IInv
<1>1. TypeOK' /\ MutexOK'
  BY <1>0 DEF vars, TypeOK, MutexOK
<1>2. PhaseOK' /\ \A u \in Threads : Owed(u)' = Owed(u)
  BY <1>0 DEF vars, PhaseOK, Owed
<1>3. SlotOK'
  BY <1>0 DEF vars, SlotOK, OneSlotPerProcess, Matches, Available
<1>4. LockOK'
  BY <1>0, <1>2, LockFrame DEF vars
<1> QED
  BY <1>1, <1>2, <1>3, <1>4 DEF IInv

LEMMA StepPreserves == IInv /\ [Next]_vars => IInv'
<1> SUFFICES ASSUME IInv, [Next]_vars PROVE IInv'
  OBVIOUS
<1>1. ASSUME NEW t \in Threads, NEW m \in Commands, Call(t, m) PROVE IInv'
  BY <1>1, CallPreserves
<1>2. ASSUME NEW t \in Threads, Step(t) PROVE IInv'
  BY <1>2, RetryPreserves, InfoLockPreserves, ScanFoundPreserves,
     ScanFreePreserves, ScanFullPreserves, InsertPreserves, DataLockPreserves,
     TestTakePreserves, TestFailPreserves, TakePreserves, ReleasePreserves
  DEF Step
<1>3. ASSUME NEW p \in Procs, Exit(p) PROVE IInv'
  BY <1>3, ExitPreserves
<1>4. CASE Ended \/ UNCHANGED vars
  BY <1>4, StutterPreserves DEF Ended
<1> QED
  BY <1>1, <1>2, <1>3, <1>4 DEF Next

THEOREM Invariance == Spec => []IInv
BY InitEstablishes, StepPreserves, PTL DEF Spec

\* Every variable of the lock call keeps its type, count without its wrap.
THEOREM TypeCorrect == Spec => []TypeOK
<1>1. IInv => TypeOK
  BY DEF IInv
<1> QED
  BY <1>1, Invariance, PTL

\* No two threads that ask at once make two slots for one process.
THEOREM SlotUnique == Spec => []OneSlotPerProcess
<1>1. IInv => OneSlotPerProcess
  BY DEF IInv, SlotOK
<1> QED
  BY <1>1, Invariance, PTL

\* The kernel's count is exactly what the lock's owner still owes.
THEOREM CountIsDebt == Spec => []CountExact
<1>1. ASSUME IInv, NEW i \in Index, NEW t \in Threads, procs[i] # NULL,
             procs[i].pid = ProcOf[t], Owed(t) > 0
      PROVE  procs[i].count = Owed(t) /\ procs[i].tid = t
  <2>1. SlotFree(procs[i]) \/ SlotTaken(procs[i])
    BY <1>1 DEF IInv, LockOK
  <2> QED
    BY <1>1, <2>1 DEF SlotFree, SlotTaken
<1>2. IInv => CountExact
  BY <1>1 DEF CountExact
<1> QED
  BY <1>2, Invariance, PTL

\* Two threads of one process never both have its lock.
THEOREM Exclusion == Spec => []MutualExclusion
<1>1. ASSUME IInv, NEW t \in Threads, NEW u \in Threads, t # u,
             ProcOf[t] = ProcOf[u], depth[t] # 0, depth[u] # 0
      PROVE  FALSE
  <2>1. Owed(t) > 0 /\ Owed(u) > 0
    BY <1>1, BoundsAssumption DEF IInv, TypeOK, Owed
  <2>2. PICK i \in Index : procs[i] # NULL /\ procs[i].pid = ProcOf[t]
    BY <1>1, <2>1 DEF IInv, LockOK, Matches
  <2>3. SlotFree(procs[i]) \/ SlotTaken(procs[i])
    BY <1>1, <2>2 DEF IInv, LockOK
  <2> QED
    BY <1>1, <2>1, <2>2, <2>3 DEF SlotFree, SlotTaken
<1>2. IInv => MutualExclusion
  BY <1>1 DEF MutualExclusion
<1> QED
  BY <1>2, Invariance, PTL
-----------------------------------------------------------------------------
(* Each process's slot implements RecursiveLock.  What the abstract lock   *)
(* sees of a process is its one slot; a step that leaves the slots alone,  *)
(* or adds one whose count is 0, changes nothing there.                    *)

\* CHOOSE takes a process's only slot; without one its lock is free.
LEMMA TheSlot ==
  ASSUME NEW p, NEW i,
         SlotsOf(p) = {i}
  PROVE  /\ CountOf(p) = procs[i].count
         /\ OwnerOf(p) = IF procs[i].count = 0 THEN Nobody ELSE procs[i].tid
<1>1. (CHOOSE j \in {i} : TRUE) = i
  OBVIOUS
<1> QED
  BY <1>1 DEF CountOf, OwnerOf

LEMMA TheSlotNext ==
  ASSUME NEW p, NEW i,
         SlotsOf(p)' = {i}
  PROVE  /\ CountOf(p)' = procs'[i].count
         /\ OwnerOf(p)' = IF procs'[i].count = 0 THEN Nobody ELSE procs'[i].tid
<1>1. (CHOOSE j \in {i} : TRUE) = i
  OBVIOUS
<1> QED
  BY <1>1 DEF CountOf, OwnerOf

LEMMA NoSlot ==
  ASSUME NEW p, SlotsOf(p) = {}
  PROVE  CountOf(p) = 0 /\ OwnerOf(p) = Nobody
BY DEF CountOf, OwnerOf

\* A process whose slots are the same and unchanged sees the lock it saw.
LEMMA SameSlots ==
  ASSUME NEW p, SlotsOf(p)' = SlotsOf(p),
         \A i \in SlotsOf(p) : procs'[i] = procs[i]
  PROVE  CountOf(p)' = CountOf(p) /\ OwnerOf(p)' = OwnerOf(p)
<1> DEFINE i == CHOOSE j \in SlotsOf(p) : TRUE
<1>1. SlotsOf(p) # {} => procs'[i] = procs[i]
  OBVIOUS
<1>2. CountOf(p) = IF SlotsOf(p) = {} THEN 0 ELSE procs[i].count
  BY DEF CountOf
<1>3. CountOf(p)' = IF SlotsOf(p) = {} THEN 0 ELSE procs'[i].count
  BY DEF CountOf
<1>4. OwnerOf(p) = IF CountOf(p) = 0 THEN Nobody ELSE procs[i].tid
  BY DEF OwnerOf
<1>5. OwnerOf(p)' = IF CountOf(p)' = 0 THEN Nobody ELSE procs'[i].tid
  BY DEF OwnerOf
<1>6. CASE SlotsOf(p) = {}
  BY <1>2, <1>3, <1>4, <1>5, <1>6
<1>7. CASE SlotsOf(p) # {}
  BY <1>1, <1>2, <1>3, <1>4, <1>5, <1>7
<1> QED
  BY <1>6, <1>7

\* A step that rewrites or adds slot k shows only to the process of slot k.
LEMMA OtherProcesses ==
  ASSUME NEW k \in Index, NEW p,
         \A i \in Index \ {k} : procs'[i] = procs[i],
         procs[k] = NULL \/ procs[k].pid # p,
         procs'[k] = NULL \/ procs'[k].pid # p
  PROVE  CountOf(p)' = CountOf(p) /\ OwnerOf(p)' = OwnerOf(p)
<1>1. SlotsOf(p)' = SlotsOf(p) /\ \A i \in SlotsOf(p) : procs'[i] = procs[i]
  BY DEF SlotsOf
<1> QED
  BY <1>1, SameSlots

\* What a rewritten or added slot s shows of its process, and what it does not.
LEMMA SlotShows ==
  ASSUME IInv, IInv', NEW k \in Index, NEW p \in Procs,
         NEW s \in Slot, s.pid = p,
         procs' = [procs EXCEPT ![k] = s],
         procs[k] = NULL \/ procs[k].pid = p
  PROVE  /\ CountOf(p)' = s.count
         /\ OwnerOf(p)' = IF s.count = 0 THEN Nobody ELSE s.tid
         /\ \A q \in Procs \ {p} :
              CountOf(q)' = CountOf(q) /\ OwnerOf(q)' = OwnerOf(q)
<1>1. /\ procs'[k] = s /\ s # NULL
      /\ \A i \in Index \ {k} : procs'[i] = procs[i]
  BY NullAssumption DEF IInv, TypeOK
<1>2. SlotsOf(p)' = {k}
  BY <1>1 DEF IInv, SlotOK, OneSlotPerProcess, SlotsOf
<1>3. ASSUME NEW q \in Procs \ {p}
      PROVE  CountOf(q)' = CountOf(q) /\ OwnerOf(q)' = OwnerOf(q)
  BY <1>1, <1>3, OtherProcesses
<1>4. CountOf(p)' = s.count /\ OwnerOf(p)' = IF s.count = 0 THEN Nobody ELSE s.tid
  BY <1>1, <1>2, TheSlotNext
<1> QED
  BY <1>3, <1>4

LEMMA SlotsKept ==
  ASSUME procs' = procs, NEW p
  PROVE  CountOf(p)' = CountOf(p) /\ OwnerOf(p)' = OwnerOf(p)
<1>1. SlotsOf(p)' = SlotsOf(p)
  BY DEF SlotsOf
<1> QED
  BY <1>1, SameSlots

\* A lock that nothing shows a change of stutters.
LEMMA NothingShows ==
  ASSUME \A p \in Procs : CountOf(p)' = CountOf(p) /\ OwnerOf(p)' = OwnerOf(p)
  PROVE  UNCHANGED <<[p \in Procs |-> OwnerOf(p)], [p \in Procs |-> CountOf(p)]>>
OBVIOUS

\* A new slot has count 0, so its process's lock is as free as without one.
LEMMA InsertStutters ==
  ASSUME IInv, IInv', NEW t \in Threads, Insert(t)
  PROVE  \A p \in Procs : CountOf(p)' = CountOf(p) /\ OwnerOf(p)' = OwnerOf(p)
<1>1. PICK g \in Threads \cup {Nobody} :
        procs' = [procs EXCEPT ![proc[t]] =
                    [pid |-> ProcOf[t], tid |-> g, count |-> 0]]
  BY DEF Insert
<1> DEFINE new == [pid |-> ProcOf[t], tid |-> g, count |-> 0]
<1>2. new \in Slot /\ new.pid = ProcOf[t] /\ new.count = 0
  BY ProcessAssumption, BoundsAssumption DEF Slot
<1>3. proc[t] \in Index /\ procs[proc[t]] = NULL /\ Matches(t) = {}
  BY DEF Insert, IInv, TypeOK, SlotOK
<1>4. procs' = [procs EXCEPT ![proc[t]] = new]
  BY <1>1
<1> HIDE DEF new
<1>0. ProcOf[t] \in Procs
  BY ProcessAssumption
<1>5. /\ CountOf(ProcOf[t])' = 0 /\ OwnerOf(ProcOf[t])' = Nobody
      /\ \A p \in Procs \ {ProcOf[t]} :
           CountOf(p)' = CountOf(p) /\ OwnerOf(p)' = OwnerOf(p)
  BY <1>0, <1>2, <1>3, <1>4, SlotShows
<1>6. SlotsOf(ProcOf[t]) = {}
  BY <1>3 DEF Matches, SlotsOf
<1>7. CountOf(ProcOf[t]) = 0 /\ OwnerOf(ProcOf[t]) = Nobody
  BY <1>6, NoSlot
<1> QED
  BY <1>5, <1>7

\* What the abstract lock shows before a take or a release: t's own slot.
LEMMA OwnLock ==
  ASSUME IInv, NEW t \in Threads, pc[t] \in {"take", "release"}
  PROVE  /\ CountOf(ProcOf[t]) = procs[proc[t]].count
         /\ OwnerOf(ProcOf[t]) = IF procs[proc[t]].count = 0 THEN Nobody
                                 ELSE procs[proc[t]].tid
<1>1. /\ proc[t] \in Index /\ procs[proc[t]] # NULL
      /\ procs[proc[t]].pid = ProcOf[t]
  BY DEF IInv, TypeOK, SlotOK
<1>2. SlotsOf(ProcOf[t]) = {proc[t]}
  BY <1>1 DEF IInv, SlotOK, OneSlotPerProcess, SlotsOf
<1> QED
  BY <1>2, TheSlot

LEMMA TakeAcquires ==
  ASSUME IInv, IInv', NEW t \in Threads, Take(t)
  PROVE  RL!Acquire(t)
<1> USE BoundsAssumption, ProcessAssumption
<1>0. ProcOf[t] \in Procs
  OBVIOUS
<1> DEFINE old == procs[proc[t]]
           new == [pid |-> ProcOf[t], tid |-> t, count |-> old.count + 1]
<1>1. /\ proc[t] \in Index /\ old \in Slot /\ old.pid = ProcOf[t]
      /\ procs \in [Index -> Slot \cup {NULL}]
      /\ old.count = Owed(t)
  BY OwnSlot DEF Take
<1>2. pc[t] = "take" /\ Owed(t) = depth[t] /\ depth[t] \in Nat /\ depth[t] < MaxDepth
      /\ Available(t)
  BY DEF Take, IInv, PhaseOK, SlotOK, Owed, TypeOK
<1>3. (old.count + 1) % CountMod = old.count + 1
  BY <1>1, <1>2
<1>4. new \in Slot /\ new.pid = ProcOf[t] /\ new.tid = t /\ new.count = old.count + 1
      /\ new.count # 0
  BY <1>1, <1>2 DEF Slot
<1>5. procs' = [procs EXCEPT ![proc[t]] = new]
  BY <1>1, <1>3 DEF Take
<1>6. /\ CountOf(ProcOf[t]) = old.count
      /\ OwnerOf(ProcOf[t]) = IF old.count = 0 THEN Nobody ELSE old.tid
  BY <1>2, OwnLock
<1>7. OwnerOf(ProcOf[t]) \in {Nobody, t}
  BY <1>2, <1>6 DEF Available
<1> HIDE DEF new
<1>8. /\ CountOf(ProcOf[t])' = old.count + 1 /\ OwnerOf(ProcOf[t])' = t
      /\ \A p \in Procs \ {ProcOf[t]} :
           CountOf(p)' = CountOf(p) /\ OwnerOf(p)' = OwnerOf(p)
  BY <1>0, <1>1, <1>4, <1>5, SlotShows
<1> HIDE DEF old
<1> QED
  BY <1>6, <1>7, <1>8 DEF RL!Acquire

LEMMA ReleaseReleases ==
  ASSUME IInv, IInv', NEW t \in Threads, Release(t)
  PROVE  RL!Release(t)
<1> USE BoundsAssumption, ProcessAssumption
<1>0. ProcOf[t] \in Procs
  OBVIOUS
<1> DEFINE old == procs[proc[t]]
           new == [pid |-> ProcOf[t], tid |-> t, count |-> old.count - 1]
<1>1. /\ proc[t] \in Index /\ old \in Slot /\ old.pid = ProcOf[t]
      /\ procs \in [Index -> Slot \cup {NULL}]
      /\ old.count = Owed(t)
  BY OwnSlot DEF Release
<1>2. pc[t] = "release" /\ Owed(t) = depth[t] + 1 /\ depth[t] \in Nat /\ Owed(t) <= MaxDepth
  BY DEF Release, IInv, PhaseOK, Owed, TypeOK
<1>3. (old.count - 1) % CountMod = old.count - 1
  BY <1>1, <1>2
<1>4. old.tid = t
  BY <1>1, <1>2, NullAssumption DEF IInv, LockOK, SlotFree, SlotTaken
<1>5. new \in Slot /\ new.pid = ProcOf[t] /\ new.tid = t /\ new.count = old.count - 1
  BY <1>1, <1>2 DEF Slot
<1>6. [old EXCEPT !.count = old.count - 1] = new
  BY <1>1, <1>4 DEF Slot
<1>7. procs' = [procs EXCEPT ![proc[t]] = [old EXCEPT !.count = old.count - 1]]
  BY <1>1, <1>3 DEF Release
<1>8. procs' = [procs EXCEPT ![proc[t]] = new]
  BY <1>6, <1>7
<1>9. CountOf(ProcOf[t]) = old.count /\ OwnerOf(ProcOf[t]) = t
  BY <1>1, <1>2, <1>4, OwnLock
<1> HIDE DEF new
<1>10. /\ CountOf(ProcOf[t])' = new.count
       /\ OwnerOf(ProcOf[t])' = IF new.count = 0 THEN Nobody ELSE new.tid
       /\ \A p \in Procs \ {ProcOf[t]} :
            CountOf(p)' = CountOf(p) /\ OwnerOf(p)' = OwnerOf(p)
  BY <1>0, <1>1, <1>5, <1>8, SlotShows
<1>11. /\ CountOf(ProcOf[t])' = old.count - 1
       /\ OwnerOf(ProcOf[t])' = IF old.count - 1 = 0 THEN Nobody ELSE t
       /\ \A p \in Procs \ {ProcOf[t]} :
            CountOf(p)' = CountOf(p) /\ OwnerOf(p)' = OwnerOf(p)
  BY <1>5, <1>10
<1>12. old.count - 1 = 0 <=> old.count = 1
  BY <1>1, <1>2
<1> HIDE DEF old
<1> QED
  BY <1>9, <1>11, <1>12 DEF RL!Release

\* Every step of lock_kmod is a step of the abstract locks or shows nothing.
LEMMA StepRefines ==
  ASSUME IInv, IInv', [Next]_vars
  PROVE  [RL!Next]_<<[p \in Procs |-> OwnerOf(p)], [p \in Procs |-> CountOf(p)]>>
<1>1. CASE procs' = procs
  BY <1>1, SlotsKept, NothingShows
<1>2. ASSUME NEW t \in Threads, Insert(t)
      PROVE  [RL!Next]_<<[p \in Procs |-> OwnerOf(p)], [p \in Procs |-> CountOf(p)]>>
  BY <1>2, InsertStutters, NothingShows
<1>3. ASSUME NEW t \in Threads, Take(t) PROVE RL!Next
  BY <1>3, TakeAcquires DEF RL!Next
<1>4. ASSUME NEW t \in Threads, Release(t) PROVE RL!Next
  BY <1>4, ReleaseReleases DEF RL!Next
<1>5. \/ procs' = procs
      \/ \E t \in Threads : Insert(t) \/ Take(t) \/ Release(t)
  BY DEF Next, Step, Call, Retry, Exit, InfoLock, ScanFound, ScanFree, ScanFull,
         DataLock, TestTake, TestFail, Ended, vars, kernelVars
<1> QED
  BY <1>1, <1>2, <1>3, <1>4, <1>5

LEMMA InitRefines == Init => RL!Init
<1> SUFFICES ASSUME Init PROVE RL!Init
  OBVIOUS
<1>1. ASSUME NEW p \in Procs PROVE CountOf(p) = 0 /\ OwnerOf(p) = Nobody
  <2>1. SlotsOf(p) = {}
    BY DEF Init, SlotsOf
  <2> QED
    BY <2>1, NoSlot
<1> QED
  BY <1>1 DEF RL!Init

\* Each process's slot is a recursive lock: it is taken only when free or by
\* the thread that has it, and freed by that thread's last release.
THEOREM Refinement == Spec => ImplementsRecursiveLock
<1>1. IInv /\ IInv' /\ [Next]_vars
        => [RL!Next]_<<[p \in Procs |-> OwnerOf(p)], [p \in Procs |-> CountOf(p)]>>
  BY StepRefines
<1> QED
  BY <1>1, InitRefines, Invariance, PTL DEF Spec, ImplementsRecursiveLock, RL!Spec

(***************************************************************************)
(* Proofs about BestOffer: the two prices are one offer whenever nobody    *)
(* has the lock, for every number of tries, every width of the count and   *)
(* every size of the slot table, whatever else the kernel module serves.   *)
(*                                                                         *)
(* LockKmod's invariant does the work of the lock: of the two threads that *)
(* set prices one owes at most.  What is left is the program's: at which   *)
(* operation a thread holds how many locks (PlaceOK), and what the prices  *)
(* are then (PricesOK).                                                    *)
(***************************************************************************)

\* The program is one process.
OneProcess == \A t, u \in Threads : ProcOf[t] = ProcOf[u]

Sellers == {Thd1, Thd2}

\* The price a seller sets first.
First(t) == IF t = Thd1 THEN wglass ELSE korg

\* Main initialises and creates, and holds nothing; each seller starts when
\* main comes to it.
MainOK ==
  /\ at[Main] \in 1 .. 7
  /\ pc[Main] # "exited" /\ depth[Main] = 0
  /\ cmd[Main] \in {"Other", "InitMutex"}
  /\ at[Main] <= 5 => at[Thd1] = 0
  /\ at[Main] <= 6 => at[Thd2] = 0

\* The locks a seller has between its operations, and during a call.
PlaceOK(t) ==
  /\ at[t] \in 0 .. 6
  /\ pc[t] # "exited"
  /\ pc[t] = "user" =>
       /\ at[t] \in {0, 1} => depth[t] = 0
       /\ at[t] \in {2, 3, 6} => depth[t] = 1
       /\ at[t] \in {4, 5} => depth[t] = 2
  /\ pc[t] # "user" =>
       \/ at[t] = 1 /\ cmd[t] = "UnlockMutex" /\ depth[t] = 0
       \/ at[t] = 2 /\ cmd[t] = "LockMutex" /\ depth[t] = 0
       \/ at[t] = 4 /\ cmd[t] = "LockMutex" /\ depth[t] = 1
       \/ at[t] = 6 /\ cmd[t] = "UnlockMutex" /\ depth[t] = 1

\* From the return of its first lock to the return of its last unlock.
Inside(t) ==
  /\ at[t] # 0
  /\ at[t] = 1 => pc[t] # "user"
  /\ at[t] = 2 => pc[t] = "user"

\* The prices a seller inside has come to, and those of an offer made.
PricesOK ==
  /\ \A t \in Sellers : Inside(t) =>
       /\ at[t] = 2 => wglass = korg
       /\ at[t] \in {3, 4} => First(t) = t
       /\ at[t] \in {5, 6, 1} => wglass = t /\ korg = t
  /\ (\A t \in Sellers : ~Inside(t)) => wglass = korg

OfferInv ==
  /\ at \in [Threads -> Nat]
  /\ MainOK
  /\ \A t \in Sellers : PlaceOK(t)
  /\ PricesOK
-----------------------------------------------------------------------------
(* What the system call does for one thread of the program. *)

\* A step of a call touches nobody else; it goes on, or returns to the program
\* with one lock more if that was asked.
LEMMA CallEffect ==
  ASSUME TypeOK, NEW t \in Threads, Step(t)
  PROVE  /\ pc[t] \notin {"user", "exited"}
         /\ \A u \in Threads \ {t} :
              pc'[u] = pc[u] /\ cmd'[u] = cmd[u] /\ depth'[u] = depth[u]
         /\ \/ /\ pc'[t] \notin {"user", "exited"}
               /\ cmd'[t] = cmd[t] /\ depth'[t] = depth[t]
            \/ /\ pc'[t] = "user" /\ cmd'[t] = "Other"
               /\ depth'[t] = depth[t] + (IF cmd[t] = "LockMutex" THEN 1 ELSE 0)
<1> USE DEF TypeOK, Goto
<1>1. CASE Retry(t)
  BY <1>1 DEF Retry
<1>2. CASE InfoLock(t)
  BY <1>2 DEF InfoLock
<1>3. CASE ScanFound(t)
  BY <1>3 DEF ScanFound, Dispatch, Return
<1>4. CASE ScanFree(t)
  BY <1>4 DEF ScanFree
<1>5. CASE ScanFull(t)
  BY <1>5 DEF ScanFull, Return
<1>6. CASE Insert(t)
  BY <1>6 DEF Insert, Dispatch, Return
<1>7. CASE DataLock(t)
  BY <1>7 DEF DataLock
<1>8. CASE TestTake(t)
  BY <1>8 DEF TestTake
<1>9. CASE TestFail(t)
  BY <1>9 DEF TestFail, Return
<1>10. CASE Take(t) \/ Release(t)
  BY <1>10 DEF Take, Release, Return
<1> QED
  BY <1>1, <1>2, <1>3, <1>4, <1>5, <1>6, <1>7, <1>8, <1>9, <1>10 DEF Step

\* A seller is inside exactly when the kernel counts a lock of its.
LEMMA InsideOwes ==
  ASSUME IInv, NEW t \in Sellers, PlaceOK(t)
  PROVE  Inside(t) <=> Owed(t) > 0
<1>1. /\ t \in Threads /\ depth[t] \in Nat
      /\ pc[t] \in {"user", "waiting", "exited", "info", "scan", "insert", "data", "test",
                    "take", "release"}
  BY CastAssumption, BoundsAssumption DEF Sellers, IInv, TypeOK
<1>2. /\ pc[t] \in {"waiting", "test", "take"} => cmd[t] = "LockMutex"
      /\ pc[t] = "insert" => cmd[t] # "UnlockMutex"
  BY <1>1 DEF IInv, PhaseOK
<1> QED
  BY <1>1, <1>2 DEF PlaceOK, Inside, Owed

\* One lock, one seller inside.
LEMMA OneInside ==
  ASSUME OneProcess
  PROVE  IInv /\ (\A t \in Sellers : PlaceOK(t)) => ~(Inside(Thd1) /\ Inside(Thd2))
<1> SUFFICES ASSUME IInv, \A t \in Sellers : PlaceOK(t), Inside(Thd1), Inside(Thd2)
             PROVE  FALSE
  OBVIOUS
<1>1. /\ Thd1 \in Threads /\ Thd2 \in Threads /\ Thd1 # Thd2
      /\ ProcOf[Thd1] = ProcOf[Thd2]
  BY CastAssumption DEF OneProcess
<1>2. Owed(Thd1) > 0 /\ Owed(Thd2) > 0
  BY InsideOwes DEF Sellers
<1>3. PICK i \in Index : procs[i] # NULL /\ procs[i].pid = ProcOf[Thd1]
  BY <1>1, <1>2 DEF IInv, LockOK, Matches
<1>4. SlotFree(procs[i]) \/ SlotTaken(procs[i])
  BY <1>3 DEF IInv, LockOK
<1> QED
  BY <1>1, <1>2, <1>3, <1>4 DEF SlotFree, SlotTaken

LEMMA OneInsideNext ==
  ASSUME OneProcess
  PROVE  (IInv /\ (\A t \in Sellers : PlaceOK(t)))' => ~(Inside(Thd1) /\ Inside(Thd2))'
BY OneInside, PTL

\* A step in the kernel: when a first lock returns nobody was inside, and the
\* last unlock returns with the offer made.
LEMMA KernelPreserves ==
  ASSUME OneProcess, IInv, IInv', OfferInv, NEW t \in Threads, Kernel(t)
  PROVE  OfferInv'
<1> USE CastAssumption DEF Sellers
<1>0. TypeOK
  BY DEF IInv
<1>1. Step(t) /\ UNCHANGED <<at, wglass, korg>>
  BY DEF Kernel
<1>2. /\ pc[t] \notin {"user", "exited"}
      /\ \A u \in Threads \ {t} :
           pc'[u] = pc[u] /\ cmd'[u] = cmd[u] /\ depth'[u] = depth[u]
      /\ \/ /\ pc'[t] \notin {"user", "exited"}
            /\ cmd'[t] = cmd[t] /\ depth'[t] = depth[t]
         \/ /\ pc'[t] = "user" /\ cmd'[t] = "Other"
            /\ depth'[t] = depth[t] + (IF cmd[t] = "LockMutex" THEN 1 ELSE 0)
  BY <1>0, <1>1, CallEffect
<1>3. MainOK'
  BY <1>1, <1>2 DEF OfferInv, MainOK
<1>4. \A u \in Sellers : PlaceOK(u)'
  <2> SUFFICES ASSUME NEW u \in Sellers PROVE PlaceOK(u)'
    OBVIOUS
  <2>1. PlaceOK(u) /\ u \in Threads
    BY DEF OfferInv
  <2>2. CASE u = t
    BY <1>1, <1>2, <2>1, <2>2 DEF PlaceOK
  <2>3. CASE u # t
    BY <1>1, <1>2, <2>1, <2>3 DEF PlaceOK
  <2> QED
    BY <2>2, <2>3
<1>5. \A u \in Threads \ {t} : Inside(u)' = Inside(u)
  BY <1>1, <1>2 DEF Inside
<1>6. ~(Inside(Thd1)' /\ Inside(Thd2)')
  BY <1>4, OneInsideNext
<1>7. CASE pc'[t] # "user"
  <2>1. \A u \in Sellers : Inside(u)' = Inside(u)
    BY <1>1, <1>2, <1>5, <1>7 DEF Inside
  <2> QED
    BY <1>1, <1>3, <1>4, <2>1 DEF OfferInv, PricesOK, First
<1>8. CASE pc'[t] = "user" /\ t \in Sellers
  <2>1. PlaceOK(t)
    BY <1>8 DEF OfferInv
  <2>2. CASE at[t] = 2
    <3>1. \A u \in Sellers : ~Inside(u)
      BY <1>1, <1>2, <1>5, <1>6, <1>8, <2>2 DEF Inside
    <3>2. PricesOK'
      BY <1>1, <1>5, <1>6, <1>8, <2>2, <3>1 DEF OfferInv, PricesOK, Inside
    <3> QED
      BY <1>1, <1>3, <1>4, <3>2 DEF OfferInv
  <2>3. CASE at[t] = 1
    <3>1. Inside(t) /\ wglass = t /\ korg = t
      BY <1>2, <1>8, <2>3 DEF OfferInv, PricesOK, Inside
    <3>2. \A u \in Sellers : ~Inside(u)'
      <4>1. ~Inside(t)'
        BY <1>1, <1>8, <2>3 DEF Inside
      <4>2. ~(Inside(Thd1) /\ Inside(Thd2))
        BY OneInside DEF OfferInv
      <4> QED
        BY <1>5, <1>8, <3>1, <4>1, <4>2
    <3>3. PricesOK'
      BY <1>1, <3>1, <3>2 DEF PricesOK
    <3> QED
      BY <1>1, <1>3, <1>4, <3>3 DEF OfferInv
  <2>4. CASE at[t] \in {4, 6}
    <3>1. \A u \in Sellers : Inside(u)' = Inside(u)
      BY <1>1, <1>5, <2>4 DEF Inside
    <3> QED
      BY <1>1, <1>3, <1>4, <3>1 DEF OfferInv, PricesOK, First
  <2> QED
    BY <1>2, <2>1, <2>2, <2>3, <2>4 DEF PlaceOK
<1>9. CASE t = Main
  <2>1. \A u \in Sellers : Inside(u)' = Inside(u)
    BY <1>5, <1>9
  <2> QED
    BY <1>1, <1>3, <1>4, <2>1 DEF OfferInv, PricesOK, First
<1> QED
  BY <1>7, <1>8, <1>9
-----------------------------------------------------------------------------
(* The program's own steps. *)

\* What each thread does, operation by operation.
LEMMA MainDoes ==
  ASSUME NEW op, MainOK, Ready(Main, op)
  PROVE  /\ at[Main] \in 1 .. 6
         /\ Following(Main) = at[Main] + 1
         /\ at[Main] <= 4 => /\ op = "call"
                             /\ Program(Main)[at[Main]].cmd \in {"Other", "InitMutex"}
         /\ at[Main] = 5 => op = "create" /\ Program(Main)[at[Main]].thread = Thd1
         /\ at[Main] = 6 => op = "create" /\ Program(Main)[at[Main]].thread = Thd2
<1>1. Program(Main) = MainProgram /\ Len(MainProgram) = 6
  <2>1. Program(Main) = MainProgram
    BY CastAssumption DEF Program
  <2>2. Len(MainProgram) = 6
    BY DEF MainProgram
  <2> QED
    BY <2>1, <2>2
<1>2. at[Main] \in 1 .. 6
  BY <1>1 DEF Ready
<1>3. /\ MainProgram[1] = DoCall("Other") /\ MainProgram[2] = DoCall("Other")
      /\ MainProgram[3] = DoCall("InitMutex") /\ MainProgram[4] = DoCall("InitMutex")
      /\ MainProgram[5] = DoCreate(Thd1) /\ MainProgram[6] = DoCreate(Thd2)
  BY DEF MainProgram
<1>4. MainProgram[at[Main]].op = op
  BY <1>1 DEF Ready
<1> QED
  BY <1>1, <1>2, <1>3, <1>4 DEF DoCall, DoCreate, Following

LEMMA SellerDoes ==
  ASSUME NEW t \in Sellers, NEW op, Ready(t, op)
  PROVE  /\ at[t] \in 1 .. 6
         /\ Following(t) = IF at[t] = 6 THEN 1 ELSE at[t] + 1
         /\ at[t] \in {1, 3} => op = "call" /\ Program(t)[at[t]].cmd = "LockMutex"
         /\ at[t] \in {5, 6} => op = "call" /\ Program(t)[at[t]].cmd = "UnlockMutex"
         /\ at[t] = 2 => /\ op = "store"
                         /\ Program(t)[at[t]].var = IF t = Thd1 THEN "wglass" ELSE "korg"
         /\ at[t] = 4 => /\ op = "store"
                         /\ Program(t)[at[t]].var = IF t = Thd1 THEN "korg" ELSE "wglass"
<1> DEFINE a == IF t = Thd1 THEN "wglass" ELSE "korg"
           b == IF t = Thd1 THEN "korg" ELSE "wglass"
<1>1. Program(t) = Transaction(a, b) /\ t # Main
  BY CastAssumption DEF Program, Sellers
<1>2. /\ Len(Transaction(a, b)) = 6
      /\ Transaction(a, b)[1] = DoCall("LockMutex") /\ Transaction(a, b)[2] = DoStore(a)
      /\ Transaction(a, b)[3] = DoCall("LockMutex") /\ Transaction(a, b)[4] = DoStore(b)
      /\ Transaction(a, b)[5] = DoCall("UnlockMutex")
      /\ Transaction(a, b)[6] = DoCall("UnlockMutex")
  BY DEF Transaction
<1>3. at[t] \in 1 .. 6
  BY <1>1, <1>2 DEF Ready
<1>4. Program(t)[at[t]].op = op
  BY DEF Ready
<1>5. Following(t) = IF at[t] = 6 THEN 1 ELSE at[t] + 1
  BY <1>1, <1>2 DEF Following
<1>6. /\ at[t] \in {1, 3} => Program(t)[at[t]] = DoCall("LockMutex")
      /\ at[t] \in {5, 6} => Program(t)[at[t]] = DoCall("UnlockMutex")
      /\ at[t] = 2 => Program(t)[at[t]] = DoStore(a)
      /\ at[t] = 4 => Program(t)[at[t]] = DoStore(b)
  BY <1>1, <1>2
<1> QED
  BY <1>3, <1>4, <1>5, <1>6 DEF DoCall, DoStore

\* A call begins: the thread is where it was, inside or not, one operation on.
LEMMA LibraryCallPreserves ==
  ASSUME IInv, OfferInv, NEW t \in Threads, LibraryCall(t)
  PROVE  OfferInv'
<1> USE CastAssumption DEF Sellers
<1> DEFINE wanted == Program(t)[at[t]].cmd
<1>1. /\ Ready(t, "call") /\ Call(t, wanted)
      /\ at' = [at EXCEPT ![t] = Following(t)] /\ UNCHANGED <<wglass, korg>>
  BY DEF LibraryCall
<1>2. /\ pc[t] = "user" /\ pc' = [pc EXCEPT ![t] = "info"]
      /\ cmd' = [cmd EXCEPT ![t] = wanted]
      /\ depth' = [depth EXCEPT ![t] = IF wanted = "UnlockMutex" THEN @ - 1 ELSE @]
  BY <1>1 DEF Call, Goto
<1>3. /\ pc'[t] = "info" /\ cmd'[t] = wanted
      /\ depth'[t] = IF wanted = "UnlockMutex" THEN depth[t] - 1 ELSE depth[t]
      /\ at'[t] = Following(t)
  BY <1>1, <1>2 DEF IInv, TypeOK, OfferInv
<1>4. \A u \in Threads \ {t} :
        pc'[u] = pc[u] /\ cmd'[u] = cmd[u] /\ depth'[u] = depth[u] /\ at'[u] = at[u]
  BY <1>1, <1>2 DEF IInv, TypeOK, OfferInv
<1> HIDE DEF wanted
<1>5. CASE t = Main
  <2>1. at[Main] <= 4 /\ at'[Main] = at[Main] + 1 /\ wanted \in {"Other", "InitMutex"}
    BY <1>1, <1>3, <1>5, MainDoes DEF OfferInv, wanted
  <2>2. MainOK'
    BY <1>3, <1>4, <1>5, <2>1 DEF OfferInv, MainOK
  <2>3. \A u \in Sellers : PlaceOK(u)' /\ (Inside(u)' <=> Inside(u))
    BY <1>4, <1>5 DEF OfferInv, PlaceOK, Inside
  <2>4. PricesOK'
    BY <1>1, <1>4, <1>5, <2>3 DEF OfferInv, PricesOK, First
  <2>5. at' \in [Threads -> Nat]
    BY <1>1, <1>3, <1>5, <2>1, <2>2 DEF OfferInv, MainOK
  <2> QED
    BY <2>2, <2>3, <2>4, <2>5 DEF OfferInv
<1>6. CASE t \in Sellers
  <2>1. /\ at[t] \in {1, 3, 5, 6} /\ at'[t] = IF at[t] = 6 THEN 1 ELSE at[t] + 1
        /\ wanted = IF at[t] \in {1, 3} THEN "LockMutex" ELSE "UnlockMutex"
    <3>1. at[t] \notin {2, 4}
      BY <1>1, <1>6, SellerDoes
    <3> QED
      BY <1>1, <1>3, <1>6, <3>1, SellerDoes DEF wanted
  <2>2. PlaceOK(t)' /\ (Inside(t)' <=> Inside(t))
    <3>1. PlaceOK(t)
      BY <1>6 DEF OfferInv
    <3> QED
      BY <1>2, <1>3, <2>1, <3>1 DEF PlaceOK, Inside
  <2>3. \A u \in Sellers : PlaceOK(u)' /\ (Inside(u)' <=> Inside(u))
    <3> SUFFICES ASSUME NEW u \in Sellers, u # t
                 PROVE  PlaceOK(u)' /\ (Inside(u)' <=> Inside(u))
      BY <2>2
    <3>1. PlaceOK(u)
      BY DEF OfferInv
    <3> QED
      BY <1>4, <3>1 DEF PlaceOK, Inside
  <2>4. MainOK'
    BY <1>4, <1>6, <2>1 DEF OfferInv, MainOK
  <2>5. PricesOK'
    <3> SUFFICES ASSUME NEW u \in Sellers, Inside(u)'
                 PROVE  /\ at'[u] = 2 => wglass' = korg'
                        /\ at'[u] \in {3, 4} => First(u)' = u
                        /\ at'[u] \in {5, 6, 1} => wglass' = u /\ korg' = u
      BY <1>1, <2>3 DEF OfferInv, PricesOK
    <3>1. /\ Inside(u) /\ UNCHANGED <<wglass, korg>>
          /\ First(u)' = First(u)
      BY <1>1, <2>3 DEF First
    <3>2. /\ at[u] = 2 => wglass = korg
          /\ at[u] \in {3, 4} => First(u) = u
          /\ at[u] \in {5, 6, 1} => wglass = u /\ korg = u
      BY <3>1 DEF OfferInv, PricesOK
    <3>3. CASE u = t
      BY <1>2, <2>1, <3>1, <3>2, <3>3 DEF Inside
    <3>4. CASE u # t
      BY <1>4, <3>1, <3>2, <3>4
    <3> QED
      BY <3>3, <3>4
  <2>6. at' \in [Threads -> Nat]
    BY <1>1, <1>3, <2>1 DEF OfferInv
  <2> QED
    BY <2>3, <2>4, <2>5, <2>6 DEF OfferInv
<1> QED
  BY <1>5, <1>6

\* Main starts a seller, which has done nothing yet.
LEMMA CreateThreadPreserves ==
  ASSUME IInv, OfferInv, NEW t \in Threads, CreateThread(t)
  PROVE  OfferInv'
<1> USE CastAssumption DEF Sellers
<1>1. /\ Ready(t, "create") /\ UNCHANGED <<vars, wglass, korg>>
      /\ at' = [at EXCEPT ![t] = Following(t), ![Program(t)[at[t]].thread] = 1]
  BY DEF CreateThread
<1>2. t = Main
  BY <1>1, SellerDoes
<1> DEFINE new == Program(Main)[at[Main]].thread
<1>a. /\ at[Main] = 5 \/ at[Main] = 6
      /\ new = IF at[Main] = 5 THEN Thd1 ELSE Thd2
      /\ Following(Main) = at[Main] + 1
  <2>1. at[Main] \in {5, 6}
    BY <1>1, <1>2, MainDoes DEF OfferInv
  <2> QED
    BY <1>1, <1>2, <2>1, MainDoes DEF OfferInv
<1>3. PICK u \in Sellers :
        /\ at' = [at EXCEPT ![Main] = at[Main] + 1, ![u] = 1]
        /\ at[Main] = IF u = Thd1 THEN 5 ELSE 6
  <2>1. at' = [at EXCEPT ![Main] = at[Main] + 1, ![new] = 1]
    BY <1>1, <1>2, <1>a
  <2> HIDE DEF new
  <2> QED
    BY <1>a, <2>1
<1>4. at[u] = 0 /\ pc[u] = "user" /\ depth[u] = 0
  BY <1>3 DEF OfferInv, MainOK, PlaceOK
<1>5. /\ at' \in [Threads -> Nat]
      /\ at'[Main] = at[Main] + 1 /\ at'[u] = 1
      /\ \A v \in Threads \ {Main, u} : at'[v] = at[v]
  BY <1>3 DEF OfferInv
<1>6. MainOK'
  BY <1>1, <1>3, <1>5 DEF OfferInv, MainOK, vars
<1>7. \A v \in Sellers : PlaceOK(v)' /\ (Inside(v)' <=> Inside(v))
  BY <1>1, <1>4, <1>5 DEF OfferInv, PlaceOK, Inside, vars
<1>8. PricesOK'
  BY <1>1, <1>4, <1>5, <1>7 DEF OfferInv, PricesOK, First, Inside
<1> QED
  BY <1>5, <1>6, <1>7, <1>8 DEF OfferInv

\* A seller that sets a price is inside, and the other is not.
LEMMA SetPricePreserves ==
  ASSUME OneProcess, IInv, OfferInv, NEW t \in Threads, SetPrice(t)
  PROVE  OfferInv'
<1> USE CastAssumption DEF Sellers
<1> DEFINE var == Program(t)[at[t]].var
<1>1. /\ Ready(t, "store") /\ UNCHANGED vars /\ at' = [at EXCEPT ![t] = Following(t)]
      /\ wglass' = (IF var = "wglass" THEN t ELSE wglass)
      /\ korg' = (IF var = "korg" THEN t ELSE korg)
  BY DEF SetPrice
<1>2. t \in Sellers
  BY <1>1, MainDoes DEF OfferInv, MainOK
<1>3. /\ at[t] \in {2, 4} /\ at'[t] = at[t] + 1
      /\ \A u \in Threads \ {t} : at'[u] = at[u]
      /\ var = IF at[t] = 2 THEN IF t = Thd1 THEN "wglass" ELSE "korg"
               ELSE IF t = Thd1 THEN "korg" ELSE "wglass"
  <2>1. at[t] \in {2, 4}
    BY <1>1, <1>2, SellerDoes
  <2> QED
    BY <1>1, <1>2, <2>1, SellerDoes DEF OfferInv
<1> HIDE DEF var
<1>4. PlaceOK(t) /\ pc[t] = "user" /\ Inside(t) /\ Inside(t)'
  BY <1>1, <1>2, <1>3 DEF OfferInv, Ready, Inside
<1>5. \A u \in Sellers \ {t} : ~Inside(u) /\ ~Inside(u)'
  <2>1. ~(Inside(Thd1) /\ Inside(Thd2))
    BY OneInside DEF OfferInv
  <2>2. \A u \in Sellers \ {t} : Inside(u)' <=> Inside(u)
    BY <1>1, <1>3 DEF Inside, vars
  <2> QED
    BY <1>2, <1>4, <2>1, <2>2
<1>6. PlaceOK(t)'
  BY <1>1, <1>3, <1>4 DEF PlaceOK, vars
<1>7. \A u \in Sellers : PlaceOK(u)'
  BY <1>1, <1>3, <1>6 DEF OfferInv, PlaceOK, vars
<1>8. MainOK'
  BY <1>1, <1>2, <1>3, <1>4 DEF OfferInv, MainOK, Inside, vars
<1>9. /\ at'[t] = 3 => First(t)' = t
      /\ at'[t] = 5 => wglass' = t /\ korg' = t
  <2>1. at[t] = 4 => First(t) = t
    BY <1>2, <1>4 DEF OfferInv, PricesOK
  <2>2. CASE t = Thd1
    BY <1>1, <1>3, <2>1, <2>2 DEF First
  <2>3. CASE t = Thd2
    BY <1>1, <1>3, <2>1, <2>3 DEF First
  <2> QED
    BY <1>2, <2>2, <2>3
<1>10. PricesOK'
  BY <1>2, <1>3, <1>4, <1>5, <1>9 DEF PricesOK
<1>11. at' \in [Threads -> Nat]
  BY <1>1, <1>3 DEF OfferInv
<1> QED
  BY <1>7, <1>8, <1>10, <1>11 DEF OfferInv
-----------------------------------------------------------------------------
LEMMA InitOffer == BInit => IInv /\ OfferInv
<1> SUFFICES ASSUME BInit PROVE IInv /\ OfferInv
  OBVIOUS
<1> USE CastAssumption DEF Sellers
<1>1. IInv
  BY InitEstablishes DEF BInit
<1>2. OfferInv
  BY DEF BInit, Init, OfferInv, MainOK, PlaceOK, PricesOK, Inside
<1> QED
  BY <1>1, <1>2

\* The program is a client of lock_kmod: its steps are steps of the lock call.
LEMMA ProgramCalls ==
  ASSUME MainOK, [BNext]_allVars
  PROVE  [Next]_vars
<1>1. ASSUME NEW t \in Threads, LibraryCall(t) PROVE Next
  <2>1. Program(t)[at[t]].cmd \in Commands
    <3>1. CASE t = Main
      BY <1>1, <3>1, MainDoes DEF LibraryCall, Commands
    <3>2. CASE t \in Sellers
      BY <1>1, <3>2, SellerDoes DEF LibraryCall, Commands
    <3> QED
      BY <3>1, <3>2, CastAssumption DEF Sellers
  <2> QED
    BY <1>1, <2>1 DEF LibraryCall, Next
<1>2. ASSUME NEW t \in Threads, CreateThread(t) \/ SetPrice(t) PROVE UNCHANGED vars
  BY <1>2 DEF CreateThread, SetPrice
<1>3. ASSUME NEW t \in Threads, Kernel(t) PROVE Next
  BY <1>3 DEF Kernel, Next
<1>4. CASE UNCHANGED allVars
  BY <1>4 DEF allVars
<1> QED
  BY <1>1, <1>2, <1>3, <1>4 DEF BNext, Client

LEMMA NextOffer ==
  ASSUME OneProcess
  PROVE  IInv /\ OfferInv /\ [BNext]_allVars => (IInv /\ OfferInv)'
<1> SUFFICES ASSUME IInv, OfferInv, [BNext]_allVars PROVE IInv' /\ OfferInv'
  OBVIOUS
<1>1. IInv'
  <2>1. [Next]_vars
    BY ProgramCalls DEF OfferInv
  <2> QED
    BY <2>1, StepPreserves
<1>2. ASSUME NEW t \in Threads, Client(t) PROVE OfferInv'
  BY <1>2, LibraryCallPreserves, CreateThreadPreserves, SetPricePreserves DEF Client
<1>3. ASSUME NEW t \in Threads, Kernel(t) PROVE OfferInv'
  BY <1>1, <1>3, KernelPreserves
<1>4. CASE UNCHANGED allVars
  <2>1. UNCHANGED <<pc, cmd, depth, at, wglass, korg>>
    BY <1>4 DEF allVars, vars
  <2>2. MainOK' /\ \A t \in Sellers : PlaceOK(t)'
    BY <2>1 DEF OfferInv, MainOK, PlaceOK
  <2>3. PricesOK'
    BY <2>1 DEF OfferInv, PricesOK, Inside, First
  <2> QED
    BY <1>1, <2>1, <2>2, <2>3 DEF OfferInv
<1> QED
  BY <1>1, <1>2, <1>3, <1>4 DEF BNext

\* The prices follow the program through every step of every system call.
THEOREM OfferInvariance == OneProcess => (BSpec => [](IInv /\ OfferInv))
<1> SUFFICES ASSUME OneProcess PROVE BSpec => [](IInv /\ OfferInv)
  OBVIOUS
<1>1. IInv /\ OfferInv /\ [BNext]_allVars => (IInv /\ OfferInv)'
  BY NextOffer
<1> QED
  BY <1>1, InitOffer, PTL DEF BSpec

\* Whoever finds the lock free finds one whole offer, though each price is set
\* on its own, under a mutex of its own, and in opposite orders (bestoffer).
THEOREM OfferIsWhole == OneProcess => (BSpec => []OfferWhole)
<1>1. IInv /\ OfferInv => OfferWhole
  <2> SUFFICES ASSUME IInv, OfferInv, \A t \in Threads : Owed(t) = 0
               PROVE  wglass = korg
    BY DEF OfferWhole
  <2>1. \A t \in Sellers : ~Inside(t)
    BY InsideOwes, CastAssumption DEF OfferInv, Sellers
  <2> QED
    BY <2>1 DEF OfferInv, PricesOK
<1> QED
  BY <1>1, OfferInvariance, PTL
-----------------------------------------------------------------------------
(***************************************************************************)
(* Proofs about KmodLifecycle, for every table, every set of vacant        *)
(* entries, any number of programs and of loads.                           *)
(*                                                                         *)
(* The table is, at every step of loading and unloading, what the others   *)
(* made it, but for the one entry the module holds (TableOK).  That the    *)
(* number a program read is this entry needs where each reader of the      *)
(* /proc file is, because the flag that ends the file is shared (FileOK).  *)
(***************************************************************************)

\* The table as others made it.
Restored == [p \in Positions |-> IF p \in others THEN "other" ELSE Boot[p]]

\* register_syscall has found an entry and not given it back.
Holding == state \in {"store", "publish", "loaded", "unregister"}

ModuleTypeOK ==
  /\ table \in [Positions -> {"ni", "native", "other", "lock"}]
  /\ others \subseteq Vacant
  /\ ready_to_work \in BOOLEAN
  /\ found \in Positions \cup {-1} /\ sysnum = found
  /\ entry \in BOOLEAN
  /\ slotted \subseteq Readers /\ running \subseteq Readers
  /\ state \in {"unloaded", "proc", "find", "failed", "store", "publish", "loaded",
                "unregister", "remove"}
  /\ loads \in Nat

FileTypeOK ==
  /\ number \in Int /\ temp \in {0, 1}
  /\ rpc \in [Readers -> {"closed", "test", "print", "copy", "clear", "return", "atoi"}]
  /\ text \in [Readers -> Int \cup {NoText}]
  /\ c \in [Readers -> Int \cup {NoText}]
  /\ cached \in [Readers -> Int]

LifeTypeOK == ModuleTypeOK /\ FileTypeOK

\* The table is as others made it, but for the entry the module holds.
TableOK ==
  /\ Holding => ready_to_work /\ found \in Vacant \ others
  /\ table = IF state \in {"publish", "loaded", "unregister"}
             THEN [Restored EXCEPT ![found] = "lock"] ELSE Restored

\* Programs run while the module is loaded; between runs they know no number.
ProgramsOK ==
  /\ state = "loaded" => number = found
  /\ state # "loaded" => running = {}
  /\ \A r \in Readers : r \notin running => rpc[r] = "closed" /\ cached[r] = -1
  /\ \A r \in Readers : cached[r] > 0 => cached[r] = number

\* What a reader's place says of the flag, the handler's text and the buffer:
\* the buffer holds the number whenever the flag is down again.
LoadOK(r) ==
  /\ rpc[r] = "test" => temp = 0 \/ c[r] = number
  /\ rpc[r] = "print" => temp = 0
  /\ rpc[r] = "copy" => temp = 1 /\ text[r] = number
  /\ rpc[r] = "clear" => c[r] = number
  /\ rpc[r] = "return" => IF temp = 0 THEN c[r] = number ELSE text[r] = number
  /\ rpc[r] = "atoi" => temp = 0 /\ c[r] = number

\* Readers take turns, and each leaves the flag down.
FileOK ==
  /\ \A q, r \in Readers : Reading(q) /\ Reading(r) => q = r
  /\ (\A r \in Readers : ~Reading(r)) => temp = 0
  /\ \A r \in Readers : LoadOK(r)

TableInv == LifeTypeOK /\ TableOK
ReadInv == ProgramsOK /\ FileOK
-----------------------------------------------------------------------------
\* A non-empty set of positions has a least one.
LEMMA LeastPosition ==
  ASSUME NEW S \in SUBSET Positions, S # {}
  PROVE  \E p \in S : \A q \in S : p <= q
<1>1. S \subseteq Nat
  BY PositionsAssumption
<1>2. \E p \in S : \A q \in S : <<q, p>> \notin OpToRel(<, Nat)
  BY <1>1, NatLessThanWellFounded, WFMin
<1>3. PICK p \in S : \A q \in S : <<q, p>> \notin OpToRel(<, Nat)
  BY <1>2
<1>4. \A q \in S : ~(q < p)
  BY <1>1, <1>3 DEF OpToRel
<1> QED
  BY <1>1, <1>4

\* find_free_position returns a vacant entry, or -1 when there is none.
LEMMA FindFreeResult ==
  IF Vacancies = {} THEN FindFree = -1 ELSE FindFree \in Vacancies
<1>1. CASE Vacancies # {}
  <2>1. \E p \in Vacancies : \A q \in Vacancies : p <= q
    BY <1>1, LeastPosition DEF Vacancies
  <2> QED
    BY <1>1, <2>1 DEF FindFree
<1> QED
  BY <1>1 DEF FindFree

LEMMA FindFreeIsPosition ==
  /\ FindFree \in Positions \cup {-1}
  /\ FindFree >= 0 => FindFree \in Positions /\ table[FindFree] = "ni"
BY FindFreeResult DEF Vacancies

\* An entry that is sys_ni_syscall is vacant, nobody's, and not the module's.
LEMMA FreeEntry ==
  ASSUME LifeTypeOK, TableOK, NEW p \in Positions, table[p] = "ni"
  PROVE  /\ p \in Vacant \ others
         /\ state \in {"publish", "loaded", "unregister"} => p # found
<1>1. CASE state \in {"publish", "loaded", "unregister"}
  <2>1. found \in Positions
    BY <1>1, PositionsAssumption DEF TableOK, Holding
  <2>2. table[found] = "lock"
    BY <1>1, <2>1 DEF TableOK, Restored
  <2>3. p # found /\ table[p] = Restored[p]
    BY <1>1, <2>2 DEF TableOK, Restored
  <2> QED
    BY <2>3 DEF Restored, Boot
<1>2. CASE state \notin {"publish", "loaded", "unregister"}
  BY <1>2 DEF TableOK, Restored, Boot
<1> QED
  BY <1>1, <1>2
-----------------------------------------------------------------------------
(* The table: no assumption on the readers. *)

LEMMA InitTable == LifeInit => TableInv
<1> SUFFICES ASSUME LifeInit PROVE TableInv
  OBVIOUS
<1>1. Boot \in [Positions -> {"ni", "native"}]
  BY DEF Boot
<1>2. ModuleTypeOK
  BY <1>1 DEF LifeInit, ModuleTypeOK
<1>3. FileTypeOK
  BY DEF LifeInit, FileInit, FileTypeOK
<1>4. TableOK
  BY <1>1 DEF LifeInit, TableOK, Holding, Restored
<1> QED
  BY <1>2, <1>3, <1>4 DEF TableInv, LifeTypeOK

\* A reader's step writes the file's variables only.
LEMMA ReadStepType ==
  ASSUME FileTypeOK, NEW r \in Readers, Open(r) \/ ReadStep(r)
  PROVE  FileTypeOK'
<1>1. CASE Open(r)
  BY <1>1 DEF Open, ReadGoto, FileTypeOK
<1>2. CASE ReadTest(r)
  BY <1>2 DEF ReadTest, ReadGoto, FileTypeOK
<1>3. CASE ReadPrint(r)
  BY <1>3 DEF ReadPrint, ReadGoto, FileTypeOK
<1>4. CASE ReadCopy(r)
  BY <1>4 DEF ReadCopy, ReadGoto, FileTypeOK
<1>5. CASE ReadClear(r)
  BY <1>5 DEF ReadClear, ReadGoto, FileTypeOK
<1>6. CASE ReadMore(r)
  BY <1>6 DEF ReadMore, ReadGoto, FileTypeOK
<1>7. CASE ReadEnd(r)
  BY <1>7 DEF ReadEnd, ReadGoto, FileTypeOK
<1>8. CASE Atoi(r)
  <2>1. PICK n \in IF c[r] = NoText THEN Garbage ELSE {c[r]} :
          cached' = IF n > 0 THEN [cached EXCEPT ![r] = n] ELSE cached
    BY <1>8 DEF Atoi
  <2>2. n \in Int
    BY <2>1, TextAssumption DEF FileTypeOK
  <2>3. cached' \in [Readers -> Int]
    BY <2>1, <2>2 DEF FileTypeOK
  <2> QED
    BY <1>8, <2>3 DEF Atoi, ReadGoto, FileTypeOK
<1> QED
  BY <1>1, <1>2, <1>3, <1>4, <1>5, <1>6, <1>7, <1>8 DEF ReadStep

\* The table follows from what it is made of.
LEMMA TableFrame ==
  ASSUME TableOK, UNCHANGED <<table, ready_to_work, found, state, others>>
  PROVE  TableOK'
BY DEF TableOK, Holding, Restored

LEMMA LoadTable ==
  ASSUME TableInv, InitSyscall \/ ProcInit \/ Find \/ Store \/ Publish
  PROVE  TableInv'
<1> USE PositionsAssumption, FindFreeIsPosition DEF LifeTypeOK, ModuleTypeOK
<1>0. LifeTypeOK /\ TableOK
  BY DEF TableInv
<1>1. CASE InitSyscall
  <2>1. ModuleTypeOK'
    BY <1>0, <1>1, MaxLoadsAssumption DEF InitSyscall, Advance
  <2>2. FileTypeOK'
    BY <1>0, <1>1 DEF InitSyscall, FileTypeOK
  <2>3. TableOK'
    BY <1>0, <1>1 DEF InitSyscall, Advance, TableOK, Holding, Restored
  <2> QED
    BY <2>1, <2>2, <2>3 DEF TableInv
<1>2. CASE ProcInit
  <2>1. LifeTypeOK'
    BY <1>0, <1>2 DEF ProcInit, Advance, fileVars, FileTypeOK
  <2>2. TableOK'
    BY <1>0, <1>2 DEF ProcInit, Advance, TableOK, Holding, Restored
  <2> QED
    BY <2>1, <2>2 DEF TableInv
<1>3. CASE Find
  <2> DEFINE p == IF ready_to_work THEN FindFree ELSE -1
  <2>1. p \in Positions \cup {-1}
    OBVIOUS
  <2>2. LifeTypeOK'
    BY <1>0, <1>3, <2>1 DEF Find, Advance, fileVars, FileTypeOK
  <2>3. ASSUME p >= 0 PROVE ready_to_work /\ p \in Vacant \ others
    BY <1>0, <2>3, FreeEntry
  <2>4. table = Restored
    BY <1>0, <1>3 DEF TableOK, Find, Advance
  <2>5. TableOK'
    BY <1>0, <1>3, <2>3, <2>4 DEF Find, Advance, TableOK, Holding, Restored
  <2> QED
    BY <2>2, <2>5 DEF TableInv
<1>4. CASE Store
  <2>1. table' = [Restored EXCEPT ![found] = "lock"]
    BY <1>0, <1>4 DEF Store, Advance, TableOK
  <2>2. ModuleTypeOK'
    BY <1>0, <1>4 DEF Store, Advance
  <2>3. FileTypeOK'
    BY <1>0, <1>4 DEF Store, fileVars, FileTypeOK
  <2>4. TableOK'
    BY <1>0, <1>4, <2>1 DEF Store, Advance, TableOK, Holding, Restored
  <2> QED
    BY <2>2, <2>3, <2>4 DEF TableInv
<1>5. CASE Publish
  <2>1. LifeTypeOK'
    BY <1>0, <1>5 DEF Publish, Advance, FileTypeOK
  <2>2. TableOK'
    BY <1>0, <1>5 DEF Publish, Advance, TableOK, Holding, Restored
  <2> QED
    BY <2>1, <2>2 DEF TableInv
<1> QED
  BY <1>1, <1>2, <1>3, <1>4, <1>5

LEMMA UnloadTable ==
  ASSUME TableInv, FreeSlots \/ Unregister \/ ProcCleanup
  PROVE  TableInv'
<1> USE PositionsAssumption DEF LifeTypeOK, ModuleTypeOK
<1>0. LifeTypeOK /\ TableOK
  BY DEF TableInv
<1>1. CASE FreeSlots
  <2>1. LifeTypeOK'
    BY <1>0, <1>1 DEF FreeSlots, Advance, fileVars, FileTypeOK
  <2>2. TableOK'
    BY <1>0, <1>1 DEF FreeSlots, Advance, TableOK, Holding, Restored
  <2> QED
    BY <2>1, <2>2 DEF TableInv
<1>2. CASE Unregister
  <2>1. /\ state = "unregister" /\ sysnum = found
        /\ ready_to_work /\ found \in Vacant \ others
    BY <1>0, <1>2 DEF Unregister, Advance, TableOK, Holding
  <2>2. /\ table = [Restored EXCEPT ![found] = "lock"]
        /\ table' = [table EXCEPT ![found] = "ni"]
    BY <1>0, <1>2, <2>1 DEF Unregister, TableOK
  <2>3. Restored[found] = "ni"
    BY <2>1 DEF Restored, Boot
  <2>4. table' = Restored
    BY <2>2, <2>3 DEF Restored
  <2>5. LifeTypeOK'
    BY <1>0, <1>2, <2>2 DEF Unregister, Advance, fileVars, FileTypeOK
  <2>6. TableOK'
    BY <1>2, <2>4 DEF Unregister, Advance, TableOK, Holding, Restored
  <2> QED
    BY <2>5, <2>6 DEF TableInv
<1>3. CASE ProcCleanup
  <2>1. LifeTypeOK'
    BY <1>0, <1>3 DEF ProcCleanup, Advance, fileVars, FileTypeOK
  <2>2. TableOK'
    BY <1>0, <1>3 DEF ProcCleanup, Advance, TableOK, Holding, Restored
  <2> QED
    BY <2>1, <2>2 DEF TableInv
<1> QED
  BY <1>1, <1>2, <1>3

LEMMA ProgramTable ==
  ASSUME TableInv, NEW r \in Readers, Start(r) \/ Syscall(r) \/ End(r) \/ Read(r)
  PROVE  TableInv'
<1>0. LifeTypeOK /\ TableOK
  BY DEF TableInv
<1>1. UNCHANGED <<table, ready_to_work, found, state, others>>
  BY DEF Start, Syscall, End, Read, moduleVars
<1>2. TableOK'
  BY <1>0, <1>1, TableFrame
<1>3. ModuleTypeOK'
  BY <1>0 DEF Start, Syscall, End, Read, moduleVars, LifeTypeOK, ModuleTypeOK
<1>4. FileTypeOK'
  <2>1. CASE Start(r) \/ Syscall(r) \/ End(r)
    BY <1>0, <2>1 DEF Start, Syscall, End, fileVars, LifeTypeOK, FileTypeOK
  <2>2. CASE Read(r)
    BY <1>0, <2>2, ReadStepType DEF Read, LifeTypeOK
  <2> QED
    BY <2>1, <2>2
<1> QED
  BY <1>2, <1>3, <1>4 DEF TableInv, LifeTypeOK

LEMMA OthersTable ==
  ASSUME TableInv, NEW p \in Positions, OtherRegisters(p) \/ OtherUnregisters(p)
  PROVE  TableInv'
<1> USE PositionsAssumption
<1>0. LifeTypeOK /\ TableOK
  BY DEF TableInv
<1>1. FileTypeOK'
  BY <1>0 DEF OtherRegisters, OtherUnregisters, fileVars, LifeTypeOK, FileTypeOK
<1>2. CASE OtherRegisters(p)
  <2>1. /\ p \in Vacant \ others
        /\ state \in {"publish", "loaded", "unregister"} => p # found
    BY <1>0, <1>2, FreeEntry DEF OtherRegisters
  <2>2. ModuleTypeOK'
    BY <1>0, <1>2, <2>1 DEF OtherRegisters, LifeTypeOK, ModuleTypeOK
  <2>3. Restored' = [Restored EXCEPT ![p] = "other"]
    BY <1>2 DEF OtherRegisters, Restored
  <2>4. TableOK'
    <3>1. CASE state \in {"publish", "loaded", "unregister"}
      <4>1. table' = [Restored' EXCEPT ![found] = "lock"]
        BY <1>0, <1>2, <2>1, <2>3, <3>1 DEF OtherRegisters, TableOK, Restored
      <4> QED
        BY <1>0, <1>2, <2>1, <3>1, <4>1 DEF OtherRegisters, TableOK, Holding
    <3>2. CASE state \notin {"publish", "loaded", "unregister"}
      BY <1>0, <1>2, <2>3, <3>2 DEF OtherRegisters, TableOK, Holding
    <3> QED
      BY <3>1, <3>2
  <2> QED
    BY <1>1, <2>2, <2>4 DEF TableInv, LifeTypeOK
<1>3. CASE OtherUnregisters(p)
  <2>1. p \in others /\ p \in Vacant
    BY <1>0, <1>3 DEF OtherUnregisters, LifeTypeOK, ModuleTypeOK
  <2>2. ModuleTypeOK'
    BY <1>0, <1>3 DEF OtherUnregisters, LifeTypeOK, ModuleTypeOK
  <2>3. Restored' = [Restored EXCEPT ![p] = "ni"]
    BY <1>3, <2>1 DEF OtherUnregisters, Restored, Boot
  <2>4. TableOK'
    <3>1. CASE state \in {"publish", "loaded", "unregister"}
      <4>1. p # found
        BY <1>0, <2>1, <3>1 DEF TableOK, Holding
      <4>2. table' = [Restored' EXCEPT ![found] = "lock"]
        BY <1>0, <1>3, <2>3, <3>1, <4>1 DEF OtherUnregisters, TableOK, Restored
      <4> QED
        BY <1>0, <1>3, <3>1, <4>2 DEF OtherUnregisters, TableOK, Holding
    <3>2. CASE state \notin {"publish", "loaded", "unregister"}
      BY <1>0, <1>3, <2>3, <3>2 DEF OtherUnregisters, TableOK, Holding
    <3> QED
      BY <3>1, <3>2
  <2> QED
    BY <1>1, <2>2, <2>4 DEF TableInv, LifeTypeOK
<1> QED
  BY <1>2, <1>3

LEMMA NextTable == TableInv /\ [LifeNext]_lifeVars => TableInv'
<1> SUFFICES ASSUME TableInv, [LifeNext]_lifeVars PROVE TableInv'
  OBVIOUS
<1>1. CASE LifeNext
  <2>1. CASE InitSyscall \/ ProcInit \/ Find \/ Store \/ Publish
    BY <2>1, LoadTable
  <2>2. CASE FreeSlots \/ Unregister \/ ProcCleanup
    BY <2>2, UnloadTable
  <2>3. ASSUME NEW r \in Readers, Start(r) \/ Syscall(r) \/ End(r) \/ Read(r)
        PROVE  TableInv'
    BY <2>3, ProgramTable
  <2>4. ASSUME NEW p \in Positions, OtherRegisters(p) \/ OtherUnregisters(p)
        PROVE  TableInv'
    BY <2>4, OthersTable
  <2> QED
    BY <1>1, <2>1, <2>2, <2>3, <2>4 DEF LifeNext
<1>2. CASE UNCHANGED lifeVars
  <2>1. TableOK'
    BY <1>2, TableFrame DEF TableInv, lifeVars, moduleVars
  <2>2. LifeTypeOK'
    BY <1>2 DEF TableInv, LifeTypeOK, ModuleTypeOK, FileTypeOK, lifeVars, moduleVars, fileVars
  <2> QED
    BY <2>1, <2>2 DEF TableInv
<1> QED
  BY <1>1, <1>2

\* The module's entry apart, the table is what the others made it, always.
THEOREM TableInvariance == LifeSpec => []TableInv
BY InitTable, NextTable, PTL DEF LifeSpec

\* Every variable of the module and of its /proc file keeps its type.
THEOREM LifeTypeCorrect == LifeSpec => []LifeTypeOK
BY TableInvariance, PTL DEF TableInv

\* Unloaded, or without a position, the module has taken no entry and given its
\* own back, whatever other modules registered meanwhile (syscall.c).
THEOREM TableIsRestored == LifeSpec => []TableRestored
<1>1. TableInv => TableRestored
  BY DEF TableInv, TableOK, Restored, TableRestored
<1> QED
  BY <1>1, TableInvariance, PTL
-----------------------------------------------------------------------------
(* The number: readers take turns. *)

LEMMA InitRead == LifeInit => ReadInv
BY DEF LifeInit, FileInit, ReadInv, ProgramsOK, FileOK, LoadOK, Reading

\* With no program there is no reader: what its place says is vacuous.
LEMMA NobodyReads ==
  ASSUME ReadInv, running = {}
  PROVE  \A r \in Readers : rpc[r] = "closed" /\ cached[r] = -1
BY DEF ReadInv, ProgramsOK

LEMMA ModuleRead ==
  ASSUME TableInv, ReadInv,
         \/ InitSyscall \/ ProcInit \/ Find \/ Store \/ Publish
         \/ FreeSlots \/ Unregister \/ ProcCleanup
  PROVE  ReadInv'
<1>1. running = {} /\ running' = {}
  BY DEF ReadInv, ProgramsOK, InitSyscall, ProcInit, Find, Store, Publish,
         FreeSlots, Unregister, ProcCleanup, Advance
<1>2. \A r \in Readers : rpc'[r] = "closed" /\ cached'[r] = -1
  <2>1. UNCHANGED <<rpc, cached>>
    BY DEF InitSyscall, ProcInit, Find, Store, Publish, FreeSlots, Unregister,
           ProcCleanup, fileVars
  <2> QED
    BY <1>1, <2>1, NobodyReads
<1>3. temp' = 0
  <2>1. temp = 0
    BY <1>1, NobodyReads DEF ReadInv, FileOK, Reading
  <2> QED
    BY <2>1 DEF InitSyscall, ProcInit, Find, Store, Publish, FreeSlots, Unregister,
                ProcCleanup, fileVars
<1>4. FileOK'
  BY <1>2, <1>3 DEF FileOK, LoadOK, Reading
<1>5. state' = "loaded" => number' = found'
  BY DEF TableInv, LifeTypeOK, ModuleTypeOK, InitSyscall, ProcInit, Find, Store, Publish,
         FreeSlots, Unregister, ProcCleanup, Advance
<1>6. ProgramsOK'
  BY <1>1, <1>2, <1>5 DEF ProgramsOK
<1> QED
  BY <1>4, <1>6 DEF ReadInv

\* While r reads nobody else does, and the flag is the only thing they share.
LEMMA OthersClosed ==
  ASSUME FileOK, NEW r \in Readers, Reading(r), NEW q \in Readers, q # r
  PROVE  rpc[q] = "closed"
BY DEF FileOK, Reading

\* A step of a reader that has the file open keeps the turn and its place.
LEMMA StepFile ==
  ASSUME FileTypeOK, FileOK, NEW r \in Readers, ReadStep(r)
  PROVE  FileOK'
<1>1. Reading(r)
  BY DEF ReadStep, ReadTest, ReadPrint, ReadCopy, ReadClear, ReadMore, ReadEnd, Atoi, Reading
<1>2. \A q \in Readers : q # r => rpc[q] = "closed" /\ rpc'[q] = "closed"
  BY <1>1, OthersClosed
     DEF ReadStep, ReadTest, ReadPrint, ReadCopy, ReadClear, ReadMore, ReadEnd, Atoi,
         ReadGoto, FileTypeOK
<1>3. \A p, q \in Readers : Reading(p)' /\ Reading(q)' => p = q
  BY <1>2 DEF Reading
<1>4. \A q \in Readers : q # r => LoadOK(q)'
  BY <1>2 DEF LoadOK
<1>5. LoadOK(r)' /\ (rpc'[r] = "closed" => temp' = 0)
  <2>0. LoadOK(r)
    BY DEF FileOK
  <2>1. CASE ReadTest(r)
    BY <2>0, <2>1 DEF ReadTest, ReadGoto, LoadOK, FileTypeOK
  <2>2. CASE ReadPrint(r)
    BY <2>0, <2>2 DEF ReadPrint, ReadGoto, LoadOK, FileTypeOK
  <2>3. CASE ReadCopy(r)
    BY <2>0, <2>3 DEF ReadCopy, ReadGoto, LoadOK, FileTypeOK
  <2>4. CASE ReadClear(r)
    BY <2>0, <2>4 DEF ReadClear, ReadGoto, LoadOK, FileTypeOK
  <2>5. CASE ReadMore(r)
    BY <2>0, <2>5 DEF ReadMore, ReadGoto, LoadOK, FileTypeOK
  <2>6. CASE ReadEnd(r)
    BY <2>0, <2>6 DEF ReadEnd, ReadGoto, LoadOK, FileTypeOK
  <2>7. CASE Atoi(r)
    BY <2>0, <2>7 DEF Atoi, ReadGoto, LoadOK, FileTypeOK
  <2> QED
    BY <2>1, <2>2, <2>3, <2>4, <2>5, <2>6, <2>7 DEF ReadStep
<1> QED
  BY <1>3, <1>4, <1>5 DEF FileOK, Reading

\* Only the last step of a read sets what the library knows, to the number.
LEMMA StepNumber ==
  ASSUME FileTypeOK, FileOK, NEW r \in Readers, ReadStep(r), NEW q \in Readers
  PROVE  cached'[q] = cached[q] \/ (q = r /\ cached'[q] = number)
<1>1. CASE Atoi(r)
  <2>1. PICK n \in IF c[r] = NoText THEN Garbage ELSE {c[r]} :
          cached' = IF n > 0 THEN [cached EXCEPT ![r] = n] ELSE cached
    BY <1>1 DEF Atoi
  <2>2. c[r] = number /\ number # NoText
    BY <1>1, TextAssumption DEF Atoi, FileOK, LoadOK, FileTypeOK
  <2>3. n = number
    BY <2>1, <2>2
  <2> QED
    BY <2>1, <2>3 DEF FileTypeOK
<1>2. CASE ~Atoi(r)
  BY <1>2 DEF ReadStep, ReadTest, ReadPrint, ReadCopy, ReadClear, ReadMore, ReadEnd
<1> QED
  BY <1>1, <1>2

LEMMA ReaderRead ==
  ASSUME ~Overlap, TableInv, ReadInv, NEW r \in Readers, Read(r)
  PROVE  ReadInv'
<1>0. FileTypeOK /\ FileOK /\ ProgramsOK
  BY DEF TableInv, LifeTypeOK, ReadInv
<1>1. r \in running /\ UNCHANGED <<state, found, number, running>>
  BY DEF Read, Open, ReadStep, ReadTest, ReadPrint, ReadCopy, ReadClear, ReadMore,
         ReadEnd, Atoi, moduleVars
<1>2. \A q \in Readers : q # r => rpc'[q] = rpc[q]
  BY <1>0 DEF Read, Open, ReadStep, ReadTest, ReadPrint, ReadCopy, ReadClear, ReadMore,
              ReadEnd, Atoi, ReadGoto, FileTypeOK
<1>3. CASE Open(r)
  <2>1. /\ \A q \in Readers : rpc[q] = "closed"
        /\ UNCHANGED <<temp, cached>>
        /\ rpc' = [rpc EXCEPT ![r] = "test"]
    BY <1>3 DEF Open, ReadGoto, Reading
  <2>2. temp' = 0
    BY <1>0, <2>1 DEF FileOK, Reading
  <2>3. FileOK'
    BY <1>0, <2>1, <2>2 DEF FileOK, LoadOK, Reading, FileTypeOK
  <2>4. ProgramsOK'
    BY <1>0, <1>1, <1>2, <2>1 DEF ProgramsOK
  <2> QED
    BY <2>3, <2>4 DEF ReadInv
<1>4. CASE ReadStep(r)
  <2>1. FileOK'
    BY <1>0, <1>4, StepFile
  <2>2. \A q \in Readers : cached'[q] = cached[q] \/ (q = r /\ cached'[q] = number)
    BY <1>0, <1>4, StepNumber
  <2>3. ProgramsOK'
    BY <1>0, <1>1, <1>2, <2>2 DEF ProgramsOK
  <2> QED
    BY <2>1, <2>3 DEF ReadInv
<1> QED
  BY <1>3, <1>4 DEF Read

LEMMA ProgramRead ==
  ASSUME TableInv, ReadInv, NEW r \in Readers, Start(r) \/ Syscall(r) \/ End(r)
  PROVE  ReadInv'
<1>0. FileTypeOK /\ FileOK /\ ProgramsOK
  BY DEF TableInv, LifeTypeOK, ReadInv
<1>1. CASE Start(r) \/ Syscall(r)
  <2>1. FileOK'
    BY <1>0, <1>1 DEF Start, Syscall, fileVars, FileOK, LoadOK, Reading
  <2>2. ProgramsOK'
    BY <1>0, <1>1 DEF Start, Syscall, fileVars, moduleVars, ProgramsOK
  <2> QED
    BY <2>1, <2>2 DEF ReadInv
<1>2. CASE End(r)
  <2>1. FileOK'
    BY <1>0, <1>2 DEF End, FileOK, LoadOK, Reading
  <2>2. rpc[r] = "closed"
    BY <1>2 DEF End, Reading
  <2>3. ProgramsOK'
    BY <1>0, <1>2, <2>2 DEF End, moduleVars, ProgramsOK, FileTypeOK
  <2> QED
    BY <2>1, <2>3 DEF ReadInv
<1> QED
  BY <1>1, <1>2

LEMMA OthersRead ==
  ASSUME ReadInv, NEW p \in Positions, OtherRegisters(p) \/ OtherUnregisters(p)
  PROVE  ReadInv'
BY DEF OtherRegisters, OtherUnregisters, fileVars, ReadInv, ProgramsOK, FileOK, LoadOK, Reading

LEMMA NextRead ==
  ASSUME ~Overlap
  PROVE  TableInv /\ ReadInv /\ [LifeNext]_lifeVars => ReadInv'
<1> SUFFICES ASSUME TableInv, ReadInv, [LifeNext]_lifeVars PROVE ReadInv'
  OBVIOUS
<1>1. CASE LifeNext
  <2>1. CASE \/ InitSyscall \/ ProcInit \/ Find \/ Store \/ Publish
             \/ FreeSlots \/ Unregister \/ ProcCleanup
    BY <2>1, ModuleRead
  <2>2. ASSUME NEW r \in Readers, Start(r) \/ Syscall(r) \/ End(r)
        PROVE  ReadInv'
    BY <2>2, ProgramRead
  <2>3. ASSUME NEW r \in Readers, Read(r)
        PROVE  ReadInv'
    BY <2>3, ReaderRead
  <2>4. ASSUME NEW p \in Positions, OtherRegisters(p) \/ OtherUnregisters(p)
        PROVE  ReadInv'
    BY <2>4, OthersRead
  <2> QED
    BY <1>1, <2>1, <2>2, <2>3, <2>4 DEF LifeNext
<1>2. CASE UNCHANGED lifeVars
  BY <1>2 DEF lifeVars, moduleVars, fileVars, ReadInv, ProgramsOK, FileOK, LoadOK, Reading
<1> QED
  BY <1>1, <1>2

\* A number that a program has read is the table's entry of the module.
LEMMA KnownIsHeld == TableInv /\ ReadInv => NumberRight
<1> SUFFICES ASSUME TableInv, ReadInv, NEW r \in Readers, cached[r] > 0
             PROVE  table[cached[r]] = "lock"
  BY DEF NumberRight
<1>1. r \in running /\ state = "loaded"
  BY DEF ReadInv, ProgramsOK
<1>2. cached[r] = found /\ found \in Positions
  BY <1>1, PositionsAssumption DEF ReadInv, ProgramsOK, TableInv, TableOK, Holding
<1> QED
  BY <1>1, <1>2 DEF TableInv, TableOK, Restored

\* A program that read its number in turn calls the module and nothing else,
\* whichever entry this load got and whatever an earlier reader left of the
\* end-of-file flag (proc.c's temp, get_syscall_num of class_thread.c).
THEOREM NumberIsRight == ~Overlap => (LifeSpec => []NumberRight)
<1> SUFFICES ASSUME ~Overlap PROVE LifeSpec => []NumberRight
  OBVIOUS
<1>1. TableInv /\ ReadInv /\ [LifeNext]_lifeVars => ReadInv'
  BY NextRead
<1> QED
  BY <1>1, InitRead, KnownIsHeld, TableInvariance, PTL DEF LifeSpec
=============================================================================
