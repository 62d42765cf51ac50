------------------------------ MODULE LockKmod ------------------------------
(***************************************************************************)
(* The lock system call of the deadlocks project, lock_kmod/main.c, and    *)
(* the library functions of class_thread.c that call it.  Each process     *)
(* that ever makes the call owns one slot of procs[], and with it one      *)
(* recursive lock: which class_mutex_t the library was given plays no part.*)
(*                                                                         *)
(* A thread is its tid (current->pid), a process its pid (current->tgid).  *)
(* A thread's pc is "user" in the client program, "waiting" in the loop of *)
(* class_mutex_lock between two failed calls, "exited" when its process is *)
(* gone, and otherwise a place in lock_syscall.                            *)
(***************************************************************************)
EXTENDS Integers

CONSTANTS
  Threads,        \* tids
  Procs,          \* pids
  ProcOf,         \* the process of each thread
  MaxProcs,       \* MAX_PROCS_SUPPORTED
  MaxTry,         \* MAX_TRY_COUNT
  CountMod,       \* count is unsigned: it lives modulo 2^32
  MaxDepth,       \* bound: how often a client takes the lock without release
  NULL,           \* a free entry of procs[]
  Nobody          \* a mutex held by nobody; a tid of no thread

ASSUME ProcessAssumption == ProcOf \in [Threads -> Procs]
ASSUME NamesAssumption == Nobody \notin Threads
ASSUME BoundsAssumption ==
  /\ MaxProcs \in Nat \ {0} /\ MaxTry \in Nat \ {0}
  /\ MaxDepth \in Nat \ {0} /\ CountMod \in Nat /\ MaxDepth < CountMod

VARIABLES
  procs,          \* the slot table
  info_mutex,     \* procs_info_mutex
  data_mutex,     \* proc_data_mutex, one per slot
  pc,
  cmd,            \* lock_syscall's argument
  proc,           \* lock_syscall's local: the index of the caller's slot
  trycount,
  depth,          \* locks the library gave the thread, less the unlocks begun
  ready           \* processes that a class_mutex_init told that it succeeded

kernelVars == <<procs, info_mutex, data_mutex>>
vars == <<procs, info_mutex, data_mutex, pc, cmd, proc, trycount, depth, ready>>

Index == 0 .. MaxProcs - 1
Slot == [pid : Procs, tid : Threads \cup {Nobody}, count : 0 .. CountMod - 1]
ASSUME NullAssumption == NULL \notin Slot

\* "Other" stands for AllocateMutex and DestroyMutex, which main.c ignores.
Commands == {"InitMutex", "LockMutex", "UnlockMutex", "Other"}

Init ==
  /\ procs = [i \in Index |-> NULL]
  /\ info_mutex = Nobody
  /\ data_mutex = [i \in Index |-> Nobody]
  /\ pc = [t \in Threads |-> "user"]
  /\ cmd = [t \in Threads |-> "Other"]
  /\ proc = [t \in Threads |-> 0]
  /\ trycount = [t \in Threads |-> 0]
  /\ depth = [t \in Threads |-> 0]
  /\ ready = {}

Goto(t, label) == pc' = [pc EXCEPT ![t] = label]
-----------------------------------------------------------------------------
(* The library: what runs in the calling process. *)

\* A thread calls one of the class_mutex functions.  Clients pair their calls,
\* as bestoffer does: they unlock only what they have locked.
Call(t, c) ==
  /\ pc[t] = "user"
  /\ c = "LockMutex" => depth[t] < MaxDepth
  /\ c = "UnlockMutex" => depth[t] > 0
  /\ Goto(t, "info")
  /\ cmd' = [cmd EXCEPT ![t] = c]
  /\ depth' = [depth EXCEPT ![t] = IF c = "UnlockMutex" THEN @ - 1 ELSE @]
  /\ UNCHANGED <<kernelVars, proc, trycount, ready>>

\* class_mutex_lock calls again until the system call returns 0.
Retry(t) ==
  /\ pc[t] = "waiting"
  /\ Goto(t, "info")
  /\ UNCHANGED <<kernelVars, cmd, proc, trycount, depth, ready>>

\* lock_syscall returns: class_mutex_lock looks at the value and counts as a
\* lock only 0; the other functions ignore it, so class_mutex_init returns 0.
\* The locals of the call are gone; they are set back to their first values.
Return(t, value) ==
  LET lock == cmd[t] = "LockMutex" IN
  /\ Goto(t, IF lock /\ value # 0 THEN "waiting" ELSE "user")
  /\ cmd' = [cmd EXCEPT ![t] = IF lock /\ value # 0 THEN @ ELSE "Other"]
  /\ proc' = [proc EXCEPT ![t] = 0]
  /\ trycount' = [trycount EXCEPT ![t] = 0]
  /\ depth' = [depth EXCEPT ![t] = IF lock /\ value = 0 THEN @ + 1 ELSE @]
  /\ ready' = IF cmd[t] = "InitMutex" THEN ready \cup {ProcOf[t]} ELSE ready

\* A process ends, whatever it holds: nothing of lock_kmod is told.
Exit(p) ==
  /\ \E t \in Threads : ProcOf[t] = p
  /\ \A t \in Threads : ProcOf[t] = p => pc[t] \in {"user", "waiting"}
  /\ pc' = [t \in Threads |-> IF ProcOf[t] = p THEN "exited" ELSE pc[t]]
  /\ UNCHANGED <<kernelVars, cmd, proc, trycount, depth, ready>>
-----------------------------------------------------------------------------
(* get_proc_info, under procs_info_mutex. *)

InfoLock(t) ==
  /\ pc[t] = "info"
  /\ info_mutex = Nobody
  /\ info_mutex' = t
  /\ Goto(t, "scan")
  /\ UNCHANGED <<procs, data_mutex, cmd, proc, trycount, depth, ready>>

\* Where the call goes on with slot i, procs_info_mutex released.
Dispatch(t, i) ==
  /\ info_mutex' = Nobody
  /\ IF cmd[t] \in {"LockMutex", "UnlockMutex"}
       THEN /\ Goto(t, "data")
            /\ proc' = [proc EXCEPT ![t] = i]
            /\ UNCHANGED <<cmd, trycount, depth, ready>>
       ELSE Return(t, 0)
  /\ UNCHANGED data_mutex

Matches(t) == {i \in Index : procs[i] # NULL /\ procs[i].pid = ProcOf[t]}
Free == {i \in Index : procs[i] = NULL}

\* The scan stops at the first slot of the process.
ScanFound(t) ==
  /\ pc[t] = "scan"
  /\ \E i \in Matches(t) : (\A j \in Matches(t) : i <= j) /\ Dispatch(t, i)
  /\ UNCHANGED procs

\* It has none: the last free entry is to become its slot.
ScanFree(t) ==
  /\ pc[t] = "scan"
  /\ Matches(t) = {}
  /\ \E i \in Free :
       (\A j \in Free : j <= i) /\ proc' = [proc EXCEPT ![t] = i]
  /\ Goto(t, "insert")
  /\ UNCHANGED <<kernelVars, cmd, trycount, depth, ready>>

\* It has none and the table is full: lock_syscall returns -1.
ScanFull(t) ==
  /\ pc[t] = "scan"
  /\ Matches(t) = {} /\ Free = {}
  /\ info_mutex' = Nobody
  /\ Return(t, -1)
  /\ UNCHANGED <<procs, data_mutex>>

\* Mutant: the count is as kmalloc left it.
InsertDirty(t) ==
  /\ pc[t] = "insert"
  /\ \E garbage \in Threads \cup {Nobody}, n \in 0 .. 1 :
       procs' = [procs EXCEPT ![proc[t]] =
                   [pid |-> ProcOf[t], tid |-> garbage, count |-> n]]
  /\ Dispatch(t, proc[t])

\* kmalloc does not clear the slot and nothing sets its tid.
Insert(t) ==
  /\ pc[t] = "insert"
  /\ \E garbage \in Threads \cup {Nobody} :
       procs' = [procs EXCEPT ![proc[t]] =
                   [pid |-> ProcOf[t], tid |-> garbage, count |-> 0]]
  /\ Dispatch(t, proc[t])
-----------------------------------------------------------------------------
(* The command, under the slot's proc_data_mutex. *)

\* Mutant: proc_data_mutex is not waited for.
DataLockFree(t) ==
  /\ pc[t] = "data"
  /\ data_mutex' = [data_mutex EXCEPT ![proc[t]] = t]
  /\ Goto(t, IF cmd[t] = "LockMutex" THEN "test" ELSE "release")
  /\ UNCHANGED <<procs, info_mutex, cmd, proc, trycount, depth, ready>>

DataLock(t) ==
  /\ pc[t] = "data"
  /\ data_mutex[proc[t]] = Nobody
  /\ data_mutex' = [data_mutex EXCEPT ![proc[t]] = t]
  /\ Goto(t, IF cmd[t] = "LockMutex" THEN "test" ELSE "release")
  /\ UNCHANGED <<procs, info_mutex, cmd, proc, trycount, depth, ready>>

DataUnlock(t) == data_mutex' = [data_mutex EXCEPT ![proc[t]] = Nobody]

\* Mutants: only the tid is looked at; only the count is.
AvailableOwn(t) == procs[proc[t]].tid = t
AvailableFree(t) == procs[proc[t]].count = 0

\* proc->tid == tid || proc->count == 0
Available(t) == procs[proc[t]].tid = t \/ procs[proc[t]].count = 0

TestTake(t) ==
  /\ pc[t] = "test" /\ Available(t)
  /\ Goto(t, "take")
  /\ UNCHANGED <<kernelVars, cmd, proc, trycount, depth, ready>>

\* Mutant: the tries are not counted.
TestFailUncounted(t) ==
  /\ pc[t] = "test" /\ ~Available(t)
  /\ DataUnlock(t)
  /\ Goto(t, "data")
  /\ UNCHANGED <<procs, info_mutex, cmd, proc, trycount, depth, ready>>

\* Somebody else has it: try again, MAX_TRY_COUNT times before giving up.
TestFail(t) ==
  /\ pc[t] = "test" /\ ~Available(t)
  /\ DataUnlock(t)
  /\ IF trycount[t] + 1 = MaxTry
       THEN Return(t, -1)
       ELSE /\ Goto(t, "data")
            /\ trycount' = [trycount EXCEPT ![t] = @ + 1]
            /\ UNCHANGED <<cmd, proc, depth, ready>>
  /\ UNCHANGED <<procs, info_mutex>>

Take(t) ==
  /\ pc[t] = "take"
  /\ procs' = [procs EXCEPT ![proc[t]] =
       [pid |-> @.pid, tid |-> t, count |-> (@.count + 1) % CountMod]]
  /\ DataUnlock(t)
  /\ Return(t, 0)
  /\ UNCHANGED info_mutex

\* count--, whoever calls.
Release(t) ==
  /\ pc[t] = "release"
  /\ procs' = [procs EXCEPT ![proc[t]].count = (@ - 1) % CountMod]
  /\ DataUnlock(t)
  /\ Return(t, 0)
  /\ UNCHANGED info_mutex
-----------------------------------------------------------------------------
\* A step a thread takes once its call is made, library loop included.
Step(t) ==
  \/ Retry(t) \/ InfoLock(t)
  \/ ScanFound(t) \/ ScanFree(t) \/ ScanFull(t) \/ Insert(t)
  \/ DataLock(t) \/ TestTake(t) \/ TestFail(t) \/ Take(t) \/ Release(t)

\* Every process is gone.
Ended == (\A t \in Threads : pc[t] = "exited") /\ UNCHANGED vars

Next ==
  \/ \E t \in Threads, c \in Commands : Call(t, c)
  \/ \E t \in Threads : Step(t)
  \/ \E p \in Procs : Exit(p)
  \/ Ended

\* Threads in a call are scheduled, and a kernel mutex, whose waiters queue,
\* is given to each of them in the end.  Nobody has to call, or to unlock.
Fairness ==
  \A t \in Threads :
    WF_vars(Step(t)) /\ SF_vars(InfoLock(t)) /\ SF_vars(DataLock(t))

Spec == Init /\ [][Next]_vars
FairSpec == Spec /\ Fairness
-----------------------------------------------------------------------------
TypeOK ==
  /\ procs \in [Index -> Slot \cup {NULL}]
  /\ info_mutex \in Threads \cup {Nobody}
  /\ data_mutex \in [Index -> Threads \cup {Nobody}]
  /\ pc \in [Threads -> {"user", "waiting", "exited", "info", "scan", "insert",
                         "data", "test", "take", "release"}]
  /\ cmd \in [Threads -> Commands]
  /\ proc \in [Threads -> Index]
  /\ trycount \in [Threads -> 0 .. MaxTry - 1]
  /\ depth \in [Threads -> 0 .. MaxDepth]
  /\ ready \subseteq Procs

\* Two threads of a process never both have its lock, whatever its slot held
\* before, however tries and releases interleave, and however often the lock
\* was taken again (the test and the update of main.c:82-84 are one critical
\* section, and count wraps for nobody who unlocks only what it locked).
MutualExclusion ==
  \A t, u \in Threads :
    t # u /\ ProcOf[t] = ProcOf[u] => depth[t] = 0 \/ depth[u] = 0

\* Two threads that make a process's first calls at once get the same slot:
\* with two slots they would hold two locks (main.c:26-54).
OneSlotPerProcess ==
  \A i, j \in Index :
    procs[i] # NULL /\ procs[j] # NULL /\ procs[i].pid = procs[j].pid => i = j

\* The kernel's count is the number of locks the library still owes: it never
\* loses an increment or a decrement, and never goes below zero into the wrap.
Owed(t) ==
  depth[t] + IF pc[t] \in {"info", "scan", "data", "release"}
                /\ cmd[t] = "UnlockMutex" THEN 1 ELSE 0
CountExact ==
  \A i \in Index, t \in Threads :
    procs[i] # NULL /\ procs[i].pid = ProcOf[t] /\ Owed(t) > 0
      => procs[i].count = Owed(t) /\ procs[i].tid = t

\* A slot in use is changed only by the thread that holds its mutex, and that
\* is a thread of the process whose slot it is: processes never disturb each
\* other's locks.
SlotsGuarded ==
  [][\A i \in Index :
       procs[i] # NULL /\ procs'[i] # procs[i] =>
         /\ data_mutex[i] \in Threads
         /\ ProcOf[data_mutex[i]] = procs[i].pid]_vars

\* Each process's slot implements one recursive lock.
SlotsOf(p) == {i \in Index : procs[i] # NULL /\ procs[i].pid = p}
CountOf(p) == IF SlotsOf(p) = {} THEN 0
              ELSE procs[CHOOSE i \in SlotsOf(p) : TRUE].count
OwnerOf(p) == IF CountOf(p) = 0 THEN Nobody
              ELSE procs[CHOOSE i \in SlotsOf(p) : TRUE].tid
RL == INSTANCE RecursiveLock WITH
        owner <- [p \in Procs |-> OwnerOf(p)],
        depth <- [p \in Procs |-> CountOf(p)]
ImplementsRecursiveLock == RL!Spec

\* Every system call returns: the tries of a LockMutex end even if the holder
\* never unlocks, and no path leaves a mutex locked.
InKernel(t) == pc[t] \notin {"user", "waiting", "exited"}
SyscallReturns == \A t \in Threads : InKernel(t) ~> ~InKernel(t)

\* A lock that is free is not lost: if a thread keeps asking, some thread of
\* the process gets it, or all who ask are gone.
Asking(p) ==
  \E t \in Threads : /\ ProcOf[t] = p /\ cmd[t] = "LockMutex"
                     /\ pc[t] \notin {"user", "exited"}
FreeLockTaken ==
  \A p \in Procs :
    Asking(p) /\ SlotsOf(p) # {} /\ CountOf(p) = 0
      ~> CountOf(p) > 0 \/ ~Asking(p)

\* class_thread.h:26, of class_mutex_init: "Returns 0 on success, -1 on
\* failure".  So a process told 0 has a lock.
InitMeansLock == \A p \in ready : SlotsOf(p) # {}
=============================================================================
