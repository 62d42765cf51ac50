---------------------------- MODULE KmodLifecycle ----------------------------
(***************************************************************************)
(* How lock_kmod gets into the system call table and out of it, and how a  *)
(* program finds it there: lock_kmod_init and lock_kmod_cleanup of main.c, *)
(* syscall.c, and get_syscall_num of class_thread.c reading proc.c's file. *)
(*                                                                         *)
(* The module is used as run.sh and the Makefiles use it: it is loaded     *)
(* before a program is started and unloaded when none runs.  Nothing in    *)
(* the code enforces that.  Other modules that add system calls the same   *)
(* way come and go, but not between find_free_position and the store that  *)
(* follows it: register_syscall's spinlock is its own local variable, so   *)
(* the code cannot keep them out.                                          *)
(***************************************************************************)
EXTENDS ProcNumber

CONSTANTS
  Positions,      \* indexes of sys_call_table
  Vacant,         \* those whose entry is sys_ni_syscall at boot
  MaxLoads        \* bound: how often the module is loaded

ASSUME PositionsAssumption == Positions \subseteq Nat /\ Vacant \subseteq Positions
ASSUME MaxLoadsAssumption == MaxLoads \in Nat

VARIABLES
  table,          \* sys_call_table
  others,         \* positions in use by other modules
  ready_to_work, sysnum,
  found,          \* register_syscall's local sysnum
  entry,          \* is there a /proc/deadlock_syscall_num?
  slotted,        \* the processes that have a slot in procs[]
  running,        \* the programs that run
  state,          \* how far the module is loaded or unloaded
  loads

moduleVars == <<table, ready_to_work, sysnum, found, entry, state, loads>>
lifeVars == <<fileVars, moduleVars, others, slotted, running>>

Boot == [p \in Positions |-> IF p \in Vacant THEN "ni" ELSE "native"]

LifeInit ==
  /\ FileInit
  /\ table = Boot /\ others = {}
  /\ ready_to_work = FALSE /\ sysnum = -1 /\ found = -1
  /\ entry = FALSE
  /\ slotted = {} /\ running = {}
  /\ state = "unloaded" /\ loads = 0

\* find_free_position: the first entry that is sys_ni_syscall, or -1.
Vacancies == {p \in Positions : table[p] = "ni"}
FindFree == IF Vacancies = {} THEN -1
            ELSE CHOOSE p \in Vacancies : \A q \in Vacancies : p <= q

\* One step of loading or unloading.
Advance(from, to) == state = from /\ state' = to
-----------------------------------------------------------------------------
(* lock_kmod_init *)

\* init_syscall; its result is not looked at.  The module's statics are fresh.
InitSyscall ==
  /\ Advance("unloaded", "proc") /\ loads < MaxLoads
  /\ loads' = loads + 1
  /\ ready_to_work' = (FindFree >= 0)
  /\ sysnum' = -1 /\ found' = -1
  /\ number' = 0 /\ temp' = 0
  /\ slotted' = {}
  /\ UNCHANGED <<table, entry, others, running, rpc, text, c, cached>>

ProcInit ==
  /\ Advance("proc", "find")
  /\ entry' = TRUE
  /\ UNCHANGED <<table, ready_to_work, sysnum, found, loads, fileVars, others,
                 slotted, running>>

\* register_syscall looks for a position; without one the load fails, and
\* /proc/deadlock_syscall_num stays.
Find ==
  LET p == IF ready_to_work THEN FindFree ELSE -1 IN
  /\ Advance("find", IF p < 0 THEN "failed" ELSE "store")
  /\ found' = p
  /\ sysnum' = p
  /\ UNCHANGED <<table, ready_to_work, entry, loads, fileVars, others, slotted,
                 running>>

Store ==
  /\ Advance("store", "publish")
  /\ table' = [table EXCEPT ![found] = "lock"]
  /\ UNCHANGED <<ready_to_work, sysnum, found, entry, loads, fileVars, others,
                 slotted, running>>

\* syscall_num = sysnum, then procs_info_mutex is initialised.
Publish ==
  /\ Advance("publish", "loaded")
  /\ number' = sysnum
  /\ UNCHANGED <<table, ready_to_work, sysnum, found, entry, loads, temp, rpc,
                 text, c, cached, others, slotted, running>>
-----------------------------------------------------------------------------
(* lock_kmod_cleanup *)

FreeSlots ==
  /\ Advance("loaded", "unregister") /\ running = {}
  /\ slotted' = {}
  /\ UNCHANGED <<table, ready_to_work, sysnum, found, entry, loads, fileVars,
                 others, running>>

\* Mutant: the entry is not given back.
UnregisterNothing ==
  /\ Advance("unregister", "remove")
  /\ UNCHANGED <<table, ready_to_work, sysnum, found, entry, loads, fileVars,
                 others, slotted, running>>

Unregister ==
  /\ Advance("unregister", "remove")
  /\ table' = IF ready_to_work THEN [table EXCEPT ![sysnum] = "ni"] ELSE table
  /\ UNCHANGED <<ready_to_work, sysnum, found, entry, loads, fileVars, others,
                 slotted, running>>

ProcCleanup ==
  /\ Advance("remove", "unloaded")
  /\ entry' = FALSE
  /\ UNCHANGED <<table, ready_to_work, sysnum, found, loads, fileVars, others,
                 slotted, running>>
-----------------------------------------------------------------------------
(* Programs that use the module, and other modules *)

Start(r) ==
  /\ state = "loaded" /\ r \notin running
  /\ running' = running \cup {r}
  /\ UNCHANGED <<fileVars, moduleVars, others, slotted>>

\* syscall(get_syscall_num(), ...) once the number is known: lock_syscall gives
\* the process its slot; another entry of the table does nothing of the kind.
Syscall(r) ==
  /\ r \in running /\ cached[r] > 0
  /\ table[cached[r]] = "lock"
  /\ slotted' = slotted \cup {r}
  /\ UNCHANGED <<fileVars, moduleVars, others, running>>

\* The program ends, with its cached number; its slot stays.
End(r) ==
  /\ r \in running /\ ~Reading(r)
  /\ running' = running \ {r}
  /\ cached' = [cached EXCEPT ![r] = -1]
  /\ UNCHANGED <<number, temp, rpc, text, c, moduleVars, others, slotted>>

Read(r) ==
  /\ r \in running
  /\ Open(r) \/ ReadStep(r)
  /\ UNCHANGED <<moduleVars, others, slotted, running>>

OtherRegisters(p) ==
  /\ state # "store" /\ table[p] = "ni"
  /\ table' = [table EXCEPT ![p] = "other"]
  /\ others' = others \cup {p}
  /\ UNCHANGED <<fileVars, ready_to_work, sysnum, found, entry, state, loads,
                 slotted, running>>

OtherUnregisters(p) ==
  /\ p \in others
  /\ table' = [table EXCEPT ![p] = "ni"]
  /\ others' = others \ {p}
  /\ UNCHANGED <<fileVars, ready_to_work, sysnum, found, entry, state, loads,
                 slotted, running>>
-----------------------------------------------------------------------------
LifeNext ==
  \/ InitSyscall \/ ProcInit \/ Find \/ Store \/ Publish
  \/ FreeSlots \/ Unregister \/ ProcCleanup
  \/ \E r \in Readers : Start(r) \/ Syscall(r) \/ End(r) \/ Read(r)
  \/ \E p \in Positions : OtherRegisters(p) \/ OtherUnregisters(p)

LifeSpec == LifeInit /\ [][LifeNext]_lifeVars
-----------------------------------------------------------------------------
\* The number a program reads is where the module's system call is, through
\* loads that land elsewhere and the end-of-file flag that readers share, as
\* long as they take turns: c is never used uninitialised (class_thread.c:13).
NumberRight == \A r \in Readers : cached[r] > 0 => table[cached[r]] = "lock"

\* Unloaded, or not loaded for want of a position, the module leaves the table
\* as others made it: it took an entry of nobody and gave back its own.
TableRestored ==
  state \in {"unloaded", "proc", "find", "failed"} =>
    table = [p \in Positions |-> IF p \in others THEN "other" ELSE Boot[p]]
=============================================================================
