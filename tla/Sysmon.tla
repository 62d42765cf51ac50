------------------------------- MODULE Sysmon -------------------------------
(***************************************************************************)
(* The sysmon kernel module: the probes of monitor.c, switched on and off  *)
(* through /proc/sysmon_toggle and aimed at one user through               *)
(* /proc/sysmon_uid (proc.c), and the log their lines end up in.           *)
(*                                                                         *)
(* A task that makes a probed system call runs send_logline in its own     *)
(* context.  An administrator loads the module, writes the two files and   *)
(* unloads it; set_toggle holds no lock, so two administrators interleave  *)
(* step by step, and Admins says how many there are.  What log.c does      *)
(* under log_mutex is one step here: LogBuffer shows that it is one queue. *)
(*                                                                         *)
(* jprobes are the kernel's: registering may fail, a second registration   *)
(* does, and unregister_jprobe disarms the probe and then waits for the    *)
(* handlers that run.                                                      *)
(***************************************************************************)
EXTENDS Integers, Sequences

CONSTANTS
  Tasks, Admins,
  UidOf,          \* the user of each task
  Uids,           \* the numbers an administrator may write to sysmon_uid
  IntMod,         \* an int is kept modulo 2^32
  NumProbes,
  NoArgs,         \* probes whose calls have no arguments: fmt is NULL
  LogBound,       \* LOG_BUFFER_CAPACITY - 1
  Nobody

ASSUME ProbesAssumption == NumProbes \in Nat \ {0} /\ NoArgs \subseteq 1 .. NumProbes
ASSUME BoundAssumption == LogBound \in Nat \ {0}
ASSUME NobodyAssumption == Nobody \notin Tasks
ASSUME UidsAssumption == Uids \subseteq Nat /\ IntMod \in Nat /\ IntMod > 1

VARIABLES
  state,          \* of the module, as insmod and rmmod see it
  entries,        \* do the /proc/sysmon_* files exist?
  toggle,
  monitoring_user_id, handler,
  registered,     \* the probes that fire
  buffer_mutex, buffer,
  log,
  apc, anew, anext, aidx,  \* an administrator's place and locals
  tpc, tprobe     \* a task's place in its probe's handler, and that probe

adminVars == <<apc, anew, anext, aidx>>
taskVars == <<tpc, tprobe>>
vars == <<state, entries, toggle, monitoring_user_id, handler, registered,
          buffer_mutex, buffer, log, adminVars, taskVars>>

Probes == 1 .. NumProbes

\* What a long becomes in monitor_set_uid(int).
ToInt(val) == IF 2 * (val % IntMod) < IntMod THEN val % IntMod
              ELSE (val % IntMod) - IntMod

Init ==
  /\ state = "unloaded" /\ entries = FALSE
  /\ toggle = 0 /\ monitoring_user_id = -1 /\ handler = FALSE
  /\ registered = {}
  /\ buffer_mutex = Nobody /\ buffer = [head |-> Nobody, args |-> Nobody]
  /\ log = <<>>
  /\ apc = [a \in Admins |-> "idle"] /\ anew = [a \in Admins |-> 0]
  /\ anext = [a \in Admins |-> "idle"] /\ aidx = [a \in Admins |-> 1]
  /\ tpc = [t \in Tasks |-> "user"] /\ tprobe = [t \in Tasks |-> 1]

AGoto(a, label) == apc' = [apc EXCEPT ![a] = label]
TGoto(t, label) == tpc' = [tpc EXCEPT ![t] = label]
-----------------------------------------------------------------------------
(* A probed system call: send_logline *)

probeVars == <<state, entries, toggle, monitoring_user_id, handler, registered,
               adminVars>>

Probe(t, i) ==
  /\ tpc[t] = "user" /\ i \in registered
  /\ TGoto(t, "check")
  /\ tprobe' = [tprobe EXCEPT ![t] = i]
  /\ UNCHANGED <<probeVars, buffer_mutex, buffer, log>>

\* Calls of other users are not logged, nor is any without a handler.
Check(t) ==
  /\ tpc[t] = "check"
  /\ TGoto(t, IF UidOf[t] = monitoring_user_id /\ handler THEN "lock" ELSE "user")
  /\ UNCHANGED <<probeVars, buffer_mutex, buffer, log, tprobe>>

BufferLock(t) ==
  /\ tpc[t] = "lock" /\ buffer_mutex = Nobody
  /\ buffer_mutex' = t
  /\ TGoto(t, "head")
  /\ UNCHANGED <<probeVars, buffer, log, tprobe>>

\* snprintf of the call's number and who makes it ends the string there...
PrintHead(t) ==
  /\ tpc[t] = "head"
  /\ buffer' = [head |-> t, args |-> Nobody]
  /\ TGoto(t, IF tprobe[t] \in NoArgs THEN "log" ELSE "args")
  /\ UNCHANGED <<probeVars, buffer_mutex, log, tprobe>>

\* Mutant: the mutex is let go once the line is printed.
PrintArgsUnlock(t) ==
  /\ tpc[t] = "args"
  /\ buffer' = [buffer EXCEPT !.args = t]
  /\ buffer_mutex' = Nobody
  /\ TGoto(t, "log")
  /\ UNCHANGED <<probeVars, log, tprobe>>

\* ...and vsnprintf appends the arguments.
PrintArgs(t) ==
  /\ tpc[t] = "args"
  /\ buffer' = [buffer EXCEPT !.args = t]
  /\ TGoto(t, "log")
  /\ UNCHANGED <<probeVars, buffer_mutex, log, tprobe>>

Line(t) == [by |-> t, probe |-> tprobe[t], head |-> buffer.head,
            args |-> buffer.args]

\* _handler(buffer): monitor_handler copies the line into the log, in place of
\* the oldest if the log is full.
Handler(t) ==
  /\ tpc[t] = "log"
  /\ log' = Append(IF Len(log) = LogBound THEN Tail(log) ELSE log, Line(t))
  /\ TGoto(t, "unlock")
  /\ UNCHANGED <<probeVars, buffer_mutex, buffer, tprobe>>

\* Mutant: the way out forgets the mutex.
BufferKeep(t) ==
  /\ tpc[t] = "unlock"
  /\ TGoto(t, "user")
  /\ UNCHANGED <<probeVars, buffer_mutex, buffer, log, tprobe>>

BufferUnlock(t) ==
  /\ tpc[t] = "unlock"
  /\ buffer_mutex' = Nobody
  /\ TGoto(t, "user")
  /\ UNCHANGED <<probeVars, buffer, log, tprobe>>

SendLogline(t) ==
  \/ Check(t) \/ BufferLock(t) \/ PrintHead(t) \/ PrintArgs(t)
  \/ Handler(t) \/ BufferUnlock(t)

\* A read of /proc/sysmon_log takes lines from the front.
ReadLog ==
  /\ entries /\ log # <<>>
  /\ log' = Tail(log)
  /\ UNCHANGED <<probeVars, taskVars, buffer_mutex, buffer>>
-----------------------------------------------------------------------------
(* monitor_init and monitor_cleanup, as called by administrator a *)

kept == <<state, entries, monitoring_user_id, log, taskVars>>

\* mutex_init, whoever holds the mutex, and _handler.
MonitorInit(a) ==
  /\ apc[a] = "init"
  /\ buffer_mutex' = Nobody
  /\ handler' = TRUE
  /\ AGoto(a, "register")
  /\ aidx' = [aidx EXCEPT ![a] = 1]
  /\ UNCHANGED <<kept, toggle, registered, buffer, anew, anext>>

\* register_jprobe: the first that fails ends monitor_init, and its callers do
\* not look at the result.
Register(a) ==
  LET i == aidx[a] IN
  /\ apc[a] = "register"
  /\ \/ /\ i \in Probes \ registered
        /\ registered' = registered \cup {i}
        /\ aidx' = [aidx EXCEPT ![a] = i + 1]
        /\ AGoto(a, IF i = NumProbes THEN anext[a] ELSE "register")
     \/ /\ UNCHANGED <<registered, aidx>>
        /\ AGoto(a, anext[a])
  /\ UNCHANGED <<kept, toggle, handler, buffer_mutex, buffer, anew, anext>>

\* unregister_jprobe of the aidx-th probe, registered or not: no new call
\* enters its handler...
Disarm(a) ==
  /\ apc[a] = "unregister"
  /\ registered' = registered \ {aidx[a]}
  /\ AGoto(a, "wait")
  /\ UNCHANGED <<kept, toggle, handler, buffer_mutex, buffer, anew, anext, aidx>>

\* ...and those in it leave.
HandlersGone(i) == \A t \in Tasks : tpc[t] # "user" => tprobe[t] # i

\* Mutant: the loop over the probes ends one early.
AwaitOneLess(a) ==
  LET i == aidx[a] IN
  /\ apc[a] = "wait" /\ HandlersGone(i)
  /\ AGoto(a, IF i >= NumProbes - 1 THEN anext[a] ELSE "unregister")
  /\ aidx' = [aidx EXCEPT ![a] = i + 1]
  /\ UNCHANGED <<kept, toggle, handler, registered, buffer_mutex, buffer, anew,
                 anext>>

Await(a) ==
  LET i == aidx[a] IN
  /\ apc[a] = "wait" /\ HandlersGone(i)
  /\ AGoto(a, IF i = NumProbes THEN anext[a] ELSE "unregister")
  /\ aidx' = [aidx EXCEPT ![a] = i + 1]
  /\ UNCHANGED <<kept, toggle, handler, registered, buffer_mutex, buffer, anew,
                 anext>>
-----------------------------------------------------------------------------
(* The /proc files, insmod and rmmod (proc.c) *)

\* proc_init on fresh module data: the files are there before the log is.
Load(a) ==
  /\ apc[a] = "idle" /\ state = "unloaded"
  /\ state' = "loading" /\ entries' = TRUE
  /\ toggle' = 0 /\ monitoring_user_id' = -1 /\ handler' = FALSE
  /\ buffer_mutex' = Nobody /\ buffer' = [head |-> Nobody, args |-> Nobody]
  /\ log' = <<>>
  /\ AGoto(a, "initlog")
  /\ UNCHANGED <<registered, anew, anext, aidx, taskVars>>

InitLog(a) ==
  /\ apc[a] = "initlog"
  /\ log' = <<>>
  /\ AGoto(a, IF toggle = 1 THEN "init" ELSE "loaded")
  /\ anext' = [anext EXCEPT ![a] = "loaded"]
  /\ UNCHANGED <<state, entries, toggle, monitoring_user_id, handler, registered,
                 buffer_mutex, buffer, anew, aidx, taskVars>>

Loaded(a) ==
  /\ apc[a] = "loaded"
  /\ state' = "loaded"
  /\ AGoto(a, "idle")
  /\ UNCHANGED <<entries, toggle, monitoring_user_id, handler, registered,
                 buffer_mutex, buffer, log, anew, anext, aidx, taskVars>>

\* write_uid stores any number that is not negative, cut to an int.
WriteUid(val) ==
  /\ entries
  /\ monitoring_user_id' = ToInt(val)
  /\ UNCHANGED <<state, entries, toggle, handler, registered, buffer_mutex,
                 buffer, log, adminVars, taskVars>>

\* write_toggle and set_toggle: the test...
WriteToggle(a, new) ==
  /\ apc[a] = "idle" /\ entries /\ toggle # new
  /\ AGoto(a, IF new = 0 THEN "unregister" ELSE "init")
  /\ anew' = [anew EXCEPT ![a] = new]
  /\ anext' = [anext EXCEPT ![a] = "settoggle"]
  /\ aidx' = [aidx EXCEPT ![a] = 1]
  /\ UNCHANGED <<kept, toggle, handler, registered, buffer_mutex, buffer>>

\* ...and, after monitor_init or monitor_cleanup, the assignment.
SetToggle(a) ==
  /\ apc[a] = "settoggle"
  /\ toggle' = anew[a]
  /\ AGoto(a, "idle")
  /\ UNCHANGED <<kept, handler, registered, buffer_mutex, buffer, anew, anext, aidx>>

\* Mutant: rmmod leaves the probes to the toggle.
UnloadTrusting(a) ==
  /\ apc[a] = "idle" /\ state = "loaded"
  /\ state' = "unloading"
  /\ AGoto(a, "remove")
  /\ UNCHANGED <<entries, toggle, monitoring_user_id, handler, registered,
                 buffer_mutex, buffer, log, anew, anext, aidx, taskVars>>

\* proc_cleanup: monitor_cleanup first, the files after it.
Unload(a) ==
  /\ apc[a] = "idle" /\ state = "loaded"
  /\ state' = "unloading"
  /\ AGoto(a, "unregister")
  /\ anext' = [anext EXCEPT ![a] = "remove"]
  /\ aidx' = [aidx EXCEPT ![a] = 1]
  /\ UNCHANGED <<entries, toggle, monitoring_user_id, handler, registered,
                 buffer_mutex, buffer, log, anew, taskVars>>

\* remove_proc_entry lets nobody in any more...
RemoveEntries(a) ==
  /\ apc[a] = "remove"
  /\ entries' = FALSE
  /\ AGoto(a, "gone")
  /\ UNCHANGED <<state, toggle, monitoring_user_id, handler, registered,
                 buffer_mutex, buffer, log, anew, anext, aidx, taskVars>>

\* ...and waits for the writes that are in.
Unloaded(a) ==
  /\ apc[a] = "gone"
  /\ \A b \in Admins \ {a} : apc[b] = "idle"
  /\ state' = "unloaded"
  /\ AGoto(a, "idle")
  /\ UNCHANGED <<entries, toggle, monitoring_user_id, handler, registered,
                 buffer_mutex, buffer, log, anew, anext, aidx, taskVars>>

AdminStep(a) ==
  \/ MonitorInit(a) \/ Register(a) \/ Disarm(a) \/ Await(a)
  \/ InitLog(a) \/ Loaded(a) \/ SetToggle(a)
  \/ RemoveEntries(a) \/ Unloaded(a)

AdminCall(a) ==
  \/ Load(a) \/ Unload(a)
  \/ \E new \in {0, 1} : WriteToggle(a, new)

Next ==
  \/ \E t \in Tasks : SendLogline(t) \/ \E i \in Probes : Probe(t, i)
  \/ \E a \in Admins : AdminStep(a) \/ AdminCall(a)
  \/ \E val \in Uids : WriteUid(val)
  \/ ReadLog

Spec == Init /\ [][Next]_vars

\* Who is in the kernel goes on, and the kernel's mutex serves its waiters in
\* turn; nobody has to make a call.
Fairness ==
  /\ \A t \in Tasks : WF_vars(SendLogline(t)) /\ SF_vars(BufferLock(t))
  /\ \A a \in Admins : WF_vars(AdminStep(a))

FairSpec == Spec /\ Fairness
-----------------------------------------------------------------------------
AdminLabels == {"idle", "initlog", "loaded", "init", "register", "unregister",
                "wait", "settoggle", "remove", "gone"}

\* What each variable holds.  The log never outgrows its ring (log.c).
TypeOK ==
  /\ state \in {"unloaded", "loading", "loaded", "unloading"}
  /\ entries \in BOOLEAN /\ handler \in BOOLEAN
  /\ toggle \in {0, 1} /\ monitoring_user_id \in Int
  /\ registered \subseteq Probes
  /\ buffer_mutex \in Tasks \cup {Nobody}
  /\ buffer \in [head : Tasks \cup {Nobody}, args : Tasks \cup {Nobody}]
  /\ log \in Seq([by : Tasks, probe : Probes, head : Tasks \cup {Nobody},
                  args : Tasks \cup {Nobody}])
  /\ Len(log) <= LogBound
  /\ apc \in [Admins -> AdminLabels] /\ anext \in [Admins -> AdminLabels]
  /\ anew \in [Admins -> {0, 1}] /\ aidx \in [Admins -> 1 .. NumProbes + 1]
  /\ tpc \in [Tasks -> {"user", "check", "lock", "head", "args", "log", "unlock"}]
  /\ tprobe \in [Tasks -> Probes]

UsesBuffer(t) == tpc[t] \in {"head", "args", "log", "unlock"}

\* Only one jprobe uses the buffer at a time (the comment on buffer_mutex).
BufferExclusive == \A t, u \in Tasks : UsesBuffer(t) /\ UsesBuffer(u) => t = u

\* A line of the log names the caller that made it, with the arguments of that
\* call and of no other: none where the probe has none.
LinesWhole ==
  \A n \in 1 .. Len(log) :
    /\ log[n].head = log[n].by
    /\ log[n].args = IF log[n].probe \in NoArgs THEN Nobody ELSE log[n].by

\* When no administrator is at work and the toggle reads 0, no probe is armed and
\* no handler still runs: nothing will be logged, also after a monitor_init
\* that failed half way.
OffMeansQuiet ==
  state = "loaded" /\ toggle = 0 /\ (\A a \in Admins : apc[a] = "idle")
    => registered = {} /\ \A t \in Tasks : tpc[t] = "user"

\* Once rmmod is done no probe leads into the module and no task is in its code.
GoneWhenUnloaded ==
  state = "unloaded" => registered = {} /\ \A t \in Tasks : tpc[t] = "user"

\* A monitored system call goes on: send_logline's mutex is always given back.
CallReturns == \A t \in Tasks : tpc[t] # "user" ~> tpc[t] = "user"

\* A write to the toggle, insmod and rmmod come to an end, though switching off
\* waits for every handler that runs.
WriteReturns == \A a \in Admins : apc[a] # "idle" ~> apc[a] = "idle"
=============================================================================
