---------------------------- MODULE Sysmon_proof ----------------------------
(***************************************************************************)
(* Proofs about Sysmon, for every set of tasks and users, any number of    *)
(* probes and any ring, with one administrator: two can run monitor_init   *)
(* at once, and its mutex_init then frees a mutex that a handler holds.    *)
(*                                                                         *)
(* What the properties say of an idle or unloaded module depends on every  *)
(* step of insmod, of a write to the toggle and of rmmod: PlaceOK says what *)
(* holds at each place, Cleared how far unregister_jprobe has come.  That  *)
(* lines are whole rests on the mutex (MutexOK), and on what its holder    *)
(* has printed so far (BufferOK).                                          *)
(***************************************************************************)
EXTENDS Sysmon, SequenceTheorems, TLAPS

\* The assumption of every theorem here: no two administrators at once.
OneAdmin == \A a, b \in Admins : a = b

\* No probe is armed and no task is in a handler.
Quiet == registered = {} /\ \A t \in Tasks : tpc[t] = "user"

\* The holder of buffer_mutex, and nobody else, is past mutex_lock.
MutexOK == \A t \in Tasks : UsesBuffer(t) <=> buffer_mutex = t

\* What the holder has printed so far is in the buffer.
BufferOK ==
  \A t \in Tasks :
    /\ tpc[t] = "args" => tprobe[t] \notin NoArgs
    /\ tpc[t] \in {"args", "log"} => buffer.head = t
    /\ tpc[t] = "args" => buffer.args = Nobody
    /\ tpc[t] = "log" => buffer.args = IF tprobe[t] \in NoArgs THEN Nobody ELSE t

\* Nobody loads, unloads or switches: the toggle is what the probes are.
IdleOK ==
  (\A a \in Admins : apc[a] = "idle") =>
    /\ state \in {"unloaded", "loaded"}
    /\ state = "unloaded" => ~entries
    /\ state = "unloaded" \/ toggle = 0 => Quiet

\* The probes that monitor_cleanup has come to are gone, with their handlers.
Cleared(a) ==
  /\ aidx[a] \in Probes
  /\ \A i \in registered : i >= aidx[a]
  /\ apc[a] = "wait" => aidx[a] \notin registered
  /\ \A t \in Tasks : tpc[t] # "user" => tprobe[t] >= aidx[a]

\* Where the administrator is in insmod, in a write to the toggle or in rmmod.
PlaceOK(a) ==
  /\ apc[a] \in {"initlog", "loaded"} => state = "loading" /\ toggle = 0 /\ Quiet
  /\ apc[a] \in {"init", "register"} =>
       state = "loaded" /\ toggle = 0 /\ anew[a] = 1 /\ anext[a] = "settoggle"
  /\ apc[a] = "init" => Quiet
  /\ apc[a] = "register" => aidx[a] \in Probes
  /\ apc[a] \in {"unregister", "wait"} => Cleared(a)
  /\ apc[a] \in {"unregister", "wait"} =>
       \/ state = "loaded" /\ anew[a] = 0 /\ anext[a] = "settoggle"
       \/ state = "unloading" /\ anext[a] = "remove"
  /\ apc[a] = "settoggle" => state = "loaded" /\ (anew[a] = 0 => Quiet)
  /\ apc[a] \in {"remove", "gone"} => state = "unloading" /\ Quiet
  /\ apc[a] = "gone" => ~entries

AdminOK == IdleOK /\ \A a \in Admins : PlaceOK(a)

IInv == TypeOK /\ MutexOK /\ BufferOK /\ LinesWhole /\ AdminOK
-----------------------------------------------------------------------------
LogLine == [by : Tasks, probe : Probes, head : Tasks \cup {Nobody},
            args : Tasks \cup {Nobody}]

\* The ring's log: a line is dropped at the front, one is added at the end.
LEMMA LogDrops ==
  ASSUME log \in Seq(LogLine), log # <<>>
  PROVE  /\ Tail(log) \in Seq(LogLine) /\ Len(Tail(log)) = Len(log) - 1
         /\ \A n \in 1 .. Len(log) - 1 : Tail(log)[n] = log[n + 1]
BY HeadTailProperties, SMT

LEMMA EmptyLog == << >> \in Seq(LogLine) /\ Len(<< >>) = 0
BY EmptySeq

LEMMA LogGrows ==
  ASSUME NEW s \in Seq(LogLine), NEW l \in LogLine
  PROVE  /\ Append(s, l) \in Seq(LogLine) /\ Len(Append(s, l)) = Len(s) + 1
         /\ \A n \in 1 .. Len(s) : Append(s, l)[n] = s[n]
         /\ Append(s, l)[Len(s) + 1] = l
BY AppendProperties, SMT

LEMMA HandlerLog ==
  ASSUME TypeOK, LinesWhole, NEW l \in LogLine, l.head = l.by,
         l.args = IF l.probe \in NoArgs THEN Nobody ELSE l.by,
         log' = Append(IF Len(log) = LogBound THEN Tail(log) ELSE log, l)
  PROVE  log' \in Seq(LogLine) /\ Len(log') <= LogBound /\ LinesWhole'
<1> DEFINE rest == IF Len(log) = LogBound THEN Tail(log) ELSE log
           Whole(x) == /\ x.head = x.by
                       /\ x.args = IF x.probe \in NoArgs THEN Nobody ELSE x.by
<1>1. log \in Seq(LogLine) /\ Len(log) <= LogBound /\ \A n \in 1 .. Len(log) : Whole(log[n])
  BY DEF TypeOK, LogLine, LinesWhole
<1>2. rest \in Seq(LogLine) /\ Len(rest) < LogBound /\ \A n \in 1 .. Len(rest) : Whole(rest[n])
  <2>1. CASE Len(log) = LogBound
    <3>1. log # <<>>
      BY <2>1, BoundAssumption
    <3> HIDE DEF Whole
    <3> QED
      BY <1>1, <2>1, <3>1, LogDrops, BoundAssumption
  <2>2. CASE Len(log) # LogBound
    BY <1>1, <2>2, BoundAssumption
  <2> QED
    BY <2>1, <2>2
<1>3. log' = Append(rest, l) /\ Whole(l)
  OBVIOUS
<1> HIDE DEF rest, Whole
<1>4. /\ log' \in Seq(LogLine) /\ Len(log') = Len(rest) + 1
      /\ \A n \in 1 .. Len(rest) : log'[n] = rest[n]
      /\ log'[Len(rest) + 1] = l
  <2>1. /\ Append(rest, l) \in Seq(LogLine) /\ Len(Append(rest, l)) = Len(rest) + 1
        /\ \A n \in 1 .. Len(rest) : Append(rest, l)[n] = rest[n]
        /\ Append(rest, l)[Len(rest) + 1] = l
    BY <1>2, LogGrows, Zenon
  <2> QED
    BY <1>3, <2>1, Zenon
<1>5. \A n \in 1 .. Len(log') : Whole(log'[n])
  <2>1. ASSUME NEW n \in 1 .. Len(log') PROVE Whole(log'[n])
    <3>1. Len(rest) \in Nat
      BY <1>2
    <3>2. n \in 1 .. Len(rest) \/ n = Len(rest) + 1
      BY <1>4, <3>1
    <3> QED
      BY <1>2, <1>3, <1>4, <3>2
  <2> QED
    BY <2>1
<1>6. Len(log') <= LogBound
  BY <1>2, <1>4, BoundAssumption
<1> QED
  BY <1>4, <1>5, <1>6 DEF LinesWhole, Whole

LEMMA ReadLogKeeps ==
  ASSUME TypeOK, LinesWhole, log # <<>>, log' = Tail(log)
  PROVE  log' \in Seq(LogLine) /\ Len(log') <= LogBound /\ LinesWhole'
<1>1. log \in Seq(LogLine) /\ Len(log) <= LogBound
  BY DEF TypeOK, LogLine
<1>2. Len(log) \in Nat /\ log' \in Seq(LogLine) /\ Len(log') = Len(log) - 1
      /\ \A n \in 1 .. Len(log) - 1 : log'[n] = log[n + 1]
  BY <1>1, LogDrops
<1> QED
  BY <1>1, <1>2, BoundAssumption DEF LinesWhole
-----------------------------------------------------------------------------
TaskStep(t) == SendLogline(t) \/ \E i \in Probes : Probe(t, i)

LEMMA InitEstablishes == Init => IInv
<1> USE ProbesAssumption, BoundAssumption, NobodyAssumption
<1> SUFFICES ASSUME Init PROVE IInv
  OBVIOUS
<1>1. TypeOK
  <2>1. log \in Seq(LogLine) /\ Len(log) <= LogBound
    BY EmptyLog DEF Init
  <2>2. /\ toggle \in {0, 1} /\ monitoring_user_id \in Int /\ registered \subseteq Probes
        /\ buffer_mutex \in Tasks \cup {Nobody}
        /\ buffer \in [head : Tasks \cup {Nobody}, args : Tasks \cup {Nobody}]
        /\ aidx \in [Admins -> 1 .. NumProbes + 1] /\ tprobe \in [Tasks -> Probes]
    BY DEF Init, Probes
  <2> QED
    BY <2>1, <2>2 DEF Init, TypeOK, AdminLabels, LogLine
<1>2. MutexOK /\ BufferOK /\ LinesWhole
  BY DEF Init, MutexOK, UsesBuffer, BufferOK, LinesWhole
<1>3. AdminOK
  BY DEF Init, AdminOK, IdleOK, PlaceOK, Quiet
<1> QED
  BY <1>1, <1>2, <1>3 DEF IInv
-----------------------------------------------------------------------------
(* What tasks do: send_logline *)

\* A handler that is entered, leaves, or prints and logs under the mutex.
LEMMA TaskTypes ==
  ASSUME IInv, NEW t \in Tasks, TaskStep(t)
  PROVE  TypeOK' /\ LinesWhole'
<1> USE DEF IInv
<1>1. ASSUME NEW i \in Probes, Probe(t, i) PROVE TypeOK' /\ LinesWhole'
  BY <1>1 DEF Probe, TGoto, probeVars, adminVars, TypeOK, LinesWhole
<1>2. CASE Check(t) \/ BufferLock(t) \/ BufferUnlock(t)
  BY <1>2 DEF Check, BufferLock, BufferUnlock, TGoto, probeVars, adminVars, TypeOK, LinesWhole
<1>3. CASE PrintHead(t) \/ PrintArgs(t)
  <2>1. buffer' \in [head : Tasks \cup {Nobody}, args : Tasks \cup {Nobody}]
    <3>1. CASE PrintHead(t)
      BY <3>1 DEF PrintHead
    <3>2. CASE PrintArgs(t)
      <4>1. buffer' = [buffer EXCEPT !.args = t]
        BY <3>2 DEF PrintArgs
      <4>2. buffer \in [head : Tasks \cup {Nobody}, args : Tasks \cup {Nobody}]
        BY DEF TypeOK
      <4> QED
        BY <4>1, <4>2
    <3> QED
      BY <1>3, <3>1, <3>2
  <2>2. tpc' \in [Tasks -> {"user", "check", "lock", "head", "args", "log", "unlock"}]
    BY <1>3 DEF PrintHead, PrintArgs, TGoto, TypeOK
  <2>3. UNCHANGED <<probeVars, buffer_mutex, log, tprobe>>
    BY <1>3 DEF PrintHead, PrintArgs
  <2> QED
    BY <2>1, <2>2, <2>3 DEF probeVars, adminVars, TypeOK, LinesWhole
<1>4. CASE Handler(t)
  <2>1. Line(t) \in LogLine
    BY DEF Line, LogLine, TypeOK
  <2>2. Line(t).head = Line(t).by
        /\ Line(t).args = IF Line(t).probe \in NoArgs THEN Nobody ELSE Line(t).by
    BY <1>4 DEF Line, Handler, BufferOK
  <2>3. log' = Append(IF Len(log) = LogBound THEN Tail(log) ELSE log, Line(t))
    BY <1>4 DEF Handler
  <2>4. log' \in Seq(LogLine) /\ Len(log') <= LogBound /\ LinesWhole'
    BY <2>1, <2>2, <2>3, HandlerLog
  <2> QED
    BY <1>4, <2>4 DEF Handler, TGoto, probeVars, adminVars, TypeOK, LogLine
<1> QED
  BY <1>1, <1>2, <1>3, <1>4 DEF TaskStep, SendLogline

\* Only the holder of buffer_mutex writes the buffer.
LEMMA TaskBuffer ==
  ASSUME IInv, NEW t \in Tasks, TaskStep(t)
  PROVE  MutexOK' /\ BufferOK'
<1> USE NobodyAssumption DEF IInv, TypeOK, MutexOK, BufferOK, UsesBuffer, TGoto
<1>1. ASSUME NEW i \in Probes, Probe(t, i) PROVE MutexOK' /\ BufferOK'
  BY <1>1 DEF Probe
<1>2. CASE Check(t)
  BY <1>2 DEF Check
<1>3. CASE BufferLock(t)
  BY <1>3 DEF BufferLock
<1>4. CASE PrintHead(t)
  BY <1>4 DEF PrintHead
<1>5. CASE PrintArgs(t)
  BY <1>5 DEF PrintArgs
<1>6. CASE Handler(t)
  BY <1>6 DEF Handler
<1>7. CASE BufferUnlock(t)
  BY <1>7 DEF BufferUnlock
<1> QED
  BY <1>1, <1>2, <1>3, <1>4, <1>5, <1>6, <1>7 DEF TaskStep, SendLogline

\* No task enters a handler whose probe is not armed, so what is quiet stays so.
LEMMA TaskAdmin ==
  ASSUME IInv, NEW t \in Tasks, TaskStep(t)
  PROVE  AdminOK'
<1>1. /\ UNCHANGED <<state, entries, toggle, registered, apc, anew, anext, aidx>>
      /\ tpc \in [Tasks -> {"user", "check", "lock", "head", "args", "log", "unlock"}]
      /\ tprobe \in [Tasks -> Probes] /\ registered \subseteq Probes
      /\ \A u \in Tasks \ {t} : tpc'[u] = tpc[u] /\ tprobe'[u] = tprobe[u]
      /\ \/ tpc[t] = "user" /\ tprobe'[t] \in registered
         \/ tpc[t] # "user" /\ tprobe'[t] = tprobe[t]
  BY DEF TaskStep, SendLogline, Probe, Check, BufferLock, PrintHead, PrintArgs, Handler,
         BufferUnlock, TGoto, probeVars, adminVars, IInv, TypeOK
<1>2. Quiet => Quiet'
  BY <1>1 DEF Quiet
<1>3. IdleOK'
  BY <1>1, <1>2 DEF IInv, AdminOK, IdleOK
<1>4. ASSUME NEW a \in Admins PROVE PlaceOK(a)'
  <2>1. PlaceOK(a)
    BY DEF IInv, AdminOK
  <2>2. Cleared(a) => Cleared(a)'
    BY <1>1 DEF Cleared, Probes
  <2> QED
    BY <1>1, <1>2, <2>1, <2>2 DEF PlaceOK
<1> QED
  BY <1>3, <1>4 DEF AdminOK
-----------------------------------------------------------------------------
(* Anybody's reads of the log and writes of the uid *)

LEMMA IntOfLong ==
  ASSUME NEW val \in Uids
  PROVE  ToInt(val) \in Int
BY UidsAssumption DEF ToInt

LEMMA FilesPreserve ==
  ASSUME IInv, ReadLog \/ \E val \in Uids : WriteUid(val)
  PROVE  IInv'
<1>1. TypeOK' /\ LinesWhole'
  <2>1. CASE ReadLog
    <3>1. log' \in Seq(LogLine) /\ Len(log') <= LogBound /\ LinesWhole'
      BY <2>1, ReadLogKeeps DEF IInv, ReadLog
    <3> QED
      BY <2>1, <3>1 DEF ReadLog, probeVars, adminVars, taskVars, IInv, TypeOK, LogLine
  <2>2. ASSUME NEW val \in Uids, WriteUid(val) PROVE TypeOK' /\ LinesWhole'
    BY <2>2, IntOfLong DEF WriteUid, adminVars, taskVars, IInv, TypeOK, LinesWhole
  <2> QED
    BY <2>1, <2>2
<1>2. UNCHANGED <<state, entries, toggle, registered, buffer_mutex, buffer, apc, anew,
                  anext, aidx, tpc, tprobe>>
  BY DEF ReadLog, WriteUid, probeVars, adminVars, taskVars
<1>3. MutexOK' /\ BufferOK'
  BY <1>2 DEF IInv, MutexOK, BufferOK, UsesBuffer
<1>4. AdminOK'
  BY <1>2 DEF IInv, AdminOK, IdleOK, PlaceOK, Cleared, Quiet
<1> QED
  BY <1>1, <1>3, <1>4 DEF IInv
-----------------------------------------------------------------------------
(* What the administrator does *)

AdminAny(a) == AdminStep(a) \/ AdminCall(a)

LEMMA AdminTypes ==
  ASSUME IInv, NEW a \in Admins, AdminAny(a)
  PROVE  TypeOK' /\ LinesWhole'
<1> USE ProbesAssumption, BoundAssumption DEF IInv, TypeOK, PlaceOK, AGoto, AdminLabels, LinesWhole, Probes
<1>1. CASE MonitorInit(a)
  BY <1>1 DEF MonitorInit, kept, taskVars
<1>2. CASE Register(a)
  <2>1. registered' \subseteq Probes
    BY <1>2 DEF Register
  <2>2. aidx' \in [Admins -> 1 .. NumProbes + 1]
    <3>1. UNCHANGED aidx \/ (aidx[a] \in Probes /\ aidx' = [aidx EXCEPT ![a] = aidx[a] + 1])
      BY <1>2 DEF Register
    <3>2. aidx[a] \in Probes => aidx[a] + 1 \in 1 .. NumProbes + 1
      OBVIOUS
    <3> QED
      BY <3>1, <3>2
  <2>3. apc' \in [Admins -> AdminLabels]
    BY <1>2 DEF Register
  <2>4. UNCHANGED <<kept, toggle, handler, buffer_mutex, buffer, anew, anext>>
    BY <1>2 DEF Register
  <2> QED
    BY <2>1, <2>2, <2>3, <2>4 DEF kept, taskVars
<1>3. CASE Disarm(a)
  BY <1>3 DEF Disarm, kept, taskVars
<1>4. CASE Await(a)
  <2>1. aidx[a] \in Probes
    BY <1>4 DEF Await, AdminOK, Cleared
  <2> QED
    BY <1>4, <2>1 DEF Await, kept, taskVars
<1>5. CASE InitLog(a)
  BY <1>5 DEF InitLog, taskVars
<1>6. CASE Loaded(a) \/ RemoveEntries(a) \/ Unloaded(a)
  BY <1>6 DEF Loaded, RemoveEntries, Unloaded, taskVars
<1>7. CASE SetToggle(a)
  BY <1>7 DEF SetToggle, kept, taskVars
<1>8. CASE Load(a)
  <2>1. log' \in Seq(LogLine) /\ Len(log') = 0
    BY <1>8, EmptyLog DEF Load
  <2>2. Len(log') <= LogBound /\ LinesWhole'
    BY <2>1
  <2>3. buffer' \in [head : Tasks \cup {Nobody}, args : Tasks \cup {Nobody}]
    BY <1>8 DEF Load
  <2>4. apc' \in [Admins -> AdminLabels]
    BY <1>8 DEF Load
  <2> QED
    <3>1. /\ state' = "loading" /\ entries' = TRUE /\ toggle' = 0 /\ handler' = FALSE
          /\ monitoring_user_id' = -1 /\ -1 \in Int /\ buffer_mutex' = Nobody
          /\ UNCHANGED <<registered, anew, anext, aidx, tpc, tprobe>>
      BY <1>8 DEF Load, taskVars
    <3>2. log' \in Seq([by : Tasks, probe : Probes, head : Tasks \cup {Nobody},
                        args : Tasks \cup {Nobody}])
      BY <2>1 DEF LogLine
    <3> QED
      BY <2>2, <2>3, <2>4, <3>1, <3>2
<1>9. CASE Unload(a)
  BY <1>9 DEF Unload, taskVars
<1>10. ASSUME NEW new \in {0, 1}, WriteToggle(a, new) PROVE TypeOK' /\ LinesWhole'
  BY <1>10 DEF WriteToggle, kept, taskVars
<1> QED
  BY <1>1, <1>2, <1>3, <1>4, <1>5, <1>6, <1>7, <1>8, <1>9, <1>10
  DEF AdminAny, AdminStep, AdminCall

\* The buffer and its mutex are set up anew only when no task is in a handler.
LEMMA AdminBuffer ==
  ASSUME IInv, NEW a \in Admins, OneAdmin, AdminAny(a)
  PROVE  MutexOK' /\ BufferOK'
<1> USE DEF IInv, UsesBuffer, MutexOK, BufferOK
<1>1. CASE UNCHANGED <<buffer_mutex, buffer, tpc, tprobe>>
  BY <1>1
<1>2. CASE MonitorInit(a)
  <2>1. Quiet
    BY <1>2 DEF MonitorInit, AdminOK, PlaceOK
  <2> QED
    BY <1>2, <2>1, NobodyAssumption DEF MonitorInit, kept, taskVars, Quiet
<1>3. CASE Load(a)
  <2>1. Quiet
    BY <1>3 DEF Load, AdminOK, IdleOK, OneAdmin
  <2> QED
    BY <1>3, <2>1, NobodyAssumption DEF Load, taskVars, Quiet
<1> QED
  BY <1>1, <1>2, <1>3
  DEF AdminAny, AdminStep, AdminCall, Register, Disarm, Await, InitLog, Loaded, SetToggle,
      RemoveEntries, Unloaded, Unload, WriteToggle, kept, taskVars

\* Every place of insmod, of a write to the toggle and of rmmod leaves what the
\* next needs.
LEMMA AdminPlaces ==
  ASSUME IInv, NEW a \in Admins, OneAdmin, AdminAny(a)
  PROVE  AdminOK'
<1>0. \A b \in Admins : b = a
  BY DEF OneAdmin
<1> SUFFICES IdleOK' /\ PlaceOK(a)'
  BY <1>0 DEF AdminOK
<1>1. PlaceOK(a) /\ TypeOK /\ (apc[a] = "idle" => IdleOK)
  BY DEF IInv, AdminOK
<1> USE ProbesAssumption DEF TypeOK, PlaceOK, IdleOK, AGoto, Quiet
<1>2. CASE MonitorInit(a)
  BY <1>0, <1>1, <1>2 DEF MonitorInit, kept, taskVars, Probes
<1>3. CASE Register(a)
  BY <1>0, <1>1, <1>3 DEF Register, kept, taskVars, Probes
<1>4. CASE Disarm(a)
  BY <1>0, <1>1, <1>4 DEF Disarm, kept, taskVars, Cleared, Probes
<1>5. CASE Await(a)
  BY <1>0, <1>1, <1>5 DEF Await, HandlersGone, kept, taskVars, Cleared, Probes
<1>6. CASE InitLog(a) \/ Loaded(a)
  BY <1>0, <1>1, <1>6 DEF InitLog, Loaded, taskVars
<1>7. CASE SetToggle(a)
  BY <1>0, <1>1, <1>7 DEF SetToggle, kept, taskVars
<1>8. CASE RemoveEntries(a) \/ Unloaded(a)
  BY <1>0, <1>1, <1>8 DEF RemoveEntries, Unloaded, taskVars
<1>9. CASE Load(a)
  BY <1>0, <1>1, <1>9 DEF Load, taskVars
<1>10. CASE Unload(a)
  BY <1>0, <1>1, <1>10 DEF Unload, taskVars, Cleared, Probes
<1>11. ASSUME NEW new \in {0, 1}, WriteToggle(a, new) PROVE IdleOK' /\ PlaceOK(a)'
  BY <1>0, <1>1, <1>11 DEF WriteToggle, kept, taskVars, Cleared, Probes
<1> QED
  BY <1>2, <1>3, <1>4, <1>5, <1>6, <1>7, <1>8, <1>9, <1>10, <1>11
  DEF AdminAny, AdminStep, AdminCall
-----------------------------------------------------------------------------
LEMMA StutterPreserves ==
  ASSUME IInv, UNCHANGED vars
  PROVE  IInv'
<1> USE DEF vars, adminVars, taskVars, IInv
<1>1. TypeOK' /\ MutexOK' /\ BufferOK' /\ LinesWhole'
  BY DEF TypeOK, MutexOK, UsesBuffer, BufferOK, LinesWhole
<1>2. AdminOK'
  BY DEF AdminOK, IdleOK, PlaceOK, Cleared, Quiet
<1> QED
  BY <1>1, <1>2

LEMMA StepPreserves ==
  ASSUME OneAdmin, IInv, [Next]_vars
  PROVE  IInv'
<1>1. ASSUME NEW t \in Tasks, TaskStep(t) PROVE IInv'
  BY <1>1, TaskTypes, TaskBuffer, TaskAdmin DEF IInv
<1>2. ASSUME NEW a \in Admins, AdminAny(a) PROVE IInv'
  BY <1>2, AdminTypes, AdminBuffer, AdminPlaces DEF IInv
<1>3. CASE ReadLog \/ \E val \in Uids : WriteUid(val)
  BY <1>3, FilesPreserve
<1>4. CASE UNCHANGED vars
  BY <1>4, StutterPreserves
<1> QED
  BY <1>1, <1>2, <1>3, <1>4 DEF Next, TaskStep, AdminAny

THEOREM Invariance == OneAdmin => (Spec => []IInv)
<1> SUFFICES ASSUME OneAdmin PROVE Spec => []IInv
  OBVIOUS
<1>1. Init => IInv
  BY InitEstablishes
<1>2. IInv /\ [Next]_vars => IInv'
  BY StepPreserves
<1> QED
  BY <1>1, <1>2, PTL DEF Spec

\* Every variable keeps its type; the log stays within its ring.
THEOREM TypeCorrect == OneAdmin => (Spec => []TypeOK)
<1>1. IInv => TypeOK
  BY DEF IInv
<1> QED
  BY <1>1, Invariance, PTL

\* With one administrator mutex_init never frees a mutex in use, so only one
\* handler at a time uses the buffer.
THEOREM BufferIsExclusive == OneAdmin => (Spec => []BufferExclusive)
<1>1. IInv => BufferExclusive
  BY DEF IInv, MutexOK, BufferExclusive
<1> QED
  BY <1>1, Invariance, PTL

\* A line of the log is of one call: its caller's, with that call's arguments.
THEOREM LinesAreWhole == OneAdmin => (Spec => []LinesWhole)
<1>1. IInv => LinesWhole
  BY DEF IInv
<1> QED
  BY <1>1, Invariance, PTL

\* When the toggle is off and nobody is at work on it, nothing will be logged.
THEOREM OffIsQuiet == OneAdmin => (Spec => []OffMeansQuiet)
<1>1. IInv => OffMeansQuiet
  BY DEF IInv, AdminOK, IdleOK, Quiet, OffMeansQuiet
<1> QED
  BY <1>1, Invariance, PTL

\* An unloaded module has no probe armed and no task in its code.
THEOREM UnloadedIsGone == OneAdmin => (Spec => []GoneWhenUnloaded)
<1>1. ASSUME IInv, state = "unloaded" PROVE Quiet
  <2>1. \A a \in Admins : apc[a] \in AdminLabels /\ PlaceOK(a)
    BY <1>1 DEF IInv, TypeOK, AdminOK
  <2>2. \A a \in Admins : apc[a] = "idle"
    BY <1>1, <2>1 DEF AdminLabels, PlaceOK
  <2> QED
    BY <1>1, <2>2 DEF IInv, AdminOK, IdleOK
<1>2. IInv => GoneWhenUnloaded
  BY <1>1 DEF GoneWhenUnloaded, Quiet
<1> QED
  BY <1>2, Invariance, PTL
=============================================================================
