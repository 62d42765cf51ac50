---------------------------- MODULE FuseMain_proof --------------------------
(***************************************************************************)
(* Proofs about the parts of libfuse that the run fuse_main puts side by   *)
(* side: the worker pool and its interrupts (FuseSession), mounting        *)
(* (FuseMount), and one connection from INIT to its end (FuseProtocol).    *)
(* They hold for every number of workers, requests and programs, and for   *)
(* every setup of the two versions that meet.                              *)
(***************************************************************************)
EXTENDS FuseSession, FuseMount, FuseProtocol, FiniteSetTheorems, SequenceTheorems, WellFoundedInduction,
        TLAPS

(***************************************************************************)
(* FuseSession: who serves a request, who interrupts it, and what the two   *)
(* have of it.                                                              *)
(***************************************************************************)

\* Where a worker is with its message: before it is processed, while the
\* handler has its request, and in the interruption of one.
Early == {"lock", "create", "enlist", "process"}
Serving == {"prepare", "call", "finish", "unhook", "reply", "free"}
Chasing == {"req_lock", "interrupt", "unref"}
Chasers(r) == {w \in Workers : job[w] = Msg("interrupt", r) /\ pc[w] \in Chasing}

SessionTypeOK ==
  /\ kern \in [Reqs -> {"new", "queued", "read", "done"}]
  /\ DOMAIN pc = Workers \cup {Main} /\ pc = [t \in Workers \cup {Main} |-> pc[t]]
  /\ job \in [Workers -> [op : {"none", "request", "interrupt"}, req : Reqs \cup {NoJob.req}]]
  /\ list \in SUBSET Reqs /\ ctr \in [Reqs -> Int]
  /\ func \in [Reqs -> BOOLEAN] /\ frame \in [Reqs -> {"none", "there", "ended"}]
  /\ req_lock \in [Reqs -> Workers \cup {Nobody}]

\* A message belongs to one request; a request to one worker.
JobOK(w) ==
  /\ job[w].op # "none" => job[w].req \in Reqs
  /\ job[w].op = "request" => \A u \in Workers : job[u] = job[w] => u = w

\* The handler's request is listed; an interrupter that has seen the function
\* has the lock of the request, and the handler's frame is there, or was when
\* its thread ended.
PlacedOK(w) ==
  /\ pc[w] \in Serving => job[w].op = "request" /\ job[w].req \in list
  /\ pc[w] \in Chasing => job[w].op = "interrupt"
  /\ pc[w] \in Early /\ job[w].op = "request" => job[w].req \notin list /\ Chasers(job[w].req) = {}
  /\ pc[w] \in {"interrupt", "unref"} => req_lock[job[w].req] = w
  /\ pc[w] = "interrupt" => frame[job[w].req] # "none"

\* A request is counted by the list and by everyone who interrupts it.
CountOK(r) == ctr[r] >= Cardinality(Chasers(r)) + (IF r \in list THEN 1 ELSE 0)
RequestOK(r) ==
  /\ func[r] => frame[r] # "none"
  /\ kern[r] \in {"new", "queued"} =>
       r \notin list /\ Chasers(r) = {} /\ \A w \in Workers : job[w] # Msg("request", r)

SessionInv ==
  /\ SessionTypeOK
  /\ \A w \in Workers : JobOK(w) /\ PlacedOK(w)
  /\ \A r \in Reqs : CountOK(r) /\ RequestOK(r)
-----------------------------------------------------------------------------
LEMMA ChasersFinite ==
  ASSUME NEW r
  PROVE  IsFiniteSet(Chasers(r)) /\ Cardinality(Chasers(r)) \in Nat
BY SessionAssumption, FS_Subset, FS_CardinalityType DEF Chasers

LEMMA MsgIs ==
  ASSUME SessionTypeOK, NEW w \in Workers
  PROVE  job[w] = Msg(job[w].op, job[w].req)
BY DEF SessionTypeOK, Msg

LEMMA NoJobIs == NoJob \in [op : {"none", "request", "interrupt"}, req : Reqs \cup {NoJob.req}]
                 /\ NoJob.op = "none"
BY DEF NoJob, Msg

LEMMA GotoIs ==
  ASSUME SessionTypeOK, NEW w \in Workers, NEW to, Goto(w, to)
  PROVE  /\ DOMAIN pc' = Workers \cup {Main} /\ pc' = [t \in Workers \cup {Main} |-> pc'[t]]
         /\ pc'[w] = to /\ \A u \in Workers : u # w => pc'[u] = pc[u]
BY DEF SessionTypeOK, Goto

\* A step that moves nobody to a place where a request or its lock matters,
\* and gives nobody a message; a message may be dropped, a thread and its
\* frame may end.
LEMMA PoolOK ==
  ASSUME SessionInv, UNCHANGED <<list, ctr, func, req_lock>>,
         frame' \in [Reqs -> {"none", "there", "ended"}],
         \A r \in Reqs : frame[r] # "none" => frame'[r] # "none",
         kern' \in [Reqs -> {"new", "queued", "read", "done"}],
         \A r \in Reqs : kern'[r] \in {"new", "queued"} => kern[r] \in {"new", "queued"},
         DOMAIN pc' = Workers \cup {Main}, pc' = [t \in Workers \cup {Main} |-> pc'[t]],
         job' \in [Workers -> [op : {"none", "request", "interrupt"}, req : Reqs \cup {NoJob.req}]],
         \A w \in Workers :
           /\ job'[w] = job[w] \/ (job'[w].op = "none" /\ pc'[w] \notin Serving \cup Chasing)
           /\ pc'[w] \in Serving => pc[w] \in Serving
           /\ pc'[w] \in Chasing => pc[w] \in Chasing
           /\ pc'[w] \in Early => pc[w] \in Early
           /\ pc'[w] \in {"interrupt", "unref"} => pc[w] \in {"interrupt", "unref"}
           /\ pc'[w] = "interrupt" => pc[w] = "interrupt"
  PROVE  SessionInv'
<1>0. SessionTypeOK
  BY DEF SessionInv
<1>1. SessionTypeOK'
  BY <1>0 DEF SessionTypeOK
<1>2. \A r : Chasers(r)' \subseteq Chasers(r)
  BY DEF Chasers, Msg
<1>3. ASSUME NEW w \in Workers PROVE JobOK(w)'
  <2>1. JobOK(w)
    BY DEF SessionInv
  <2> QED
    BY <2>1 DEF JobOK
<1>4. ASSUME NEW w \in Workers PROVE PlacedOK(w)'
  <2>1. PlacedOK(w)
    BY DEF SessionInv
  <2>2. pc'[w] \in {"interrupt", "unref"} => pc'[w] \in Chasing
    BY DEF Chasing
  <2>3. (pc'[w] \in Serving => job[w].op = "request" /\ job[w].req \in list) /\ (pc'[w] \in Chasing => job[w].op = "interrupt")
    BY <2>1 DEF PlacedOK
  <2>4. pc'[w] \in Early /\ job'[w].op = "request" => job[w].req \notin list /\ Chasers(job[w].req)' = {}
    BY <1>2, <2>1 DEF PlacedOK
  <2>5. pc'[w] \in {"interrupt", "unref"} => req_lock[job[w].req] = w
    BY <2>1 DEF PlacedOK
  <2>6. pc'[w] = "interrupt" => frame'[job[w].req] # "none"
    <3>1. ASSUME pc'[w] = "interrupt" PROVE job[w].req \in Reqs
      BY <1>0, <2>1, <3>1 DEF PlacedOK, SessionInv, JobOK, Chasing
    <3> QED
      BY <2>1, <3>1 DEF PlacedOK
  <2>7. CASE job'[w] = job[w]
    BY <2>3, <2>4, <2>5, <2>6, <2>7 DEF PlacedOK
  <2>8. CASE job'[w].op = "none" /\ pc'[w] \notin Serving \cup Chasing
    BY <2>2, <2>8 DEF PlacedOK
  <2> QED
    BY <2>7, <2>8
<1>5. ASSUME NEW r \in Reqs PROVE CountOK(r)' /\ RequestOK(r)'
  <2>1. CountOK(r) /\ RequestOK(r)
    BY DEF SessionInv
  <2>2. Cardinality(Chasers(r)') <= Cardinality(Chasers(r)) /\ Cardinality(Chasers(r)') \in Nat
    BY <1>2, ChasersFinite, FS_Subset, FS_CardinalityType
  <2>3. CountOK(r)'
    BY <1>0, <2>1, <2>2, ChasersFinite DEF CountOK, SessionTypeOK
  <2>4. \A w \in Workers : job'[w] = Msg("request", r) => job[w] = Msg("request", r)
    BY DEF Msg
  <2>5. kern'[r] \in {"new", "queued"} => Chasers(r)' = {}
    BY <1>2, <2>1 DEF RequestOK
  <2>6. RequestOK(r)'
    BY <2>1, <2>4, <2>5 DEF RequestOK
  <2> QED
    BY <2>3, <2>6
<1> QED
  BY <1>1, <1>3, <1>4, <1>5 DEF SessionInv

\* One worker moves; of the rest, the step says what the others find.
LEMMA OneMovesOK ==
  ASSUME SessionInv, NEW w \in Workers, NEW to, Goto(w, to), SessionTypeOK', JobOK(w)', PlacedOK(w)',
         \A u \in Workers \ {w} : job'[u] = job[u] /\ JobOK(u)' /\ PlacedOK(u)',
         \A r \in Reqs : CountOK(r)' /\ RequestOK(r)'
  PROVE  SessionInv'
BY DEF SessionInv

\* Whoever a step of another worker leaves where it is.
LEMMA OthersPlaced ==
  ASSUME NEW u \in Workers, PlacedOK(u), pc'[u] = pc[u], job'[u] = job[u],
         job[u].op = "request" /\ pc[u] \in Serving => (job[u].req \in list => job[u].req \in list'),
         job[u].op = "request" /\ pc[u] \in Early =>
           /\ job[u].req \notin list => job[u].req \notin list'
           /\ Chasers(job[u].req) = {} => Chasers(job[u].req)' = {},
         job[u].op = "interrupt" /\ pc[u] \in {"interrupt", "unref"} =>
           (req_lock[job[u].req] = u => req_lock'[job[u].req] = u),
         job[u].op = "interrupt" /\ pc[u] = "interrupt" => (frame[job[u].req] # "none" => frame'[job[u].req] # "none")
  PROVE  PlacedOK(u)'
<1>1. pc[u] \in {"interrupt", "unref"} => pc[u] \in Chasing
  BY DEF Chasing
<1>2. /\ pc[u] \in Serving => job[u].op = "request" /\ job[u].req \in list'
      /\ pc[u] \in Chasing => job[u].op = "interrupt"
      /\ pc[u] \in Early /\ job[u].op = "request" => job[u].req \notin list' /\ Chasers(job[u].req)' = {}
      /\ pc[u] \in {"interrupt", "unref"} => req_lock'[job[u].req] = u
      /\ pc[u] = "interrupt" => frame'[job[u].req] # "none"
  BY <1>1 DEF PlacedOK
<1> QED
  BY <1>2 DEF PlacedOK

LEMMA ReadMessageOK ==
  ASSUME SessionInv, NEW w \in Workers, NEW op \in {"request", "interrupt"}, NEW r \in Reqs,
         ReadMessage(w, Msg(op, r))
  PROVE  SessionInv'
<1> DEFINE m == Msg(op, r)
<1>0. SessionTypeOK /\ m.op = op /\ m.req = r /\ pc[w] = "read"
      /\ UNCHANGED <<list, ctr, func, frame, req_lock>>
  BY DEF SessionInv, ReadMessage, Msg, reqVars
<1>1. /\ op = "request" => kern[r] = "queued" /\ kern' = [kern EXCEPT ![r] = "read"]
      /\ op # "request" => kern' = kern
      /\ job' = [job EXCEPT ![w] = IF exited THEN NoJob ELSE m]
  BY <1>0 DEF ReadMessage
<1>2. /\ kern' \in [Reqs -> {"new", "queued", "read", "done"}]
      /\ \A q \in Reqs : kern'[q] \in {"new", "queued"} => kern[q] \in {"new", "queued"} /\ (op = "request" => q # r)
  BY <1>0, <1>1 DEF SessionTypeOK
<1>3. m \in [op : {"none", "request", "interrupt"}, req : Reqs \cup {NoJob.req}]
  BY DEF Msg
<1>4. job' \in [Workers -> [op : {"none", "request", "interrupt"}, req : Reqs \cup {NoJob.req}]]
  BY <1>0, <1>1, <1>3, NoJobIs DEF SessionTypeOK
<1>5. CASE exited
  <2>1. Goto(w, "pause")
    BY <1>5 DEF ReadMessage, Leave
  <2>2. \A u \in Workers : u # w => job'[u] = job[u]
    BY <1>0, <1>1 DEF SessionTypeOK
  <2>3. job'[w].op = "none"
    BY <1>0, <1>1, <1>5, NoJobIs DEF SessionTypeOK
  <2>4. /\ frame' \in [Reqs -> {"none", "there", "ended"}] /\ (\A q \in Reqs : frame[q] # "none" => frame'[q] # "none")
        /\ pc'[w] = "pause" /\ (\A u \in Workers : u # w => pc'[u] = pc[u])
        /\ DOMAIN pc' = Workers \cup {Main} /\ pc' = [t \in Workers \cup {Main} |-> pc'[t]]
    BY <1>0, <2>1, GotoIs DEF SessionTypeOK
  <2> QED
    BY <1>0, <1>2, <1>4, <2>2, <2>3, <2>4, PoolOK DEF Serving, Chasing, Early
<1>6. CASE ~exited
  <2>1. Goto(w, "lock") /\ job'[w] = m /\ \A u \in Workers : u # w => job'[u] = job[u]
    BY <1>0, <1>1, <1>6 DEF ReadMessage, SessionTypeOK
  <2> HIDE DEF m
  <2>2. pc'[w] = "lock" /\ (\A u \in Workers : u # w => pc'[u] = pc[u]) /\ SessionTypeOK'
    BY <1>0, <1>2, <1>4, <2>1, GotoIs DEF SessionTypeOK
  <2>3. \A q : Chasers(q)' = Chasers(q)
    BY <1>0, <2>1, <2>2 DEF Chasers, Chasing
  <2>4. RequestOK(r) /\ \A u \in Workers : JobOK(u) /\ PlacedOK(u)
    BY DEF SessionInv
  <2>5. op = "request" => r \notin list /\ Chasers(r) = {} /\ \A u \in Workers : job[u] # m
    BY <1>1, <2>4 DEF RequestOK, m
  <2>6. ASSUME NEW u \in Workers PROVE JobOK(u)'
    BY <1>0, <2>1, <2>4, <2>5 DEF JobOK
  <2>7. PlacedOK(w)'
    <3>1. Chasers(r) = {} => Chasers(job[w].req)' = {}
      BY <1>0, <2>1, <2>2 DEF Chasers, Chasing
    <3> QED
      BY <1>0, <2>1, <2>2, <2>5, <3>1 DEF PlacedOK, Serving, Chasing
  <2>8. ASSUME NEW u \in Workers \ {w} PROVE PlacedOK(u)'
    BY <1>0, <2>1, <2>2, <2>3, <2>4, OthersPlaced
  <2>9. ASSUME NEW q \in Reqs PROVE CountOK(q)' /\ RequestOK(q)'
    <3>1. CountOK(q) /\ RequestOK(q)
      BY DEF SessionInv
    <3>2. CountOK(q)'
      BY <1>0, <2>3, <3>1 DEF CountOK
    <3>3. kern'[q] \in {"new", "queued"} => m # Msg("request", q)
      BY <1>0, <1>2 DEF m, Msg
    <3>4. RequestOK(q)'
      BY <1>0, <1>2, <2>1, <2>3, <3>1, <3>3 DEF RequestOK
    <3> QED
      BY <3>2, <3>4
  <2> QED
    BY <2>2, <2>6, <2>7, <2>8, <2>9 DEF SessionInv
<1> QED
  BY <1>5, <1>6

LEMMA ProcessInterruptOK ==
  ASSUME SessionInv, NEW w \in Workers, NEW r \in Reqs, ProcessInterrupt(w, r)
  PROVE  SessionInv'
<1>0. /\ SessionTypeOK /\ pc[w] = "process" /\ job[w] = Msg("interrupt", r)
      /\ job[w].op = "interrupt" /\ job[w].req = r
      /\ UNCHANGED <<kern, job, list, func, frame, req_lock>>
  BY DEF SessionInv, ProcessInterrupt, Msg, kernelVars
<1>1. CASE r \notin list
  <2>1. Goto(w, "relock") /\ UNCHANGED ctr
    BY <1>1 DEF ProcessInterrupt
  <2>2. /\ pc'[w] = "relock" /\ \A u \in Workers : u # w => pc'[u] = pc[u]
        /\ DOMAIN pc' = Workers \cup {Main} /\ pc' = [t \in Workers \cup {Main} |-> pc'[t]]
    BY <1>0, <2>1, GotoIs
  <2> QED
    BY <1>0, <2>1, <2>2, PoolOK DEF SessionTypeOK, Serving, Chasing, Early
<1>2. CASE r \in list
  <2>1. Goto(w, "req_lock") /\ ctr' = [ctr EXCEPT ![r] = @ + 1]
    BY <1>2 DEF ProcessInterrupt
  <2>2. /\ pc'[w] = "req_lock" /\ (\A u \in Workers : u # w => pc'[u] = pc[u]) /\ SessionTypeOK'
    BY <1>0, <2>1, GotoIs DEF SessionTypeOK
  <2>3. /\ Chasers(r)' = Chasers(r) \cup {w} /\ w \notin Chasers(r)
        /\ \A q : q # r => Chasers(q)' = Chasers(q)
    BY <1>0, <2>2 DEF Chasers, Chasing, Msg
  <2>4. \A u \in Workers : JobOK(u) /\ PlacedOK(u)
    BY DEF SessionInv
  <2>5. ASSUME NEW u \in Workers PROVE JobOK(u)'
    BY <1>0, <2>4 DEF JobOK
  <2>6. PlacedOK(w)'
    BY <1>0, <2>2 DEF PlacedOK, Serving, Chasing, Early
  <2>7. ASSUME NEW u \in Workers \ {w} PROVE PlacedOK(u)'
    <3>1. job[u].op = "request" /\ pc[u] \in Early => job[u].req # r
      BY <1>2, <2>4 DEF PlacedOK
    <3> QED
      BY <1>0, <2>2, <2>3, <2>4, <3>1, OthersPlaced
  <2>8. ASSUME NEW q \in Reqs PROVE CountOK(q)' /\ RequestOK(q)'
    <3>0. CountOK(q) /\ RequestOK(q)
      BY DEF SessionInv
    <3>1. CASE q = r
      <4>1. Cardinality(Chasers(r)') = Cardinality(Chasers(r)) + 1
        BY <2>3, ChasersFinite, FS_AddElement
      <4>2. ctr'[r] = ctr[r] + 1 /\ ctr[r] \in Int
        BY <1>0, <2>1 DEF SessionTypeOK
      <4>3. CountOK(q)'
        BY <1>0, <3>0, <3>1, <4>1, <4>2, ChasersFinite DEF CountOK
      <4>4. RequestOK(q)'
        BY <1>0, <1>2, <3>0, <3>1 DEF RequestOK
      <4> QED
        BY <4>3, <4>4
    <3>2. CASE q # r
      <4>1. ctr'[q] = ctr[q]
        BY <1>0, <2>1, <3>2 DEF SessionTypeOK
      <4> QED
        BY <1>0, <2>3, <3>0, <3>2, <4>1 DEF CountOK, RequestOK
    <3> QED
      BY <3>1, <3>2
  <2> QED
    BY <2>2, <2>5, <2>6, <2>7, <2>8 DEF SessionInv
<1> QED
  BY <1>1, <1>2

LEMMA ProcessRequestOK ==
  ASSUME SessionInv, NEW w \in Workers, NEW r \in Reqs, ProcessRequest(w, r)
  PROVE  SessionInv'
<1>0. /\ SessionTypeOK /\ pc[w] = "process" /\ job[w] = Msg("request", r)
      /\ job[w].op = "request" /\ job[w].req = r
      /\ UNCHANGED <<kern, job, func, frame, req_lock>>
      /\ list' = list \cup {r} /\ ctr' = [ctr EXCEPT ![r] = 1]
  BY DEF SessionInv, ProcessRequest, Msg
<1>1. /\ pc'[w] \in {"call", "prepare"} /\ (\A u \in Workers : u # w => pc'[u] = pc[u])
      /\ SessionTypeOK'
  <2>1. \E to \in {"call", "prepare"} : Goto(w, to)
    BY DEF ProcessRequest
  <2> QED
    BY <1>0, <2>1, GotoIs DEF SessionTypeOK
<1>2. \A q : Chasers(q)' = Chasers(q)
  BY <1>0, <1>1 DEF Chasers, Chasing, Msg
<1>3. \A u \in Workers : JobOK(u) /\ PlacedOK(u)
  BY DEF SessionInv
<1>4. Chasers(r) = {}
  BY <1>0, <1>3 DEF PlacedOK, Early
<1>5. ASSUME NEW u \in Workers PROVE JobOK(u)'
  BY <1>0, <1>3 DEF JobOK
<1>6. PlacedOK(w)'
  BY <1>0, <1>1 DEF PlacedOK, Serving, Chasing, Early
<1>7. ASSUME NEW u \in Workers \ {w} PROVE PlacedOK(u)'
  <2>1. job[u].op = "request" => job[u].req # r
    BY <1>0, <1>3, MsgIs DEF JobOK
  <2> QED
    BY <1>0, <1>1, <1>2, <1>3, <2>1, OthersPlaced
<1>8. ASSUME NEW q \in Reqs PROVE CountOK(q)' /\ RequestOK(q)'
  <2>0. CountOK(q) /\ RequestOK(q)
    BY DEF SessionInv
  <2>1. CASE q = r
    <3>1. Cardinality(Chasers(q)') = 0 /\ ctr'[q] = 1
      BY <1>0, <1>2, <1>4, <2>1, FS_EmptySet DEF SessionTypeOK
    <3>2. CountOK(q)'
      BY <3>1 DEF CountOK
    <3>3. RequestOK(q)'
      BY <1>0, <1>2, <2>0, <2>1 DEF RequestOK
    <3> QED
      BY <3>2, <3>3
  <2>2. CASE q # r
    <3>1. ctr'[q] = ctr[q]
      BY <1>0, <2>2 DEF SessionTypeOK
    <3> QED
      BY <1>0, <1>2, <2>0, <2>2, <3>1 DEF CountOK, RequestOK
  <2> QED
    BY <2>1, <2>2
<1> QED
  BY <1>1, <1>5, <1>6, <1>7, <1>8 DEF SessionInv

LEMMA PrepareInterruptOK ==
  ASSUME SessionInv, NEW w \in Workers, NEW r \in Reqs, PrepareInterrupt(w, r)
  PROVE  SessionInv'
<1>0. /\ SessionTypeOK /\ job[w].req = r /\ pc[w] = "prepare" /\ Goto(w, "call")
      /\ UNCHANGED <<kern, job, list, ctr, req_lock>>
      /\ func' = [func EXCEPT ![r] = TRUE] /\ frame' = [frame EXCEPT ![r] = "there"]
  BY DEF SessionInv, PrepareInterrupt, Step, kernelVars
<1>1. /\ pc'[w] = "call" /\ (\A u \in Workers : u # w => pc'[u] = pc[u]) /\ SessionTypeOK'
  BY <1>0, GotoIs DEF SessionTypeOK
<1>2. \A u \in Workers : JobOK(u) /\ PlacedOK(u)
  BY DEF SessionInv
<1>3. \A q : Chasers(q)' = Chasers(q)
  BY <1>0, <1>1 DEF Chasers, Chasing
<1>4. \A q \in Reqs : (frame[q] # "none" => frame'[q] # "none") /\ (func'[q] <=> func[q] \/ q = r) /\ frame'[r] # "none"
  <2>1. \A q \in Reqs : q # r => frame'[q] = frame[q] /\ func'[q] = func[q]
    BY <1>0 DEF SessionTypeOK
  <2>2. frame'[r] = "there" /\ func'[r]
    BY <1>0 DEF SessionTypeOK
  <2> QED
    BY <2>1, <2>2
<1>5. ASSUME NEW u \in Workers PROVE JobOK(u)'
  BY <1>0, <1>2 DEF JobOK
<1>6. PlacedOK(w)'
  BY <1>0, <1>1, <1>2 DEF PlacedOK, Serving, Chasing, Early
<1>7. ASSUME NEW u \in Workers \ {w} PROVE PlacedOK(u)'
  <2>1. job[u].op = "interrupt" => job[u].req \in Reqs
    BY <1>2 DEF JobOK
  <2> QED
    BY <1>0, <1>1, <1>2, <1>3, <1>4, <2>1, OthersPlaced
<1>8. ASSUME NEW q \in Reqs PROVE CountOK(q)' /\ RequestOK(q)'
  <2>0. CountOK(q) /\ RequestOK(q)
    BY DEF SessionInv
  <2>1. CountOK(q)'
    BY <1>0, <1>3, <2>0 DEF CountOK
  <2>2. RequestOK(q)'
    BY <1>0, <1>3, <1>4, <2>0 DEF RequestOK
  <2> QED
    BY <2>1, <2>2
<1> QED
  BY <1>1, <1>5, <1>6, <1>7, <1>8 DEF SessionInv

LEMMA UnhookOK ==
  ASSUME SessionInv, NEW w \in Workers, NEW r \in Reqs, Unhook(w, r)
  PROVE  SessionInv'
<1>0. /\ SessionTypeOK /\ job[w].req = r /\ pc[w] = "unhook" /\ Goto(w, "reply")
      /\ UNCHANGED <<kern, job, list, ctr, req_lock>> /\ req_lock[r] = Nobody
      /\ func' = [func EXCEPT ![r] = FALSE] /\ frame' = [frame EXCEPT ![r] = "none"]
  BY DEF SessionInv, Unhook, Step, kernelVars
<1>1. /\ pc'[w] = "reply" /\ (\A u \in Workers : u # w => pc'[u] = pc[u]) /\ SessionTypeOK'
  BY <1>0, GotoIs DEF SessionTypeOK
<1>2. \A u \in Workers : JobOK(u) /\ PlacedOK(u)
  BY DEF SessionInv
<1>3. \A q : Chasers(q)' = Chasers(q)
  BY <1>0, <1>1 DEF Chasers, Chasing
<1>4. (\A q \in Reqs : q # r => frame'[q] = frame[q] /\ func'[q] = func[q]) /\ ~func'[r]
  <2>1. \A q \in Reqs : q # r => frame'[q] = frame[q] /\ func'[q] = func[q]
    BY <1>0 DEF SessionTypeOK
  <2>2. ~func'[r]
    BY <1>0 DEF SessionTypeOK
  <2> QED
    BY <2>1, <2>2
<1>5. ASSUME NEW u \in Workers PROVE JobOK(u)'
  BY <1>0, <1>2 DEF JobOK
<1>6. PlacedOK(w)'
  BY <1>0, <1>1, <1>2 DEF PlacedOK, Serving, Chasing, Early
<1>7. ASSUME NEW u \in Workers \ {w} PROVE PlacedOK(u)'
  <2>1. job[u].op = "interrupt" => job[u].req \in Reqs
    BY <1>2 DEF JobOK
  <2>2. pc[u] = "interrupt" => job[u].req # r
    BY <1>0, <1>2, SessionAssumption DEF PlacedOK
  <2> QED
    BY <1>0, <1>1, <1>2, <1>3, <1>4, <2>1, <2>2, OthersPlaced
<1>8. ASSUME NEW q \in Reqs PROVE CountOK(q)' /\ RequestOK(q)'
  <2>0. CountOK(q) /\ RequestOK(q)
    BY DEF SessionInv
  <2>1. CountOK(q)'
    BY <1>0, <1>3, <2>0 DEF CountOK
  <2>2. RequestOK(q)'
    BY <1>0, <1>3, <1>4, <2>0 DEF RequestOK
  <2> QED
    BY <2>1, <2>2
<1> QED
  BY <1>1, <1>5, <1>6, <1>7, <1>8 DEF SessionInv

LEMMA FreeReqOK ==
  ASSUME SessionInv, NEW w \in Workers, NEW r \in Reqs, FreeReq(w, r)
  PROVE  SessionInv'
<1>0. /\ SessionTypeOK /\ job[w].req = r /\ pc[w] = "free" /\ Goto(w, "relock")
      /\ UNCHANGED <<kern, job, req_lock, frame>>
      /\ list' = list \ {r} /\ ctr' = [ctr EXCEPT ![r] = @ - 1] /\ func' = [func EXCEPT ![r] = FALSE]
  BY DEF SessionInv, FreeReq, Step, kernelVars
<1>1. /\ pc'[w] = "relock" /\ (\A u \in Workers : u # w => pc'[u] = pc[u]) /\ SessionTypeOK'
  <2>1. ctr' \in [Reqs -> Int] /\ func' \in [Reqs -> BOOLEAN]
    BY <1>0 DEF SessionTypeOK
  <2> QED
    BY <1>0, <2>1, GotoIs DEF SessionTypeOK
<1>2. \A u \in Workers : JobOK(u) /\ PlacedOK(u)
  BY DEF SessionInv
<1>3. \A q : Chasers(q)' = Chasers(q)
  BY <1>0, <1>1 DEF Chasers, Chasing
<1>4. job[w].op = "request" /\ r \in list
  BY <1>0, <1>2 DEF PlacedOK, Serving
<1>5. ASSUME NEW u \in Workers PROVE JobOK(u)'
  BY <1>0, <1>2 DEF JobOK
<1>6. PlacedOK(w)'
  BY <1>1 DEF PlacedOK, Serving, Chasing, Early
<1>7. ASSUME NEW u \in Workers \ {w} PROVE PlacedOK(u)'
  <2>1. job[u].op = "request" => job[u].req # r
    BY <1>0, <1>2, <1>4, MsgIs DEF JobOK
  <2> QED
    BY <1>0, <1>1, <1>2, <1>3, <2>1, OthersPlaced
<1>8. ASSUME NEW q \in Reqs PROVE CountOK(q)' /\ RequestOK(q)'
  <2>0. CountOK(q) /\ RequestOK(q)
    BY DEF SessionInv
  <2>1. CountOK(q)'
    <3>1. ctr'[q] = (IF q = r THEN ctr[q] - 1 ELSE ctr[q]) /\ ctr[q] \in Int
      BY <1>0 DEF SessionTypeOK
    <3> QED
      BY <1>0, <1>3, <1>4, <2>0, <3>1, ChasersFinite DEF CountOK
  <2>2. RequestOK(q)'
    <3>1. func'[q] => func[q]
      BY <1>0 DEF SessionTypeOK
    <3> QED
      BY <1>0, <1>3, <2>0, <3>1 DEF RequestOK
  <2> QED
    BY <2>1, <2>2
<1> QED
  BY <1>1, <1>5, <1>6, <1>7, <1>8 DEF SessionInv

LEMMA LockInterruptedOK ==
  ASSUME SessionInv, NEW w \in Workers, NEW r \in Reqs, LockInterrupted(w, r)
  PROVE  SessionInv'
<1>0. /\ SessionTypeOK /\ job[w].req = r /\ pc[w] = "req_lock" /\ req_lock[r] = Nobody
      /\ Goto(w, IF func[r] THEN "interrupt" ELSE "unref")
      /\ UNCHANGED <<kern, job, list, ctr, func, frame>> /\ req_lock' = [req_lock EXCEPT ![r] = w]
  BY DEF SessionInv, LockInterrupted, Step, kernelVars
<1>1. /\ pc'[w] = (IF func[r] THEN "interrupt" ELSE "unref") /\ (\A u \in Workers : u # w => pc'[u] = pc[u])
      /\ SessionTypeOK'
  BY <1>0, GotoIs DEF SessionTypeOK
<1>2. \A u \in Workers : JobOK(u) /\ PlacedOK(u)
  BY DEF SessionInv
<1>3. \A q : Chasers(q)' = Chasers(q)
  BY <1>0, <1>1 DEF Chasers, Chasing
<1>4. \A q \in Reqs : req_lock'[q] = IF q = r THEN w ELSE req_lock[q]
  BY <1>0 DEF SessionTypeOK
<1>5. ASSUME NEW u \in Workers PROVE JobOK(u)'
  BY <1>0, <1>2 DEF JobOK
<1>6. PlacedOK(w)'
  <2>1. job[w].op = "interrupt"
    BY <1>0, <1>2 DEF PlacedOK, Chasing
  <2>2. func[r] => frame[r] # "none"
    BY DEF SessionInv, RequestOK
  <2>3. pc'[w] = "interrupt" => frame'[r] # "none"
    BY <1>0, <1>1, <2>2
  <2>4. pc'[w] \in {"interrupt", "unref"}
    BY <1>1
  <2> QED
    BY <1>0, <1>4, <2>1, <2>3, <2>4 DEF PlacedOK, Serving, Chasing, Early
<1>7. ASSUME NEW u \in Workers \ {w} PROVE PlacedOK(u)'
  <2>1. job[u].op = "interrupt" => job[u].req \in Reqs
    BY <1>2 DEF JobOK
  <2>2. pc[u] \in {"interrupt", "unref"} => job[u].req # r
    BY <1>0, <1>2, SessionAssumption DEF PlacedOK
  <2> QED
    BY <1>0, <1>1, <1>2, <1>3, <1>4, <2>1, <2>2, OthersPlaced
<1>8. ASSUME NEW q \in Reqs PROVE CountOK(q)' /\ RequestOK(q)'
  BY <1>0, <1>3 DEF SessionInv, CountOK, RequestOK
<1> QED
  BY <1>1, <1>5, <1>6, <1>7, <1>8 DEF SessionInv

LEMMA UnrefOK ==
  ASSUME SessionInv, NEW w \in Workers, NEW r \in Reqs, Unref(w, r)
  PROVE  SessionInv'
<1>0. /\ SessionTypeOK /\ job[w].req = r /\ pc[w] = "unref" /\ Goto(w, "relock")
      /\ UNCHANGED <<kern, job, list, func, frame>>
      /\ req_lock' = [req_lock EXCEPT ![r] = Nobody] /\ ctr' = [ctr EXCEPT ![r] = @ - 1]
  BY DEF SessionInv, Unref, Step, kernelVars
<1>1. /\ pc'[w] = "relock" /\ (\A u \in Workers : u # w => pc'[u] = pc[u]) /\ SessionTypeOK'
  <2>1. ctr' \in [Reqs -> Int] /\ req_lock' \in [Reqs -> Workers \cup {Nobody}]
    BY <1>0 DEF SessionTypeOK
  <2> QED
    BY <1>0, <2>1, GotoIs DEF SessionTypeOK
<1>2. \A u \in Workers : JobOK(u) /\ PlacedOK(u)
  BY DEF SessionInv
<1>3. job[w] = Msg("interrupt", r) /\ req_lock[r] = w
  <2>1. job[w].op = "interrupt" /\ req_lock[r] = w
    BY <1>0, <1>2 DEF PlacedOK, Chasing
  <2> QED
    BY <1>0, <2>1, MsgIs
<1>4. /\ Chasers(r)' = Chasers(r) \ {w} /\ w \in Chasers(r)
      /\ \A q : q # r => Chasers(q)' = Chasers(q)
  <2>1. \A q : q # r => job[w] # Msg("interrupt", q)
    BY <1>3 DEF Msg
  <2> QED
    BY <1>0, <1>1, <1>3, <2>1 DEF Chasers, Chasing
<1>5. ASSUME NEW u \in Workers PROVE JobOK(u)'
  BY <1>0, <1>2 DEF JobOK
<1>6. PlacedOK(w)'
  BY <1>1 DEF PlacedOK, Serving, Chasing, Early
<1>7. ASSUME NEW u \in Workers \ {w} PROVE PlacedOK(u)'
  <2>1. job[u].op = "interrupt" => job[u].req \in Reqs
    BY <1>2 DEF JobOK
  <2>2. pc[u] \in {"interrupt", "unref"} => job[u].req # r
    BY <1>2, <1>3 DEF PlacedOK
  <2>3. \A q \in Reqs : q # r => req_lock'[q] = req_lock[q]
    BY <1>0 DEF SessionTypeOK
  <2>4. Chasers(job[u].req) = {} => Chasers(job[u].req)' = {}
    BY <1>0, <1>1 DEF Chasers, Chasing
  <2> QED
    BY <1>0, <1>1, <1>2, <2>1, <2>2, <2>3, <2>4, OthersPlaced
<1>8. ASSUME NEW q \in Reqs PROVE CountOK(q)' /\ RequestOK(q)'
  <2>0. CountOK(q) /\ RequestOK(q)
    BY DEF SessionInv
  <2>1. CASE q = r
    <3> DEFINE chasers == Chasers(r)
    <3>1. IsFiniteSet(chasers) /\ w \in chasers /\ Cardinality(chasers) \in Nat
      BY <1>4, ChasersFinite
    <3> HIDE DEF chasers
    <3>2. Cardinality(chasers \ {w}) = Cardinality(chasers) - 1
      BY <3>1, FS_RemoveElement
    <3>3. Cardinality(Chasers(q)') = Cardinality(Chasers(q)) - 1
      BY <1>4, <2>1, <3>2 DEF chasers
    <3>4. ctr'[q] = ctr[q] - 1 /\ ctr[q] \in Int
      BY <1>0, <2>1 DEF SessionTypeOK
    <3>5. CountOK(q)'
      BY <1>0, <2>0, <3>3, <3>4, ChasersFinite DEF CountOK
    <3>6. Chasers(q) = {} => Chasers(q)' = {}
      BY <1>4, <2>1
    <3> QED
      BY <1>0, <2>0, <3>5, <3>6 DEF RequestOK
  <2>2. CASE q # r
    <3>1. ctr'[q] = ctr[q]
      BY <1>0, <2>2 DEF SessionTypeOK
    <3> QED
      BY <1>0, <1>4, <2>0, <2>2, <3>1 DEF CountOK, RequestOK
  <2> QED
    BY <2>1, <2>2
<1> QED
  BY <1>1, <1>5, <1>6, <1>7, <1>8 DEF SessionInv
-----------------------------------------------------------------------------
\* Where a thread may go without a look at the others.
MayTurn(from, to) ==
  \/ to \notin Early \cup Serving \cup Chasing
  \/ from \in Early /\ to \in Early
  \/ from \in Serving /\ to \in Serving
  \/ from = "interrupt" /\ to = "unref"

LEMMA TurnOK ==
  ASSUME SessionInv, UNCHANGED <<job, list, ctr, func, req_lock>>,
         UNCHANGED frame \/ \E ended \in SUBSET Reqs : frame' = [r \in Reqs |-> IF r \in ended THEN "ended" ELSE frame[r]],
         kern' \in [Reqs -> {"new", "queued", "read", "done"}],
         \A r \in Reqs : kern'[r] \in {"new", "queued"} => kern[r] \in {"new", "queued"},
         \/ UNCHANGED pc
         \/ \E t : \E to : Goto(t, to) /\ MayTurn(pc[t], to)
  PROVE  SessionInv'
<1>0. SessionTypeOK
  BY DEF SessionInv
<1>f. /\ frame' \in [Reqs -> {"none", "there", "ended"}]
      /\ \A r \in Reqs : frame[r] # "none" => frame'[r] # "none"
  BY <1>0 DEF SessionTypeOK
<1>1. CASE UNCHANGED pc
  BY <1>0, <1>f, <1>1, PoolOK DEF SessionTypeOK
<1>2. ASSUME NEW t, NEW to, Goto(t, to), MayTurn(pc[t], to) PROVE SessionInv'
  <2>1. /\ DOMAIN pc' = Workers \cup {Main} /\ pc' = [u \in Workers \cup {Main} |-> pc'[u]]
        /\ \A u \in Workers : pc'[u] = pc[u] \/ MayTurn(pc[u], pc'[u])
    BY <1>0, <1>2 DEF SessionTypeOK, Goto
  <2>2. ASSUME NEW w \in Workers
        PROVE  /\ pc'[w] \in Serving => pc[w] \in Serving
               /\ pc'[w] \in Chasing => pc[w] \in Chasing
               /\ pc'[w] \in Early => pc[w] \in Early
               /\ pc'[w] \in {"interrupt", "unref"} => pc[w] \in {"interrupt", "unref"}
               /\ pc'[w] = "interrupt" => pc[w] = "interrupt"
    <3>1. CASE pc'[w] = pc[w]
      BY <3>1
    <3>2. CASE MayTurn(pc[w], pc'[w])
      BY <3>2 DEF MayTurn, Serving, Chasing, Early
    <3> QED
      BY <2>1, <3>1, <3>2
  <2> QED
    BY <1>0, <1>f, <2>1, <2>2, PoolOK DEF SessionTypeOK
<1> QED
  BY <1>1, <1>2

\* The pool, and the rest of what a worker does.
LEMMA InPoolOK ==
  ASSUME SessionInv, NEW w \in Workers, InPool(w)
  PROVE  SessionInv'
<1>0. SessionTypeOK
  BY DEF SessionInv
<1> USE DEF Step, kernelVars, reqVars, Leave, TestExited, MayTurn, Early, Serving, Chasing
<1>1. CASE InstallHandler(w)
  BY <1>0, <1>1, TurnOK DEF InstallHandler, SessionTypeOK
<1>2. CASE ReadUnmounted(w)
  BY <1>0, <1>2, TurnOK DEF ReadUnmounted, SessionTypeOK
<1>3. CASE MtLock(w)
  BY <1>0, <1>3, TurnOK DEF MtLock, SessionTypeOK
<1>4. CASE CreateFails(w)
  BY <1>0, <1>4, TurnOK DEF CreateFails, SessionTypeOK
<1>5. CASE EnlistWorker(w)
  BY <1>0, <1>5, TurnOK DEF EnlistWorker, SessionTypeOK
<1>6. CASE CreateWorker(w)
  <2>1. /\ DOMAIN pc' = Workers \cup {Main} /\ pc' = [t \in Workers \cup {Main} |-> pc'[t]]
        /\ \A u \in Workers : pc'[u] = pc[u] \/ pc'[u] = "start" \/ (pc[u] = "create" /\ pc'[u] = "enlist")
        /\ UNCHANGED <<kern, job, list, ctr, func, frame, req_lock>>
    BY <1>0, <1>6 DEF CreateWorker, SessionTypeOK
  <2> QED
    BY <1>0, <2>1, PoolOK DEF SessionTypeOK
<1>7. CASE Relock(w)
  <2>1. \E to \in {"pause", "read", "returned", "unborn"} : Goto(w, to)
    BY <1>7 DEF Relock
  <2>2. /\ job' = [job EXCEPT ![w] = NoJob] /\ pc[w] = "relock"
        /\ UNCHANGED <<kern, list, ctr, func, frame, req_lock>>
    BY <1>7 DEF Relock
  <2>3. /\ DOMAIN pc' = Workers \cup {Main} /\ pc' = [t \in Workers \cup {Main} |-> pc'[t]]
        /\ pc'[w] \in {"pause", "read", "returned", "unborn"}
        /\ \A u \in Workers : u # w => pc'[u] = pc[u]
    BY <1>0, <2>1, GotoIs
  <2>4. /\ job' \in [Workers -> [op : {"none", "request", "interrupt"}, req : Reqs \cup {NoJob.req}]]
        /\ job'[w].op = "none" /\ \A u \in Workers : u # w => job'[u] = job[u]
    BY <1>0, <2>2, NoJobIs DEF SessionTypeOK
  <2> QED
    BY <1>0, <2>2, <2>3, <2>4, PoolOK DEF SessionTypeOK
<1> QED
  BY <1>1, <1>2, <1>3, <1>4, <1>5, <1>6, <1>7, ReadMessageOK DEF InPool

\* A thread that ends, and frames with it.
LEMMA EndIs ==
  ASSUME NEW t, End(t)
  PROVE  /\ Goto(t, "dead")
         /\ \E ended \in SUBSET Reqs : frame' = [q \in Reqs |-> IF q \in ended THEN "ended" ELSE frame[q]]
<1> DEFINE parting == {r \in Reqs : frame[r] = "there" /\ t \in Handling(r)}
<1>1. parting \in SUBSET Reqs /\ frame' = [q \in Reqs |-> IF q \in parting THEN "ended" ELSE frame[q]]
  BY DEF End
<1> QED
  BY <1>1 DEF End

LEMMA WorkerStepOK ==
  ASSUME SessionInv, NEW w \in Workers, WorkerStep(w)
  PROVE  SessionInv'
<1>0. SessionTypeOK
  BY DEF SessionInv
<1> USE DEF Step, kernelVars, MayTurn, Early, Serving, Chasing
<1>1. CASE CallReturned(w)
  BY <1>0, <1>1, TurnOK DEF CallReturned, AfterCall, SessionTypeOK, reqVars
<1>2. ASSUME NEW r \in Reqs, FinishInterrupt(w, r) PROVE SessionInv'
  BY <1>0, <1>2, TurnOK DEF FinishInterrupt, SessionTypeOK
<1>3. ASSUME NEW r \in Reqs, SendReply(w, r) PROVE SessionInv'
  <2>1. /\ kern' \in [Reqs -> {"new", "queued", "read", "done"}]
        /\ \A q \in Reqs : kern'[q] \in {"new", "queued"} => kern[q] \in {"new", "queued"}
    BY <1>0, <1>3 DEF SendReply, SessionTypeOK
  <2> QED
    BY <1>3, <2>1, TurnOK DEF SendReply, reqVars
<1>4. ASSUME NEW r \in Reqs, Interrupt(w, r) PROVE SessionInv'
  <2> DEFINE Turns == \E t : \E to : Goto(t, to) /\ MayTurn(pc[t], to)
             SomeEnd == \E ended \in SUBSET Reqs : frame' = [q \in Reqs |-> IF q \in ended THEN "ended" ELSE frame[q]]
  <2>1. ASSUME NEW t, End(t) PROVE Turns /\ SomeEnd
    BY <2>1, EndIs
  <2>2. Turns /\ (UNCHANGED frame \/ SomeEnd)
    <3>1. CASE finished[r]
      BY <1>4, <3>1 DEF Interrupt
    <3>2. CASE ~finished[r]
      <4>1. PICK t \in Handling(r) :
              \/ End(t)
              \/ pc[t] = "call" /\ Goto(t, "finish") /\ UNCHANGED frame
        BY <1>4, <3>2 DEF Interrupt
      <4>2. CASE End(t)
        BY <2>1, <4>2
      <4>3. CASE pc[t] = "call" /\ Goto(t, "finish") /\ UNCHANGED frame
        BY <4>3
      <4> QED
        BY <4>1, <4>2, <4>3
    <3> QED
      BY <3>1, <3>2
  <2> QED
    BY <1>0, <1>4, <2>2, TurnOK DEF Interrupt, SessionTypeOK
<1> QED
  BY <1>1, <1>2, <1>3, <1>4, InPoolOK, ProcessInterruptOK, ProcessRequestOK, PrepareInterruptOK, UnhookOK,
     FreeReqOK, LockInterruptedOK, UnrefOK DEF WorkerStep, OnRequest

LEMMA SessionStepOK ==
  ASSUME SessionInv, [SessionNext]_sessionVars PROVE SessionInv'
<1>0. SessionTypeOK
  BY DEF SessionInv
<1> USE DEF Step, kernelVars, reqVars, MayTurn, Early, Serving, Chasing
<1>1. ASSUME NEW r \in Reqs, Arrives(r) \/ CallerInterrupts(r) PROVE SessionInv'
  <2>1. /\ kern' \in [Reqs -> {"new", "queued", "read", "done"}]
        /\ \A q \in Reqs : kern'[q] \in {"new", "queued"} => kern[q] \in {"new", "queued"}
    BY <1>0, <1>1 DEF Arrives, CallerInterrupts, SessionTypeOK
  <2> QED
    BY <1>1, <2>1, TurnOK DEF Arrives, CallerInterrupts
<1>2. CASE Unmount
  <2>1. /\ kern' \in [Reqs -> {"new", "queued", "read", "done"}]
        /\ \A q \in Reqs : kern'[q] \in {"new", "queued"} => kern[q] \in {"new", "queued"}
    BY <1>2 DEF Unmount
  <2> QED
    BY <1>2, <2>1, TurnOK DEF Unmount
<1>3. CASE ExitSignal \/ MainStep \/ UNCHANGED sessionVars
  <2>1. UNCHANGED <<kern, job, list, ctr, func, req_lock>>
    BY <1>3 DEF ExitSignal, MainStep, MainTests, MainWakes, Kill, SetExit, JoinWorker, LoopReturns, sessionVars
  <2>2. UNCHANGED pc \/ \E t : \E to : Goto(t, to) /\ to \notin Early \cup Serving \cup Chasing
    <3>1. CASE ExitSignal \/ MainTests \/ MainWakes \/ SetExit \/ LoopReturns
      BY <3>1 DEF ExitSignal, MainTests, MainWakes, SetExit, LoopReturns
    <3>2. CASE Kill
      BY <3>2 DEF Kill, End
    <3>3. CASE JoinWorker
      BY <3>3 DEF JoinWorker
    <3> QED
      BY <1>3, <3>1, <3>2, <3>3 DEF MainStep, sessionVars
  <2>3. UNCHANGED pc \/ \E t : \E to : Goto(t, to) /\ MayTurn(pc[t], to)
    BY <2>2
  <2>4. UNCHANGED frame \/ \E ended \in SUBSET Reqs : frame' = [q \in Reqs |-> IF q \in ended THEN "ended" ELSE frame[q]]
    <3>1. CASE Kill
      BY <3>1, EndIs DEF Kill
    <3> QED
      BY <1>3, <3>1 DEF ExitSignal, MainStep, MainTests, MainWakes, SetExit, JoinWorker, LoopReturns, sessionVars
  <2> QED
    BY <1>0, <2>1, <2>3, <2>4, TurnOK DEF SessionTypeOK
<1> QED
  BY <1>1, <1>2, <1>3, WorkerStepOK DEF SessionNext

LEMMA SessionInitOK ==
  ASSUME SessionInit PROVE SessionInv
<1>1. \A w \in Workers : pc[w] \in {"test", "start", "unborn"} /\ job[w] = NoJob /\ job[w].op = "none"
  BY NoJobIs DEF SessionInit
<1>2. \A r : Chasers(r) = {}
  BY <1>1 DEF Chasers, Chasing
<1>3. SessionTypeOK
  <2>1. job \in [Workers -> [op : {"none", "request", "interrupt"}, req : Reqs \cup {NoJob.req}]]
    BY NoJobIs DEF SessionInit
  <2>2. DOMAIN pc = Workers \cup {Main} /\ pc = [t \in Workers \cup {Main} |-> pc[t]]
    BY DEF SessionInit
  <2> QED
    BY <2>1, <2>2 DEF SessionInit, SessionTypeOK
<1>4. \A w \in Workers : JobOK(w) /\ PlacedOK(w)
  BY <1>1 DEF JobOK, PlacedOK, Early, Serving, Chasing
<1>5. \A r \in Reqs : CountOK(r) /\ RequestOK(r)
  <2> TAKE r \in Reqs
  <2>1. Cardinality(Chasers(r)) = 0
    BY <1>2, FS_EmptySet
  <2>2. ctr[r] = 0 /\ r \notin list /\ ~func[r]
    BY DEF SessionInit
  <2>3. CountOK(r)
    BY <2>1, <2>2 DEF CountOK
  <2>4. \A w \in Workers : job[w] # Msg("request", r)
    BY <1>1 DEF Msg
  <2>5. RequestOK(r)
    BY <1>2, <2>2, <2>4 DEF RequestOK
  <2> QED
    BY <2>3, <2>5
<1> QED
  BY <1>3, <1>4, <1>5 DEF SessionInv

\* The list of requests, the counts and the locks of the session fit where its
\* workers are (fuse_lowlevel.c, fuse.c, fuse_loop_mt.c).
THEOREM SessionInvariance == SessionSteps => []SessionInv
<1>1. SessionInit => SessionInv
  BY SessionInitOK
<1>2. SessionInv /\ [SessionNext]_sessionVars => SessionInv'
  BY SessionStepOK
<1> QED
  BY <1>1, <1>2, PTL DEF SessionSteps

\* SIGUSR1 ends a thread only at the end of the loop, or when -o intr sends it.
EndedInv ==
  /\ pc[Main] = "kill" => exited
  /\ pc[Main] = "join" => exit
  /\ \A r \in Reqs : frame[r] = "ended" => session.intr = "usr1" \/ Over

\* The steps in which nobody ends, and the main thread does not begin to kill.
LEMMA NobodyEnds ==
  ASSUME SessionTypeOK, EndedInv, UNCHANGED session,
         exited => exited', exit => exit',
         pc'[Main] \in {"kill", "join"} => pc'[Main] = pc[Main],
         \A r \in Reqs : frame'[r] = "ended" => frame[r] = "ended"
  PROVE  EndedInv'
BY DEF EndedInv, Over

LEMMA WorkerEndsOK ==
  ASSUME SessionTypeOK, EndedInv, NEW w \in Workers, WorkerStep(w)
  PROVE  EndedInv'
<1>0. Main \notin Workers
  BY SessionAssumption DEF Main
<1>1. UNCHANGED session /\ (exited => exited') /\ UNCHANGED exit
  BY DEF WorkerStep, InPool, OnRequest, kernelVars, mtVars, InstallHandler, ReadUnmounted, ReadMessage, MtLock,
         CreateWorker, CreateFails, EnlistWorker, Relock, CallReturned, ProcessInterrupt, ProcessRequest,
         PrepareInterrupt, FinishInterrupt, Unhook, SendReply, FreeReq, LockInterrupted, Interrupt, Unref
<1>2. pc'[Main] \in {"kill", "join"} => pc'[Main] = pc[Main]
  <2>1. ASSUME NEW t \in Workers, NEW to, Goto(t, to) PROVE pc'[Main] = pc[Main]
    BY <1>0, <2>1 DEF Goto, SessionTypeOK
  <2>2. CASE InPool(w) \/ CallReturned(w)
    <3>1. CASE CreateWorker(w)
      BY <1>0, <3>1 DEF CreateWorker, SessionTypeOK
    <3> QED
      BY <2>1, <2>2, <3>1 DEF InPool, InstallHandler, ReadUnmounted, ReadMessage, MtLock, CreateFails, EnlistWorker,
         Relock, CallReturned, Step, Leave, TestExited
  <2>3. ASSUME NEW r \in Reqs, Interrupt(w, r) PROVE pc'[Main] = pc[Main]
    BY <2>1, <2>3 DEF Interrupt, End, Handling
  <2>4. ASSUME NEW r \in Reqs, OnRequest(w, r), ~Interrupt(w, r) PROVE pc'[Main] = pc[Main]
    BY <2>1, <2>4 DEF OnRequest, ProcessInterrupt, ProcessRequest, PrepareInterrupt, FinishInterrupt, Unhook,
       SendReply, FreeReq, LockInterrupted, Unref, Step
  <2> QED
    BY <2>2, <2>3, <2>4 DEF WorkerStep
<1>3. CASE \E r \in Reqs : Interrupt(w, r)
  <2>1. \/ UNCHANGED frame
        \/ session.intr = "usr1"
    BY <1>3 DEF Interrupt
  <2> QED
    BY <1>1, <1>2, <2>1 DEF EndedInv, Over
<1>4. CASE ~ \E r \in Reqs : Interrupt(w, r)
  <2> DEFINE Sets == \E r \in Reqs : \E there \in {"none", "there"} : frame' = [frame EXCEPT ![r] = there]
  <2>1. UNCHANGED frame \/ Sets
    <3>1. ASSUME NEW r \in Reqs, PrepareInterrupt(w, r) PROVE Sets
      BY <3>1 DEF PrepareInterrupt
    <3>2. ASSUME NEW r \in Reqs, Unhook(w, r) PROVE Sets
      BY <3>2 DEF Unhook
    <3>3. ASSUME InPool(w) \/ CallReturned(w) PROVE UNCHANGED frame
      BY <3>3 DEF InPool, InstallHandler, ReadUnmounted, ReadMessage, MtLock, CreateWorker, CreateFails,
         EnlistWorker, Relock, CallReturned, reqVars
    <3>4. ASSUME NEW r \in Reqs,
                 \/ ProcessInterrupt(w, r) \/ ProcessRequest(w, r) \/ FinishInterrupt(w, r)
                 \/ SendReply(w, r) \/ FreeReq(w, r) \/ LockInterrupted(w, r) \/ Unref(w, r)
          PROVE  UNCHANGED frame
      BY <3>4 DEF ProcessInterrupt, ProcessRequest, FinishInterrupt, SendReply, FreeReq, LockInterrupted, Unref, reqVars
    <3> HIDE DEF Sets
    <3> QED
      BY <1>4, <3>1, <3>2, <3>3, <3>4 DEF WorkerStep, OnRequest
  <2>2. \A r \in Reqs : frame'[r] = "ended" => frame[r] = "ended"
    BY <2>1 DEF SessionTypeOK
  <2> QED
    BY <1>1, <1>2, <2>2, NobodyEnds
<1> QED
  BY <1>3, <1>4

LEMMA EndedStepOK ==
  ASSUME SessionTypeOK, EndedInv, [SessionNext]_sessionVars
  PROVE  EndedInv'
<1> USE DEF Step, kernelVars, reqVars, mtVars
<1>1. CASE (\E r \in Reqs : Arrives(r) \/ CallerInterrupts(r)) \/ Unmount \/ UNCHANGED sessionVars
  BY <1>1, NobodyEnds DEF Arrives, CallerInterrupts, Unmount, sessionVars
<1>2. CASE ExitSignal
  BY <1>2, NobodyEnds DEF ExitSignal, Goto, SessionTypeOK
<1>3. CASE MainTests
  BY <1>3 DEF MainTests, Goto, SessionTypeOK, EndedInv, Over
<1>4. CASE MainWakes
  BY <1>4, NobodyEnds DEF MainWakes, Goto, SessionTypeOK
<1>5. CASE Kill
  <2>1. exited /\ UNCHANGED <<session, exited, exit>>
    BY <1>5 DEF Kill, EndedInv
  <2>2. pc'[Main] \in {"kill", "join"} => pc'[Main] = pc[Main]
    BY <1>5 DEF Kill, End, Goto, SessionTypeOK
  <2> QED
    BY <2>1, <2>2 DEF EndedInv, Over
<1>6. CASE SetExit
  BY <1>6 DEF SetExit, Goto, SessionTypeOK, EndedInv, Over
<1>7. CASE JoinWorker
  BY <1>7, NobodyEnds DEF JoinWorker, Goto, SessionTypeOK
<1>8. CASE LoopReturns
  BY <1>8 DEF LoopReturns, Goto, SessionTypeOK, EndedInv, Over
<1> QED
  BY <1>1, <1>2, <1>3, <1>4, <1>5, <1>6, <1>7, <1>8, WorkerEndsOK DEF SessionNext, MainStep

\* Who interrupts a request finds the request, and the handler's frame or what
\* a SIGUSR1 left of it: sent as the signal of -o intr, or at the end of the
\* loop; though the handler goes on and ends meanwhile (fuse.c:911,
\* fuse_lowlevel.c:1020-1026, fuse_loop_mt.c:73-76).
THEOREM NothingDangles == SessionSteps => []NoDangling
<1>1. ASSUME SessionInv, EndedInv PROVE NoDangling
  <2>1. ASSUME NEW w \in Workers, pc[w] \in Chasing
        PROVE  /\ ctr[job[w].req] > 0
               /\ pc[w] = "interrupt" =>
                    \/ frame[job[w].req] = "there"
                    \/ frame[job[w].req] = "ended" /\ (session.intr = "usr1" \/ Over)
    <3> DEFINE r == job[w].req
    <3>1. SessionTypeOK /\ JobOK(w) /\ PlacedOK(w)
      BY <1>1 DEF SessionInv
    <3>2. r \in Reqs /\ job[w] = Msg("interrupt", r)
      BY <2>1, <3>1, MsgIs DEF JobOK, PlacedOK
    <3>3. w \in Chasers(r)
      BY <2>1, <3>2 DEF Chasers
    <3>4. Cardinality(Chasers(r)) # 0
      BY <3>3, ChasersFinite, FS_EmptySet
    <3>5. CountOK(r) /\ ctr[r] \in Int
      BY <1>1, <3>1, <3>2 DEF SessionInv, SessionTypeOK
    <3>6. ctr[r] > 0
      BY <3>4, <3>5, ChasersFinite DEF CountOK
    <3>7. frame[r] \in {"none", "there", "ended"} /\ (pc[w] = "interrupt" => frame[r] # "none")
      BY <3>1, <3>2 DEF SessionTypeOK, PlacedOK
    <3>8. frame[r] = "ended" => session.intr = "usr1" \/ Over
      BY <1>1, <3>2 DEF EndedInv
    <3> QED
      BY <3>6, <3>7, <3>8
  <2> QED
    BY <2>1 DEF NoDangling, Chasing
<1>2. SessionInit => EndedInv
  <2>1. ASSUME SessionInit PROVE pc[Main] = "test" /\ \A r \in Reqs : frame[r] = "none"
    BY <2>1 DEF SessionInit
  <2> QED
    BY <2>1 DEF EndedInv
<1>3. SessionInv /\ EndedInv /\ [SessionNext]_sessionVars => EndedInv'
  BY EndedStepOK DEF SessionInv
<1> QED
  BY <1>1, <1>2, <1>3, SessionInvariance, PTL DEF SessionSteps
-----------------------------------------------------------------------------
(***************************************************************************)
(* FuseMount: what is mounted fits where the programs are.                 *)
(***************************************************************************)

Stages == {"start", "check", "mount", "mtab", "undo", "fork", "receive", "channel", "run", "unmount",
           "umount", "wait", "over", "left", "killed"}
MountTypeOK ==
  /\ mounts \in Seq(Programs) /\ stage \in [Programs -> Stages]
  /\ fd \in [Programs -> {"none", "open", "closed"}]
  /\ helper \in [Programs -> {"none", "check", "mount", "send", "sent", "exited", "umount"}]

\* What explains the loss of a mount, and a mount left behind.
Losing == {"stacked", "late", "freed", "help"}
Leaving == {"stacked", "orphan"}
Explained(reasons) == excuse \cap reasons # {}

\* Without a mount that covers another there is at most one.
SingleOK == Explained({"stacked"}) \/ Len(mounts) <= 1

\* fusermount runs only while its program waits for it.
HelperOK(p) ==
  /\ stage[p] = "receive" => helper[p] \in {"check", "mount", "send", "sent", "exited"}
  /\ stage[p] \notin {"receive", "wait"} => helper[p] = "none"
  /\ stage[p] = "wait" => helper[p] = "umount"

\* The descriptor a program polls was once open, unless it wanted its help.
DescriptorOK(p) ==
  /\ stage[p] \in {"mtab", "channel", "run"} => fd[p] = "open"
  /\ stage[p] = "unmount" => fd[p] # "none" \/ Explained({"help"})

\* What a program may still have mounted.
PlaceOK(p) ==
  Mounted(p) =>
    \/ stage[p] \in {"mtab", "undo", "channel", "run", "unmount", "umount", "wait", "left", "killed"}
    \/ stage[p] = "receive" /\ helper[p] \in {"send", "sent"}
    \/ Explained(Leaving)

\* A program about to unmount has something mounted.
DueOK(p) == stage[p] \in {"umount", "wait"} => Mounted(p) \/ Explained(Losing)

MountInv ==
  /\ MountTypeOK /\ SingleOK
  /\ \A p \in Programs : HelperOK(p) /\ DescriptorOK(p) /\ PlaceOK(p) /\ DueOK(p)
  /\ lost # {} => Explained(Losing)
-----------------------------------------------------------------------------
LEMMA MountedIs ==
  ASSUME NEW q, mounts \in Seq(Programs)
  PROVE  Mounted(q) <=> \E i \in 1 .. Len(mounts) : mounts[i] = q
BY DEF Mounted, ToSet

LEMMA MountedIsNext ==
  ASSUME NEW q, mounts' \in Seq(Programs)
  PROVE  Mounted(q)' <=> \E i \in 1 .. Len(mounts') : mounts'[i] = q
BY DEF Mounted, ToSet

LEMMA PushIs ==
  ASSUME MountInv, NEW p \in Programs, Push(p)
  PROVE  /\ mounts' \in Seq(Programs) /\ excuse \subseteq excuse' /\ Mounted(p)' /\ SingleOK'
         /\ \A q \in Programs : q # p => (Mounted(q)' <=> Mounted(q))
<1>1. /\ mounts \in Seq(Programs) /\ mounts' = Append(mounts, p) /\ excuse \subseteq excuse'
      /\ mounts # << >> => "stacked" \in excuse'
  BY DEF MountInv, MountTypeOK, Push, Because
<1>2. /\ mounts' \in Seq(Programs) /\ Len(mounts') = Len(mounts) + 1
      /\ mounts'[Len(mounts) + 1] = p /\ \A i \in 1 .. Len(mounts) : mounts'[i] = mounts[i]
  BY <1>1, AppendProperties
<1>3. Mounted(p)'
  <2>1. Len(mounts) + 1 \in 1 .. Len(mounts')
    BY <1>1, <1>2
  <2> QED
    BY <1>2, <2>1, MountedIsNext
<1>4. ASSUME NEW q \in Programs, q # p PROVE Mounted(q)' <=> Mounted(q)
  <2>1. \A i \in 1 .. Len(mounts') : i \in 1 .. Len(mounts) \/ i = Len(mounts) + 1
    BY <1>1, <1>2
  <2>2. \A i \in 1 .. Len(mounts) : i \in 1 .. Len(mounts')
    BY <1>1, <1>2
  <2> QED
    BY <1>1, <1>2, <1>4, <2>1, <2>2, MountedIs, MountedIsNext
<1>5. SingleOK'
  <2>1. CASE mounts = << >>
    BY <1>2, <2>1, EmptySeq DEF SingleOK
  <2>2. CASE mounts # << >>
    BY <1>1, <2>2 DEF SingleOK, Explained
  <2> QED
    BY <2>1, <2>2
<1> QED
  BY <1>1, <1>2, <1>3, <1>4, <1>5

\* The topmost mount goes; where there is one mount at most, none is left.
LEMMA FrontIs ==
  ASSUME mounts \in Seq(Programs), mounts # << >>, mounts' = Front(mounts)
  PROVE  /\ mounts' \in Seq(Programs) /\ Len(mounts') <= Len(mounts)
         /\ \A q \in Programs : Mounted(q)' => Mounted(q)
         /\ Last(mounts) \in Programs /\ Mounted(Last(mounts))
         /\ Len(mounts) <= 1 =>
              \A q \in Programs : ~Mounted(q)' /\ (Mounted(q) => q = Last(mounts))
<1>1. Len(mounts) \in Nat /\ Len(mounts) > 0 /\ \A i \in 1 .. Len(mounts) : mounts[i] \in Programs
  BY EmptySeq, SeqDef
<1>2. /\ mounts' \in Seq(Programs) /\ Len(mounts') = Len(mounts) - 1
      /\ \A i \in 1 .. Len(mounts) - 1 : mounts'[i] = mounts[i]
  <2> DEFINE n == Len(mounts) - 1
  <2>1. n \in Int /\ 1 \in Int /\ 0 <= n /\ \A i \in 1 .. n : mounts[i] \in Programs
    BY <1>1
  <2>2. mounts' = SubSeq(mounts, 1, n)
    BY DEF Front
  <2> HIDE DEF n
  <2>3. /\ SubSeq(mounts, 1, n) \in Seq(Programs)
        /\ Len(SubSeq(mounts, 1, n)) = IF 1 <= n THEN n - 1 + 1 ELSE 0
        /\ \A i \in 1 .. n - 1 + 1 : SubSeq(mounts, 1, n)[i] = mounts[1 + i - 1]
    BY <2>1, SubSeqProperties
  <2>4. /\ mounts' \in Seq(Programs) /\ Len(mounts') = n
        /\ \A i \in 1 .. n : mounts'[i] = mounts[i]
    BY <2>1, <2>2, <2>3
  <2> QED
    BY <2>4 DEF n
<1>3. Last(mounts) = mounts[Len(mounts)] /\ Len(mounts) \in 1 .. Len(mounts)
  BY <1>1 DEF Last
<1>4. \A q \in Programs : Mounted(q)' => Mounted(q)
  <2>1. \A i \in 1 .. Len(mounts) - 1 : i \in 1 .. Len(mounts)
    BY <1>1
  <2> QED
    BY <1>2, <2>1, MountedIs, MountedIsNext
<1>5. Len(mounts) <= 1 => \A q \in Programs : ~Mounted(q)' /\ (Mounted(q) => q = Last(mounts))
  <2>1. Len(mounts) <= 1 => 1 .. Len(mounts') = {} /\ 1 .. Len(mounts) = {Len(mounts)}
    BY <1>1, <1>2
  <2> QED
    BY <1>2, <1>3, <2>1, MountedIs, MountedIsNext
<1> QED
  BY <1>1, <1>2, <1>3, <1>4, <1>5, MountedIs

\* A step of one program, or of the administrator, as far as the others see it.
LEMMA StepOK ==
  ASSUME MountInv, NEW p \in Programs, MountTypeOK', SingleOK', excuse \subseteq excuse',
         lost' # {} => Explained(Losing)',
         \A q \in Programs \ {p} :
           /\ stage'[q] = stage[q] /\ fd'[q] = fd[q] /\ helper'[q] = helper[q]
           /\ Mounted(q)' => Mounted(q)
           /\ stage[q] \in {"umount", "wait"} /\ Mounted(q) => Mounted(q)' \/ Explained(Losing)',
         HelperOK(p)', DescriptorOK(p)', PlaceOK(p)', DueOK(p)'
  PROVE  MountInv'
<1>1. \A reasons : Explained(reasons) => Explained(reasons)'
  BY DEF Explained
<1>2. Explained({"help"})' \in BOOLEAN
  BY DEF Explained
<1>3. ASSUME NEW q \in Programs \ {p}
      PROVE  HelperOK(q)' /\ DescriptorOK(q)' /\ PlaceOK(q)' /\ DueOK(q)'
  <2>0. HelperOK(q) /\ DescriptorOK(q) /\ PlaceOK(q) /\ DueOK(q)
    BY DEF MountInv
  <2>1. HelperOK(q)'
    BY <2>0 DEF HelperOK
  <2>2. DescriptorOK(q)'
    BY <2>0, <1>1 DEF DescriptorOK, Explained
  <2>3. PlaceOK(q)'
    BY <2>0, <1>1 DEF PlaceOK, Explained, Leaving
  <2>4. DueOK(q)'
    BY <2>0, <1>1 DEF DueOK, Explained, Losing
  <2> QED
    BY <2>1, <2>2, <2>3, <2>4
<1> QED
  BY <1>3 DEF MountInv

\* A step that mounts and unmounts nothing.
LEMMA QuietOK ==
  ASSUME MountInv, NEW p \in Programs, MountTypeOK', UNCHANGED <<mounts, lost>>, excuse \subseteq excuse',
         \A q \in Programs \ {p} : stage'[q] = stage[q] /\ fd'[q] = fd[q] /\ helper'[q] = helper[q],
         HelperOK(p)', DescriptorOK(p)', PlaceOK(p)', DueOK(p)'
  PROVE  MountInv'
<1>1. SingleOK'
  BY DEF MountInv, SingleOK, Explained
<1>2. lost' # {} => Explained(Losing)'
  BY DEF MountInv, Explained
<1>3. \A q : Mounted(q)' <=> Mounted(q)
  BY DEF Mounted
<1> QED
  BY <1>1, <1>2, <1>3, StepOK

LEMMA QuietSteps ==
  ASSUME MountInv, NEW p \in Programs,
         \/ Parse(p) \/ AskHelp(p) \/ CheckEmpty(p) \/ AddMtab(p) \/ Fork(p) \/ HelperChecks(p)
         \/ HelperSends(p) \/ Receive(p) \/ SetUp(p) \/ ChannelFreed(p) \/ Ends(p) \/ Poll(p)
  PROVE  MountInv'
<1>0. /\ MountTypeOK /\ HelperOK(p) /\ DescriptorOK(p) /\ PlaceOK(p) /\ DueOK(p)
      /\ UNCHANGED <<mounts, lost>> /\ excuse \subseteq excuse'
  BY DEF MountInv, Parse, AskHelp, CheckEmpty, AddMtab, Fork, HelperChecks, HelperSends, Receive, SetUp,
         ChannelFreed, Ends, Poll, Because
<1>1. Mounted(p)' <=> Mounted(p)
  BY <1>0 DEF Mounted
<1>2. \A reasons : Explained(reasons) => Explained(reasons)'
  BY <1>0 DEF Explained
<1> USE DEF At, To, Fd, Because, Stages
<1>3. CASE Parse(p)
  <2>1. MountTypeOK' /\ \A q \in Programs \ {p} : stage'[q] = stage[q] /\ fd'[q] = fd[q] /\ helper'[q] = helper[q]
    BY <1>0, <1>3 DEF MountTypeOK, Parse
  <2>2. HelperOK(p)'
    BY <1>0, <1>3 DEF MountTypeOK, Parse, HelperOK
  <2>3. DescriptorOK(p)'
    BY <1>0, <1>3 DEF MountTypeOK, Parse, DescriptorOK, Explained
  <2>4. PlaceOK(p)'
    BY <1>0, <1>1, <1>3 DEF MountTypeOK, Parse, PlaceOK, HelperOK, Explained, Leaving
  <2>5. DueOK(p)'
    BY <1>0, <1>1, <1>3 DEF MountTypeOK, Parse, DueOK, DescriptorOK, HelperOK, Explained, Losing
  <2> QED
    BY <1>0, <2>1, <2>2, <2>3, <2>4, <2>5, QuietOK
<1>4. CASE AskHelp(p)
  <2>1. MountTypeOK' /\ \A q \in Programs \ {p} : stage'[q] = stage[q] /\ fd'[q] = fd[q] /\ helper'[q] = helper[q]
    BY <1>0, <1>4 DEF MountTypeOK, AskHelp
  <2>2. HelperOK(p)'
    BY <1>0, <1>4 DEF MountTypeOK, AskHelp, HelperOK
  <2>3. DescriptorOK(p)'
    BY <1>0, <1>4 DEF MountTypeOK, AskHelp, DescriptorOK, Explained
  <2>4. PlaceOK(p)'
    BY <1>0, <1>1, <1>4 DEF MountTypeOK, AskHelp, PlaceOK, HelperOK, Explained, Leaving
  <2>5. DueOK(p)'
    BY <1>0, <1>1, <1>4 DEF MountTypeOK, AskHelp, DueOK, DescriptorOK, HelperOK, Explained, Losing
  <2> QED
    BY <1>0, <2>1, <2>2, <2>3, <2>4, <2>5, QuietOK
<1>5. CASE CheckEmpty(p)
  <2>1. MountTypeOK' /\ \A q \in Programs \ {p} : stage'[q] = stage[q] /\ fd'[q] = fd[q] /\ helper'[q] = helper[q]
    BY <1>0, <1>5 DEF MountTypeOK, CheckEmpty
  <2>2. HelperOK(p)'
    BY <1>0, <1>5 DEF MountTypeOK, CheckEmpty, HelperOK
  <2>3. DescriptorOK(p)'
    BY <1>0, <1>5 DEF MountTypeOK, CheckEmpty, DescriptorOK, Explained
  <2>4. PlaceOK(p)'
    BY <1>0, <1>1, <1>5 DEF MountTypeOK, CheckEmpty, PlaceOK, HelperOK, Explained, Leaving
  <2>5. DueOK(p)'
    BY <1>0, <1>1, <1>5 DEF MountTypeOK, CheckEmpty, DueOK, DescriptorOK, HelperOK, Explained, Losing
  <2> QED
    BY <1>0, <2>1, <2>2, <2>3, <2>4, <2>5, QuietOK
<1>6. CASE AddMtab(p)
  <2>1. MountTypeOK' /\ \A q \in Programs \ {p} : stage'[q] = stage[q] /\ fd'[q] = fd[q] /\ helper'[q] = helper[q]
    BY <1>0, <1>6 DEF MountTypeOK, AddMtab
  <2>2. HelperOK(p)'
    BY <1>0, <1>6 DEF MountTypeOK, AddMtab, HelperOK
  <2>3. DescriptorOK(p)'
    BY <1>0, <1>6 DEF MountTypeOK, AddMtab, DescriptorOK, Explained
  <2>4. PlaceOK(p)'
    BY <1>0, <1>1, <1>6 DEF MountTypeOK, AddMtab, PlaceOK, HelperOK, Explained, Leaving
  <2>5. DueOK(p)'
    BY <1>0, <1>1, <1>6 DEF MountTypeOK, AddMtab, DueOK, DescriptorOK, HelperOK, Explained, Losing
  <2> QED
    BY <1>0, <2>1, <2>2, <2>3, <2>4, <2>5, QuietOK
<1>7. CASE Fork(p)
  <2>1. MountTypeOK' /\ \A q \in Programs \ {p} : stage'[q] = stage[q] /\ fd'[q] = fd[q] /\ helper'[q] = helper[q]
    BY <1>0, <1>7 DEF MountTypeOK, Fork
  <2>2. HelperOK(p)'
    BY <1>0, <1>7 DEF MountTypeOK, Fork, HelperOK
  <2>3. DescriptorOK(p)'
    BY <1>0, <1>7 DEF MountTypeOK, Fork, DescriptorOK, Explained
  <2>4. PlaceOK(p)'
    BY <1>0, <1>1, <1>7 DEF MountTypeOK, Fork, PlaceOK, HelperOK, Explained, Leaving
  <2>5. DueOK(p)'
    BY <1>0, <1>1, <1>7 DEF MountTypeOK, Fork, DueOK, DescriptorOK, HelperOK, Explained, Losing
  <2> QED
    BY <1>0, <2>1, <2>2, <2>3, <2>4, <2>5, QuietOK
<1>8. CASE HelperChecks(p)
  <2>1. MountTypeOK' /\ \A q \in Programs \ {p} : stage'[q] = stage[q] /\ fd'[q] = fd[q] /\ helper'[q] = helper[q]
    BY <1>0, <1>8 DEF MountTypeOK, HelperChecks
  <2>2. HelperOK(p)'
    BY <1>0, <1>8 DEF MountTypeOK, HelperChecks, HelperOK
  <2>3. DescriptorOK(p)'
    BY <1>0, <1>8 DEF MountTypeOK, HelperChecks, DescriptorOK, Explained
  <2>4. PlaceOK(p)'
    BY <1>0, <1>1, <1>8 DEF MountTypeOK, HelperChecks, PlaceOK, HelperOK, Explained, Leaving
  <2>5. DueOK(p)'
    BY <1>0, <1>1, <1>8 DEF MountTypeOK, HelperChecks, DueOK, DescriptorOK, HelperOK, Explained, Losing
  <2> QED
    BY <1>0, <2>1, <2>2, <2>3, <2>4, <2>5, QuietOK
<1>9. CASE HelperSends(p)
  <2>1. MountTypeOK' /\ \A q \in Programs \ {p} : stage'[q] = stage[q] /\ fd'[q] = fd[q] /\ helper'[q] = helper[q]
    BY <1>0, <1>9 DEF MountTypeOK, HelperSends
  <2>2. HelperOK(p)'
    BY <1>0, <1>9 DEF MountTypeOK, HelperSends, HelperOK
  <2>3. DescriptorOK(p)'
    BY <1>0, <1>9 DEF MountTypeOK, HelperSends, DescriptorOK, Explained
  <2>4. PlaceOK(p)'
    BY <1>0, <1>1, <1>9 DEF MountTypeOK, HelperSends, PlaceOK, HelperOK, Explained, Leaving
  <2>5. DueOK(p)'
    BY <1>0, <1>1, <1>9 DEF MountTypeOK, HelperSends, DueOK, DescriptorOK, HelperOK, Explained, Losing
  <2> QED
    BY <1>0, <2>1, <2>2, <2>3, <2>4, <2>5, QuietOK
<1>10. CASE Receive(p)
  <2>1. MountTypeOK' /\ \A q \in Programs \ {p} : stage'[q] = stage[q] /\ fd'[q] = fd[q] /\ helper'[q] = helper[q]
    BY <1>0, <1>10 DEF MountTypeOK, Receive
  <2>2. HelperOK(p)'
    BY <1>0, <1>10 DEF MountTypeOK, Receive, HelperOK
  <2>3. DescriptorOK(p)'
    BY <1>0, <1>10 DEF MountTypeOK, Receive, DescriptorOK, Explained
  <2>4. PlaceOK(p)'
    BY <1>0, <1>1, <1>10 DEF MountTypeOK, Receive, PlaceOK, HelperOK, Explained, Leaving
  <2>5. DueOK(p)'
    BY <1>0, <1>1, <1>10 DEF MountTypeOK, Receive, DueOK, DescriptorOK, HelperOK, Explained, Losing
  <2> QED
    BY <1>0, <2>1, <2>2, <2>3, <2>4, <2>5, QuietOK
<1>11. CASE SetUp(p)
  <2>1. MountTypeOK' /\ \A q \in Programs \ {p} : stage'[q] = stage[q] /\ fd'[q] = fd[q] /\ helper'[q] = helper[q]
    BY <1>0, <1>11 DEF MountTypeOK, SetUp
  <2>2. HelperOK(p)'
    BY <1>0, <1>11 DEF MountTypeOK, SetUp, HelperOK
  <2>3. DescriptorOK(p)'
    BY <1>0, <1>11 DEF MountTypeOK, SetUp, DescriptorOK, Explained
  <2>4. PlaceOK(p)'
    BY <1>0, <1>1, <1>11 DEF MountTypeOK, SetUp, PlaceOK, HelperOK, Explained, Leaving
  <2>5. DueOK(p)'
    BY <1>0, <1>1, <1>11 DEF MountTypeOK, SetUp, DueOK, DescriptorOK, HelperOK, Explained, Losing
  <2> QED
    BY <1>0, <2>1, <2>2, <2>3, <2>4, <2>5, QuietOK
<1>12. CASE ChannelFreed(p)
  <2>1. MountTypeOK' /\ \A q \in Programs \ {p} : stage'[q] = stage[q] /\ fd'[q] = fd[q] /\ helper'[q] = helper[q]
    BY <1>0, <1>12 DEF MountTypeOK, ChannelFreed
  <2>2. HelperOK(p)'
    BY <1>0, <1>12 DEF MountTypeOK, ChannelFreed, HelperOK
  <2>3. DescriptorOK(p)'
    BY <1>0, <1>12 DEF MountTypeOK, ChannelFreed, DescriptorOK, Explained
  <2>4. PlaceOK(p)'
    BY <1>0, <1>1, <1>12 DEF MountTypeOK, ChannelFreed, PlaceOK, HelperOK, Explained, Leaving
  <2>5. DueOK(p)'
    BY <1>0, <1>1, <1>12 DEF MountTypeOK, ChannelFreed, DueOK, DescriptorOK, HelperOK, Explained, Losing
  <2> QED
    BY <1>0, <2>1, <2>2, <2>3, <2>4, <2>5, QuietOK
<1>13. CASE Ends(p)
  <2>1. MountTypeOK' /\ \A q \in Programs \ {p} : stage'[q] = stage[q] /\ fd'[q] = fd[q] /\ helper'[q] = helper[q]
    BY <1>0, <1>13 DEF MountTypeOK, Ends
  <2>2. HelperOK(p)'
    BY <1>0, <1>13 DEF MountTypeOK, Ends, HelperOK
  <2>3. DescriptorOK(p)'
    BY <1>0, <1>13 DEF MountTypeOK, Ends, DescriptorOK, Explained
  <2>4. PlaceOK(p)'
    BY <1>0, <1>1, <1>13 DEF MountTypeOK, Ends, PlaceOK, HelperOK, Explained, Leaving
  <2>5. DueOK(p)'
    BY <1>0, <1>1, <1>13 DEF MountTypeOK, Ends, DueOK, DescriptorOK, HelperOK, Explained, Losing
  <2> QED
    BY <1>0, <2>1, <2>2, <2>3, <2>4, <2>5, QuietOK
<1>14. CASE Poll(p)
  <2>1. MountTypeOK' /\ \A q \in Programs \ {p} : stage'[q] = stage[q] /\ fd'[q] = fd[q] /\ helper'[q] = helper[q]
    BY <1>0, <1>14 DEF MountTypeOK, Poll
  <2>2. HelperOK(p)'
    BY <1>0, <1>14 DEF MountTypeOK, Poll, HelperOK
  <2>3. DescriptorOK(p)'
    BY <1>0, <1>14 DEF MountTypeOK, Poll, DescriptorOK, Explained
  <2>4. PlaceOK(p)'
    BY <1>0, <1>1, <1>14 DEF MountTypeOK, Poll, PlaceOK, HelperOK, Explained, Leaving
  <2>5. DueOK(p)'
    BY <1>0, <1>1, <1>14 DEF MountTypeOK, Poll, DueOK, DescriptorOK, HelperOK, Explained, Losing
  <2> QED
    BY <1>0, <2>1, <2>2, <2>3, <2>4, <2>5, QuietOK
<1> QED
  BY <1>3, <1>4, <1>5, <1>6, <1>7, <1>8, <1>9, <1>10, <1>11, <1>12, <1>13, <1>14

\* A step that mounts.
LEMMA MountsOK ==
  ASSUME MountInv, NEW p \in Programs, Push(p), MountSys(p) \/ HelperMounts(p)
  PROVE  MountInv'
<1>0. /\ MountTypeOK /\ HelperOK(p) /\ DescriptorOK(p) /\ PlaceOK(p) /\ DueOK(p)
  BY DEF MountInv
<1>1. /\ mounts' \in Seq(Programs) /\ excuse \subseteq excuse' /\ SingleOK'
      /\ \A q \in Programs : q # p => (Mounted(q)' <=> Mounted(q))
  BY PushIs
<1>2. UNCHANGED lost
  BY DEF MountSys, HelperMounts
<1>3. lost' # {} => Explained(Losing)'
  BY <1>1, <1>2 DEF MountInv, Explained
<1>4. mounts' # mounts
  <2>1. Len(mounts') = Len(mounts) + 1 /\ Len(mounts) \in Nat
    BY <1>0, AppendProperties, LenProperties DEF Push, MountTypeOK
  <2> QED
    BY <2>1
<1> USE DEF At, To, Fd, Stages
<1>5. CASE MountSys(p)
  <2>1. /\ MountTypeOK'
        /\ \A q \in Programs \ {p} : stage'[q] = stage[q] /\ fd'[q] = fd[q] /\ helper'[q] = helper[q]
        /\ stage'[p] \in {"mtab", "channel"} /\ fd'[p] = "open" /\ helper'[p] = "none"
    BY <1>0, <1>1, <1>4, <1>5 DEF MountTypeOK, MountSys, HelperOK
  <2>2. HelperOK(p)' /\ DescriptorOK(p)' /\ PlaceOK(p)' /\ DueOK(p)'
    BY <2>1 DEF HelperOK, DescriptorOK, PlaceOK, DueOK
  <2> QED
    BY <1>1, <1>3, <2>1, <2>2, StepOK
<1>6. CASE HelperMounts(p)
  <2>1. /\ MountTypeOK'
        /\ \A q \in Programs \ {p} : stage'[q] = stage[q] /\ fd'[q] = fd[q] /\ helper'[q] = helper[q]
        /\ stage'[p] = "receive" /\ helper'[p] = "send"
    BY <1>0, <1>1, <1>4, <1>6 DEF MountTypeOK, HelperMounts, HelperOK
  <2>2. HelperOK(p)' /\ DescriptorOK(p)' /\ PlaceOK(p)' /\ DueOK(p)'
    BY <2>1 DEF HelperOK, DescriptorOK, PlaceOK, DueOK
  <2> QED
    BY <1>1, <1>3, <2>1, <2>2, StepOK
<1> QED
  BY <1>5, <1>6

\* A mount that fails.
LEMMA FailsOK ==
  ASSUME MountInv, NEW p \in Programs, ~Push(p), MountSys(p) \/ HelperMounts(p)
  PROVE  MountInv'
<1>0. /\ MountTypeOK /\ HelperOK(p) /\ DescriptorOK(p) /\ PlaceOK(p) /\ DueOK(p)
      /\ UNCHANGED <<mounts, lost, excuse>>
  BY DEF MountInv, MountSys, HelperMounts
<1>1. Mounted(p)' <=> Mounted(p)
  BY <1>0 DEF Mounted
<1> USE DEF At, To, Fd, Stages
<1>2. CASE MountSys(p)
  <2>1. /\ MountTypeOK'
        /\ \A q \in Programs \ {p} : stage'[q] = stage[q] /\ fd'[q] = fd[q] /\ helper'[q] = helper[q]
        /\ stage'[p] \in {"over", "fork"} /\ helper'[p] = "none"
    BY <1>0, <1>2 DEF MountTypeOK, MountSys, HelperOK
  <2>2. HelperOK(p)' /\ DescriptorOK(p)' /\ DueOK(p)'
    BY <2>1 DEF HelperOK, DescriptorOK, DueOK
  <2>3. PlaceOK(p)'
    BY <1>0, <1>1, <1>2 DEF PlaceOK, Explained, MountSys
  <2> QED
    BY <1>0, <2>1, <2>2, <2>3, QuietOK
<1>3. CASE HelperMounts(p)
  <2>1. /\ MountTypeOK'
        /\ \A q \in Programs \ {p} : stage'[q] = stage[q] /\ fd'[q] = fd[q] /\ helper'[q] = helper[q]
        /\ stage'[p] = "receive" /\ helper'[p] = "exited"
    BY <1>0, <1>3 DEF MountTypeOK, HelperMounts, HelperOK
  <2>2. HelperOK(p)' /\ DescriptorOK(p)' /\ DueOK(p)'
    BY <2>1 DEF HelperOK, DescriptorOK, DueOK
  <2>3. PlaceOK(p)'
    BY <1>0, <1>1, <1>3 DEF PlaceOK, HelperOK, Explained, HelperMounts
  <2> QED
    BY <1>0, <2>1, <2>2, <2>3, QuietOK
<1> QED
  BY <1>2, <1>3

\* What an unmount by path takes, from a program about to unmount.
LEMMA PopIs ==
  ASSUME MountInv, NEW p \in Programs, Pop(p)
  PROVE  /\ mounts' \in Seq(Programs) /\ \A q \in Programs : Mounted(q)' => Mounted(q)
         /\ ~Explained({"stacked"}) =>
              /\ \A q \in Programs : ~Mounted(q)'
              /\ Mounted(p) => lost' = lost /\ \A q \in Programs : Mounted(q) => q = p
         /\ ~Explained({"stacked"}) => Len(mounts') <= 1
<1>0. mounts \in Seq(Programs) /\ SingleOK
  BY DEF MountInv, MountTypeOK
<1>1. CASE mounts = << >>
  <2>1. mounts' = mounts /\ lost' = lost /\ \A q : ~Mounted(q)
    BY <1>1 DEF Pop, Mounted, ToSet
  <2>2. \A q : ~Mounted(q)'
    BY <2>1 DEF Mounted
  <2> QED
    BY <1>0, <2>1, <2>2 DEF SingleOK
<1>2. CASE mounts # << >>
  <2>1. mounts' = Front(mounts) /\ lost' = lost \cup ({Last(mounts)} \ {p})
    BY <1>2 DEF Pop
  <2>2. /\ mounts' \in Seq(Programs) /\ Len(mounts') <= Len(mounts)
        /\ \A q \in Programs : Mounted(q)' => Mounted(q)
        /\ Len(mounts) <= 1 =>
              \A q \in Programs : ~Mounted(q)' /\ (Mounted(q) => q = Last(mounts))
    BY <1>0, <1>2, <2>1, FrontIs
  <2>3. Len(mounts) \in Nat /\ Len(mounts') \in Nat
    BY <1>0, <2>2, LenProperties
  <2>4. ~Explained({"stacked"}) => Len(mounts) <= 1 /\ Len(mounts') <= 1
    BY <1>0, <2>2, <2>3 DEF SingleOK
  <2>5. Len(mounts) <= 1 /\ Mounted(p) => lost' = lost /\ \A q \in Programs : Mounted(q) => q = p
    BY <2>1, <2>2
  <2> QED
    BY <2>2, <2>4, <2>5
<1> QED
  BY <1>1, <1>2

\* The steps that unmount.
LEMMA UnmountsOK ==
  ASSUME MountInv, NEW p \in Programs, Pop(p), UndoMount(p) \/ Umount(p) \/ HelperUnmounts(p),
         stage' = [stage EXCEPT ![p] = "over"]
  PROVE  MountInv'
<1>0. /\ MountTypeOK /\ HelperOK(p) /\ DueOK(p) /\ stage[p] \in {"undo", "umount", "wait"}
      /\ excuse \subseteq excuse' /\ (stage[p] = "undo" => Mounted(p) \/ "late" \in excuse')
      /\ stage[p] = "undo" \/ excuse' = excuse
  BY DEF MountInv, UndoMount, Umount, HelperUnmounts, At, Because
<1>1. /\ mounts' \in Seq(Programs) /\ \A q \in Programs : Mounted(q)' => Mounted(q)
      /\ ~Explained({"stacked"}) =>
           /\ Len(mounts') <= 1 /\ \A q \in Programs : ~Mounted(q)'
           /\ Mounted(p) => lost' = lost /\ \A q \in Programs : Mounted(q) => q = p
  BY PopIs
<1>2. \A reasons : Explained(reasons) => Explained(reasons)'
  BY <1>0 DEF Explained
<1>3. Explained({"stacked"}) => Explained(Losing) /\ Explained(Leaving)
  BY DEF Explained, Losing, Leaving
<1>4. Mounted(p) \/ Explained(Losing)'
  BY <1>0, <1>2 DEF DueOK, Explained, Losing
<1>5. lost' # {} => Explained(Losing)'
  BY <1>1, <1>2, <1>3, <1>4 DEF MountInv
<1>6. MountTypeOK' /\ SingleOK'
  <2>1. /\ fd' \in [Programs -> {"none", "open", "closed"}]
        /\ helper' \in [Programs -> {"none", "check", "mount", "send", "sent", "exited", "umount"}]
    BY <1>0 DEF UndoMount, Umount, HelperUnmounts, Fd, MountTypeOK
  <2>2. stage' \in [Programs -> Stages]
    BY <1>0 DEF Stages, MountTypeOK
  <2> QED
    BY <1>1, <1>2, <2>1, <2>2 DEF MountTypeOK, SingleOK
<1>7. /\ stage'[p] = "over" /\ helper'[p] = "none"
      /\ \A q \in Programs \ {p} : stage'[q] = stage[q] /\ fd'[q] = fd[q] /\ helper'[q] = helper[q]
  <2>1. /\ stage'[p] = "over" /\ \A q \in Programs \ {p} : stage'[q] = stage[q]
    BY <1>0 DEF MountTypeOK
  <2>2. CASE UndoMount(p)
    BY <1>0, <2>1, <2>2 DEF UndoMount, At, Fd, MountTypeOK, HelperOK
  <2>3. CASE Umount(p)
    BY <1>0, <2>1, <2>3 DEF Umount, At, To, MountTypeOK, HelperOK, Stages
  <2>4. CASE HelperUnmounts(p)
    BY <1>0, <2>4 DEF HelperUnmounts, MountTypeOK
  <2> QED
    BY <2>1, <2>2, <2>3, <2>4
<1>8. HelperOK(p)' /\ DescriptorOK(p)' /\ DueOK(p)'
  BY <1>7 DEF HelperOK, DescriptorOK, DueOK
<1>9. PlaceOK(p)'
  BY <1>1, <1>2, <1>3 DEF PlaceOK
<1>10. ASSUME NEW q \in Programs \ {p}, stage[q] \in {"umount", "wait"}, Mounted(q)
       PROVE  Explained(Losing)'
  BY <1>1, <1>2, <1>3, <1>4, <1>10
<1> QED
  BY <1>0, <1>1, <1>5, <1>6, <1>7, <1>8, <1>9, <1>10, StepOK

\* An unmount that is not done, or left to fusermount.
LEMMA LeavesOK ==
  ASSUME MountInv, NEW p \in Programs, Umount(p) \/ HelperUnmounts(p), UNCHANGED <<mounts, lost>>,
         \/ stage' = [stage EXCEPT ![p] = "left"] /\ (helper' = helper \/ helper' = [helper EXCEPT ![p] = "none"])
         \/ Umount(p) /\ stage' = [stage EXCEPT ![p] = "wait"] /\ helper' = [helper EXCEPT ![p] = "umount"]
  PROVE  MountInv'
<1>0. /\ MountTypeOK /\ HelperOK(p) /\ DueOK(p) /\ stage[p] \in {"umount", "wait"}
      /\ UNCHANGED <<fd, excuse>>
  BY DEF MountInv, Umount, HelperUnmounts, At
<1>1. Mounted(p)' <=> Mounted(p)
  BY DEF Mounted
<1>2. /\ MountTypeOK'
      /\ \A q \in Programs \ {p} : stage'[q] = stage[q] /\ fd'[q] = fd[q] /\ helper'[q] = helper[q]
  BY <1>0 DEF MountTypeOK, Stages
<1>3. HelperOK(p)' /\ DescriptorOK(p)' /\ PlaceOK(p)'
  BY <1>0 DEF MountTypeOK, Umount, HelperUnmounts, At, HelperOK, DescriptorOK, PlaceOK
<1>4. DueOK(p)'
  BY <1>0, <1>1 DEF MountTypeOK, DueOK, Explained
<1> QED
  BY <1>0, <1>2, <1>3, <1>4, QuietOK

LEMMA AdministratorOK ==
  ASSUME MountInv, Administrator PROVE MountInv'
<1> DEFINE top == Last(mounts)
<1>0. /\ MountTypeOK /\ SingleOK /\ excuse \subseteq excuse' /\ UNCHANGED <<stage, fd, helper, lost>>
      /\ mounts # << >> /\ mounts' = Front(mounts)
      /\ stage[top] \in {"umount", "wait", "undo"} => "late" \in excuse'
  BY DEF MountInv, Administrator, Because
<1>1. /\ mounts' \in Seq(Programs) /\ Len(mounts') <= Len(mounts)
      /\ \A q \in Programs : Mounted(q)' => Mounted(q)
      /\ Len(mounts) <= 1 => \A q \in Programs : Mounted(q) => q = top
      /\ top \in Programs
  BY <1>0, FrontIs DEF MountTypeOK
<1>2. Len(mounts) \in Nat /\ Len(mounts') \in Nat
  BY <1>0, <1>1, LenProperties DEF MountTypeOK
<1>3. \A reasons : Explained(reasons) => Explained(reasons)'
  BY <1>0 DEF Explained
<1>4. MountTypeOK' /\ SingleOK'
  BY <1>0, <1>1, <1>2, <1>3 DEF MountTypeOK, SingleOK
<1>5. lost' # {} => Explained(Losing)'
  BY <1>0, <1>3 DEF MountInv
<1>6. ASSUME NEW q \in Programs, stage[q] \in {"umount", "wait"}, Mounted(q)
      PROVE  Explained(Losing)'
  <2>1. CASE Explained({"stacked"})
    BY <1>3, <2>1 DEF Explained, Losing
  <2>2. CASE ~Explained({"stacked"})
    <3>1. q = top
      BY <1>0, <1>1, <1>6, <2>2 DEF SingleOK
    <3> QED
      BY <1>0, <1>6, <3>1 DEF Explained, Losing
  <2> QED
    BY <2>1, <2>2
<1>7. ASSUME NEW q \in Programs PROVE HelperOK(q)' /\ DescriptorOK(q)' /\ PlaceOK(q)' /\ DueOK(q)'
  <2>0. HelperOK(q) /\ DescriptorOK(q) /\ PlaceOK(q) /\ DueOK(q)
    BY DEF MountInv
  <2>1. HelperOK(q)' /\ DescriptorOK(q)'
    BY <1>0, <1>3, <2>0 DEF HelperOK, DescriptorOK
  <2>2. PlaceOK(q)'
    BY <1>0, <1>1, <1>3, <2>0 DEF PlaceOK
  <2>3. DueOK(q)'
    BY <1>0, <1>3, <1>6, <2>0 DEF DueOK
  <2> QED
    BY <2>1, <2>2, <2>3
<1> QED
  BY <1>4, <1>5, <1>7 DEF MountInv

LEMMA MountStepOK ==
  ASSUME MountInv, [MountNext]_mountVars PROVE MountInv'
<1>1. ASSUME NEW p \in Programs, MountSys(p) \/ HelperMounts(p) PROVE MountInv'
  BY <1>1, MountsOK, FailsOK
<1>2. ASSUME NEW p \in Programs, UndoMount(p) PROVE MountInv'
  <2>1. Pop(p) /\ stage' = [stage EXCEPT ![p] = "over"]
    BY <1>2 DEF UndoMount, To
  <2> QED
    BY <1>2, <2>1, UnmountsOK
<1>3. ASSUME NEW p \in Programs, Umount(p) \/ HelperUnmounts(p) PROVE MountInv'
  <2>1. \/ Pop(p) /\ stage' = [stage EXCEPT ![p] = "over"]
        \/ /\ UNCHANGED <<mounts, lost>> /\ stage' = [stage EXCEPT ![p] = "left"]
           /\ helper' = helper \/ helper' = [helper EXCEPT ![p] = "none"]
        \/ /\ UNCHANGED <<mounts, lost>> /\ Umount(p) /\ stage' = [stage EXCEPT ![p] = "wait"]
           /\ helper' = [helper EXCEPT ![p] = "umount"]
    BY <1>3 DEF Umount, HelperUnmounts, To
  <2> QED
    BY <1>3, <2>1, UnmountsOK, LeavesOK
<1>4. CASE UNCHANGED mountVars
  <2> USE DEF mountVars
  <2>1. \A q : Mounted(q)' <=> Mounted(q)
    BY <1>4 DEF Mounted
  <2>2. \A reasons : Explained(reasons)' <=> Explained(reasons)
    BY <1>4 DEF Explained
  <2>3. MountTypeOK' /\ SingleOK' /\ (lost' # {} => Explained(Losing)')
    BY <1>4, <2>2 DEF MountInv, MountTypeOK, SingleOK
  <2>4. ASSUME NEW q \in Programs PROVE HelperOK(q)' /\ DescriptorOK(q)' /\ PlaceOK(q)' /\ DueOK(q)'
    <3>1. HelperOK(q) /\ DescriptorOK(q) /\ PlaceOK(q) /\ DueOK(q)
      BY DEF MountInv
    <3>2. HelperOK(q)'
      BY <1>4, <3>1 DEF HelperOK
    <3> QED
      BY <1>4, <2>1, <2>2, <3>1, <3>2 DEF DescriptorOK, PlaceOK, DueOK
  <2> QED
    BY <2>3, <2>4 DEF MountInv
<1> QED
  BY <1>1, <1>2, <1>3, <1>4, QuietSteps, AdministratorOK DEF MountNext, ProgramStep

LEMMA MountInitOK ==
  ASSUME MountInit PROVE MountInv
<1>1. mounts \in Seq(Programs) /\ Len(mounts) = 0 /\ \A q : ~Mounted(q)
  BY EmptySeq DEF MountInit, Mounted, ToSet
<1> QED
  BY <1>1 DEF MountInit, MountInv, MountTypeOK, SingleOK, HelperOK, DescriptorOK, PlaceOK, DueOK, Stages

\* What is mounted fits where the programs are, in every state (helper.c,
\* mount.c, fusermount.c).
THEOREM MountInvariance == MountSpec => []MountInv
<1>1. MountInit => MountInv
  BY MountInitOK
<1>2. MountInv /\ [MountNext]_mountVars => MountInv'
  BY MountStepOK
<1> QED
  BY <1>1, <1>2, PTL DEF MountSpec

\* A program that is over has left nothing mounted and taken no other's mount,
\* but for the reasons excuse names (helper.c:238-305, mount.c:270-315).
THEOREM MountsAreKept == MountSpec => []MountsKept
<1>1. ASSUME MountInv PROVE MountsKept
  <2>1. ASSUME NEW p \in Programs, At(p, "over"), Mounted(p)
        PROVE  excuse \cap {"stacked", "orphan"} # {}
    <3>1. PlaceOK(p) /\ stage[p] = "over"
      BY <1>1, <2>1 DEF MountInv, At
    <3> QED
      BY <2>1, <3>1 DEF PlaceOK, Explained, Leaving
  <2> QED
    BY <1>1, <2>1 DEF MountInv, MountsKept, Explained, Losing
<1> QED
  BY <1>1, MountInvariance, PTL
-----------------------------------------------------------------------------
(***************************************************************************)
(* FuseProtocol: one connection, from INIT to its end.                     *)
(***************************************************************************)

LlType ==
  [got_init : BOOLEAN, got_destroy : BOOLEAN, minor : Nat, capable : SUBSET Caps,
   want : SUBSET Caps, async : BOOLEAN, max_write : Int]
FileHandles == {"none", "given", "zero"}
KernelType ==
  [state : {"mounted", "asks again", "refused", "ready", "gone"}, minor : Nat,
   flags : SUBSET Caps, max_write : Int, fh : FileHandles, dh : FileHandles]
ProtocolTypeOK ==
  /\ setup \in Setups
  /\ phase \in {"called", "runs", "failed", "destroyed"}
  /\ ll \in LlType /\ kernel \in KernelType
  /\ fs \in [inits : Nat, destroys : Nat, outside : BOOLEAN]

\* The file system's init and destroy follow the messages.
PairOK ==
  /\ ~fs.outside
  /\ fs.inits = (IF ll.got_init THEN 1 ELSE 0)
  /\ ll.got_destroy => ll.got_init
  /\ phase = "destroyed" => fs.destroys = fs.inits
  /\ phase # "destroyed" => fs.destroys = (IF ll.got_destroy THEN 1 ELSE 0)

\* What the two sides agreed on.
AgreedOK ==
  kernel.state = "ready" =>
    /\ ll.got_init /\ ~ll.got_destroy
    /\ ll.minor = setup.minor
    /\ kernel.minor = (IF setup.minor <= 12 THEN setup.minor ELSE 12)
    /\ kernel.max_write + 80 <= setup.buf

ProtocolInv == ProtocolTypeOK /\ PairOK /\ AgreedOK
-----------------------------------------------------------------------------
LEMMA MinOfTwo ==
  ASSUME NEW a \in Int, NEW b \in Int
  PROVE  Min({a, b}) = IF a <= b THEN a ELSE b
BY DEF Min

LEMMA MaxOfTwo ==
  ASSUME NEW a \in Int, NEW b \in Int
  PROVE  Max({a, b}) = IF a <= b THEN b ELSE a
BY DEF Max

\* The fields of a setup.
LEMMA SetupFields ==
  ASSUME NEW s \in Setups
  PROVE  /\ s.minor \in Nat /\ s.buf \in Nat /\ s.buf >= MinBuf /\ s.max_write \in Nat
         /\ s.ops \subseteq FsFunctions /\ s.ops \cap Later(s.compat) = {}
         /\ s.compat \in {0, 11, 21, 22, 25} /\ s.nullpath \in BOOLEAN
         /\ s.offers \subseteq Caps /\ s.opts \subseteq LlOpts
BY SetupAssumption

LEMMA MaxWriteFits ==
  ASSUME NEW s \in Setups
  PROVE  MaxWrite(s) \in Int /\ MaxWrite(s) + 80 <= s.buf
<1>1. s.buf \in Nat /\ s.buf >= 135168 /\ s.max_write \in Nat
  BY SetupFields DEF MinBuf
<1>2. Max({s.buf, 8192}) = s.buf
  BY <1>1, MaxOfTwo
<1>3. MaxWrite(s) = Min({s.max_write, s.buf - 4096})
  BY <1>2 DEF MaxWrite, MinReadBuffer
<1> QED
  BY <1>1, <1>3, MinOfTwo

LEMMA ProtocolInitOK ==
  ASSUME ProtocolInit PROVE ProtocolInv
<1>1. setup \in Setups /\ setup.max_write \in Nat
  BY SetupFields DEF ProtocolInit
<1>2. ll \in LlType
  BY <1>1 DEF ProtocolInit, LlType
<1>3. kernel \in KernelType
  BY <1>1 DEF ProtocolInit, KernelType, FileHandles
<1>4. fs \in [inits : Nat, destroys : Nat, outside : BOOLEAN]
  BY DEF ProtocolInit
<1>5. ProtocolTypeOK
  BY <1>1, <1>2, <1>3, <1>4 DEF ProtocolInit, ProtocolTypeOK
<1>6. PairOK /\ AgreedOK
  BY DEF ProtocolInit, PairOK, AgreedOK
<1> QED
  BY <1>5, <1>6 DEF ProtocolInv

LEMMA NewOK ==
  ASSUME ProtocolInv, New PROVE ProtocolInv'
<1> DEFINE async == "sync_read" \notin setup.opts /\ ~SyncCompat(setup)
<1>0. ll \in LlType
  BY DEF ProtocolInv, ProtocolTypeOK
<1>1. async \in BOOLEAN
  OBVIOUS
<1>2. ll' = [ll EXCEPT !.async = async]
  BY DEF New
<1> HIDE DEF async
<1>3. ll' \in LlType
  BY <1>0, <1>1, <1>2 DEF LlType
<1>4. ll'.got_init = ll.got_init /\ ll'.got_destroy = ll.got_destroy /\ ll'.minor = ll.minor
  BY <1>0, <1>2 DEF LlType
<1>5. ProtocolTypeOK'
  BY <1>3 DEF ProtocolInv, ProtocolTypeOK, New
<1>6. PairOK' /\ AgreedOK'
  BY <1>4 DEF ProtocolInv, PairOK, AgreedOK, New
<1> QED
  BY <1>5, <1>6 DEF ProtocolInv

LEMMA InitOtherOK ==
  ASSUME ProtocolInv, InitOther PROVE ProtocolInv'
<1>0. ll \in LlType /\ kernel \in KernelType /\ setup \in Setups /\ setup.minor \in Nat
  BY SetupFields DEF ProtocolInv, ProtocolTypeOK
<1>1. ll' = [ll EXCEPT !.minor = setup.minor, !.capable = {}, !.want = {}]
  BY DEF InitOther, Noted
<1>2. ll' \in LlType
  BY <1>0, <1>1 DEF LlType
<1>3. ll'.got_init = ll.got_init /\ ll'.got_destroy = ll.got_destroy
  BY <1>0, <1>1 DEF LlType
<1>4. \E st \in {"asks again", "refused"} : kernel' = [kernel EXCEPT !.state = st]
  BY DEF InitOther
<1>5. kernel' \in KernelType /\ kernel'.state # "ready"
  BY <1>0, <1>4 DEF KernelType
<1>6. ProtocolTypeOK'
  BY <1>2, <1>5 DEF ProtocolInv, ProtocolTypeOK, InitOther
<1>7. PairOK' /\ AgreedOK'
  BY <1>3, <1>5 DEF ProtocolInv, PairOK, AgreedOK, InitOther
<1> QED
  BY <1>6, <1>7 DEF ProtocolInv

\* What INIT leaves, whatever was agreed on.
LEMMA InitSevenOK ==
  ASSUME ProtocolInv, InitSeven PROVE ProtocolInv'
<1> DEFINE new == setup.minor >= 6
           async == new /\ ll.async /\ "async_read" \in setup.offers
           want == Want(setup) \cup LibWant
           capable == IF new THEN Capable(setup.offers) ELSE {}
           flags == want \cup (IF async THEN {"async_read"} ELSE {})
           agreed == IF setup.minor >= 6 THEN flags \cap setup.offers ELSE {}
           size == IF setup.minor >= 5 THEN MaxWrite(setup) ELSE 4096
           minor == Min({setup.minor, 12})
<1>0. /\ ll \in LlType /\ kernel \in KernelType /\ setup \in Setups
      /\ fs \in [inits : Nat, destroys : Nat, outside : BOOLEAN]
  BY DEF ProtocolInv, ProtocolTypeOK
<1>1. setup.minor \in Nat /\ setup.offers \subseteq Caps /\ setup.buf >= 135168 /\ setup.buf \in Nat
  BY <1>0, SetupFields DEF MinBuf
<1>2. /\ async \in BOOLEAN /\ flags \subseteq Caps
      /\ want \in SUBSET Caps /\ capable \in SUBSET Caps
  BY DEF Want, LibWant, Caps, Capable
<1>3. agreed \in SUBSET Caps
  BY <1>2
<1>4. MaxWrite(setup) \in Int /\ size \in Int /\ size + 80 <= setup.buf
  BY <1>0, <1>1, MaxWriteFits
<1>5. minor \in Nat /\ minor = IF setup.minor <= 12 THEN setup.minor ELSE 12
  BY <1>1, MinOfTwo
<1>6. ll' = [ll EXCEPT !.got_init = TRUE, !.minor = setup.minor, !.async = async, !.want = want,
                       !.capable = capable, !.max_write = MaxWrite(setup)]
  BY DEF InitSeven, Noted
<1>7. kernel' = [kernel EXCEPT !.state = "ready", !.minor = minor, !.flags = agreed,
                               !.max_write = size]
  BY DEF InitSeven, Agrees
<1>8. fs' = [fs EXCEPT !.inits = @ + 1] /\ ~ll.got_init /\ phase = "runs"
      /\ UNCHANGED <<setup, phase>>
  BY DEF InitSeven
<1> HIDE DEF new, async, want, capable, flags, agreed, size, minor
<1>9. /\ ll' \in LlType
      /\ ll'.got_init = TRUE /\ ll'.got_destroy = ll.got_destroy /\ ll'.minor = setup.minor
  <2>1. ll' = [got_init |-> TRUE, got_destroy |-> ll.got_destroy, minor |-> setup.minor,
               capable |-> capable, want |-> want, async |-> async, max_write |-> MaxWrite(setup)]
    BY <1>0, <1>6 DEF LlType
  <2>2. ll.got_destroy \in BOOLEAN
    BY <1>0 DEF LlType
  <2>3. ll' \in LlType
    BY <1>1, <1>2, <1>4, <2>1, <2>2 DEF LlType
  <2> QED
    BY <2>1, <2>3
<1>10. kernel' \in KernelType
  BY <1>0, <1>3, <1>4, <1>5, <1>7 DEF KernelType
<1>11. kernel'.minor = minor /\ kernel'.max_write = size
  BY <1>0, <1>7 DEF KernelType
<1>12. fs' \in [inits : Nat, destroys : Nat, outside : BOOLEAN] /\ fs'.inits = fs.inits + 1
       /\ fs'.destroys = fs.destroys /\ fs'.outside = fs.outside
  BY <1>0, <1>8
<1>13. ProtocolTypeOK'
  BY <1>8, <1>9, <1>10, <1>12 DEF ProtocolInv, ProtocolTypeOK
<1>14. PairOK'
  BY <1>0, <1>8, <1>9, <1>12 DEF ProtocolInv, PairOK
<1>15. ~ll.got_destroy
  BY <1>8 DEF ProtocolInv, PairOK
<1>16. AgreedOK'
  BY <1>4, <1>5, <1>8, <1>9, <1>11, <1>15 DEF AgreedOK
<1> QED
  BY <1>13, <1>14, <1>16 DEF ProtocolInv

\* A request changes the handles at most, and is served between init and destroy.
LEMMA HandlesOK ==
  ASSUME kernel \in KernelType, NEW opcode, NEW f
  PROVE  /\ Handles(opcode, f) \in KernelType
         /\ Handles(opcode, f).state = kernel.state /\ Handles(opcode, f).minor = kernel.minor
         /\ Handles(opcode, f).max_write = kernel.max_write
<1> DEFINE h == Opened(Answer(opcode, f, TRUE))
<1>1. h \in {"given", "zero"}
  BY DEF Opened
<1>2. \/ Handles(opcode, f) = kernel
      \/ \E to \in FileHandles : Handles(opcode, f) = [kernel EXCEPT !.fh = to]
      \/ \E to \in FileHandles : Handles(opcode, f) = [kernel EXCEPT !.dh = to]
  BY <1>1 DEF Handles, FileHandles
<1> QED
  BY <1>2 DEF KernelType

LEMMA SetupRequest ==
  ASSUME ProtocolInv, NEW opcode, NEW uid, NEW valid, NEW gone \in BOOLEAN,
         Request(opcode, uid, valid, gone)
  PROVE  ProtocolInv'
<1>0. /\ kernel \in KernelType /\ kernel.state = "ready" /\ phase = "runs"
      /\ fs \in [inits : Nat, destroys : Nat, outside : BOOLEAN]
      /\ UNCHANGED <<setup, phase, ll>>
  BY DEF ProtocolInv, ProtocolTypeOK, Request, Sends
<1>1. \/ kernel' = kernel
      \/ kernel' = Handles(opcode, FsOf(setup))
  BY DEF Request
<1>2. /\ kernel' \in KernelType /\ kernel'.state = kernel.state /\ kernel'.minor = kernel.minor
      /\ kernel'.max_write = kernel.max_write
  BY <1>0, <1>1, HandlesOK
<1>3. fs.inits = 1 /\ fs.destroys = 0 /\ fs.outside = FALSE
  BY <1>0 DEF ProtocolInv, PairOK, AgreedOK, ProtocolTypeOK
<1>4. \E served \in BOOLEAN :
        fs' = [fs EXCEPT !.outside = fs.outside \/ (served /\ (fs.inits # 1 \/ fs.destroys # 0))]
  BY DEF Request
<1>5. fs' = [fs EXCEPT !.outside = FALSE]
  BY <1>3, <1>4
<1>6. fs' = fs
  BY <1>0, <1>3, <1>5
<1>7. ProtocolTypeOK'
  BY <1>0, <1>2, <1>6 DEF ProtocolInv, ProtocolTypeOK
<1>8. PairOK' /\ AgreedOK'
  BY <1>0, <1>2, <1>6 DEF ProtocolInv, PairOK, AgreedOK
<1> QED
  BY <1>7, <1>8 DEF ProtocolInv

LEMMA DestroyMessageOK ==
  ASSUME ProtocolInv, DestroyMessage PROVE ProtocolInv'
<1>0. /\ ll \in LlType /\ kernel \in KernelType
      /\ fs \in [inits : Nat, destroys : Nat, outside : BOOLEAN]
      /\ kernel.state = "ready" /\ phase = "runs" /\ UNCHANGED <<setup, phase>>
  BY DEF ProtocolInv, ProtocolTypeOK, DestroyMessage
<1>1. /\ ll' = [ll EXCEPT !.got_destroy = TRUE] /\ fs' = [fs EXCEPT !.destroys = @ + 1]
      /\ kernel' = [kernel EXCEPT !.state = "gone"]
  BY DEF DestroyMessage
<1>2. /\ ll' \in LlType /\ ll'.got_destroy = TRUE /\ ll'.got_init = ll.got_init
  BY <1>0, <1>1 DEF LlType
<1>3. kernel' \in KernelType /\ kernel'.state = "gone"
  BY <1>0, <1>1 DEF KernelType
<1>4. /\ fs' \in [inits : Nat, destroys : Nat, outside : BOOLEAN]
      /\ fs'.destroys = fs.destroys + 1 /\ fs'.inits = fs.inits /\ fs'.outside = fs.outside
  BY <1>0, <1>1
<1>5. ProtocolTypeOK'
  BY <1>0, <1>2, <1>3, <1>4 DEF ProtocolInv, ProtocolTypeOK
<1>6. ~ll.got_destroy /\ ll.got_init
  BY <1>0 DEF ProtocolInv, AgreedOK
<1>7. PairOK' /\ AgreedOK'
  BY <1>0, <1>2, <1>3, <1>4, <1>6 DEF ProtocolInv, PairOK, AgreedOK
<1> QED
  BY <1>5, <1>7 DEF ProtocolInv

LEMMA FuseDestroyOK ==
  ASSUME ProtocolInv, FuseDestroy PROVE ProtocolInv'
<1>0. /\ ll \in LlType /\ kernel \in KernelType
      /\ fs \in [inits : Nat, destroys : Nat, outside : BOOLEAN]
      /\ phase = "runs" /\ phase' = "destroyed" /\ UNCHANGED <<setup, ll>>
  BY DEF ProtocolInv, ProtocolTypeOK, FuseDestroy
<1>1. kernel' = [kernel EXCEPT !.state = "gone"]
  BY DEF FuseDestroy
<1>2. kernel' \in KernelType /\ kernel'.state = "gone"
  BY <1>0, <1>1 DEF KernelType
<1>3. fs' = [fs EXCEPT !.destroys = IF OwesDestroy THEN @ + 1 ELSE @]
  BY DEF FuseDestroy
<1>4. /\ fs' \in [inits : Nat, destroys : Nat, outside : BOOLEAN]
      /\ fs'.destroys = (IF OwesDestroy THEN fs.destroys + 1 ELSE fs.destroys)
      /\ fs'.inits = fs.inits /\ fs'.outside = fs.outside
  BY <1>0, <1>3
<1>5. ProtocolTypeOK'
  BY <1>0, <1>2, <1>4 DEF ProtocolInv, ProtocolTypeOK
<1>6. PairOK' /\ AgreedOK'
  BY <1>0, <1>2, <1>4 DEF ProtocolInv, PairOK, AgreedOK, OwesDestroy
<1> QED
  BY <1>5, <1>6 DEF ProtocolInv

LEMMA ProtocolNextOK ==
  ProtocolInv /\ [ProtocolNext]_protocolVars => ProtocolInv'
<1> SUFFICES ASSUME ProtocolInv, [ProtocolNext]_protocolVars PROVE ProtocolInv'
  OBVIOUS
<1>1. CASE UNCHANGED protocolVars
  BY <1>1 DEF protocolVars, ProtocolInv, ProtocolTypeOK, PairOK, AgreedOK
<1>2. CASE \E opcode \in Opcodes, uid \in Uids, valid \in Valids, gone \in BOOLEAN :
             Request(opcode, uid, valid, gone)
  BY <1>2, SetupRequest
<1>3. CASE New \/ InitOther \/ InitSeven \/ DestroyMessage \/ FuseDestroy
  BY <1>3, NewOK, InitOtherOK, InitSevenOK, DestroyMessageOK, FuseDestroyOK
<1> QED
  BY <1>1, <1>2, <1>3 DEF ProtocolNext

\* The invariant of a connection.
THEOREM ProtocolInvariance == ProtocolSpec => []ProtocolInv
<1>1. ProtocolInit => ProtocolInv
  BY ProtocolInitOK
<1> QED
  BY <1>1, ProtocolNextOK, PTL DEF ProtocolSpec

\* The file system's init and destroy come in pairs, around every other call.
THEOREM SessionIsPaired == ProtocolSpec => []SessionPaired
<1>1. ProtocolInv => SessionPaired
  BY DEF ProtocolInv, ProtocolTypeOK, PairOK, SessionPaired
<1> QED
  BY <1>1, ProtocolInvariance, PTL
-----------------------------------------------------------------------------
\* Versions from 12 on are alike to the library.
LEMMA LayoutsAlike ==
  ASSUME NEW m \in Nat, NEW n \in Nat, n = (IF m <= 12 THEN m ELSE 12), NEW opcode, NEW r
  PROVE  /\ Offset(opcode, m) = Offset(opcode, n)
         /\ FileInfo(opcode, m) = FileInfo(opcode, n)
         /\ ReplySize(r, m) = ReplySize(r, n)
<1>1. (m >= 12 <=> n >= 12) /\ (m >= 9 <=> n >= 9) /\ (m >= 8 <=> n >= 8) /\ (m >= 7 <=> n >= 7)
  OBVIOUS
<1>2. (m < 9 <=> n < 9) /\ (m < 4 <=> n < 4) /\ (m < 5 <=> n < 5)
  OBVIOUS
<1>3. Offset(opcode, m) = Offset(opcode, n)
  BY <1>1 DEF Offset
<1>4. FileInfo(opcode, m) = FileInfo(opcode, n)
  BY <1>1 DEF FileInfo
<1>5. AttrSize(m) = AttrSize(n) /\ StatfsOut(m) = StatfsOut(n)
  BY <1>2 DEF AttrSize, StatfsOut
<1>6. ReplySize(r, m) = ReplySize(r, n)
  BY <1>2, <1>5 DEF ReplySize, EntryOut
<1> QED
  BY <1>3, <1>4, <1>6

\* No member lies beyond what a kernel of that version sends.
LEMMA MembersSent ==
  ASSUME NEW n \in Nat, NEW opcode \in Opcodes, NEW m \in FileInfo(opcode, n)
  PROVE  MemberEnd(opcode, m) <= Sent(opcode, n)
<1> USE DEF FileInfo, MemberEnd, Sent, Handle, LockOps
<1>1. CASE opcode \in {"open", "opendir", "create"}
  BY <1>1
<1>2. CASE opcode = "read"
  BY <1>2
<1>3. CASE opcode = "write"
  BY <1>3
<1>4. CASE opcode = "flush"
  BY <1>4
<1>5. CASE opcode = "release"
  BY <1>5
<1>6. CASE opcode = "releasedir"
  BY <1>6
<1>7. CASE opcode \in {"fsync", "readdir", "fsyncdir", "ioctl", "poll"}
  BY <1>7
<1>8. CASE opcode \in LockOps
  BY <1>8
<1> QED
  BY <1>1, <1>2, <1>3, <1>4, <1>5, <1>6, <1>7, <1>8

\* Both sides lay out every message in the same way, whatever versions they have.
THEOREM LayoutIsTheSame == ProtocolSpec => []SameLayout
<1>1. ProtocolInv => SameLayout
  <2> SUFFICES ASSUME ProtocolInv, kernel.state = "ready" PROVE SameLayout
    BY DEF SameLayout
  <2>1. /\ ll.minor = setup.minor /\ ll.minor \in Nat /\ kernel.minor \in Nat
        /\ kernel.minor = (IF ll.minor <= 12 THEN ll.minor ELSE 12)
        /\ kernel.max_write + 80 <= setup.buf
    BY DEF ProtocolInv, ProtocolTypeOK, AgreedOK, LlType, KernelType
  <2>2. ASSUME NEW opcode \in Opcodes
        PROVE  /\ Offset(opcode, ll.minor) = Offset(opcode, kernel.minor)
               /\ FileInfo(opcode, ll.minor) = FileInfo(opcode, kernel.minor)
    BY <2>1, LayoutsAlike
  <2>3. ASSUME NEW opcode \in Opcodes, NEW m \in FileInfo(opcode, ll.minor)
        PROVE  MemberEnd(opcode, m) <= Sent(opcode, kernel.minor)
    BY <2>1, <2>2, MembersSent
  <2>4. ASSUME NEW r \in {"entry", "create", "attr", "statfs"}
        PROVE  ReplySize(r, ll.minor) = ReplySize(r, kernel.minor)
    BY <2>1, LayoutsAlike
  <2> QED
    BY <2>1, <2>2, <2>3, <2>4 DEF SameLayout
<1> QED
  BY <1>1, ProtocolInvariance, PTL
-----------------------------------------------------------------------------
\* What libfuse's functions answer is among what may answer.
LEMMA LibRepliesListed ==
  ASSUME NEW opcode \in Opcodes
  PROVE  LibReplies(opcode) # {} /\ LibReplies(opcode) \subseteq ValidReplies(opcode)
<1> USE DEF LibReplies, ValidReplies, PathReplies, NameReplies, FileReplies, DirReplies,
            XattrReplies, LockReplies
<1>1. CASE opcode \in {"getxattr", "listxattr"}
  <2>1. LibReplies(opcode) = {XattrReply(size, res) : size \in 0..1, res \in 0..1}
    BY <1>1
  <2>2. \A size \in 0..1, res \in 0..1 : XattrReply(size, res) \in {"xattr", "buf", "err"}
    BY DEF XattrReply
  <2>3. {"xattr", "buf", "err"} \subseteq ValidReplies(opcode)
    BY <1>1
  <2>4. XattrReply(0, 0) \in LibReplies(opcode)
    BY <2>1
  <2> QED
    BY <2>1, <2>2, <2>3, <2>4
<1>2. CASE opcode \in AttrOps \cup NameOps
  BY <1>2 DEF AttrOps, NameOps
<1>3. CASE opcode \in FileOps
  BY <1>3 DEF FileOps
<1>4. CASE opcode \in DirOps
  BY <1>4 DEF DirOps
<1>5. CASE opcode \in OtherOps \cup {"setxattr", "removexattr"}
  BY <1>5 DEF OtherOps, LockOps
<1> QED
  BY <1>1, <1>2, <1>3, <1>4, <1>5 DEF Opcodes, XattrOps

\* So is what answers in place of a missing function.
LEMMA MissingRepliesListed ==
  ASSUME NEW opcode \in Opcodes
  PROVE  MissingReplies(opcode) # {} /\ MissingReplies(opcode) \subseteq ValidReplies(opcode)
<1>1. opcode # "forget" => "err" \in ValidReplies(opcode)
  BY DEF ValidReplies
<1>2. opcode = "forget" => "none" \in ValidReplies(opcode)
  BY DEF ValidReplies
<1> QED
  BY <1>1, <1>2, LibRepliesListed DEF MissingReplies, Missing, Granting

\* A FORGET is never refused, and needs no function of the file system.
LEMMA ForgetServed ==
  ASSUME ProtocolInv, kernel.state = "ready", NEW uid, NEW valid, NEW info, NEW f, uid # "stranger"
  PROVE  /\ Gate("forget", uid) = "pass" /\ LlOp("forget") \in LlOps(setup)
         /\ ~NoPath("forget", info, setup.nullpath) /\ ~Unsupported("forget", f, valid, info)
<1>1. ll.got_init
  BY DEF ProtocolInv, AgreedOK
<1>2. "forget" \in Opcodes /\ "forget" \notin LockOps
  BY DEF Opcodes, AttrOps, LockOps
<1>3. Gate("forget", uid) = "pass"
  BY <1>1, <1>2 DEF Gate
<1>4. LlOp("forget") \in LlOps(setup)
  BY <1>2 DEF LlOp, LlOps
<1>5. LibCalls("forget", valid, info) = {}
  BY <1>2 DEF LibCalls
<1> QED
  BY <1>3, <1>4, <1>5 DEF NoPath, Unsupported

\* Nor is the release of a file or a directory.
LEMMA ReleaseServed ==
  ASSUME ProtocolInv, kernel.state = "ready", NEW uid, NEW valid, NEW info,
         NEW opcode \in {"release", "releasedir"}
  PROVE  /\ Gate(opcode, uid) = "pass" /\ LlOp(opcode) \in LlOps(setup)
         /\ ~NoPath(opcode, info, setup.nullpath) /\ ~Unsupported(opcode, FsOf(setup), valid, info)
         /\ LibCalls(opcode, valid, info) # {}
<1>1. ll.got_init
  BY DEF ProtocolInv, AgreedOK
<1>2. opcode \in Opcodes /\ opcode \notin LockOps /\ opcode \in OnOpenFiles
  BY DEF Opcodes, FileOps, DirOps, LockOps, OnOpenFiles
<1>3. Gate(opcode, uid) = "pass"
  BY <1>1, <1>2 DEF Gate
<1>4. LlOp(opcode) \in LlOps(setup)
  BY <1>2 DEF LlOp, LlOps
<1>5. LibCalls(opcode, valid, info) # {} /\ LibCalls("releasedir", valid, info) = {"releasedir"}
  BY <1>2 DEF LibCalls, LockOps
<1>6. ~Lacks("releasedir", FsOf(setup))
  <2>1. Serves("releasedir", FsOf(setup), TRUE) \in {"releasedir", "ok"}
    BY DEF Serves, FsOf, WithoutData, DataCalls, NameCalls, OpenCalls, ChangeCalls, PlainCalls
  <2> QED
    BY <2>1 DEF Lacks
<1> QED
  BY <1>3, <1>4, <1>5, <1>6 DEF NoPath, Unsupported

\* An interface before 2.5 has no lock function to be called.
LEMMA OldHasNoLock ==
  ASSUME NEW s \in Setups, s.compat = 22, NEW hasPath
  PROVE  Answer("lock", FsOf(s), hasPath).form = "none"
<1>1. s.ops \subseteq FsFunctions /\ "lock" \notin s.ops
  BY SetupFields DEF Later
<1>2. Serves("lock", FsOf(s), hasPath) = "ENOSYS"
  BY <1>1 DEF Serves, FsOf, WithoutChange, NameCalls, OpenCalls, DataCalls, ChangeCalls
<1>3. "ENOSYS" \notin FsFunctions
  BY DEF FsFunctions, PathCalls, InfoCalls, LateInfoCalls, XattrOps
<1> QED
  BY <1>1, <1>2, <1>3 DEF Answer, FsOf

\* The member that holds the handle comes out of every message about an open file.
LEMMA HandleInInfo ==
  ASSUME setup \in Setups, NEW opcode, NEW hasPath, NEW valid, Held(opcode) = "given",
         NEW c \in LibCalls(opcode, valid, Info(opcode)),
         Answer(c, FsOf(setup), hasPath).form = "fi"
  PROVE  HandleMember(FsOf(setup)) \in Info(opcode)
<1>1. HandleMember(FsOf(setup)) \in Handle
  BY DEF HandleMember, Handle
<1>2. CASE opcode \in LockOps
  <2>1. LibCalls(opcode, valid, Info(opcode)) = {"lock"}
    BY <1>2 DEF LibCalls, LockOps
  <2>2. setup.compat # 22
    BY <2>1, OldHasNoLock
  <2>3. "fh" \in Info(opcode)
    BY <1>2 DEF Info, FileInfo, LockOps
  <2> QED
    BY <2>2, <2>3 DEF HandleMember, FsOf
<1>3. CASE opcode \in OfDir \cup (OfFile \ LockOps)
  <2>1. Handle \subseteq FileInfo(opcode, ll.minor)
    BY <1>3 DEF FileInfo, OfDir, OfFile, LockOps
  <2> QED
    BY <1>1, <2>1 DEF Info
<1>4. CASE ByHandle(opcode)
  BY <1>1, <1>4 DEF Info
<1> QED
  BY <1>2, <1>3, <1>4 DEF Held

\* A call with NULL for a path is one of those that may get it.
LEMMA NullPathsAllowed ==
  ASSUME NEW opcode, NEW info, NEW nullok \in BOOLEAN
  PROVE  /\ NullPath(opcode, info, nullok) \subseteq NullPathCalls
         /\ NullPath(opcode, info, nullok) \ {"flush", "lock"} # {} => nullok
<1>1. CASE opcode \in {"flush", "release"}
  BY <1>1 DEF NullPath, NullPathCalls, ByHandleAlone, LockOps
<1>2. CASE opcode \notin {"flush", "release"} /\ ~(nullok /\ (opcode = "releasedir" \/ ByHandleAlone(opcode, info)))
  BY <1>2 DEF NullPath
<1>3. CASE opcode \notin {"flush", "release"} /\ nullok /\ (opcode = "releasedir" \/ ByHandleAlone(opcode, info))
  <2>1. NullPath(opcode, info, nullok) = LibCalls(opcode, {}, info)
    BY <1>3 DEF NullPath
  <2>2. CASE opcode \in {"releasedir", "read", "write", "fsync"}
    BY <2>1, <2>2, <1>3 DEF LibCalls, LockOps, NullPathCalls
  <2>3. CASE opcode \in LockOps
    BY <2>1, <2>3, <1>3 DEF LibCalls, LockOps, NullPathCalls
  <2>4. CASE opcode = "getattr" /\ Handle \subseteq info
    BY <2>1, <2>4, <1>3 DEF LibCalls, LockOps, NullPathCalls
  <2> QED
    BY <1>3, <2>2, <2>3, <2>4 DEF ByHandleAlone
<1> QED
  BY <1>1, <1>2, <1>3

\* A request is answered, and calls the file system, as it should be.
LEMMA RequestKeepsCalls ==
  ASSUME ProtocolInv, NEW opcode \in Opcodes, NEW uid, NEW valid, NEW gone \in BOOLEAN,
         opcode = "forget" => uid # "stranger",
         Request(opcode, uid, valid, gone)
  PROVE  CallsKept'
<1> DEFINE f == FsOf(setup)
           gate == Gate(opcode, uid)
           served == gate = "pass" /\ LlOp(opcode) \in LlOps(setup)
           info == Info(opcode)
           missed == gone /\ NoPath(opcode, info, setup.nullpath)
           works == served /\ ~missed /\ ~Unsupported(opcode, f, valid, info)
           answers == IF served /\ ~missed
                      THEN {Answer(c, f, ~gone) : c \in LibCalls(opcode, valid, info)} ELSE {}
           replies == CASE works -> LibReplies(opcode)
                        [] gate = "pass" /\ ~served -> MissingReplies(opcode)
                        [] OTHER -> {"err"}
           nulls == IF served /\ gone THEN NullPath(opcode, info, setup.nullpath) ELSE {}
           err == CASE works -> "ok" [] gate # "pass" -> gate [] gate = "pass" /\ ~served -> Missing(opcode)
                    [] served /\ missed -> "ENOENT" [] OTHER -> "ENOSYS"
<1>0. setup \in Setups /\ setup.nullpath \in BOOLEAN /\ kernel.state = "ready" /\ setup' = setup
  BY SetupFields DEF ProtocolInv, ProtocolTypeOK, Request, Sends
<1>1. last' = [opcode |-> opcode, uid |-> uid, answers |-> answers, replies |-> replies,
               nulls |-> nulls, err |-> err, held |-> Held(opcode), found |-> Found(opcode, info)]
  BY DEF Request
<1>2. ASSUME Held(opcode) = "given", NEW a \in answers, a.form = "fi"
      PROVE  Found(opcode, info) = "given"
  <2>1. PICK c \in LibCalls(opcode, valid, info) : a = Answer(c, f, ~gone)
    BY <1>2
  <2>2. HandleMember(f) \in info
    BY <1>0, <1>2, <2>1, HandleInInfo
  <2> QED
    BY <1>2, <2>2 DEF Found
<1>3. nulls \subseteq NullPathCalls /\ (nulls \ {"flush", "lock"} # {} => setup.nullpath)
  BY <1>0, NullPathsAllowed
<1>4. opcode \in {"release", "releasedir"} => err = "ok" /\ answers # {}
  <2> SUFFICES ASSUME opcode \in {"release", "releasedir"} PROVE err = "ok" /\ answers # {}
    OBVIOUS
  <2>1. served /\ ~missed /\ works /\ LibCalls(opcode, valid, info) # {}
    BY <1>0, ReleaseServed
  <2>2. answers = {Answer(c, f, ~gone) : c \in LibCalls(opcode, valid, info)}
    BY <2>1
  <2>3. PICK c \in LibCalls(opcode, valid, info) : TRUE
    BY <2>1
  <2>4. Answer(c, f, ~gone) \in answers
    BY <2>2
  <2> QED
    BY <2>1, <2>4
<1>5. replies # {} /\ replies \subseteq ValidReplies(opcode)
  <2>1. CASE opcode = "forget"
    <3>1. works
      BY <1>0, <2>1, ForgetServed
    <3> QED
      BY <3>1, LibRepliesListed
  <2>2. CASE opcode # "forget"
    <3>1. "err" \in ValidReplies(opcode)
      BY <2>2 DEF ValidReplies
    <3> QED
      BY <3>1, LibRepliesListed, MissingRepliesListed
  <2> QED
    BY <2>1, <2>2
<1> HIDE DEF f, gate, served, info, missed, works, answers, replies, nulls, err
<1>6. HandleKept'
  BY <1>1, <1>2 DEF HandleKept
<1>7. PathGiven'
  BY <1>0, <1>1, <1>3, <1>4 DEF PathGiven
<1>8. RepliesListed'
  BY <1>1, <1>5 DEF RepliesListed
<1> QED
  BY <1>6, <1>7, <1>8 DEF CallsKept

\* What is not a request of the kernel for the file system asks nothing of it.
LEMMA OthersKeepCalls ==
  ASSUME last'.opcode \in {"none", "init", "destroy"}, last'.held = "none", last'.nulls = {}
  PROVE  CallsKept'
<1>1. last'.opcode \notin Opcodes /\ last'.opcode \notin {"release", "releasedir"}
  BY DEF Opcodes, AttrOps, NameOps, FileOps, DirOps, XattrOps, OtherOps, LockOps
<1> QED
  BY <1>1 DEF CallsKept, HandleKept, PathGiven, RepliesListed

\* In every call the file system finds its handle and a path where it must, and
\* every request gets a reply it may get.
THEOREM CallsAreKept == ProtocolSpec => []CallsKept
<1>1. ProtocolInit => CallsKept
  <2> SUFFICES ASSUME ProtocolInit PROVE CallsKept
    OBVIOUS
  <2>1. last.opcode = "none" /\ last.held = "none" /\ last.nulls = {}
    BY DEF ProtocolInit, Nothing
  <2>2. last.opcode \notin Opcodes
    BY <2>1 DEF Opcodes, AttrOps, NameOps, FileOps, DirOps, XattrOps, OtherOps, LockOps
  <2> QED
    BY <2>1, <2>2 DEF CallsKept, HandleKept, PathGiven, RepliesListed
<1>2. ProtocolInv /\ CallsKept /\ [ProtocolNext]_protocolVars => CallsKept'
  <2> SUFFICES ASSUME ProtocolInv, CallsKept, [ProtocolNext]_protocolVars PROVE CallsKept'
    OBVIOUS
  <2>1. CASE UNCHANGED <<setup, last>>
    BY <2>1 DEF CallsKept, HandleKept, PathGiven, RepliesListed
  <2>2. CASE \E opcode \in Opcodes, uid \in Uids, valid \in Valids, gone \in BOOLEAN :
               /\ opcode = "forget" => uid # "stranger"
               /\ Request(opcode, uid, valid, gone)
    BY <2>2, RequestKeepsCalls
  <2>3. CASE InitOther \/ InitSeven \/ DestroyMessage
    <3>1. last'.opcode \in {"init", "destroy"} /\ last'.held = "none" /\ last'.nulls = {}
      BY <2>3 DEF InitOther, InitSeven, DestroyMessage, Nothing
    <3> QED
      BY <3>1, OthersKeepCalls
  <2>4. CASE New \/ FuseDestroy \/ UNCHANGED protocolVars
    BY <2>1, <2>4 DEF New, FuseDestroy, protocolVars
  <2> QED
    BY <2>2, <2>3, <2>4 DEF ProtocolNext
<1> QED
  BY <1>1, <1>2, ProtocolInvariance, PTL DEF ProtocolSpec
=============================================================================
