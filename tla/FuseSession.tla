----------------------------- MODULE FuseSession -----------------------------
(***************************************************************************)
(* The multithreaded session of libfuse: the pool of workers that read     *)
(* requests from the kernel (fuse_loop_mt.c, fuse_session.c,               *)
(* fuse_kern_chan.c), the life of a request beside the INTERRUPT that may  *)
(* overtake it (fuse_lowlevel.c, fuse.c), and the end of the loop, where   *)
(* the main thread ends its workers with SIGUSR1.                          *)
(*                                                                         *)
(* A section under fuse_ll.lock or fuse.lock that waits for nothing is one *)
(* step.  A signal sent to a thread is taken at once, wherever it is.      *)
(***************************************************************************)
EXTENDS Naturals, Sequences, SequencesExt, FiniteSets

CONSTANTS
  Workers, Reqs, Nobody,
  Sessions,       \* the sessions considered: see SessionAssumption
  MaxAvail        \* ten, in the code

\* kind: what each request is, "wait" being a call that ends only when it is
\*       interrupted;
\* intr: no -o intr; -o intr with some intr_signal; with the default, SIGUSR1;
\* stop: how the session ends, if it does;
\* threads: those there may be before pthread_create fails.
ASSUME SessionAssumption ==
  /\ {Nobody, "main"} \cap Workers = {} /\ IsFiniteSet(Workers) /\ MaxAvail \in Nat \ {0}
  /\ Sessions \subseteq [kind : [Reqs -> {"op", "wait", "forget"}],
                          intr : {"off", "other", "usr1"},
                          stop : {"none", "unmount", "signal"},
                          threads : (SUBSET Workers) \ {{}}]

VARIABLES
  session,        \* one of Sessions
  kern,           \* a request in the kernel: "new", "queued", "read" or "done"
  kint,           \* its INTERRUPT: "new", "queued" or "read"
  mounted,
  list, interrupts, ctr, interrupted, func, req_lock,     \* struct fuse_ll, struct fuse_req
  frame, finished,                                        \* struct fuse_intr_data: see End
  exited, mt_lock, numavail, workers, finish, exit, usr1, \* fuse_session, fuse_mt, the SIGUSR1 handler
  pc, job, cursor, failed

kernelVars == <<session, kern, kint, mounted>>
reqVars == <<list, interrupts, ctr, interrupted, func, req_lock, frame, finished>>
mtVars == <<exited, mt_lock, numavail, workers, finish, exit, usr1, cursor, failed>>
sessionVars == <<kernelVars, reqVars, mtVars, pc, job>>

Main == "main"
Msg(op, r) == [op |-> op, req |-> r]
NoJob == Msg("none", CHOOSE r \in Reqs : TRUE)
Handling(r) == {w \in Workers : job[w] = Msg("request", r)}
Goto(w, to) == pc' = [pc EXCEPT ![w] = to]
Step(w, from, to) == pc[w] = from /\ Goto(w, to)

\* thread_exit_handler.  The fuse_intr_data of a handler is on its stack and ends
\* with the thread; what is left in its place may say anything.
End(t) ==
  LET lost == {r \in Reqs : frame[r] = "there" /\ t \in Handling(r)} IN
    /\ Goto(t, "dead")
    /\ frame' = [r \in Reqs |-> IF r \in lost THEN "ended" ELSE frame[r]]
    /\ \E said \in BOOLEAN : finished' = [r \in Reqs |-> IF r \in lost THEN said ELSE finished[r]]

IsForget(w) == job[w].op = "request" /\ session.kind[job[w].req] = "forget"

\* The next thread to be created: any, as long as it is none that runs.
First == CHOOSE w \in session.threads : TRUE
Unborn == {w \in session.threads : pc[w] = "unborn"}
Fresh == CHOOSE w \in Unborn : TRUE

\* fuse_session_loop_mt up to the creation of its first worker.
SessionInit ==
  /\ session \in Sessions
  /\ usr1 = IF session.intr = "usr1" THEN "ignore" ELSE "default"
  /\ kern = [r \in Reqs |-> "new"] /\ kint = [r \in Reqs |-> "new"] /\ mounted = TRUE
  /\ list = {} /\ interrupts = << >>
  /\ ctr = [r \in Reqs |-> 0]
  /\ interrupted = [r \in Reqs |-> FALSE] /\ func = [r \in Reqs |-> FALSE]
  /\ req_lock = [r \in Reqs |-> Nobody]
  /\ frame = [r \in Reqs |-> "none"] /\ finished = [r \in Reqs |-> FALSE]
  /\ exited = FALSE /\ mt_lock = Nobody /\ finish = 0 /\ exit = FALSE
  /\ pc = [t \in Workers \cup {Main} |-> IF t = Main THEN "test"
                                          ELSE IF t = First THEN "start" ELSE "unborn"]
  /\ workers = <<First>>
  /\ numavail = 1
  /\ job = [w \in Workers |-> NoJob]
  /\ cursor = Main /\ failed = FALSE
-----------------------------------------------------------------------------
(* The kernel and the user *)

Arrives(r) ==
  /\ mounted /\ kern[r] = "new"
  /\ kern' = [kern EXCEPT ![r] = "queued"]
  /\ UNCHANGED <<session, kint, mounted, reqVars, mtVars, pc, job>>

\* The caller of a request that is being served gets a signal.
CallerInterrupts(r) ==
  /\ mounted /\ kern[r] = "read" /\ session.kind[r] # "forget" /\ kint[r] = "new"
  /\ kint' = [kint EXCEPT ![r] = "queued"]
  /\ UNCHANGED <<session, kern, mounted, reqVars, mtVars, pc, job>>

\* Unmounting ends every request.
Unmount ==
  /\ session.stop = "unmount" /\ mounted
  /\ mounted' = FALSE
  /\ kern' = [r \in Reqs |-> "done"]
  /\ UNCHANGED <<session, kint, reqVars, mtVars, pc, job>>

\* exit_handler runs in the main thread, whose sem_wait fails unless it has not begun.
ExitSignal ==
  /\ session.stop = "signal" /\ ~exited /\ pc[Main] \in {"test", "sleep"}
  /\ exited' = TRUE
  /\ \/ pc[Main] = "sleep" /\ Goto(Main, "test")
     \/ UNCHANGED pc
  /\ UNCHANGED <<kernelVars, reqVars, mt_lock, numavail, workers, finish, exit, usr1, cursor, failed, job>>
-----------------------------------------------------------------------------
(* fuse_do_work *)

\* The test of exited; the loop ends with sem_post and pause.
Leave(w) == finish' = finish + 1 /\ Goto(w, "pause")
TestExited(w) == IF exited THEN Leave(w) ELSE Goto(w, "read") /\ UNCHANGED finish

\* sigaction(SIGUSR1): the handler is the whole process's.
InstallHandler(w) ==
  /\ pc[w] = "start" /\ TestExited(w)
  /\ usr1' = "exit"
  /\ UNCHANGED <<kernelVars, reqVars, exited, mt_lock, numavail, workers, exit, cursor, failed, job>>

\* A message that is read after the session exited is dropped.
ReadMessage(w, m) ==
  /\ mounted /\ pc[w] = "read"
  /\ IF exited THEN Leave(w) ELSE Goto(w, "lock") /\ UNCHANGED finish
  /\ IF m.op = "request"
       THEN /\ kern[m.req] = "queued" /\ kern' = [kern EXCEPT ![m.req] = "read"]
            /\ UNCHANGED kint
       ELSE /\ kint[m.req] = "queued" /\ kint' = [kint EXCEPT ![m.req] = "read"]
            /\ UNCHANGED kern
  /\ job' = [job EXCEPT ![w] = IF exited THEN NoJob ELSE m]
  /\ UNCHANGED <<session, mounted, reqVars, exited, mt_lock, numavail, workers, exit, usr1, cursor, failed>>

\* ENODEV.
ReadUnmounted(w) ==
  /\ ~mounted /\ pc[w] = "read" /\ Leave(w)
  /\ exited' = TRUE
  /\ UNCHANGED <<kernelVars, reqVars, mt_lock, numavail, workers, exit, usr1, cursor, failed, job>>

\* Mutant: no message takes its worker from the available ones.
NobodyBusy(w) == numavail

\* How many remain available when w turns to its message: the "disgusting hack".
Available(w) == IF IsForget(w) THEN numavail ELSE numavail - 1

MtLock(w) ==
  /\ pc[w] = "lock" /\ mt_lock = Nobody
  /\ IF exit
       THEN Goto(w, "returned") /\ UNCHANGED <<mt_lock, numavail>>
       ELSE /\ numavail' = Available(w)
            /\ IF numavail' = 0
                 THEN mt_lock' = w /\ Goto(w, "create")
                 ELSE Goto(w, "process") /\ UNCHANGED mt_lock
  /\ UNCHANGED <<kernelVars, reqVars, exited, workers, finish, exit, usr1, cursor, failed, job>>

\* fuse_start_thread: the thread runs before it is in the list.
CreateWorker(w) ==
  /\ pc[w] = "create" /\ Unborn # {}
  /\ pc' = [pc EXCEPT ![w] = "enlist", ![Fresh] = "start"]
  /\ UNCHANGED <<kernelVars, reqVars, mtVars, job>>

CreateFails(w) ==
  /\ Unborn = {}
  /\ Step(w, "create", "process")
  /\ mt_lock' = Nobody /\ failed' = TRUE
  /\ UNCHANGED <<kernelVars, reqVars, exited, numavail, workers, finish, exit, usr1, cursor, job>>

Unlisted == session.threads \ (Unborn \cup ToSet(workers))

EnlistWorker(w) ==
  /\ Step(w, "enlist", "process")
  /\ \E n \in Unlisted : workers' = Append(workers, n)
  /\ numavail' = numavail + 1 /\ mt_lock' = Nobody
  /\ UNCHANGED <<kernelVars, reqVars, exited, finish, exit, usr1, cursor, failed, job>>
-----------------------------------------------------------------------------
(* fuse_ll_process and the handlers of libfuse *)

\* do_interrupt: find_interrupted looks among the requests, then among the
\* interrupts that came before their request.
ProcessInterrupt(w, r) ==
  /\ pc[w] = "process" /\ job[w] = Msg("interrupt", r)
  /\ IF r \in list
       THEN /\ ctr' = [ctr EXCEPT ![r] = @ + 1] /\ Goto(w, "req_lock")
            /\ UNCHANGED interrupts
       ELSE /\ interrupts' = IF r \in ToSet(interrupts) THEN interrupts ELSE Append(interrupts, r)
            /\ Goto(w, "relock")
            /\ UNCHANGED ctr
  /\ UNCHANGED <<kernelVars, list, interrupted, func, req_lock, frame, finished, mtVars, job>>

\* Mutant: an interrupt that waits for another request is thrown away.
CheckDropping(r) ==
  /\ interrupted' = [interrupted EXCEPT ![r] = r \in ToSet(interrupts)]
  /\ interrupts' = << >>
  /\ UNCHANGED kint

\* check_interrupt: r's own interrupt, or else the first, which fuse_ll_process
\* answers with EAGAIN; the kernel sends it again if its request still runs.
CheckInterrupt(r) ==
  IF r \in ToSet(interrupts)
    THEN /\ interrupted' = [interrupted EXCEPT ![r] = TRUE]
         /\ interrupts' = SelectSeq(interrupts, LAMBDA i : i # r)
         /\ UNCHANGED kint
    ELSE /\ interrupts' = IF interrupts = << >> THEN << >> ELSE Tail(interrupts)
         /\ kint' = IF interrupts # << >> /\ kern[Head(interrupts)] = "read"
                      THEN [kint EXCEPT ![Head(interrupts)] = "queued"] ELSE kint
         /\ UNCHANGED interrupted

\* A FORGET's handler replies nothing; an operation may prepare for interrupts.
ProcessRequest(w, r) ==
  /\ pc[w] = "process" /\ job[w] = Msg("request", r)
  /\ CheckInterrupt(r)
  /\ list' = list \cup {r} /\ ctr' = [ctr EXCEPT ![r] = 1]
  /\ Goto(w, IF IsForget(w) \/ session.intr = "off" THEN "call" ELSE "prepare")
  /\ UNCHANGED <<session, kern, mounted, func, req_lock, frame, finished, mtVars, job>>

\* fuse_do_prepare_interrupt; fuse_interrupt returns when its own thread calls it.
PrepareInterrupt(w, r) ==
  /\ job[w].req = r /\ Step(w, "prepare", "call")
  /\ req_lock[r] = Nobody
  /\ func' = [func EXCEPT ![r] = TRUE]
  /\ frame' = [frame EXCEPT ![r] = "there"] /\ finished' = [finished EXCEPT ![r] = FALSE]
  /\ UNCHANGED <<kernelVars, list, interrupts, ctr, interrupted, req_lock, mtVars, job>>

AfterCall(w) == IF IsForget(w) \/ session.intr = "off" THEN "reply" ELSE "finish"

\* The file system's call returns.
CallReturned(w) ==
  /\ Step(w, "call", AfterCall(w))
  /\ session.kind[job[w].req] # "wait"
  /\ UNCHANGED <<kernelVars, reqVars, mtVars, job>>

\* fuse_do_finish_interrupt: first the flag, under fuse.lock.
FinishInterrupt(w, r) ==
  /\ job[w].req = r /\ Step(w, "finish", "unhook")
  /\ finished' = [finished EXCEPT ![r] = TRUE]
  /\ UNCHANGED <<kernelVars, list, interrupts, ctr, interrupted, func, req_lock, frame, mtVars, job>>

\* Mutant: the function is taken back without the lock of the request.
UnhookAtOnce(w, r) ==
  /\ job[w].req = r /\ Step(w, "unhook", "reply")
  /\ func' = [func EXCEPT ![r] = FALSE] /\ frame' = [frame EXCEPT ![r] = "none"]
  /\ UNCHANGED <<kernelVars, list, interrupts, ctr, interrupted, req_lock, finished, mtVars, job>>

\* Then fuse_req_interrupt_func(req, NULL, NULL), which waits for an
\* interrupter that has the lock; d goes out of scope after it.
Unhook(w, r) ==
  /\ job[w].req = r /\ Step(w, "unhook", "reply")
  /\ req_lock[r] = Nobody
  /\ func' = [func EXCEPT ![r] = FALSE] /\ frame' = [frame EXCEPT ![r] = "none"]
  /\ UNCHANGED <<kernelVars, list, interrupts, ctr, interrupted, req_lock, finished, mtVars, job>>

\* send_reply: the kernel has the answer before the request is taken off.
SendReply(w, r) ==
  /\ job[w].req = r /\ Step(w, "reply", "free")
  /\ kern' = [kern EXCEPT ![r] = "done"]
  /\ UNCHANGED <<session, kint, mounted, reqVars, mtVars, job>>

FreeReq(w, r) ==
  /\ job[w].req = r /\ Step(w, "free", "relock")
  /\ list' = list \ {r} /\ ctr' = [ctr EXCEPT ![r] = @ - 1]
  /\ func' = [func EXCEPT ![r] = FALSE]
  /\ UNCHANGED <<kernelVars, interrupts, interrupted, req_lock, frame, finished, mtVars, job>>

\* find_interrupted's "ugly locking".
LockInterrupted(w, r) ==
  /\ job[w].req = r /\ Step(w, "req_lock", IF func[r] THEN "interrupt" ELSE "unref")
  /\ req_lock[r] = Nobody /\ req_lock' = [req_lock EXCEPT ![r] = w]
  /\ interrupted' = [interrupted EXCEPT ![r] = TRUE]
  /\ UNCHANGED <<kernelVars, list, interrupts, ctr, func, frame, finished, mtVars, job>>

\* A turn of fuse_interrupt's loop: the signal interrupts a call that has begun
\* and passes unnoticed elsewhere, or it ends the thread.
Interrupt(w, r) ==
  /\ job[w].req = r /\ pc[w] = "interrupt"
  /\ IF finished[r]
       THEN Goto(w, "unref") /\ UNCHANGED <<frame, finished>>
       ELSE \E t \in Handling(r) :
              \/ session.intr = "usr1" /\ pc[t] \notin {"dead", "unborn"} /\ End(t)
              \/ /\ session.intr = "other" /\ pc[t] = "call"
                 /\ Goto(t, "finish") /\ UNCHANGED <<frame, finished>>
  /\ UNCHANGED <<kernelVars, list, interrupts, ctr, interrupted, func, req_lock, mtVars, job>>

Unref(w, r) ==
  /\ job[w].req = r /\ Step(w, "unref", "relock")
  /\ req_lock' = [req_lock EXCEPT ![r] = Nobody]
  /\ ctr' = [ctr EXCEPT ![r] = @ - 1]
  /\ UNCHANGED <<kernelVars, list, interrupts, interrupted, func, frame, finished, mtVars, job>>

\* Back in fuse_do_work: the worker leaves when too many are available.
Relock(w) ==
  /\ pc[w] = "relock" /\ mt_lock = Nobody
  /\ LET avail == IF IsForget(w) THEN numavail ELSE numavail + 1 IN
       IF avail <= MaxAvail
         THEN TestExited(w) /\ numavail' = avail /\ UNCHANGED workers
         ELSE /\ UNCHANGED finish
              /\ IF exit
                   THEN Goto(w, "returned") /\ numavail' = avail /\ UNCHANGED workers
                   ELSE /\ Goto(w, "unborn") /\ numavail' = avail - 1
                        /\ workers' = SelectSeq(workers, LAMBDA v : v # w)
  /\ job' = [job EXCEPT ![w] = NoJob]
  /\ UNCHANGED <<kernelVars, reqVars, exited, mt_lock, exit, usr1, cursor, failed>>

-----------------------------------------------------------------------------
(* fuse_session_loop_mt, from the wait for the end *)

MainTests ==
  /\ Step(Main, "test", IF exited THEN "kill" ELSE "sleep")
  /\ cursor' = IF exited /\ workers # << >> THEN Head(workers) ELSE cursor
  /\ UNCHANGED <<kernelVars, reqVars, exited, mt_lock, numavail, workers, finish, exit, usr1, failed, job>>

MainWakes ==
  /\ Step(Main, "sleep", "test")
  /\ finish > 0 /\ finish' = finish - 1
  /\ UNCHANGED <<kernelVars, reqVars, exited, mt_lock, numavail, workers, exit, usr1, cursor, failed, job>>

NextWorker(w) ==
  IF w = Last(workers) THEN Main
  ELSE workers[1 + CHOOSE i \in DOMAIN workers : workers[i] = w]

\* pthread_kill(w->thread_id, SIGUSR1), without mt.lock.
Kill ==
  /\ pc[Main] = "kill" /\ cursor # Main
  /\ IF cursor \notin ToSet(workers)
       THEN Goto(Main, "astray") /\ UNCHANGED <<cursor, frame, finished>>
       ELSE /\ cursor' = NextWorker(cursor)
            /\ IF usr1 = "exit" THEN End(cursor)
               ELSE /\ IF usr1 = "ignore" THEN UNCHANGED pc ELSE Goto(Main, "killed")
                    /\ UNCHANGED <<frame, finished>>
  /\ UNCHANGED <<kernelVars, list, interrupts, ctr, interrupted, func, req_lock, exited, mt_lock, numavail,
                 workers, finish, exit, usr1, failed, job>>

\* Mutant: the lock stays with the thread that died with it.
SetExitOnly ==
  /\ Step(Main, "kill", "join") /\ cursor = Main
  /\ exit' = TRUE
  /\ UNCHANGED <<kernelVars, reqVars, exited, mt_lock, numavail, workers, finish, usr1, cursor, failed, job>>

\* mt.exit = 1, and an unlock of a mutex that is somebody else's, if anybody's.
SetExit ==
  /\ Step(Main, "kill", "join") /\ cursor = Main
  /\ exit' = TRUE /\ mt_lock' = Nobody
  /\ UNCHANGED <<kernelVars, reqVars, exited, numavail, workers, finish, usr1, cursor, failed, job>>

JoinWorker ==
  /\ pc[Main] = "join" /\ workers # << >>
  /\ pc[Head(workers)] \in {"dead", "returned"} /\ mt_lock = Nobody
  /\ workers' = Tail(workers) /\ Goto(Head(workers), "unborn")
  /\ UNCHANGED <<kernelVars, reqVars, exited, mt_lock, numavail, finish, exit, usr1, cursor, failed, job>>

LoopReturns ==
  /\ Step(Main, "join", "returned") /\ workers = << >>
  /\ exited' = FALSE
  /\ UNCHANGED <<kernelVars, reqVars, mt_lock, numavail, workers, finish, exit, usr1, cursor, failed, job>>
-----------------------------------------------------------------------------
OnRequest(w, r) ==
  \/ ProcessInterrupt(w, r) \/ ProcessRequest(w, r)
  \/ PrepareInterrupt(w, r) \/ FinishInterrupt(w, r) \/ Unhook(w, r)
  \/ SendReply(w, r) \/ FreeReq(w, r)
  \/ LockInterrupted(w, r) \/ Interrupt(w, r) \/ Unref(w, r)

InPool(w) ==
  \/ InstallHandler(w) \/ ReadUnmounted(w)
  \/ \E op \in {"request", "interrupt"}, r \in Reqs : ReadMessage(w, Msg(op, r))
  \/ MtLock(w) \/ CreateWorker(w) \/ CreateFails(w) \/ EnlistWorker(w) \/ Relock(w)

WorkerStep(w) == InPool(w) \/ CallReturned(w) \/ \E r \in Reqs : OnRequest(w, r)

MainStep == MainTests \/ MainWakes \/ Kill \/ SetExit \/ JoinWorker \/ LoopReturns

SessionNext ==
  \/ \E r \in Reqs : Arrives(r) \/ CallerInterrupts(r)
  \/ Unmount \/ ExitSignal \/ MainStep
  \/ \E w \in Workers : WorkerStep(w)

\* Without the fairness, which follows.
SessionSteps == SessionInit /\ [][SessionNext]_sessionVars

\* Threads are scheduled.  Nobody has to use the file system or to end it.
SessionFairness ==
  /\ WF_sessionVars(MainStep)
  /\ \A w \in Workers : WF_sessionVars(WorkerStep(w))
-----------------------------------------------------------------------------
\* The session has ended, or is about to.
Over == exited \/ exit

\* fuse_interrupt reads a fuse_intr_data, and find_interrupted a request, only
\* while they exist: the handler that owns both goes on, replies and frees in
\* the meantime (fuse.c:911, fuse_lowlevel.c:1020-1026).  Except that it reads
\* what a thread left behind which SIGUSR1 ended (fuse_loop_mt.c:73-76): sent
\* by itself, as -o intr does unless another signal is asked for, or by the end
\* of the loop.
NoDangling ==
  \A w \in Workers :
    /\ pc[w] = "interrupt" =>
         \/ frame[job[w].req] = "there"
         \/ frame[job[w].req] = "ended" /\ (session.intr = "usr1" \/ Over)
    /\ pc[w] \in {"req_lock", "interrupt", "unref"} => ctr[job[w].req] > 0

\* However many calls block, a request that comes is taken from the kernel,
\* unless a thread could not be created or the session has ended: the pool
\* grows in time (fuse_loop_mt.c:117-127).
Served ==
  \A r \in Reqs : kern[r] = "queued" ~> kern[r] # "queued" \/ Over \/ failed

\* An INTERRUPT is not lost, whichever of it and its request is handled first
\* and whatever comes between: the request is marked, unless it is answered
\* before (fuse_lowlevel.c:1000-1079, 1505-1513).
InterruptKept ==
  \A r \in Reqs : kint[r] # "new" ~> interrupted[r] \/ kern[r] = "done" \/ Over \/ failed

\* The loop returns once the file system is unmounted, or once a signal is
\* taken in sem_wait, whatever the workers are at and whoever of them dies with
\* mt.lock (fuse_loop_mt.c:244-258).  Not so when the last listener could not
\* be created, when SIGUSR1 met no handler or a worker left during the walk
\* over the list, or when the handler was that of -o intr.
LoopEnds ==
  session.intr # "usr1" /\ (~mounted \/ (exited /\ pc[Main] = "test"))
    ~> pc[Main] \in {"returned", "killed", "astray"} \/ failed
=============================================================================
