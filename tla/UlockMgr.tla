------------------------------ MODULE UlockMgr ------------------------------
(***************************************************************************)
(* The user-space lock manager a libfuse file system calls with the locks  *)
(* it is asked for (ulockmgr.c): threads that share a list of owners, each *)
(* owner with a connection to a server of its own and a store of the files *)
(* it has sent there.  The server, another program, is external: it holds  *)
(* the locks, answers EAGAIN at once when it has to wait, and answers      *)
(* again when it has the lock or is told of a signal.                      *)
(*                                                                         *)
(* A request is sent and first answered under ulockmgr_lock; only a caller *)
(* that waits for its second answer has given the mutex back.              *)
(***************************************************************************)
EXTENDS Naturals, FiniteSets

CONSTANTS
  Callers,       \* threads
  LockOwners, Fds,
  UlockCalls,    \* what may be asked: see UlockCallAssumption
  Unlocked       \* the mutex when it is free

\* bytes: "some" or "all" of a file; a length of 0 from 0 is all.
ASSUME UlockCallAssumption ==
  /\ Unlocked \notin Callers /\ IsFiniteSet(Callers)
  /\ UlockCalls \subseteq [by : Callers, owner : LockOwners, fd : Fds, cmd : {"GETLK", "SETLK", "SETLKW"},
                           type : {"WRLCK", "UNLCK"}, bytes : {"some", "all"}]
  /\ \A t \in Callers : \E c \in UlockCalls : c.by = t

VARIABLES
  handler,       \* what SIGUSR1 does to a thread: "return", or "exit" as the session's handler does
  ulockmgr_lock,
  ulockmgr_cfd,  \* to the daemon: "none", "up", or "broken" since the daemon died
  owner_list,    \* the owners listed
  fds,           \* for an owner, the files stored and how many use each
  cfd,           \* the connection of an owner to its server: "none", "up" or "broken"
  at_op, asked, reply, owes,   \* of a thread: where it is, its request, the last answer, whether it is in inuse
  held,          \* what an owner holds at its server
  told,          \* what the callers were told it holds
  unsure         \* owners of whom more was asked at once, or whose server died

callVars == <<at_op, asked, reply, owes>>
lockVars == <<held, told, unsure>>
ulockVars == <<handler, ulockmgr_lock, ulockmgr_cfd, owner_list, fds, cfd, callVars, lockVars>>

Pieces == {"first", "rest"}
Extent(c) == {c.fd} \X (IF c.bytes = "all" THEN Pieces ELSE {"first"})
NoCall(t) == CHOOSE c \in UlockCalls : c.by = t
NoStore == [f \in {} |-> 0]

UlockInit ==
  /\ handler \in {"return", "exit"}
  /\ ulockmgr_lock = Unlocked /\ ulockmgr_cfd = "none"
  /\ owner_list = {} /\ fds = [o \in LockOwners |-> NoStore] /\ cfd = [o \in LockOwners |-> "none"]
  /\ at_op = [t \in Callers |-> "idle"]
  /\ asked = [t \in Callers |-> NoCall(t)]
  /\ reply = [t \in Callers |-> "none"] /\ owes = [t \in Callers |-> FALSE]
  /\ held = [o \in LockOwners |-> {}] /\ told = [o \in LockOwners |-> {}] /\ unsure = {}

Others(t) == {o \in LockOwners : o # asked[t].owner}
Idles(t) ==
  /\ at_op' = [at_op EXCEPT ![t] = "idle"] /\ asked' = [asked EXCEPT ![t] = NoCall(t)]
  /\ reply' = [reply EXCEPT ![t] = "none"] /\ owes' = [owes EXCEPT ![t] = FALSE]
Moves(t, to) == at_op' = [at_op EXCEPT ![t] = to]
UnlockAll(c) == c.cmd = "SETLK" /\ c.type = "UNLCK" /\ c.bytes = "all"
-----------------------------------------------------------------------------
(* ulockmgr_op *)

\* An unlock never waits.
AsSent(c) == IF c.cmd = "SETLKW" /\ c.type = "UNLCK" THEN [c EXCEPT !.cmd = "SETLK"] ELSE c

\* What the caller is told of its owner's locks.
Tells(c, error) ==
  told' = IF error # "ok" \/ c.cmd = "GETLK" THEN told
          ELSE [told EXCEPT ![c.owner] = IF c.type = "UNLCK" THEN @ \ Extent(c) ELSE @ \cup Extent(c)]
-----------------------------------------------------------------------------
(* ulockmgr_start_daemon, ulockmgr_new_owner *)

\* The daemon that died is noticed by a send that fails, and started by the
\* next call.  There may be no memory, no socket or no daemon.
NewOwner(o) ==
  /\ ulockmgr_cfd # "broken" /\ ulockmgr_cfd' = "up"
  /\ owner_list' = owner_list \cup {o} /\ cfd' = [cfd EXCEPT ![o] = "up"]
NoOwner ==
  /\ ulockmgr_cfd' = IF ulockmgr_cfd = "broken" THEN "none" ELSE ulockmgr_cfd
  /\ UNCHANGED <<owner_list, cfd>>
-----------------------------------------------------------------------------
(* ulockmgr_send_request *)

\* Without an owner there is nothing to unlock, and a test goes to the kernel.
WithoutOwner(c) == IF c.cmd = "GETLK" \/ c.type = "UNLCK" THEN "ok" ELSE "ENOLCK"
Wants(c) == c.cmd # "GETLK" /\ c.type # "UNLCK"

\* The store of the file, new ones included.  An unlock-all needs none.
Stored(c) ==
  LET stored == fds[c.owner]
  IN IF UnlockAll(c) THEN stored
     ELSE [f \in DOMAIN stored \cup {c.fd} |->
             (IF f \in DOMAIN stored THEN stored[f] ELSE 0) + (IF f = c.fd THEN 1 ELSE 0)]

\* The call up to its message; one that finds no owner and needs none is done.
SendsMessage(t, c) ==
  /\ owner_list' = owner_list \cup {c.owner}
  /\ cfd' = [cfd EXCEPT ![c.owner] = IF c.owner \in owner_list THEN @ ELSE "up"]
  /\ cfd'[c.owner] = "up"
  /\ at_op' = [at_op EXCEPT ![t] = "sent"] /\ asked' = [asked EXCEPT ![t] = c]
  /\ owes' = [owes EXCEPT ![t] = ~UnlockAll(c)]
  /\ fds' = [fds EXCEPT ![c.owner] = Stored(c)]
  /\ ulockmgr_lock' = t
  /\ UNCHANGED told

\* No memory, no socket, or nobody at the other end: the store stays as it was,
\* and an owner just made stays too.
NotSent(c, error) ==
  /\ Tells(c, error)
  /\ UNCHANGED <<ulockmgr_lock, fds, at_op, asked, owes>>

SendRequest(t, c) ==
  IF c.owner \in owner_list
  THEN /\ SendsMessage(t, c) \/ (NotSent(c, "EIO") /\ UNCHANGED <<owner_list, cfd>>)
       /\ UNCHANGED ulockmgr_cfd
  ELSE IF Wants(c)
  THEN \/ NewOwner(c.owner) /\ SendsMessage(t, c)
       \/ NewOwner(c.owner) /\ NotSent(c, "ENOLCK")
       \/ NoOwner /\ NotSent(c, "ENOLCK")
  ELSE /\ NotSent(c, WithoutOwner(c))
       /\ UNCHANGED <<ulockmgr_cfd, owner_list, cfd>>

Op(t, c) ==
  /\ at_op[t] = "idle" /\ ulockmgr_lock = Unlocked
  /\ SendRequest(t, AsSent(c))
  /\ unsure' = unsure \cup {o \in {c.owner} : \E u \in Callers : at_op[u] # "idle" /\ asked[u].owner = o}
  /\ UNCHANGED <<handler, reply, held>>

\* Mutant: an unlock-all takes the file away under a caller that waits with it.
KeptElsewhere(stored, fd) == {f \in DOMAIN stored : f # fd}
\* The files an unlock-all leaves with the owner.
KeptFiles(stored, fd) == {f \in DOMAIN stored : f # fd \/ stored[f] > 0}

\* From the last answer to the return: an unlock-all takes the file out of the
\* store, the last one the owner out of the list, and its server ends.
Finish(t, error) ==
  LET c == asked[t]
      o == c.owner
      stored == IF owes[t] THEN [fds[o] EXCEPT ![c.fd] = @ - 1] ELSE fds[o]
      kept == IF UnlockAll(c) THEN KeptFiles(stored, c.fd) ELSE DOMAIN stored
      gone == UnlockAll(c) /\ kept = {}
  IN /\ ulockmgr_lock' = Unlocked
     /\ fds' = [fds EXCEPT ![o] = [f \in kept |-> stored[f]]]
     /\ owner_list' = IF gone THEN owner_list \ {o} ELSE owner_list
     /\ cfd' = IF gone THEN [cfd EXCEPT ![o] = "none"] ELSE cfd
     /\ held' = IF gone THEN [held EXCEPT ![o] = {}] ELSE held
     /\ Idles(t)
     /\ Tells(c, IF UnlockAll(c) THEN "ok" ELSE error)
     /\ UNCHANGED <<handler, ulockmgr_cfd, unsure>>

FirstAnswer(t) ==
  /\ at_op[t] = "sent" /\ reply[t] # "none"
  /\ \/ /\ asked[t].cmd = "SETLKW" /\ reply[t] = "EAGAIN"
        /\ Moves(t, "wait") /\ ulockmgr_lock' = Unlocked
        /\ reply' = [reply EXCEPT ![t] = "none"]
        /\ UNCHANGED <<handler, ulockmgr_cfd, owner_list, fds, cfd, asked, owes, lockVars>>
     \/ /\ ~(asked[t].cmd = "SETLKW" /\ reply[t] = "EAGAIN")
        /\ Finish(t, reply[t])

\* The second answer is there, and the mutex is free again.
LastAnswer(t) ==
  /\ at_op[t] = "wait" /\ reply[t] # "none" /\ ulockmgr_lock = Unlocked
  /\ Finish(t, reply[t])

\* SIGUSR1, let in only around the wait, is passed on to the server; the
\* handler may end the thread instead, in the middle of the call.
Signalled(t) ==
  /\ at_op[t] = "wait" /\ reply[t] = "none"
  /\ IF handler = "exit"
       THEN Moves(t, "dead") /\ UNCHANGED reply
       ELSE /\ cfd[asked[t].owner] # "none"
            /\ reply' = [reply EXCEPT ![t] = IF cfd[asked[t].owner] = "up" THEN "EINTR" ELSE "EIO"]
            /\ UNCHANGED at_op
  /\ UNCHANGED <<handler, ulockmgr_lock, ulockmgr_cfd, owner_list, fds, cfd, asked, owes, lockVars>>
-----------------------------------------------------------------------------
(* The server, external *)

Conflicts(t) == \E o \in Others(t) : held[o] \cap Extent(asked[t]) # {}
Grants(t) ==
  LET c == asked[t]
  IN held' = IF c.cmd = "GETLK" THEN held
             ELSE [held EXCEPT ![c.owner] = IF c.type = "UNLCK" THEN @ \ Extent(c) ELSE @ \cup Extent(c)]

Serve(t) ==
  /\ at_op[t] = "sent" /\ reply[t] = "none" /\ cfd[asked[t].owner] = "up"
  /\ IF asked[t].cmd # "GETLK" /\ asked[t].type = "WRLCK" /\ Conflicts(t)
       THEN reply' = [reply EXCEPT ![t] = "EAGAIN"] /\ UNCHANGED held
       ELSE reply' = [reply EXCEPT ![t] = "ok"] /\ Grants(t)
  /\ UNCHANGED <<handler, ulockmgr_lock, ulockmgr_cfd, owner_list, fds, cfd, at_op, asked, owes, told, unsure>>

\* A lock waited for; nobody need be there any more to hear of it.
GrantLate(t) ==
  /\ at_op[t] \in {"wait", "dead"} /\ reply[t] = "none" /\ cfd[asked[t].owner] = "up" /\ ~Conflicts(t)
  /\ reply' = [reply EXCEPT ![t] = "ok"] /\ Grants(t)
  /\ UNCHANGED <<handler, ulockmgr_lock, ulockmgr_cfd, owner_list, fds, cfd, at_op, asked, owes, told, unsure>>

\* The end of a server ends its locks and every answer it owes.  One at a time
\* is broken: that is a bound.
ServerDies(o) ==
  /\ cfd[o] = "up" /\ \A p \in LockOwners : cfd[p] # "broken"
  /\ cfd' = [cfd EXCEPT ![o] = "broken"]
  /\ held' = [held EXCEPT ![o] = {}] /\ unsure' = unsure \cup {o}
  /\ reply' = [t \in Callers |-> IF at_op[t] \in {"sent", "wait"} /\ asked[t].owner = o /\ reply[t] = "none"
                                     THEN "EIO" ELSE reply[t]]
  /\ UNCHANGED <<handler, ulockmgr_lock, ulockmgr_cfd, owner_list, fds, at_op, asked, owes, told>>
DaemonDies ==
  /\ ulockmgr_cfd = "up" /\ ulockmgr_cfd' = "broken"
  /\ UNCHANGED <<handler, ulockmgr_lock, owner_list, fds, cfd, callVars, lockVars>>

UlockNext ==
  \/ \E c \in UlockCalls : Op(c.by, c)
  \/ \E t \in Callers :
       FirstAnswer(t) \/ LastAnswer(t) \/ Signalled(t)
       \/ Serve(t) \/ GrantLate(t)
  \/ \E o \in LockOwners : ServerDies(o)
  \/ DaemonDies

UlockSpec == UlockInit /\ [][UlockNext]_ulockVars
-----------------------------------------------------------------------------
\* A caller that waits without the mutex finds its owner, its connection and
\* its file when it comes back, whatever other threads of the owner unlock
\* meanwhile (inuse, ulockmgr.c:268, 287, 321-338); and every use of a file is
\* given back, but for that of a thread the signal's handler ended.
StoresInUse ==
  \A o \in LockOwners :
    /\ \A t \in Callers : owes[t] /\ asked[t].owner = o => o \in owner_list /\ asked[t].fd \in DOMAIN fds[o]
    /\ \A f \in DOMAIN fds[o] :
         fds[o][f] = Cardinality({t \in Callers : owes[t] /\ asked[t].owner = o /\ asked[t].fd = f})

\* What the callers of an owner were told is what its server holds, when none
\* of them is in a call: a wait that was interrupted has not taken the lock,
\* and what an unlock-all "forces OK" is gone.  Not so for threads of one
\* owner that call at once, nor once a server died.
LocksTold ==
  \A o \in LockOwners \ unsure :
    (\A t \in Callers : asked[t].owner = o => at_op[t] = "idle") => told[o] = held[o]

UlockKept == StoresInUse /\ LocksTold
=============================================================================
