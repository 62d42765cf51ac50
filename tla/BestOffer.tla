------------------------------ MODULE BestOffer ------------------------------
(***************************************************************************)
(* bestoffer, the program of the deadlocks project, on top of lock_kmod.   *)
(* Its main thread initialises two class mutexes and creates two threads,  *)
(* which set two prices for ever, taking the mutexes in opposite orders:   *)
(*   thd1: lock; wglass = 15.11;  lock; korg = 465.01; unlock; unlock      *)
(*   thd2: lock; korg = 510.05;   lock; wglass = 23;   unlock; unlock      *)
(* With a pthread mutex for each price this deadlocks.  lock_kmod gives    *)
(* the process a single recursive lock whichever mutex is passed.          *)
(***************************************************************************)
EXTENDS LockKmod, Sequences

CONSTANTS Main, Thd1, Thd2

ASSUME CastAssumption ==
  /\ Threads = {Main, Thd1, Thd2}
  /\ Main # Thd1 /\ Main # Thd2 /\ Thd1 # Thd2
  /\ MaxDepth = 2

VARIABLES
  at,             \* the index of a thread's next operation, 0 before it starts
  wglass, korg    \* the prices

allVars == <<vars, at, wglass, korg>>

\* An operation is a call of the library, the creation of a thread, or a store.
\* A price is the name of the thread that set it.
DoCall(c) == [op |-> "call", cmd |-> c]
DoCreate(t) == [op |-> "create", thread |-> t]
DoStore(var) == [op |-> "store", var |-> var]

MainProgram ==
  << DoCall("Other"), DoCall("Other"),
     DoCall("InitMutex"), DoCall("InitMutex"),
     DoCreate(Thd1), DoCreate(Thd2) >>
Transaction(first, second) ==
  << DoCall("LockMutex"), DoStore(first), DoCall("LockMutex"), DoStore(second),
     DoCall("UnlockMutex"), DoCall("UnlockMutex") >>

Program(t) ==
  CASE t = Main -> MainProgram
    [] t = Thd1 -> Transaction("wglass", "korg")
    [] t = Thd2 -> Transaction("korg", "wglass")

Ready(t, op) ==
  /\ pc[t] = "user"
  /\ at[t] \in 1 .. Len(Program(t))
  /\ Program(t)[at[t]].op = op

\* The two threads loop for ever; main runs its program once, then joins them.
Following(t) == IF t # Main /\ at[t] = Len(Program(t)) THEN 1 ELSE at[t] + 1
-----------------------------------------------------------------------------
BInit ==
  /\ Init
  /\ at = [t \in Threads |-> IF t = Main THEN 1 ELSE 0]
  /\ wglass = Nobody /\ korg = Nobody

LibraryCall(t) ==
  /\ Ready(t, "call")
  /\ Call(t, Program(t)[at[t]].cmd)
  /\ at' = [at EXCEPT ![t] = Following(t)]
  /\ UNCHANGED <<wglass, korg>>

\* class_thread_create: pthread_create, which is taken to succeed.
CreateThread(t) ==
  /\ Ready(t, "create")
  /\ at' = [at EXCEPT ![t] = Following(t), ![Program(t)[at[t]].thread] = 1]
  /\ UNCHANGED <<vars, wglass, korg>>

SetPrice(t) ==
  /\ Ready(t, "store")
  /\ LET var == Program(t)[at[t]].var IN
       /\ wglass' = IF var = "wglass" THEN t ELSE wglass
       /\ korg' = IF var = "korg" THEN t ELSE korg
  /\ at' = [at EXCEPT ![t] = Following(t)]
  /\ UNCHANGED vars

Client(t) == LibraryCall(t) \/ CreateThread(t) \/ SetPrice(t)
Kernel(t) == Step(t) /\ UNCHANGED <<at, wglass, korg>>

BNext == \E t \in Threads : Client(t) \/ Kernel(t)

\* The scheduler runs every thread of the program, in and out of the kernel.
BFairness ==
  \A t \in Threads :
    /\ WF_allVars(Client(t)) /\ WF_allVars(Kernel(t))
    /\ SF_allVars(InfoLock(t) /\ UNCHANGED <<at, wglass, korg>>)
    /\ SF_allVars(DataLock(t) /\ UNCHANGED <<at, wglass, korg>>)

BSpec == BInit /\ [][BNext]_allVars /\ BFairness
-----------------------------------------------------------------------------
\* The two prices are one offer: whoever finds the lock free finds both set by
\* the same thread, though each thread sets them one by one and retries, tests
\* and releases of both are interleaved.
OfferWhole == (\A t \in Threads : Owed(t) = 0) => wglass = korg

\* README.md:12, "You should see the program run indefinitely because the
\* locking issues have been resolved": offers are completed for ever.
Completes(t) == at[t] = Len(Program(t)) /\ LibraryCall(t)
RunsIndefinitely == []<><<\E t \in {Thd1, Thd2} : Completes(t)>>_allVars
=============================================================================
