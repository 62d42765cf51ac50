---------------------------- MODULE MCClassThread ----------------------------
(***************************************************************************)
(* A program of the class_thread library for TLC, in two parts that share  *)
(* no state: bestoffer's threads, one process, over the system call they   *)
(* lock with; and the module that puts the system call into a table of     *)
(* four entries, two of them vacant, so that another module can push it to *)
(* the second or leave it none, with the programs that look its number up. *)
(***************************************************************************)
EXTENDS BestOffer, KmodLifecycle

CONSTANT Pid

VARIABLE part

MCThreads == {Main, Thd1, Thd2}
MCProcs == {Pid}
MCProcOf == [t \in MCThreads |-> Pid]

MCPositions == 0 .. 3
MCVacant == {2, 3}

\* An uninitialised buffer may look like no number, 0 or an entry of the table.
MCGarbage == {0, 1, 3}

ClassInit == part \in {"program", "module"} /\ BInit /\ LifeInit

ClassNext ==
  /\ UNCHANGED part
  /\ \/ part = "program" /\ BNext /\ UNCHANGED lifeVars
     \/ part = "module" /\ LifeNext /\ UNCHANGED allVars

\* Only the program's behaviours are fair; the module is checked for safety.
ClassSpec == ClassInit /\ [][ClassNext]_<<part, allVars, lifeVars>> /\ BFairness
=============================================================================
