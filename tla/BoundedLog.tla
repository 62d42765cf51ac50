----------------------------- MODULE BoundedLog -----------------------------
(***************************************************************************)
(* What the sysmon log promises: a queue of at most Bound lines, at which  *)
(* one process has its turn at a time.  A writer's turn adds its one line  *)
(* to the end, and takes one away at the front only if the queue is full;  *)
(* a reader's turn takes lines from the front, as many as it likes.  So a  *)
(* line that no reader took was lost to a full queue.  How lines are       *)
(* stored is left open; LogBuffer, the ring of kmalloc'ed strings of       *)
(* log.c, implements it.                                                   *)
(***************************************************************************)
EXTENDS Naturals, Sequences

CONSTANTS Bound, Line, Writers, Takers, Nobody

VARIABLES log, turn     \* turn: whose it is

Init == log = <<>> /\ turn = Nobody

Enter(p) == turn = Nobody /\ turn' = p /\ UNCHANGED log

\* A reader may go whenever it likes, a writer only with its line added.
Leave == turn \in Takers /\ turn' = Nobody /\ UNCHANGED log

\* A line is logged; there is room for it.
Add(line) ==
  /\ turn \in Writers /\ turn' = Nobody
  /\ Len(log) < Bound /\ log' = Append(log, line)

\* The oldest line is given up, which only a full log may do.
Overwrite == turn \in Writers /\ Len(log) = Bound /\ log' = Tail(log) /\ UNCHANGED turn

\* A reader consumes the oldest line.
Take == turn \in Takers /\ log # <<>> /\ log' = Tail(log) /\ UNCHANGED turn

Next ==
  \/ \E p \in Writers \cup Takers : Enter(p)
  \/ Leave \/ (\E line \in Line : Add(line)) \/ Overwrite \/ Take

Spec == Init /\ [][Next]_<<log, turn>>
=============================================================================
