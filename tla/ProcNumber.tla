----------------------------- MODULE ProcNumber -----------------------------
(***************************************************************************)
(* A /proc file that prints one number, and the library's loop that reads  *)
(* it.  The read handlers of lock_kmod (deadlock_syscall_num) and sysmon   *)
(* (sysmon_uid, sysmon_toggle) are the same: a global, temp, both counts   *)
(* the characters just printed and remembers that the next read is to say  *)
(* end of file.  It belongs to the file and not to who reads it, and three *)
(* steps of a handler use it: the test, the copy and the return.           *)
(*                                                                         *)
(* A reader is a process in get_syscall_num of class_thread.c: it reads    *)
(* the file to its end and takes what its buffer c then holds for a        *)
(* number, whether or not a read ever filled c.                            *)
(***************************************************************************)
EXTENDS Integers

CONSTANTS
  Readers,
  Garbage,        \* what atoi may make of a buffer nothing was read into
  NoText,         \* such a buffer
  Overlap         \* may two readers have the file open at once?

ASSUME OverlapAssumption == Overlap \in BOOLEAN
ASSUME TextAssumption == NoText \notin Int /\ Garbage \subseteq Int

VARIABLES
  number,         \* what the file prints: syscall_num of the module
  temp,           \* temp_syscall_num: 0, or 1 for the length of the text
  rpc,            \* where a reader is
  text,           \* the text of the current read: the handler's, then the user's
  c,              \* the library's buffer
  cached          \* the library's syscall_num, -1 until known

fileVars == <<number, temp, rpc, text, c, cached>>

FileInit ==
  /\ number = 0
  /\ temp = 0
  /\ rpc = [r \in Readers |-> "closed"]
  /\ text = [r \in Readers |-> NoText]
  /\ c = [r \in Readers |-> NoText]
  /\ cached = [r \in Readers |-> -1]

ReadGoto(r, label) == rpc' = [rpc EXCEPT ![r] = label]
Reading(r) == rpc[r] # "closed"
-----------------------------------------------------------------------------
\* while (syscall_num == -1): fopen, with c uninitialised.
Open(r) ==
  /\ rpc[r] = "closed"
  /\ cached[r] = -1
  /\ ~Overlap => \A q \in Readers : ~Reading(q)
  /\ ReadGoto(r, "test")
  /\ c' = [c EXCEPT ![r] = NoText]
  /\ UNCHANGED <<number, temp, text, cached>>

\* Mutant: the test is the wrong way round.
ReadTestInverted(r) ==
  /\ rpc[r] = "test"
  /\ ReadGoto(r, IF temp # 0 THEN "print" ELSE "clear")
  /\ text' = [text EXCEPT ![r] = NoText]
  /\ UNCHANGED <<number, temp, c, cached>>

\* A read of the file: print unless the last read did.
ReadTest(r) ==
  /\ rpc[r] = "test"
  /\ ReadGoto(r, IF temp = 0 THEN "print" ELSE "clear")
  /\ text' = [text EXCEPT ![r] = NoText]
  /\ UNCHANGED <<number, temp, c, cached>>

ReadPrint(r) ==
  /\ rpc[r] = "print"
  /\ text' = [text EXCEPT ![r] = number]
  /\ temp' = 1
  /\ ReadGoto(r, "copy")
  /\ UNCHANGED <<number, c, cached>>

\* copy_to_user copies temp characters, however many that is by now.
ReadCopy(r) ==
  /\ rpc[r] = "copy"
  /\ text' = [text EXCEPT ![r] = IF temp = 0 THEN NoText ELSE @]
  /\ ReadGoto(r, "return")
  /\ UNCHANGED <<number, temp, c, cached>>

ReadClear(r) ==
  /\ rpc[r] = "clear"
  /\ temp' = 0
  /\ ReadGoto(r, "return")
  /\ UNCHANGED <<number, text, c, cached>>

\* The handler returns temp: above 0 fgets fills c and asks for more, 0 is the
\* end of the file.
ReadMore(r) ==
  /\ rpc[r] = "return" /\ temp > 0
  /\ c' = [c EXCEPT ![r] = text[r]]
  /\ ReadGoto(r, "test")
  /\ UNCHANGED <<number, temp, text, cached>>

ReadEnd(r) ==
  /\ rpc[r] = "return" /\ temp = 0
  /\ ReadGoto(r, "atoi")
  /\ UNCHANGED <<number, temp, text, c, cached>>

\* atoi(c); only a positive number is kept, otherwise the loop reads again.
Atoi(r) ==
  /\ rpc[r] = "atoi"
  /\ \E n \in IF c[r] = NoText THEN Garbage ELSE {c[r]} :
       cached' = IF n > 0 THEN [cached EXCEPT ![r] = n] ELSE cached
  /\ ReadGoto(r, "closed")
  /\ c' = [c EXCEPT ![r] = NoText] /\ text' = [text EXCEPT ![r] = NoText]
  /\ UNCHANGED <<number, temp>>

ReadStep(r) ==
  \/ ReadTest(r) \/ ReadPrint(r) \/ ReadCopy(r) \/ ReadClear(r)
  \/ ReadMore(r) \/ ReadEnd(r) \/ Atoi(r)

=============================================================================
