------------------------------ MODULE LogBuffer ------------------------------
(***************************************************************************)
(* sysmon's log, log.c: a ring of Capacity pointers to kmalloc'ed lines,   *)
(* filled by monitor_handler in the context of the task whose system call  *)
(* was probed and emptied by read_log, the read of /proc/sysmon_log.  Both *)
(* run under log_mutex.  Between two steps of one thread any other may     *)
(* run, so the mutex, and not the grain of the actions, is what keeps them *)
(* apart.                                                                  *)
(*                                                                         *)
(* A line is its allocation: a pointer no other kmalloc returned (`id',    *)
(* handed out in order) and the length of its text.  `heap' is the set of  *)
(* pointers that have been kmalloc'ed and not kfree'd; a ring entry keeps  *)
(* its pointer after kfree, as in the code.                                *)
(***************************************************************************)
EXTENDS Integers, Sequences

CONSTANTS
  Handlers,     \* tasks that run monitor_handler
  Readers,      \* processes that read /proc/sysmon_log
  Capacity,     \* LOG_BUFFER_CAPACITY
  Lens,         \* the lengths a line may have, its newline included
  Counts,       \* the buffer sizes a reader may pass
  Unowned,      \* log_mutex held by nobody
  MaxLines      \* bound: the lines logged in one behaviour

ASSUME CapacityAssumption == Capacity \in Nat /\ Capacity >= 2
ASSUME SizesAssumption == Lens \subseteq Nat \ {0} /\ Counts \subseteq Nat
ASSUME ThreadsAssumption ==
  Handlers \cap Readers = {} /\ Unowned \notin Handlers \cup Readers
ASSUME MaxLinesAssumption == MaxLines \in Nat

VARIABLES
  logs_buffer,  \* the ring: an entry is a line, or NULL before its first use
  start, end,   \* the oldest line, and the entry the next line goes to
  log_mutex,
  heap,         \* pointers allocated and not freed
  nextId,       \* the pointer kmalloc returns next
  pc,
  count,        \* read_log's argument, per reader
  total_copied, \* read_log's local, per reader
  result        \* what the last read_log of a reader returned

vars == <<logs_buffer, start, end, log_mutex, heap, nextId, pc, count,
          total_copied, result>>

Threads == Handlers \cup Readers
Index == 0 .. Capacity - 1
Line == [id : 0 .. MaxLines, len : Lens]
NULL == [id |-> -1, len |-> 0]
EFAULT == -14

Succ(i) == (i + 1) % Capacity

\* How many lines the ring holds, and where the k-th oldest of them is.
Size == IF start <= end THEN end - start ELSE end - start + Capacity
Entry(k) == IF start + k < Capacity THEN start + k ELSE start + k - Capacity
-----------------------------------------------------------------------------
\* init_log: kcalloc'ed entries, both indexes 0.
Init ==
  /\ logs_buffer = [i \in Index |-> NULL]
  /\ start = 0 /\ end = 0
  /\ log_mutex = Unowned
  /\ heap = {}
  /\ nextId = 0
  /\ pc = [t \in Threads |-> "idle"]
  /\ count = [r \in Readers |-> 0]
  /\ total_copied = [r \in Readers |-> 0]
  /\ result = [r \in Readers |-> 0]

Goto(t, label) == pc' = [pc EXCEPT ![t] = label]
Lock(t) == log_mutex = Unowned /\ log_mutex' = t
Unlock == log_mutex' = Unowned

\* Mutant: the step past the oldest line without its kfree.
DropOldestLeak == heap' = heap /\ start' = Succ(start)

\* kfree(logs_buffer[start]) and the step past it, which read_log and
\* monitor_handler share.
DropOldest ==
  /\ heap' = heap \ {logs_buffer[start].id}
  /\ start' = Succ(start)
-----------------------------------------------------------------------------
\* read_log(count): take the mutex, nothing copied yet.
ReadLock(r) ==
  /\ pc[r] = "idle"
  /\ Lock(r)
  /\ Goto(r, "copying")
  /\ \E n \in Counts : count' = [count EXCEPT ![r] = n]
  /\ total_copied' = [total_copied EXCEPT ![r] = 0]
  /\ UNCHANGED <<logs_buffer, start, end, heap, nextId, result>>

\* The oldest line exists and what is left of the user's buffer can hold it.
Fits(r) ==
  start # end /\ total_copied[r] + logs_buffer[start].len <= count[r]

ReadCopy(r) ==
  /\ pc[r] = "copying" /\ Fits(r)
  /\ DropOldest
  /\ total_copied' = [total_copied EXCEPT ![r] = @ + logs_buffer[start].len]
  /\ UNCHANGED <<logs_buffer, end, log_mutex, nextId, pc, count, result>>

Return(r, value) ==
  /\ Unlock
  /\ Goto(r, "idle")
  /\ result' = [result EXCEPT ![r] = value]
  /\ UNCHANGED <<logs_buffer, start, end, heap, nextId, count, total_copied>>

\* copy_to_user could not write the user's buffer.  The lines this call has
\* already copied stay freed.
ReadFault(r) == pc[r] = "copying" /\ Fits(r) /\ Return(r, EFAULT)

\* The ring is empty, or its oldest line does not fit.
ReadDone(r) == pc[r] = "copying" /\ ~Fits(r) /\ Return(r, total_copied[r])
-----------------------------------------------------------------------------
\* Mutant: the ring counts as full one line early.
HandlerLockEarly(h) ==
  /\ pc[h] = "idle"
  /\ nextId < MaxLines
  /\ Lock(h)
  /\ Goto(h, IF start \in {Succ(end), Succ(Succ(end))} THEN "overwrite" ELSE "store")
  /\ UNCHANGED <<logs_buffer, start, end, heap, nextId, count, total_copied,
                 result>>

HandlerLock(h) ==
  /\ pc[h] = "idle"
  /\ nextId < MaxLines
  /\ Lock(h)
  /\ Goto(h, IF Succ(end) = start THEN "overwrite" ELSE "store")
  /\ UNCHANGED <<logs_buffer, start, end, heap, nextId, count, total_copied,
                 result>>

\* The ring is full: the oldest line makes room.
HandlerOverwrite(h) ==
  /\ pc[h] = "overwrite"
  /\ DropOldest
  /\ Goto(h, "store")
  /\ UNCHANGED <<logs_buffer, end, log_mutex, nextId, count, total_copied,
                 result>>

\* kmalloc, copy the line into it, publish it, release the mutex.
HandlerStore(h) ==
  /\ pc[h] = "store"
  /\ \E n \in Lens :
       logs_buffer' = [logs_buffer EXCEPT ![end] = [id |-> nextId, len |-> n]]
  /\ heap' = heap \cup {nextId}
  /\ nextId' = nextId + 1
  /\ end' = Succ(end)
  /\ Unlock
  /\ Goto(h, "idle")
  /\ UNCHANGED <<start, count, total_copied, result>>
-----------------------------------------------------------------------------
\* What a thread does once it holds the mutex.
Critical(t) ==
  \/ t \in Readers /\ (ReadCopy(t) \/ ReadFault(t) \/ ReadDone(t))
  \/ t \in Handlers /\ (HandlerOverwrite(t) \/ HandlerStore(t))

Next ==
  \/ \E r \in Readers : ReadLock(r) \/ ReadCopy(r) \/ ReadFault(r) \/ ReadDone(r)
  \/ \E h \in Handlers : HandlerLock(h) \/ HandlerOverwrite(h) \/ HandlerStore(h)

\* A thread inside its critical section is scheduled; nobody has to call.
Fairness == \A t \in Threads : WF_vars(Critical(t))

Spec == Init /\ [][Next]_vars
FairSpec == Spec /\ Fairness
-----------------------------------------------------------------------------
TypeOK ==
  /\ logs_buffer \in [Index -> Line \cup {NULL}]
  /\ start \in Index /\ end \in Index
  /\ log_mutex \in Threads \cup {Unowned}
  /\ heap \subseteq 0 .. MaxLines
  /\ nextId \in 0 .. MaxLines
  /\ pc \in [Threads -> {"idle", "copying", "overwrite", "store"}]
  /\ count \in [Readers -> Nat]
  /\ total_copied \in [Readers -> Nat]
  /\ result \in [Readers -> Nat \cup {EFAULT}]

\* The lines the log holds, oldest first.
Contents == [k \in 1 .. Size |-> logs_buffer[Entry(k - 1)]]

\* What is allocated is what the log holds: no line leaks when the log wraps,
\* none is freed twice, and neither side reads a line that was freed, whichever
\* way reads, faults and overwrites are interleaved (log.c's kfree calls).
HeapExact == heap = {Contents[k].id : k \in 1 .. Size}

\* The log is always an unbroken run of the most recent lines: whatever readers
\* took and the handler overwrote was older than everything that is left, and
\* no line is skipped, duplicated or reordered at the wrap of the ring.
KeepsLatest ==
  \A k \in 1 .. Size : Contents[k].id = nextId - Size + k - 1

\* The handler gives up a line only when the ring is full, that is when every
\* entry but the one that tells full from empty holds a line (log.c:56-58).
LossOnlyWhenFull ==
  [][(log_mutex \in Handlers /\ Size' < Size) => (Size = Capacity - 1)]_vars

\* The ring implements the queue of BoundedLog: it holds Capacity - 1 lines, a
\* turn at it is log_mutex, and only a handler that finds it full takes a line that
\* no reader has had (log.c:27-68).
BL == INSTANCE BoundedLog
        WITH log <- Contents, Bound <- Capacity - 1, turn <- log_mutex,
             Writers <- Handlers, Takers <- Readers, Nobody <- Unowned
ImplementsBoundedLog == BL!Spec

\* A thread that enters leaves: every exit of read_log, the faulting one and
\* the empty one included, releases log_mutex, and its loop ends.
MutexReleased == \A t \in Threads : log_mutex = t ~> log_mutex # t

\* Report.pdf: "the read function is called multiple times until a 0 is
\* returned which states that all the required data has been read".  So a
\* read_log that is about to return 0 leaves no line behind.
ZeroMeansDrained ==
  \A r \in Readers :
    pc[r] = "copying" /\ ~Fits(r) /\ total_copied[r] = 0 => start = end
=============================================================================
