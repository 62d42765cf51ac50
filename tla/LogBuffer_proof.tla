--------------------------- MODULE LogBuffer_proof ---------------------------
(***************************************************************************)
(* Proofs about LogBuffer, for every number of tasks and readers, every    *)
(* ring capacity of at least two and every bound on the lines logged.      *)
(*                                                                         *)
(* HeapExact and KeepsLatest are not inductive: a step writes or frees the *)
(* entry that start and end point to, so what is known of the ring must be *)
(* known entry by entry, only the holder of log_mutex may be past its      *)
(* lock, and what HandlerLock found out about the ring must still hold     *)
(* when HandlerStore relies on it.  IInv says just that.                   *)
(***************************************************************************)
EXTENDS LogBuffer, SequenceTheorems, TLAPS

\* The holder of log_mutex, and nobody else, is past mutex_lock.
HolderOK ==
  /\ \A t \in Threads : (pc[t] # "idle") <=> (log_mutex = t)
  /\ \A r \in Readers : pc[r] \in {"idle", "copying"}
  /\ \A h \in Handlers : pc[h] \in {"idle", "overwrite", "store"}

\* What HandlerLock tested is still true when the handler acts on it.
RoomOK ==
  \A h \in Handlers :
    /\ pc[h] # "idle" => nextId < MaxLines
    /\ pc[h] = "overwrite" => Size = Capacity - 1
    /\ pc[h] = "store" => Size < Capacity - 1

\* The k-th oldest entry holds the k-th oldest of the Size latest lines.
EntriesOK ==
  /\ Size <= nextId
  /\ \A k \in 0 .. Size - 1 :
       /\ logs_buffer[Entry(k)] \in Line
       /\ logs_buffer[Entry(k)].id = nextId - Size + k

HeapOK == heap = (nextId - Size) .. (nextId - 1)

IInv == TypeOK /\ HolderOK /\ RoomOK /\ EntriesOK /\ HeapOK
-----------------------------------------------------------------------------
\* The modulus of log.c's index arithmetic is a wrap at the last entry.
LEMMA SuccWraps ==
  ASSUME NEW i \in Index
  PROVE  Succ(i) = IF i = Capacity - 1 THEN 0 ELSE i + 1
<1>1. CASE i = Capacity - 1
  BY <1>1, CapacityAssumption DEF Succ, Index
<1>2. CASE i # Capacity - 1
  <2>1. i + 1 \in 0 .. Capacity - 1
    BY <1>2, CapacityAssumption DEF Index
  <2> QED
    BY <1>2, <2>1, CapacityAssumption DEF Succ, Index
<1> QED
  BY <1>1, <1>2

\* The ring never holds Capacity lines: one entry tells full from empty.
LEMMA SizeBounds ==
  ASSUME TypeOK
  PROVE  Size \in 0 .. Capacity - 1
BY CapacityAssumption DEF TypeOK, Size, Index

\* Dropping the oldest line shifts every entry by one.
LEMMA DropShifts ==
  ASSUME TypeOK, start # end, start' = Succ(start), end' = end
  PROVE  /\ Size \in 1 .. Capacity - 1
         /\ start' \in Index
         /\ Size' = Size - 1
         /\ \A k \in 0 .. Size - 2 : Entry(k)' = Entry(k + 1)
         /\ Entry(0) = start
<1>1. start' = IF start = Capacity - 1 THEN 0 ELSE start + 1
  BY SuccWraps DEF TypeOK
<1> QED
  BY <1>1, CapacityAssumption DEF TypeOK, Size, Entry, Index

\* Publishing a line at end leaves the older entries where they are.
LEMMA StoreExtends ==
  ASSUME TypeOK, Size < Capacity - 1, end' = Succ(end), start' = start
  PROVE  /\ Size \in 0 .. Capacity - 2
         /\ end' \in Index
         /\ Size' = Size + 1
         /\ Entry(Size) = end
         /\ \A k \in 0 .. Size - 1 : Entry(k) \in Index /\ Entry(k) # end
         /\ \A k \in 0 .. Size : Entry(k)' = Entry(k)
<1>1. end' = IF end = Capacity - 1 THEN 0 ELSE end + 1
  BY SuccWraps DEF TypeOK
<1> QED
  BY <1>1, CapacityAssumption DEF TypeOK, Size, Entry, Index
-----------------------------------------------------------------------------
LEMMA InitEstablishes == Init => IInv
<1> SUFFICES ASSUME Init PROVE IInv
  OBVIOUS
<1> USE CapacityAssumption, SizesAssumption, ThreadsAssumption, MaxLinesAssumption
<1>1. TypeOK
  BY DEF Init, TypeOK, Index, Threads
<1>2. HolderOK
  BY DEF Init, HolderOK, Threads
<1>3. RoomOK
  BY DEF Init, RoomOK, Threads
<1>4. EntriesOK /\ HeapOK
  BY DEF Init, EntriesOK, HeapOK, Size
<1> QED
  BY <1>1, <1>2, <1>3, <1>4 DEF IInv

\* Taking or releasing the mutex and moving one pc keeps HolderOK.
LEMMA LockHolds ==
  ASSUME TypeOK, HolderOK, NEW t \in Threads, NEW label, Lock(t), Goto(t, label),
         \/ t \in Readers /\ label = "copying"
         \/ t \in Handlers /\ label \in {"overwrite", "store"}
  PROVE  HolderOK'
BY ThreadsAssumption DEF TypeOK, HolderOK, Lock, Goto, Threads

LEMMA UnlockHolds ==
  ASSUME TypeOK, HolderOK, NEW t \in Threads, pc[t] # "idle", Unlock,
         Goto(t, "idle")
  PROVE  HolderOK'
BY ThreadsAssumption DEF TypeOK, HolderOK, Unlock, Goto, Threads

\* The oldest line leaves the ring and the heap together.
LEMMA DropKeepsEntries ==
  ASSUME TypeOK, EntriesOK, HeapOK, start # end, DropOldest, end' = end,
         logs_buffer' = logs_buffer, nextId' = nextId
  PROVE  EntriesOK' /\ HeapOK' /\ start' \in Index /\ Size' = Size - 1
         /\ heap' \subseteq heap
<1>1. /\ Size \in 1 .. Capacity - 1
      /\ start' \in Index
      /\ Size' = Size - 1
      /\ \A k \in 0 .. Size - 2 : Entry(k)' = Entry(k + 1)
      /\ Entry(0) = start
  BY DropShifts DEF DropOldest
<1>2. nextId \in Nat
  BY MaxLinesAssumption DEF TypeOK
<1>3. logs_buffer[start].id = nextId - Size
  BY <1>1, <1>2, CapacityAssumption DEF EntriesOK
<1>4. heap' = (nextId - Size + 1) .. (nextId - 1)
  BY <1>1, <1>2, <1>3, CapacityAssumption DEF HeapOK, DropOldest
<1>5. HeapOK'
  BY <1>1, <1>2, <1>4, CapacityAssumption DEF HeapOK
<1>6. ASSUME NEW k \in 0 .. Size' - 1
      PROVE  /\ logs_buffer'[Entry(k)'] \in Line
             /\ logs_buffer'[Entry(k)'].id = nextId' - Size' + k
  <2>1. k \in 0 .. Size - 2 /\ k + 1 \in 0 .. Size - 1
    BY <1>1, CapacityAssumption
  <2>2. Entry(k)' = Entry(k + 1)
    BY <1>1, <2>1
  <2>3. /\ logs_buffer[Entry(k + 1)] \in Line
        /\ logs_buffer[Entry(k + 1)].id = nextId - Size + (k + 1)
    BY <2>1 DEF EntriesOK
  <2> QED
    BY <1>1, <1>2, <2>1, <2>2, <2>3, CapacityAssumption
<1>7. Size' <= nextId'
  BY <1>1, <1>2, CapacityAssumption DEF EntriesOK
<1> QED
  BY <1>1, <1>5, <1>6, <1>7 DEF EntriesOK, DropOldest

\* The new line is published where only its writer could have put it.
LEMMA StoreKeepsEntries ==
  ASSUME TypeOK, EntriesOK, HeapOK, Size < Capacity - 1, NEW line \in Line,
         line.id = nextId, start' = start, end' = Succ(end),
         logs_buffer' = [logs_buffer EXCEPT ![end] = line],
         heap' = heap \cup {nextId}, nextId' = nextId + 1
  PROVE  EntriesOK' /\ HeapOK' /\ end' \in Index /\ Size' = Size + 1
<1>1. /\ Size \in 0 .. Capacity - 2
      /\ end' \in Index
      /\ Size' = Size + 1
      /\ Entry(Size) = end
      /\ \A k \in 0 .. Size - 1 : Entry(k) \in Index /\ Entry(k) # end
      /\ \A k \in 0 .. Size : Entry(k)' = Entry(k)
  BY StoreExtends
<1>2. nextId \in Nat /\ end \in Index
  BY MaxLinesAssumption DEF TypeOK
<1>3. Size <= nextId
  BY DEF EntriesOK
<1>4. HeapOK'
  BY <1>1, <1>2, <1>3, CapacityAssumption DEF HeapOK
<1>5. logs_buffer \in [Index -> Line \cup {NULL}]
  BY DEF TypeOK
<1>6. ASSUME NEW k \in 0 .. Size' - 1
      PROVE  /\ logs_buffer'[Entry(k)'] \in Line
             /\ logs_buffer'[Entry(k)'].id = nextId' - Size' + k
  <2>1. k \in 0 .. Size /\ Entry(k)' = Entry(k)
    BY <1>1, CapacityAssumption
  <2>2. CASE k = Size
    <3>1. logs_buffer'[Entry(k)'] = line
      BY <1>1, <1>2, <1>5, <2>1, <2>2
    <3> QED
      BY <1>1, <1>2, <2>2, <3>1, CapacityAssumption
  <2>3. CASE k # Size
    <3>1. k \in 0 .. Size - 1
      BY <1>1, <2>1, <2>3, CapacityAssumption
    <3>2. logs_buffer'[Entry(k)'] = logs_buffer[Entry(k)]
      BY <1>1, <1>5, <2>1, <3>1
    <3>3. /\ logs_buffer[Entry(k)] \in Line
          /\ logs_buffer[Entry(k)].id = nextId - Size + k
      BY <3>1 DEF EntriesOK
    <3> QED
      BY <1>1, <1>2, <2>1, <3>2, <3>3, CapacityAssumption
  <2> QED
    BY <2>2, <2>3
<1>7. Size' <= nextId'
  BY <1>1, <1>2, <1>3, CapacityAssumption
<1> QED
  BY <1>1, <1>4, <1>6, <1>7 DEF EntriesOK

\* Each action keeps the inductive invariant.
LEMMA StepPreserves == IInv /\ [Next]_vars => IInv'
<1> SUFFICES ASSUME IInv, [Next]_vars PROVE IInv'
  OBVIOUS
<1> USE CapacityAssumption, SizesAssumption, ThreadsAssumption,
        MaxLinesAssumption
<1>0. TypeOK /\ HolderOK /\ RoomOK /\ EntriesOK /\ HeapOK
  BY DEF IInv
<1>1. ASSUME NEW r \in Readers, ReadLock(r) PROVE IInv'
  <2>1. TypeOK'
    BY <1>0, <1>1 DEF ReadLock, TypeOK, Lock, Goto, Threads
  <2>2. HolderOK'
    BY <1>0, <1>1, LockHolds DEF ReadLock, Threads
  <2>3. RoomOK'
    BY <1>0, <1>1, <2>1 DEF ReadLock, RoomOK, TypeOK, Goto, Threads, Size
  <2>4. EntriesOK' /\ HeapOK'
    BY <1>0, <1>1 DEF ReadLock, EntriesOK, HeapOK, Size, Entry
  <2> QED
    BY <2>1, <2>2, <2>3, <2>4 DEF IInv
<1>2. ASSUME NEW r \in Readers, ReadCopy(r) PROVE IInv'
  <2>1. start # end
    BY <1>2 DEF ReadCopy, Fits
  <2>2. EntriesOK' /\ HeapOK' /\ start' \in Index /\ heap' \subseteq heap
    BY <1>0, <1>2, <2>1, DropKeepsEntries DEF ReadCopy
  <2>3. logs_buffer[start].len \in Nat
    <3>1. Size \in 1 .. Capacity - 1 /\ Entry(0) = start
      BY <1>0, <2>1 DEF TypeOK, Size, Entry, Index
    <3>2. logs_buffer[start] \in Line
      BY <1>0, <3>1 DEF EntriesOK
    <3> QED
      BY <3>2 DEF Line
  <2>4. TypeOK'
    BY <1>0, <1>2, <2>2, <2>3 DEF ReadCopy, TypeOK
  <2>5. HolderOK'
    BY <1>0, <1>2 DEF ReadCopy, HolderOK
  <2>6. RoomOK'
    BY <1>0, <1>2 DEF ReadCopy, RoomOK, HolderOK, Threads
  <2> QED
    BY <2>2, <2>4, <2>5, <2>6 DEF IInv
<1>3. ASSUME NEW r \in Readers, NEW value \in Nat \cup {EFAULT},
             pc[r] = "copying", Return(r, value)
      PROVE  IInv'
  <2>1. TypeOK'
    BY <1>0, <1>3 DEF Return, TypeOK, Unlock, Goto, Threads
  <2>2. HolderOK'
    BY <1>0, <1>3, UnlockHolds DEF Return, Threads
  <2>3. RoomOK'
    BY <1>0, <1>3 DEF Return, RoomOK, HolderOK, TypeOK, Goto, Threads, Size
  <2>4. EntriesOK' /\ HeapOK'
    BY <1>0, <1>3 DEF Return, EntriesOK, HeapOK, Size, Entry
  <2> QED
    BY <2>1, <2>2, <2>3, <2>4 DEF IInv
<1>4. ASSUME NEW r \in Readers, ReadFault(r) PROVE IInv'
  BY <1>3, <1>4 DEF ReadFault
<1>5. ASSUME NEW r \in Readers, ReadDone(r) PROVE IInv'
  <2>1. total_copied[r] \in Nat
    BY <1>0 DEF TypeOK
  <2> QED
    BY <1>3, <1>5, <2>1 DEF ReadDone
<1>6. ASSUME NEW h \in Handlers, HandlerLock(h) PROVE IInv'
  <2>1. TypeOK'
    BY <1>0, <1>6 DEF HandlerLock, TypeOK, Lock, Goto, Threads
  <2>2. HolderOK'
    BY <1>0, <1>6, LockHolds DEF HandlerLock, Threads
  <2>3. Succ(end) = start <=> Size = Capacity - 1
    <3>1. Succ(end) = IF end = Capacity - 1 THEN 0 ELSE end + 1
      BY <1>0, SuccWraps DEF TypeOK
    <3> QED
      BY <1>0, <3>1 DEF TypeOK, Size, Index
  <2>4. RoomOK'
    <3>1. Size' = Size /\ Size \in 0 .. Capacity - 1
      BY <1>0, <1>6, SizeBounds DEF HandlerLock, Size
    <3>2. \A g \in Handlers : g # h => pc'[g] = "idle"
      BY <1>0, <1>6 DEF HandlerLock, HolderOK, TypeOK, Lock, Goto, Threads
    <3>3. pc'[h] = IF Succ(end) = start THEN "overwrite" ELSE "store"
      BY <1>0, <1>6 DEF HandlerLock, TypeOK, Goto, Threads
    <3> QED
      BY <1>6, <2>3, <3>1, <3>2, <3>3 DEF HandlerLock, RoomOK
  <2>5. EntriesOK' /\ HeapOK'
    BY <1>0, <1>6 DEF HandlerLock, EntriesOK, HeapOK, Size, Entry
  <2> QED
    BY <2>1, <2>2, <2>4, <2>5 DEF IInv
<1>7. ASSUME NEW h \in Handlers, HandlerOverwrite(h) PROVE IInv'
  <2>1. Size = Capacity - 1 /\ nextId < MaxLines
    BY <1>0, <1>7 DEF HandlerOverwrite, RoomOK
  <2>2. start # end
    BY <1>0, <2>1 DEF TypeOK, Size, Index
  <2>3. EntriesOK' /\ HeapOK' /\ start' \in Index /\ heap' \subseteq heap
        /\ Size' = Size - 1
    BY <1>0, <1>7, <2>2, DropKeepsEntries DEF HandlerOverwrite
  <2>4. TypeOK'
    BY <1>0, <1>7, <2>3 DEF HandlerOverwrite, TypeOK, Goto, Threads
  <2>5. HolderOK'
    BY <1>0, <1>7 DEF HandlerOverwrite, HolderOK, TypeOK, Goto, Threads
  <2>6. RoomOK'
    <3>1. \A g \in Handlers : g # h => pc'[g] = "idle"
      BY <1>0, <1>7 DEF HandlerOverwrite, HolderOK, TypeOK, Goto, Threads
    <3>2. pc'[h] = "store"
      BY <1>0, <1>7 DEF HandlerOverwrite, TypeOK, Goto, Threads
    <3>3. nextId' = nextId /\ Size' < Capacity - 1
      BY <1>7, <2>1, <2>3 DEF HandlerOverwrite
    <3> QED
      BY <2>1, <3>1, <3>2, <3>3 DEF RoomOK
  <2> QED
    BY <2>3, <2>4, <2>5, <2>6 DEF IInv
<1>8. ASSUME NEW h \in Handlers, HandlerStore(h) PROVE IInv'
  <2>1. PICK n \in Lens :
          logs_buffer' = [logs_buffer EXCEPT ![end] = [id |-> nextId, len |-> n]]
    BY <1>8 DEF HandlerStore
  <2> DEFINE line == [id |-> nextId, len |-> n]
  <2>2. pc[h] = "store" /\ nextId < MaxLines /\ Size < Capacity - 1
    BY <1>0, <1>8 DEF HandlerStore, RoomOK
  <2>3. line \in Line /\ line.id = nextId
    BY <1>0 DEF Line, TypeOK
  <2> HIDE DEF line
  <2>4. logs_buffer' = [logs_buffer EXCEPT ![end] = line]
    BY <2>1 DEF line
  <2>5. EntriesOK' /\ HeapOK' /\ end' \in Index
    BY <1>0, <1>8, <2>2, <2>3, <2>4, StoreKeepsEntries DEF HandlerStore
  <2>6. TypeOK'
    <3>1. logs_buffer' \in [Index -> Line \cup {NULL}]
      BY <1>0, <2>3, <2>4 DEF TypeOK
    <3>2. nextId' \in 0 .. MaxLines /\ heap' \subseteq 0 .. MaxLines
      BY <1>0, <1>8, <2>2 DEF HandlerStore, TypeOK
    <3>3. log_mutex' \in Threads \cup {Unowned}
          /\ pc' \in [Threads -> {"idle", "copying", "overwrite", "store"}]
      BY <1>0, <1>8 DEF HandlerStore, TypeOK, Unlock, Goto
    <3> QED
      BY <1>0, <1>8, <2>5, <3>1, <3>2, <3>3 DEF HandlerStore, TypeOK
  <2>7. HolderOK'
    BY <1>0, <1>8, <2>2, UnlockHolds DEF HandlerStore, Threads
  <2>8. RoomOK'
    <3>1. \A g \in Handlers : pc'[g] = "idle"
      BY <1>0, <1>8 DEF HandlerStore, HolderOK, TypeOK, Goto, Threads
    <3> QED
      BY <3>1 DEF RoomOK
  <2> QED
    BY <2>5, <2>6, <2>7, <2>8 DEF IInv
<1>9. CASE UNCHANGED vars
  <2>1. TypeOK' /\ HolderOK'
    BY <1>0, <1>9 DEF vars, TypeOK, HolderOK
  <2>2. RoomOK' /\ EntriesOK' /\ HeapOK'
    BY <1>0, <1>9 DEF vars, RoomOK, EntriesOK, HeapOK, Size, Entry
  <2> QED
    BY <2>1, <2>2 DEF IInv
<1> QED
  BY <1>1, <1>2, <1>4, <1>5, <1>6, <1>7, <1>8, <1>9 DEF Next
-----------------------------------------------------------------------------
THEOREM Invariance == Spec => []IInv
BY InitEstablishes, StepPreserves, PTL DEF Spec

\* Whatever the tasks and readers do, the ring and its indexes keep their type.
THEOREM TypeCorrect == Spec => []TypeOK
<1>1. IInv => TypeOK
  BY DEF IInv
<1> QED
  BY <1>1, Invariance, PTL

LEMMA ContentsIds ==
  ASSUME IInv
  PROVE  /\ Size \in 0 .. Capacity - 1
         /\ \A k \in 1 .. Size :
              /\ Contents[k] = logs_buffer[Entry(k - 1)]
              /\ Contents[k] \in Line
              /\ Contents[k].id = nextId - Size + k - 1
<1> USE CapacityAssumption, MaxLinesAssumption
<1>1. Size \in 0 .. Capacity - 1 /\ nextId \in Nat
  BY SizeBounds DEF IInv, TypeOK
<1>2. ASSUME NEW k \in 1 .. Size
      PROVE  /\ logs_buffer[Entry(k - 1)] \in Line
             /\ logs_buffer[Entry(k - 1)].id = nextId - Size + k - 1
  <2>1. k - 1 \in 0 .. Size - 1
    BY <1>1
  <2> QED
    BY <1>1, <2>1 DEF IInv, EntriesOK
<1> QED
  BY <1>1, <1>2 DEF Contents

\* The log is always the unbroken run of the latest lines.
THEOREM LatestKept == Spec => []KeepsLatest
<1>1. IInv => KeepsLatest
  BY ContentsIds DEF KeepsLatest
<1> QED
  BY <1>1, Invariance, PTL

\* log.c neither leaks a line nor frees one it still holds.
THEOREM NoLeakNoDanglingLine == Spec => []HeapExact
<1>1. ASSUME IInv PROVE HeapExact
  <2>1. /\ Size \in 0 .. Capacity - 1
        /\ \A k \in 1 .. Size : Contents[k].id = nextId - Size + k - 1
    BY <1>1, ContentsIds
  <2>2. heap = (nextId - Size) .. (nextId - 1) /\ nextId \in Nat
    BY <1>1, MaxLinesAssumption DEF IInv, HeapOK, TypeOK
  <2>3. ASSUME NEW i \in heap PROVE i \in {Contents[k].id : k \in 1 .. Size}
    <3>1. i - (nextId - Size) + 1 \in 1 .. Size
      BY <2>1, <2>2, CapacityAssumption
    <3>2. Contents[i - (nextId - Size) + 1].id = i
      BY <2>1, <2>2, <3>1, CapacityAssumption
    <3> QED
      BY <3>1, <3>2
  <2>4. ASSUME NEW k \in 1 .. Size PROVE Contents[k].id \in heap
    BY <2>1, <2>2, CapacityAssumption
  <2> QED
    BY <2>3, <2>4 DEF HeapExact
<1> QED
  BY <1>1, Invariance, PTL

\* The handler gives up a line only when the ring is full.
THEOREM LossNeedsFullRing == Spec => LossOnlyWhenFull
<1>1. ASSUME IInv, [Next]_vars
      PROVE  [(log_mutex \in Handlers /\ Size' < Size)
              => (Size = Capacity - 1)]_vars
  <2> SUFFICES ASSUME Next, log_mutex \in Handlers, Size' < Size
               PROVE  Size = Capacity - 1
    BY <1>1
  <2> USE ThreadsAssumption, CapacityAssumption
  <2>0. TypeOK /\ HolderOK /\ RoomOK /\ EntriesOK /\ HeapOK
        /\ Size \in 0 .. Capacity - 1
    BY <1>1, SizeBounds DEF IInv
  <2>1. ASSUME NEW r \in Readers, ReadLock(r) PROVE FALSE
    BY <2>1 DEF ReadLock, Lock
  <2>2. ASSUME NEW r \in Readers, ReadCopy(r) \/ ReadFault(r) \/ ReadDone(r)
        PROVE  FALSE
    BY <2>0, <2>2 DEF ReadCopy, ReadFault, ReadDone, HolderOK, Threads
  <2>3. ASSUME NEW h \in Handlers, HandlerLock(h) PROVE FALSE
    BY <2>3 DEF HandlerLock, Lock
  <2>4. ASSUME NEW h \in Handlers, HandlerOverwrite(h)
        PROVE  Size = Capacity - 1
    BY <2>0, <2>4 DEF HandlerOverwrite, RoomOK
  <2>5. ASSUME NEW h \in Handlers, HandlerStore(h) PROVE FALSE
    <3>1. Size' = Size + 1
      BY <2>0, <2>5, StoreExtends DEF HandlerStore, RoomOK
    <3> QED
      BY <2>0, <3>1
  <2> QED
    BY <2>1, <2>2, <2>3, <2>4, <2>5 DEF Next
<1> QED
  BY <1>1, Invariance, PTL DEF Spec, LossOnlyWhenFull
-----------------------------------------------------------------------------
LEMMA ContentsShift ==
  ASSUME IInv, start # end, DropOldest, end' = end, logs_buffer' = logs_buffer
  PROVE  Contents # <<>> /\ Contents' = Tail(Contents)
<1> USE CapacityAssumption
<1>1. /\ Size \in 1 .. Capacity - 1
      /\ Size' = Size - 1
      /\ \A k \in 0 .. Size - 2 : Entry(k)' = Entry(k + 1)
  BY DropShifts DEF IInv, DropOldest
<1>2. Contents \in Seq(Line) /\ Len(Contents) = Size
  BY <1>1, ContentsIds DEF Contents
<1>3. Contents' = [k \in 1 .. Size - 1 |-> logs_buffer[Entry(k - 1)']]
  BY <1>1 DEF Contents
<1>4. \A k \in 1 .. Size - 1 : Entry(k - 1)' = Entry(k)
  BY <1>1
<1>5. Contents' = [k \in 1 .. Size - 1 |-> Contents[k + 1]]
  BY <1>1, <1>3, <1>4 DEF Contents
<1>6. Contents # <<>>
  BY <1>1, <1>2
<1>7. /\ Tail(Contents) \in Seq(Line)
      /\ Len(Tail(Contents)) = Size - 1
      /\ \A k \in 1 .. Size - 1 : Tail(Contents)[k] = Contents[k + 1]
  BY <1>1, <1>2, <1>6, HeadTailProperties
<1>8. Contents' \in Seq(Line) /\ Len(Contents') = Size - 1
  BY <1>1, <1>2, <1>5
<1>9. \A k \in 1 .. Size - 1 : Contents'[k] = Contents[k + 1]
  BY <1>5
<1> QED
  BY <1>6, <1>7, <1>8, <1>9, SeqEqual

LEMMA ContentsAppend ==
  ASSUME IInv, Size < Capacity - 1, NEW line \in Line, start' = start,
         end' = Succ(end), logs_buffer' = [logs_buffer EXCEPT ![end] = line]
  PROVE  Contents' = Append(Contents, line)
<1> USE CapacityAssumption
<1>1. /\ Size \in 0 .. Capacity - 2
      /\ Size' = Size + 1
      /\ Entry(Size) = end
      /\ \A k \in 0 .. Size - 1 : Entry(k) \in Index /\ Entry(k) # end
      /\ \A k \in 0 .. Size : Entry(k)' = Entry(k)
  BY StoreExtends DEF IInv
<1>2. logs_buffer \in [Index -> Line \cup {NULL}] /\ end \in Index
  BY DEF IInv, TypeOK
<1>3. Contents \in Seq(Line) /\ Len(Contents) = Size
  BY <1>1, ContentsIds DEF Contents
<1>4. Contents' = [k \in 1 .. Size + 1 |-> logs_buffer'[Entry(k - 1)']]
  BY <1>1 DEF Contents
<1>5. ASSUME NEW k \in 1 .. Size
      PROVE  logs_buffer'[Entry(k - 1)'] = Contents[k]
  BY <1>1, <1>2 DEF Contents
<1>6. ASSUME NEW k \in 1 .. Size + 1, k = Size + 1
      PROVE  logs_buffer'[Entry(k - 1)'] = line
  <2>1. k - 1 = Size /\ k - 1 \in 0 .. Size
    BY <1>1, <1>6
  <2>2. Entry(k - 1)' = end
    BY <1>1, <2>1
  <2> QED
    BY <1>2, <2>2
<1>7. \A k \in 1 .. Size + 1 :
        Contents'[k] = IF k = Size + 1 THEN line ELSE Contents[k]
  <2>1. \A k \in 1 .. Size + 1 : k = Size + 1 \/ k \in 1 .. Size
    BY <1>1
  <2> QED
    BY <1>4, <1>5, <1>6, <2>1
<1>8. Contents' \in Seq(Line) /\ Len(Contents') = Size + 1
  <2>1. \A k \in 1 .. Size : Contents[k] \in Line
    BY <1>1, <1>3
  <2>2. \A k \in 1 .. Size + 1 : Contents'[k] \in Line
    BY <1>1, <1>7, <2>1
  <2> QED
    BY <1>1, <1>4, <2>2
<1>9. /\ Append(Contents, line) \in Seq(Line)
      /\ Len(Append(Contents, line)) = Size + 1
      /\ \A k \in 1 .. Size : Append(Contents, line)[k] = Contents[k]
      /\ Append(Contents, line)[Size + 1] = line
  BY <1>3, AppendProperties
<1>10. \A k \in 1 .. Size + 1 : Contents'[k] = Append(Contents, line)[k]
  BY <1>1, <1>7, <1>9
<1> QED
  BY <1>8, <1>9, <1>10, SeqEqual

\* log.c's ring implements the bounded queue: every step of every thread is a
\* step of the queue, or leaves the queue alone.
THEOREM Refinement == Spec => ImplementsBoundedLog
<1> DEFINE queueVars == <<Contents, log_mutex>>
<1>1. Init => BL!Init
  BY DEF Init, BL!Init, Contents, Size
<1>2. IInv /\ [Next]_vars => [BL!Next]_queueVars
  <2> SUFFICES ASSUME IInv, [Next]_vars PROVE [BL!Next]_queueVars
    OBVIOUS
  <2> USE CapacityAssumption, ThreadsAssumption
  <2>0. TypeOK /\ RoomOK /\ HolderOK
    BY DEF IInv
  <2>1. ASSUME start' = start, end' = end, logs_buffer' = logs_buffer
        PROVE  Contents' = Contents
    BY <2>1 DEF Contents, Size, Entry
  <2>2. ASSUME NEW r \in Readers, ReadCopy(r) PROVE BL!Next
    <3>1. log_mutex = r /\ log_mutex' = log_mutex
      BY <2>0, <2>2 DEF ReadCopy, HolderOK, Threads
    <3>2. Contents # <<>> /\ Contents' = Tail(Contents)
      BY <2>2, ContentsShift DEF ReadCopy, Fits
    <3> QED
      BY <3>1, <3>2 DEF BL!Next, BL!Take
  <2>3. ASSUME NEW h \in Handlers, HandlerOverwrite(h) PROVE BL!Next
    <3>1. start # end
      BY <2>0, <2>3 DEF HandlerOverwrite, RoomOK, TypeOK, Size, Index
    <3>2. log_mutex = h /\ log_mutex' = log_mutex
      BY <2>0, <2>3 DEF HandlerOverwrite, HolderOK, Threads
    <3>3. Contents' = Tail(Contents)
      BY <2>3, <3>1, ContentsShift DEF HandlerOverwrite
    <3>4. Len(Contents) = Capacity - 1
      BY <2>0, <2>3, SizeBounds, ContentsIds DEF HandlerOverwrite, RoomOK, Contents
    <3> QED
      BY <3>2, <3>3, <3>4 DEF BL!Next, BL!Overwrite
  <2>4. ASSUME NEW h \in Handlers, HandlerStore(h) PROVE BL!Next
    <3>1. PICK n \in Lens :
        logs_buffer' = [logs_buffer EXCEPT ![end] = [id |-> nextId, len |-> n]]
      BY <2>4 DEF HandlerStore
    <3> DEFINE line == [id |-> nextId, len |-> n]
    <3>2. line \in Line
      BY <2>0 DEF Line, TypeOK
    <3>3. Size < Capacity - 1
      BY <2>0, <2>4 DEF HandlerStore, RoomOK
    <3>4. Contents' = Append(Contents, line)
      BY <2>4, <3>1, <3>2, <3>3, ContentsAppend DEF HandlerStore
    <3>5. Len(Contents) < Capacity - 1
      BY <3>3, ContentsIds DEF Contents
    <3>6. log_mutex = h /\ log_mutex' = Unowned
      BY <2>0, <2>4 DEF HandlerStore, HolderOK, Threads, Unlock
    <3> HIDE DEF line
    <3> QED
      BY <3>2, <3>4, <3>5, <3>6 DEF BL!Next, BL!Add
  <2>5. ASSUME NEW t \in Threads, ReadLock(t) \/ HandlerLock(t) PROVE BL!Next
    <3>1. Contents' = Contents
      BY <2>1, <2>5 DEF ReadLock, HandlerLock
    <3>2. log_mutex = Unowned /\ log_mutex' = t
      BY <2>5 DEF ReadLock, HandlerLock, Lock
    <3> QED
      BY <3>1, <3>2 DEF BL!Next, BL!Enter, Threads
  <2>6. ASSUME NEW r \in Readers, ReadFault(r) \/ ReadDone(r) PROVE BL!Next
    <3>1. Contents' = Contents
      BY <2>1, <2>6 DEF ReadFault, ReadDone, Return
    <3>2. log_mutex = r /\ log_mutex' = Unowned
      BY <2>0, <2>6 DEF ReadFault, ReadDone, Return, HolderOK, Threads, Unlock
    <3> QED
      BY <3>1, <3>2 DEF BL!Next, BL!Leave
  <2>7. CASE UNCHANGED vars
    BY <2>1, <2>7 DEF vars
  <2> QED
    BY <2>2, <2>3, <2>4, <2>5, <2>6, <2>7 DEF Next, Threads
<1> QED
  BY <1>1, <1>2, Invariance, PTL DEF Spec, ImplementsBoundedLog, BL!Spec
=============================================================================
