------------------------------ MODULE PosixLocks ------------------------------
(***************************************************************************)
(* The byte-range locks libfuse remembers for a file, as fuse.c keeps them *)
(* in node->locks: a list, sorted by start for each owner.  MaxOff stands  *)
(* for OFFSET_MAX.                                                         *)
(***************************************************************************)
EXTENDS Integers, Sequences, SequencesExt

CONSTANT MaxOff

ASSUME MaxOffAssumption == MaxOff \in Nat

\* A request to lock len bytes from start; 0 means to the end of the file.
flock_to_lock(flock, owner) ==
  [type |-> flock.type, start |-> flock.start, owner |-> owner,
   end |-> IF flock.len = 0 THEN MaxOff ELSE flock.start + flock.len - 1]

Overlap(l, m) == l.start <= m.end /\ m.start <= l.end

locks_conflict(list, lock) ==
  \E k \in DOMAIN list : /\ list[k].owner # lock.owner /\ Overlap(list[k], lock)
                         /\ "WR" \in {list[k].type, lock.type}

\* Mutant: a lock inside another of its owner is not split off.
InsertTurnWhole(acc, l) ==
  IF l.owner = acc.lock.owner /\ Overlap(l, acc.lock) THEN acc
  ELSE [acc EXCEPT !.out = Append(@, l)]

\* One turn of the loop of locks_insert, on the lock l of the list.  acc.out is the
\* list so far, acc.lock the lock being inserted as it grows, acc.at the place for
\* it once the loop has been left, acc.done when a lock there covers it already.
InsertTurn(acc, l) ==
  LET lock == acc.lock
      skip(k) == [acc EXCEPT !.out = Append(@, k)]
      break(ks) == [acc EXCEPT !.at = Len(acc.out) + 1, !.out = @ \o ks]
      grown == [lock EXCEPT !.start = IF l.start < @ THEN l.start ELSE @,
                            !.end = IF @ < l.end THEN l.end ELSE @]
      left == [l EXCEPT !.end = lock.start - 1]
      right == [l EXCEPT !.start = lock.end + 1]
  IN IF acc.at > 0 \/ acc.done \/ l.owner # lock.owner THEN skip(l)
     ELSE IF l.type = lock.type THEN
       IF l.end < lock.start - 1 THEN skip(l)
       ELSE IF lock.end < l.start - 1 THEN break(<<l>>)
       ELSE IF l.start <= lock.start /\ lock.end <= l.end THEN [skip(l) EXCEPT !.done = TRUE]
       ELSE [acc EXCEPT !.lock = grown]
     ELSE
       IF l.end < lock.start THEN skip(l)
       ELSE IF lock.end < l.start THEN break(<<l>>)
       ELSE IF lock.start <= l.start /\ l.end <= lock.end THEN acc
       ELSE IF l.end <= lock.end THEN skip(left)
       ELSE IF lock.start <= l.start THEN break(<<right>>)
       ELSE [break(<<right>>) EXCEPT !.out = acc.out \o <<left, right>>, !.at = Len(acc.out) + 2]

locks_insert(list, lock) ==
  LET end == FoldLeft(InsertTurn, [out |-> <<>>, lock |-> lock, at |-> 0, done |-> FALSE], list)
  IN IF end.done \/ lock.type = "UN" THEN end.out
     ELSE InsertAt(end.out, IF end.at = 0 THEN Len(end.out) + 1 ELSE end.at, end.lock)

\* What a list of locks says of one byte for one owner.
TypeAt(list, owner, off) ==
  LET at == {k \in DOMAIN list : list[k].owner = owner /\ list[k].start <= off /\ off <= list[k].end}
  IN IF at = {} THEN "UN" ELSE list[CHOOSE k \in at : TRUE].type
=============================================================================
