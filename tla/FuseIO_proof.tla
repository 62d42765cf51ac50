----------------------------- MODULE FuseIO_proof ---------------------------
(***************************************************************************)
(* Proofs about what programs read and lock through libfuse: the pages the *)
(* kernel keeps over an open (FuseCache), the bytes httpfs2 returns        *)
(* (HttpFs), the locks the lock manager holds for others (UlockMgr), and   *)
(* the directory a program reads page by page (FuseListing).  They hold    *)
(* for every number of openers and callers, every length of a file, every  *)
(* set of pieces to lock and every set of names.                           *)
(***************************************************************************)
EXTENDS FuseCache, HttpFs, UlockMgr, FuseListing, FiniteSetTheorems, SequenceTheorems, WellFoundedInduction,
        TLAPS

(***************************************************************************)
(* FuseCache: the pages the kernel keeps over an open.                     *)
(***************************************************************************)

OpenerType(v) ==
  [pc : {"idle", "stat", "reply", "open", "read"}, keep : BOOLEAN,
   oldest : 0 .. v, saw : 0 .. v, late : BOOLEAN]
CacheTypeOK ==
  /\ time \in Nat /\ version \in 1 .. MaxVersion
  /\ changed \in [1 .. MaxVersion -> Nat]
  /\ node \in [cache_valid : BOOLEAN, mtime : 1 .. version, stat_updated : 0 .. time]
  /\ pages \in 0 .. version /\ dropped \in BOOLEAN
  /\ opener \in [Openers -> OpenerType(version)]

\* An answer that drops the pages is on its way, or was lost.
Dropping == dropped \/ \E o \in Openers : Where(o, "reply") /\ ~opener[o].keep

\* The pages, if the kernel has any, are of version v or later, or to be dropped.
PagesFrom(v) == Dropping \/ pages = 0 \/ pages >= v

\* What the node knows of the file, and the pages it vouches for.
NodeOK ==
  /\ \A v \in 1 .. version : v > node.mtime => changed[v] >= node.stat_updated
  /\ node.cache_valid => PagesFrom(node.mtime)

\* What an opener was promised, from the answer to its read.
OpenerOK(o) ==
  /\ Where(o, "reply") /\ opener[o].keep => PagesFrom(opener[o].oldest)
  /\ Where(o, "open") => PagesFrom(opener[o].oldest)
  /\ Where(o, "read") =>
       dropped \/ opener[o].late \/ opener[o].saw >= opener[o].oldest

CacheInv == CacheTypeOK /\ NodeOK /\ \A o \in Openers : OpenerOK(o)
-----------------------------------------------------------------------------
\* A bounded set of natural numbers has a greatest one.
LEMMA GreatestNumber ==
  ASSUME NEW n \in Nat, NEW S \in SUBSET (0 .. n), S # {}
  PROVE  \E m \in S : \A k \in S : k <= m
<1> DEFINE T == {n - k : k \in S}
<1>1. T \subseteq Nat /\ T # {}
  <2>1. \A k \in S : n - k \in Nat
    OBVIOUS
  <2>2. PICK k \in S : TRUE
    OBVIOUS
  <2>3. n - k \in T
    BY <2>2
  <2> QED
    BY <2>1, <2>3
<1>2. \E x \in T : \A y \in T : <<y, x>> \notin OpToRel(<, Nat)
  <2> HIDE DEF T
  <2> QED
    BY <1>1, NatLessThanWellFounded, WFMin
<1>3. PICK x \in T : \A y \in T : <<y, x>> \notin OpToRel(<, Nat)
  BY <1>2
<1>4. \A y \in T : ~(y < x)
  <2> HIDE DEF T
  <2> QED
    BY <1>1, <1>3 DEF OpToRel
<1>5. PICK m \in S : x = n - m
  BY <1>3
<1>6. \A k \in S : ~(n - k < n - m)
  BY <1>4, <1>5
<1> HIDE DEF T
<1> SUFFICES ASSUME NEW k \in S PROVE k <= m
  BY <1>5
<1>7. k \in 0 .. n /\ m \in 0 .. n
  BY <1>5
<1> QED
  BY <1>6, <1>7

\* What an open must at least show is a version, and no later one is that old.
LEMMA OldestIs ==
  ASSUME CacheTypeOK
  PROVE  /\ Oldest \in 1 .. version
         /\ changed[Oldest] + Timeout < time \/ Oldest = 1
<1> DEFINE S == {v \in 1 .. version : changed[v] + Timeout < time \/ v = 1}
<1>0. version \in Nat \ {0} /\ 1 .. version \subseteq 1 .. MaxVersion
  BY CacheAssumption DEF CacheTypeOK
<1>1. S \in SUBSET (0 .. version) /\ 1 \in S
  BY <1>0
<1>2. PICK m \in S : \A k \in S : k <= m
  <2>1. version \in Nat /\ S # {}
    BY <1>0, <1>1
  <2> HIDE DEF S
  <2> QED
    BY <1>1, <2>1, GreatestNumber
<1>3. /\ m \in 1 .. version /\ (changed[m] + Timeout < time \/ m = 1)
      /\ \A u \in (m + 1) .. version : changed[u] + Timeout >= time
  <2>1. m \in 1 .. version /\ (changed[m] + Timeout < time \/ m = 1)
    BY <1>2
  <2>2. ASSUME NEW u \in (m + 1) .. version PROVE changed[u] + Timeout >= time
    <3>1. u \in 1 .. version /\ u \notin S
      BY <1>0, <1>2, <2>1, <2>2
    <3>2. changed[u] \in Nat /\ time \in Nat /\ Timeout \in Nat
      BY <1>0, <3>1, CacheAssumption DEF CacheTypeOK
    <3> QED
      BY <3>1, <3>2
  <2> QED
    BY <2>1, <2>2
<1> QED
  BY <1>3 DEF Oldest

\* Attributes that are not too old tell of every version an open must show.
LEMMA FreshIsRecent ==
  ASSUME CacheTypeOK, NEW n \in [cache_valid : BOOLEAN, mtime : 1 .. version, stat_updated : 0 .. time],
         \A v \in 1 .. version : v > n.mtime => changed[v] >= n.stat_updated,
         time - n.stat_updated <= Timeout
  PROVE  Oldest <= n.mtime
<1>1. /\ Oldest \in 1 .. version
      /\ changed[Oldest] + Timeout < time \/ Oldest = 1
  BY OldestIs
<1>2. /\ version \in Nat /\ time \in Nat /\ Timeout \in Nat
      /\ n.mtime \in 1 .. version /\ n.stat_updated \in 0 .. time
      /\ changed[Oldest] \in Nat
  BY <1>1, CacheAssumption DEF CacheTypeOK
<1>3. Oldest > n.mtime => changed[Oldest] >= n.stat_updated
  BY <1>1
<1> QED
  BY <1>1, <1>2, <1>3
-----------------------------------------------------------------------------
LEMMA CacheInitOK == CacheInit => CacheInv
<1> SUFFICES ASSUME CacheInit PROVE CacheInv
  OBVIOUS
<1>1. CacheTypeOK
  <2>1. /\ time = 0 /\ version = 1 /\ changed = [v \in 1 .. MaxVersion |-> 0]
        /\ node = [cache_valid |-> FALSE, mtime |-> 1, stat_updated |-> 0]
        /\ pages = 0 /\ dropped = FALSE
        /\ opener = [o \in Openers |-> [pc |-> "idle", keep |-> FALSE, oldest |-> 0, saw |-> 0, late |-> FALSE]]
    BY DEF CacheInit
  <2>2. version \in 1 .. MaxVersion /\ changed \in [1 .. MaxVersion -> Nat]
    BY <2>1, CacheAssumption
  <2>3. node \in [cache_valid : BOOLEAN, mtime : 1 .. version, stat_updated : 0 .. time]
    <3>1. 1 \in 1 .. version /\ 0 \in 0 .. time
      BY <2>1
    <3> QED
      BY <2>1, <3>1
  <2>4. opener \in [Openers -> OpenerType(version)]
    <3>1. 0 \in 0 .. version
      BY <2>1
    <3> QED
      BY <2>1, <3>1 DEF OpenerType
  <2>5. pages \in 0 .. version /\ time \in Nat
    BY <2>1
  <2>6. dropped \in BOOLEAN
    BY <2>1
  <2> QED
    BY <2>2, <2>3, <2>4, <2>5, <2>6 DEF CacheTypeOK
<1>2. NodeOK
  BY DEF CacheInit, NodeOK, PagesFrom
<1>3. \A o \in Openers : OpenerOK(o)
  BY DEF CacheInit, OpenerOK, Where
<1> QED
  BY <1>1, <1>2, <1>3 DEF CacheInv

\* The clock goes on.
LEMMA TickOK ==
  ASSUME CacheInv, Tick
  PROVE  CacheInv'
<1>0. CacheTypeOK /\ NodeOK /\ \A o \in Openers : OpenerOK(o)
  BY DEF CacheInv
<1>1. time' = time + 1 /\ UNCHANGED <<version, changed, node, pages, opener, dropped>>
  BY DEF Tick
<1>2. 0 .. time \subseteq 0 .. time' /\ time' \in Nat
  BY <1>0, <1>1 DEF CacheTypeOK
<1>3. CacheTypeOK'
  BY <1>0, <1>1, <1>2 DEF CacheTypeOK
<1>4. NodeOK' /\ \A o \in Openers : OpenerOK(o)'
  BY <1>0, <1>1 DEF NodeOK, OpenerOK, PagesFrom, Dropping, Where
<1> QED
  BY <1>3, <1>4 DEF CacheInv

\* A new version is newer than all that is known of the file.
LEMMA ChangeFileOK ==
  ASSUME CacheInv, ChangeFile
  PROVE  CacheInv'
<1>0. CacheTypeOK /\ NodeOK /\ \A o \in Openers : OpenerOK(o)
  BY DEF CacheInv
<1>1. /\ version < MaxVersion /\ version' = version + 1
      /\ changed' = [changed EXCEPT ![version + 1] = time]
      /\ UNCHANGED <<time, node, pages, opener, dropped>>
  BY DEF ChangeFile
<1>2. /\ version \in Nat \ {0} /\ version' \in 1 .. MaxVersion
      /\ 1 .. version \subseteq 1 .. version' /\ 0 .. version \subseteq 0 .. version'
  BY <1>0, <1>1, CacheAssumption DEF CacheTypeOK
<1>3. CacheTypeOK'
  BY <1>0, <1>1, <1>2 DEF CacheTypeOK, OpenerType
<1>4. \A v \in 1 .. version' : v > node.mtime => changed'[v] >= node.stat_updated
  <2> SUFFICES ASSUME NEW v \in 1 .. version', v > node.mtime
               PROVE  changed'[v] >= node.stat_updated
    OBVIOUS
  <2>1. CASE v = version + 1
    BY <1>0, <1>1, <1>2, <2>1 DEF CacheTypeOK
  <2>2. CASE v # version + 1
    BY <1>0, <1>1, <1>2, <2>2 DEF CacheTypeOK, NodeOK
  <2> QED
    BY <2>1, <2>2
<1>5. NodeOK'
  BY <1>0, <1>1, <1>4 DEF NodeOK, PagesFrom, Dropping, Where
<1>6. \A o \in Openers : OpenerOK(o)'
  BY <1>0, <1>1 DEF OpenerOK, PagesFrom, Dropping, Where
<1> QED
  BY <1>3, <1>5, <1>6 DEF CacheInv

\* What update_stat leaves is true of the version it is called with.
LEMMA UpdateStatOK ==
  ASSUME CacheTypeOK, NodeOK
  PROVE  LET n == UpdateStat(node, version)
         IN  /\ n \in [cache_valid : BOOLEAN, mtime : 1 .. version, stat_updated : 0 .. time]
             /\ n.mtime = version /\ n.stat_updated = time
             /\ n.cache_valid => PagesFrom(version)
<1> DEFINE n == UpdateStat(node, version)
<1>1. /\ n.cache_valid = (node.cache_valid /\ node.mtime = version)
      /\ n.mtime = version /\ n.stat_updated = time
  BY DEF UpdateStat
<1>2. n.cache_valid => PagesFrom(version)
  BY <1>1 DEF NodeOK
<1>3. version \in 1 .. version /\ time \in 0 .. time /\ node.cache_valid \in BOOLEAN
  BY CacheAssumption DEF CacheTypeOK
<1>4. n \in [cache_valid : BOOLEAN, mtime : 1 .. version, stat_updated : 0 .. time]
  BY <1>3 DEF UpdateStat
<1> QED
  BY <1>1, <1>2, <1>4

LEMMA GetattrOK ==
  ASSUME CacheInv, Getattr
  PROVE  CacheInv'
<1>0. CacheTypeOK /\ NodeOK /\ \A o \in Openers : OpenerOK(o)
  BY DEF CacheInv
<1>1. /\ node' = UpdateStat(node, version)
      /\ UNCHANGED <<time, version, changed, pages, opener, dropped>>
  BY DEF Getattr
<1>2. /\ node' \in [cache_valid : BOOLEAN, mtime : 1 .. version, stat_updated : 0 .. time]
      /\ node'.mtime = version
      /\ node'.cache_valid => PagesFrom(version)
  BY <1>0, <1>1, UpdateStatOK
<1>3. CacheTypeOK'
  BY <1>0, <1>1, <1>2 DEF CacheTypeOK
<1>4. NodeOK'
  BY <1>0, <1>1, <1>2 DEF NodeOK, PagesFrom, Dropping, Where, CacheTypeOK
<1>5. \A o \in Openers : OpenerOK(o)'
  BY <1>0, <1>1 DEF OpenerOK, PagesFrom, Dropping, Where
<1> QED
  BY <1>3, <1>4, <1>5 DEF CacheInv

\* open_auto_cache decides for opener o, n being what the node was then.
LEMMA DecideOK ==
  ASSUME CacheInv, NEW o \in Openers,
         NEW n \in [cache_valid : BOOLEAN, mtime : 1 .. version, stat_updated : 0 .. time],
         \A v \in 1 .. version : v > n.mtime => changed[v] >= n.stat_updated,
         n.cache_valid => PagesFrom(n.mtime) /\ time - n.stat_updated <= Timeout,
         ~Where(o, "reply"),
         Decide(o, n), UNCHANGED <<time, version, changed, pages, dropped>>
  PROVE  CacheInv'
<1>0. CacheTypeOK /\ NodeOK /\ \A p \in Openers : OpenerOK(p)
  BY DEF CacheInv
<1>1. /\ node' = [n EXCEPT !.cache_valid = TRUE]
      /\ opener' = [opener EXCEPT ![o].pc = "reply", ![o].keep = n.cache_valid, ![o].oldest = Oldest]
  BY DEF Decide
<1>2. Oldest \in 0 .. version
  BY <1>0, OldestIs DEF CacheTypeOK
<1>3. /\ node'.mtime = n.mtime /\ node'.stat_updated = n.stat_updated
      /\ node' \in [cache_valid : BOOLEAN, mtime : 1 .. version, stat_updated : 0 .. time]
  BY <1>1
<1>4. /\ opener'[o].pc = "reply" /\ opener'[o].keep = n.cache_valid /\ opener'[o].oldest = Oldest
      /\ \A p \in Openers \ {o} : opener'[p] = opener[p]
  BY <1>0, <1>1 DEF CacheTypeOK
<1>5. CacheTypeOK'
  <2> DEFINE new == [opener[o] EXCEPT !.pc = "reply", !.keep = n.cache_valid, !.oldest = Oldest]
  <2>1. opener' = [opener EXCEPT ![o] = new]
    BY <1>1
  <2>2. new \in OpenerType(version)
    BY <1>0, <1>2 DEF CacheTypeOK, OpenerType
  <2> HIDE DEF new
  <2>3. opener' \in [Openers -> OpenerType(version)]
    BY <1>0, <2>1, <2>2 DEF CacheTypeOK
  <2> QED
    BY <1>0, <1>1, <1>3, <2>3 DEF CacheTypeOK
<1>6. Dropping => Dropping'
  BY <1>4 DEF Dropping, Where
<1>7. ~n.cache_valid => Dropping'
  BY <1>4 DEF Dropping, Where
<1>8. \A v : PagesFrom(v) => PagesFrom(v)'
  BY <1>6 DEF PagesFrom
<1>9. NodeOK'
  <2>1. PagesFrom(n.mtime)'
    BY <1>7, <1>8 DEF PagesFrom
  <2>2. PagesFrom(node.mtime)'
    BY <1>3, <2>1 DEF PagesFrom
  <2> QED
    BY <1>3, <2>2 DEF NodeOK
<1>10. OpenerOK(o)'
  <2>1. n.cache_valid => PagesFrom(Oldest)
    <3>1. n.cache_valid => Oldest <= n.mtime
      BY <1>0, FreshIsRecent
    <3> QED
      BY <1>0, <1>2, <3>1 DEF PagesFrom, CacheTypeOK
  <2>2. n.cache_valid => PagesFrom(opener[o].oldest)'
    BY <1>4, <1>8, <2>1 DEF PagesFrom
  <2> QED
    BY <1>4, <2>2 DEF OpenerOK, Where
<1>11. \A p \in Openers \ {o} : OpenerOK(p)'
  <2> SUFFICES ASSUME NEW p \in Openers \ {o} PROVE OpenerOK(p)'
    OBVIOUS
  <2>1. OpenerOK(p) /\ opener'[p] = opener[p]
    BY <1>0, <1>4
  <2>2. PagesFrom(opener[p].oldest) => PagesFrom(opener[p].oldest)'
    BY <1>6, <2>1 DEF PagesFrom
  <2> QED
    BY <2>1, <2>2 DEF OpenerOK, Where
<1> QED
  BY <1>5, <1>9, <1>10, <1>11 DEF CacheInv

LEMMA OpeningOK ==
  ASSUME CacheInv, NEW o \in Openers, Opening(o)
  PROVE  CacheInv'
<1>0. CacheTypeOK /\ NodeOK /\ \A p \in Openers : OpenerOK(p)
  BY DEF CacheInv
<1>1. CASE OpenFresh(o)
  <2>1. /\ ~Where(o, "reply") /\ Decide(o, node)
        /\ UNCHANGED <<time, version, changed, pages, dropped>>
        /\ node.cache_valid => ~(time - node.stat_updated > Timeout)
    BY <1>1 DEF OpenFresh, Where, Stale
  <2>2. node \in [cache_valid : BOOLEAN, mtime : 1 .. version, stat_updated : 0 .. time]
    BY <1>0 DEF CacheTypeOK
  <2>3. node.cache_valid => PagesFrom(node.mtime) /\ time - node.stat_updated <= Timeout
    BY <1>0, <2>1, <2>2, CacheAssumption DEF NodeOK, CacheTypeOK
  <2> QED
    BY <1>0, <2>1, <2>2, <2>3, DecideOK DEF NodeOK
<1>2. CASE OpenStale(o)
  <2>1. /\ opener' = [opener EXCEPT ![o].pc = "stat"] /\ opener[o].pc = "idle"
        /\ UNCHANGED <<time, version, changed, node, pages, dropped>>
    BY <1>2 DEF OpenStale, Where
  <2>2. CacheTypeOK'
    BY <1>0, <2>1 DEF CacheTypeOK, OpenerType
  <2>3. \A p \in Openers : p # o => opener'[p] = opener[p]
    BY <1>0, <2>1 DEF CacheTypeOK
  <2>4. opener'[o].pc = "stat"
    BY <1>0, <2>1 DEF CacheTypeOK
  <2>5. Dropping' = Dropping
    BY <2>1, <2>3, <2>4 DEF Dropping, Where
  <2>6. NodeOK'
    BY <1>0, <2>1, <2>5 DEF NodeOK, PagesFrom
  <2>7. \A p \in Openers : OpenerOK(p)'
    BY <1>0, <2>1, <2>3, <2>4, <2>5 DEF OpenerOK, PagesFrom, Where
  <2> QED
    BY <2>2, <2>6, <2>7 DEF CacheInv
<1>3. CASE OpenStat(o)
  <2>0. ~Where(o, "reply") /\ UNCHANGED <<time, version, changed, pages, dropped>>
    BY <1>3 DEF OpenStat, Where
  <2>1. CASE Decide(o, UpdateStat(node, version))
    <3> DEFINE n == UpdateStat(node, version)
    <3>1. /\ n \in [cache_valid : BOOLEAN, mtime : 1 .. version, stat_updated : 0 .. time]
          /\ n.mtime = version /\ n.stat_updated = time
          /\ n.cache_valid => PagesFrom(version)
      BY <1>0, UpdateStatOK
    <3>2. Decide(o, n)
      BY <2>1
    <3> HIDE DEF n
    <3>3. \A v \in 1 .. version : v > n.mtime => changed[v] >= n.stat_updated
      BY <1>0, <3>1, CacheAssumption DEF CacheTypeOK
    <3>4. n.cache_valid => PagesFrom(n.mtime) /\ time - n.stat_updated <= Timeout
      BY <1>0, <3>1, CacheAssumption DEF CacheTypeOK
    <3> QED
      BY <2>0, <3>1, <3>2, <3>3, <3>4, DecideOK
  <2>2. CASE Decide(o, [node EXCEPT !.cache_valid = FALSE])
    <3> DEFINE n == [node EXCEPT !.cache_valid = FALSE]
    <3>1. /\ n \in [cache_valid : BOOLEAN, mtime : 1 .. version, stat_updated : 0 .. time]
          /\ n.mtime = node.mtime /\ n.stat_updated = node.stat_updated
          /\ ~n.cache_valid
      BY <1>0 DEF CacheTypeOK
    <3>2. Decide(o, n)
      BY <2>2
    <3> HIDE DEF n
    <3>3. \A v \in 1 .. version : v > n.mtime => changed[v] >= n.stat_updated
      BY <1>0, <3>1 DEF NodeOK
    <3> QED
      BY <2>0, <3>1, <3>2, <3>3, DecideOK
  <2> QED
    BY <1>3, <2>1, <2>2 DEF OpenStat
<1> QED
  BY <1>1, <1>2, <1>3 DEF Opening
-----------------------------------------------------------------------------
(* The kernel's steps write one opener and the pages. *)

LEMMA FinishOpenOK ==
  ASSUME CacheInv, NEW o \in Openers, FinishOpen(o)
  PROVE  CacheInv'
<1>0. CacheTypeOK /\ NodeOK /\ \A p \in Openers : OpenerOK(p)
  BY DEF CacheInv
<1>1. /\ opener[o].pc = "reply" /\ opener' = [opener EXCEPT ![o].pc = "open"]
      /\ pages' = (IF opener[o].keep THEN pages ELSE 0)
      /\ UNCHANGED <<time, version, changed, node, dropped>>
  BY DEF FinishOpen, Where
<1>2. CacheTypeOK'
  <2>1. opener \in [Openers -> OpenerType(version)]
    BY <1>0 DEF CacheTypeOK
  <2>2. opener' \in [Openers -> OpenerType(version)]
    BY <1>1, <2>1 DEF OpenerType
  <2>3. pages' \in 0 .. version
    BY <1>0, <1>1 DEF CacheTypeOK
  <2> QED BY <1>0, <1>1, <2>2, <2>3 DEF CacheTypeOK
<1>3. /\ \A p \in Openers : p # o => opener'[p] = opener[p]
      /\ opener'[o].pc = "open" /\ opener'[o].keep = opener[o].keep
      /\ opener'[o].oldest = opener[o].oldest
  BY <1>0, <1>1 DEF CacheTypeOK
<1>4. ASSUME NEW v, PagesFrom(v) PROVE PagesFrom(v)'
  <2>1. CASE opener[o].keep
    <3>1. Dropping => Dropping'
      BY <1>1, <1>3, <2>1 DEF Dropping, Where
    <3> QED
      BY <1>1, <1>4, <2>1, <3>1 DEF PagesFrom
  <2>2. CASE ~opener[o].keep
    BY <1>1, <2>2 DEF PagesFrom
  <2> QED
    BY <2>1, <2>2
<1>5. NodeOK'
  BY <1>0, <1>1, <1>4 DEF NodeOK
<1>6. OpenerOK(o)'
  <2>1. PagesFrom(opener[o].oldest)'
    <3>1. CASE opener[o].keep
      <4>1. PagesFrom(opener[o].oldest)
        BY <1>0, <1>1, <3>1 DEF OpenerOK, Where
      <4>2. Dropping => Dropping'
        BY <1>1, <1>3, <3>1 DEF Dropping, Where
      <4> QED
        BY <1>1, <1>3, <3>1, <4>1, <4>2 DEF PagesFrom
    <3>2. CASE ~opener[o].keep
      BY <1>1, <3>2 DEF PagesFrom
    <3> QED
      BY <3>1, <3>2
  <2> QED
    BY <1>3, <2>1 DEF OpenerOK, Where
<1>7. \A p \in Openers : p # o => OpenerOK(p)'
  BY <1>0, <1>1, <1>3, <1>4 DEF OpenerOK, Where
<1> QED
  BY <1>2, <1>5, <1>6, <1>7 DEF CacheInv

LEMMA OpenInterruptedOK ==
  ASSUME CacheInv, NEW o \in Openers, OpenInterrupted(o)
  PROVE  CacheInv'
<1>0. CacheTypeOK /\ NodeOK /\ \A p \in Openers : OpenerOK(p)
  BY DEF CacheInv
<1>1. /\ opener[o].pc = "reply" /\ opener' = [opener EXCEPT ![o].pc = "idle", ![o].keep = FALSE]
      /\ dropped' = (dropped \/ ~opener[o].keep)
      /\ UNCHANGED <<time, version, changed, node, pages>>
  BY DEF OpenInterrupted, Where
<1>2. CacheTypeOK'
  BY <1>0, <1>1 DEF CacheTypeOK, OpenerType
<1>3. /\ \A p \in Openers : p # o => opener'[p] = opener[p]
      /\ opener'[o].pc = "idle"
  BY <1>0, <1>1 DEF CacheTypeOK
<1>4. (Dropping => Dropping') /\ (dropped => dropped')
  BY <1>1, <1>3 DEF Dropping, Where
<1>5. \A v : PagesFrom(v) => PagesFrom(v)'
  BY <1>1, <1>4 DEF PagesFrom
<1>6. NodeOK'
  BY <1>0, <1>1, <1>5 DEF NodeOK
<1>7. OpenerOK(o)'
  BY <1>3 DEF OpenerOK, Where
<1>8. \A p \in Openers : p # o => OpenerOK(p)'
  BY <1>0, <1>3, <1>4, <1>5 DEF OpenerOK, Where
<1> QED
  BY <1>2, <1>6, <1>7, <1>8 DEF CacheInv

LEMMA ReadPagesOK ==
  ASSUME CacheInv, NEW o \in Openers, ReadPages(o)
  PROVE  CacheInv'
<1>0. CacheTypeOK /\ NodeOK /\ \A p \in Openers : OpenerOK(p)
  BY DEF CacheInv
<1> DEFINE l == \E p \in Openers \ {o} : Where(p, "reply") /\ ~opener[p].keep
<1>1. /\ opener[o].pc = "open"
      /\ pages' = (IF pages = 0 THEN version ELSE pages)
      /\ opener' = [opener EXCEPT ![o].pc = "read", ![o].saw = pages', ![o].late = l]
      /\ UNCHANGED <<time, version, changed, node, dropped>>
  BY DEF ReadPages, Where
<1>2. pages' \in 0 .. version /\ (pages # 0 => pages' = pages) /\ (pages = 0 => pages' = version)
  BY <1>0, <1>1, CacheAssumption DEF CacheTypeOK
<1>3. /\ \A p \in Openers : p # o => opener'[p] = opener[p]
      /\ opener'[o].pc = "read" /\ opener'[o].saw = pages' /\ (opener'[o].late <=> l)
      /\ opener'[o].oldest = opener[o].oldest
  BY <1>0, <1>1 DEF CacheTypeOK
<1>4. CacheTypeOK'
  <2> DEFINE new == [opener[o] EXCEPT !.pc = "read", !.saw = pages', !.late = l]
  <2>1. l \in BOOLEAN
    OBVIOUS
  <2>2. opener' = [opener EXCEPT ![o] = new]
    BY <1>1
  <2> HIDE DEF l
  <2>3. new \in OpenerType(version)
    BY <1>0, <1>2, <2>1 DEF CacheTypeOK, OpenerType
  <2> HIDE DEF new
  <2>4. opener' \in [Openers -> OpenerType(version)]
    BY <1>0, <2>2, <2>3 DEF CacheTypeOK
  <2> QED
    BY <1>0, <1>1, <1>2, <2>4 DEF CacheTypeOK
<1>5. Dropping' <=> Dropping
  BY <1>1, <1>3 DEF Dropping, Where
<1>6. ASSUME NEW v \in 0 .. version, PagesFrom(v)
      PROVE  PagesFrom(v)' /\ (Dropping' \/ pages' >= v)
  BY <1>0, <1>2, <1>5, <1>6 DEF PagesFrom, CacheTypeOK
<1>7. NodeOK'
  <2>1. node.mtime \in 0 .. version
    BY <1>0, CacheAssumption DEF CacheTypeOK
  <2>2. node.cache_valid => PagesFrom(node.mtime)'
    BY <1>0, <1>1, <1>6, <2>1 DEF NodeOK, PagesFrom
  <2> QED
    BY <1>0, <1>1, <2>2 DEF NodeOK
<1>8. OpenerOK(o)'
  <2>1. opener[o].oldest \in 0 .. version /\ PagesFrom(opener[o].oldest)
    BY <1>0, <1>1 DEF CacheTypeOK, OpenerType, OpenerOK, Where
  <2>2. Dropping' \/ pages' >= opener[o].oldest
    BY <1>6, <2>1
  <2>3. Dropping' => dropped' \/ l
    BY <1>3 DEF Dropping, Where
  <2> QED
    BY <1>3, <2>2, <2>3 DEF OpenerOK, Where
<1>9. \A p \in Openers : p # o => OpenerOK(p)'
  <2> SUFFICES ASSUME NEW p \in Openers, p # o PROVE OpenerOK(p)'
    OBVIOUS
  <2>1. /\ OpenerOK(p) /\ opener'[p] = opener[p] /\ opener[p].oldest \in 0 .. version
    BY <1>0, <1>3 DEF CacheTypeOK, OpenerType
  <2>2. PagesFrom(opener[p].oldest) => PagesFrom(opener[p].oldest)'
    BY <1>6, <2>1 DEF PagesFrom
  <2> QED
    BY <1>1, <2>1, <2>2 DEF OpenerOK, Where
<1> QED
  BY <1>4, <1>7, <1>8, <1>9 DEF CacheInv

LEMMA CloseOK ==
  ASSUME CacheInv, NEW o \in Openers, Close(o)
  PROVE  CacheInv'
<1>0. CacheTypeOK /\ NodeOK /\ \A p \in Openers : OpenerOK(p)
  BY DEF CacheInv
<1> DEFINE idle == [pc |-> "idle", keep |-> FALSE, oldest |-> 0, saw |-> 0, late |-> FALSE]
<1>1. /\ opener[o].pc = "read" /\ opener' = [opener EXCEPT ![o] = idle]
      /\ UNCHANGED <<time, version, changed, node, pages, dropped>>
  BY DEF Close, Where
<1>2. CacheTypeOK'
  <2>1. 0 \in 0 .. version
    BY <1>0, CacheAssumption DEF CacheTypeOK
  <2>2. idle \in OpenerType(version)
    BY <2>1 DEF OpenerType
  <2> HIDE DEF idle
  <2> QED
    BY <1>0, <1>1, <2>2 DEF CacheTypeOK
<1>3. /\ \A p \in Openers : p # o => opener'[p] = opener[p]
      /\ opener'[o].pc = "idle"
  BY <1>0, <1>1 DEF CacheTypeOK
<1>4. Dropping' <=> Dropping
  BY <1>1, <1>3 DEF Dropping, Where
<1>5. NodeOK'
  BY <1>0, <1>1, <1>4 DEF NodeOK, PagesFrom
<1>6. \A p \in Openers : OpenerOK(p)'
  BY <1>0, <1>1, <1>3, <1>4 DEF OpenerOK, PagesFrom, Where
<1> QED
  BY <1>2, <1>5, <1>6 DEF CacheInv

LEMMA CacheNextOK == CacheInv /\ [CacheNext]_cacheVars => CacheInv'
<1> SUFFICES ASSUME CacheInv, [CacheNext]_cacheVars PROVE CacheInv'
  OBVIOUS
<1>1. CASE Tick \/ ChangeFile \/ Getattr
  BY <1>1, TickOK, ChangeFileOK, GetattrOK
<1>2. ASSUME NEW o \in Openers,
             Opening(o) \/ FinishOpen(o) \/ OpenInterrupted(o) \/ ReadPages(o) \/ Close(o)
      PROVE  CacheInv'
  BY <1>2, OpeningOK, FinishOpenOK, OpenInterruptedOK, ReadPagesOK, CloseOK
<1>3. CASE UNCHANGED cacheVars
  <2>1. UNCHANGED <<time, version, changed, node, pages, opener, dropped>>
    BY <1>3 DEF cacheVars
  <2>2. CacheTypeOK'
    BY <2>1 DEF CacheInv, CacheTypeOK
  <2>3. NodeOK' /\ \A o \in Openers : OpenerOK(o)'
    BY <2>1 DEF CacheInv, NodeOK, OpenerOK, PagesFrom, Dropping, Where
  <2> QED
    BY <2>2, <2>3 DEF CacheInv
<1> QED
  BY <1>1, <1>2, <1>3 DEF CacheNext

THEOREM CacheInvariance == CacheSpec => []CacheInv
BY CacheInitOK, CacheNextOK, PTL DEF CacheSpec

\* Whoever opens a file sees no contents older than ac_attr_timeout, whatever
\* changes, look-ups and other opens come between the answer to the open and
\* the read (open_auto_cache, update_stat).
THEOREM PagesAreFresh == CacheSpec => []FreshPages
<1>1. CacheInv => FreshPages
  BY DEF CacheInv, OpenerOK, FreshPages
<1> QED
  BY <1>1, CacheInvariance, PTL
-----------------------------------------------------------------------------
(***************************************************************************)
(* HttpFs: what is on the connection is what the reader is about to take.  *)
(***************************************************************************)

WantType == [method : {"none", "HEAD", "GET"}, off : Nat, size : Nat]
HeaderItems == [status : Nat, length : Nat, close : BOOLEAN]
ByteItems == [byte : Int]
Items == HeaderItems \cup ByteItems
Answers == [off : Int, data : Seq(Int), whole : BOOLEAN]
WireOK ==
  /\ length \in Nat \ {0} /\ up \in BOOLEAN /\ owed \in Seq(WantType) /\ wire \in Seq(Items)
  /\ arrived \in Nat /\ arrived <= Len(wire)
EndOK == up \/ owed = << >>
HttpTypeOK ==
  /\ file_size \in Int /\ req_buf \in Seq(Int) /\ spoilt \in BOOLEAN
  /\ at \in {"idle", "send", "reply", "body", "aborted", "overrun"} /\ want \in WantType
  /\ filled \in Int /\ left \in Int /\ answer \in Answers

\* A request has its buffer.
WantOK ==
  /\ at \in {"send", "reply"} => want.method \in {"HEAD", "GET"}
  /\ at = "body" => want.method = "GET"
  /\ at \in {"send", "reply", "body"} /\ want.method = "GET" => want.size >= 1 /\ want.size <= Len(req_buf)

\* Between two requests nothing is on a connection.
ClearOK == at \in {"idle", "send"} => wire = << >> /\ owed = << >>

Takes(w, item) == IsHeader(item) /\ item.status = IF Ranged(w) THEN 206 ELSE 200

\* What comes is the reply to the one request that was sent.
ReplyOK ==
  at = "reply" =>
    /\ owed \in {<< >>, <<want>>} /\ (wire # << >> => owed = << >>)
    /\ want.method = "HEAD" => Len(wire) <= 1
    /\ want.method = "GET" /\ wire # << >> /\ Takes(want, wire[1]) =>
         /\ Len(wire) <= 1 + wire[1].length
         /\ \A i \in 2 .. Len(wire) : wire[i] = Byte(want.off + i - 2)

\* What was taken and what is to come are the bytes asked for.
BodyOK ==
  at = "body" =>
    /\ owed = << >> /\ Len(wire) <= left
    /\ \A i \in 1 .. Len(wire) : wire[i] = Byte(want.off + filled + i - 1)
    /\ \A i \in 1 .. filled : req_buf[i] = want.off + i - 1
CountsOK ==
  at = "body" =>
    /\ filled >= 0 /\ left >= 0 /\ filled + left <= want.size /\ answer.data = << >>
    /\ answer.whole => ~spoilt /\ filled + left = want.size

HttpInv ==
  /\ WireOK /\ EndOK /\ HttpTypeOK /\ WantOK /\ CountsOK /\ RightBytes
  /\ ~spoilt => ClearOK /\ ReplyOK /\ BodyOK

LEMMA ItemKind ==
  /\ \A item \in Items : IsHeader(item) <=> item \in HeaderItems
  /\ \A i \in Int : Byte(i) \in Items /\ ~IsHeader(Byte(i)) /\ Byte(i).byte = i
  /\ \A s, l \in Nat, c \in BOOLEAN :
       /\ Header(s, l, c) \in Items /\ IsHeader(Header(s, l, c))
       /\ Header(s, l, c).status = s /\ Header(s, l, c).length = l /\ Header(s, l, c).close = c
BY DEF Items, HeaderItems, ByteItems, IsHeader, Byte, Header

LEMMA NoItems ==
  /\ << >> \in Seq(Items) /\ << >> \in Seq(WantType) /\ << >> \in Seq(Int) /\ Len(<< >>) = 0
  /\ NoAnswer \in Answers /\ NoAnswer.data = << >> /\ ~NoAnswer.whole
  /\ \A w \in WantType : <<w>> \in Seq(WantType) /\ Len(<<w>>) = 1 /\ <<w>> # << >>
BY DEF Answers, NoAnswer

LEMMA EmptyWire ==
  ASSUME WireOK, Disconnected, length' = length PROVE WireOK' /\ EndOK'
<1> USE DEF Disconnected
<1>1. owed' \in Seq(WantType) /\ wire' \in Seq(Items)
  BY NoItems
<1>2. arrived' \in Nat /\ arrived' <= Len(wire')
  BY NoItems
<1>3. EndOK'
  BY DEF EndOK
<1>4. length' \in Nat \ {0} /\ up' \in BOOLEAN
  BY DEF WireOK
<1> QED BY <1>1, <1>2, <1>3, <1>4 DEF WireOK

LEMMA HttpStart == ASSUME HttpInit PROVE HttpInv
<1> USE HttpAssumption, NoItems DEF HttpInit
<1>1. owed \in Seq(WantType) /\ wire \in Seq(Items) /\ req_buf \in Seq(Int) /\ answer \in Answers
  OBVIOUS
<1>2. arrived <= Len(wire) /\ length \in Nat \ {0}
  OBVIOUS
<1>3. WireOK /\ EndOK
  BY <1>1, <1>2 DEF WireOK, EndOK
<1>4. want \in WantType
  BY DEF WantType, NoWant
<1>8. file_size \in Int /\ filled \in Int /\ left \in Int
  OBVIOUS
<1>9. spoilt \in BOOLEAN
  OBVIOUS
<1>5. HttpTypeOK
  BY <1>1, <1>4, <1>8, <1>9 DEF HttpTypeOK
<1>6. WantOK /\ CountsOK /\ ClearOK /\ ReplyOK /\ BodyOK
  BY DEF WantOK, CountsOK, ClearOK, ReplyOK, BodyOK
<1>7. RightBytes
  BY DEF RightBytes
<1> QED BY <1>3, <1>5, <1>6, <1>7 DEF HttpInv

LEMMA ConnectStep == ASSUME HttpInv, Connect PROVE HttpInv'
<1> USE DEF HttpInv
<1>1. EndOK'
  BY DEF EndOK, Connect
<1>2. WireOK'
  BY DEF WireOK, HttpTypeOK, Connect
<1>3. HttpTypeOK'
  BY DEF HttpTypeOK, WireOK, WantType, Connect
<1>4. WantOK'
  BY DEF WantOK, HttpTypeOK, WireOK, Connect
<1>5. CountsOK'
  BY DEF CountsOK, HttpTypeOK, WireOK, Connect
<1>6. RightBytes'
  BY DEF RightBytes, Connect
<1>7. ~spoilt' => ClearOK'
  BY DEF EndOK, ClearOK, BodyOK, WantOK, HttpTypeOK, WireOK, Connect
<1>8. ~spoilt' => ReplyOK'
  BY DEF ClearOK, ReplyOK, HttpTypeOK, WireOK, WantOK, Connect
<1>9. ~spoilt' => BodyOK'
  BY DEF BodyOK, HttpTypeOK, WireOK, Connect
<1> QED BY <1>1, <1>2, <1>3, <1>4, <1>5, <1>6, <1>7, <1>8, <1>9

LEMMA ConnectFailsStep == ASSUME HttpInv, ConnectFails PROVE HttpInv'
<1> USE DEF HttpInv
<1>1. EndOK'
  BY DEF EndOK, ConnectFails, CloseForce, Disconnected
<1>2. WireOK'
  BY EmptyWire DEF ConnectFails, CloseForce
<1>3. HttpTypeOK'
  BY NoItems DEF HttpTypeOK, WireOK, WantType, ConnectFails, CloseForce, Disconnected
<1>4. WantOK'
  BY DEF WantOK, HttpTypeOK, WireOK, ConnectFails, CloseForce, Disconnected
<1>5. CountsOK'
  BY DEF CountsOK, HttpTypeOK, WireOK, ConnectFails, CloseForce, Disconnected
<1>6. RightBytes'
  BY NoItems DEF RightBytes, ConnectFails, CloseForce, Disconnected
<1>7. ~spoilt' => ClearOK'
  BY DEF EndOK, ClearOK, BodyOK, WantOK, HttpTypeOK, WireOK, ConnectFails, CloseForce, Disconnected
<1>8. ~spoilt' => ReplyOK'
  BY DEF ClearOK, ReplyOK, HttpTypeOK, WireOK, WantOK, ConnectFails, CloseForce, Disconnected
<1>9. ~spoilt' => BodyOK'
  BY DEF BodyOK, HttpTypeOK, WireOK, ConnectFails, CloseForce, Disconnected
<1> QED BY <1>1, <1>2, <1>3, <1>4, <1>5, <1>6, <1>7, <1>8, <1>9

LEMMA WriteBrokenStep == ASSUME HttpInv, WriteBroken PROVE HttpInv'
<1> USE DEF HttpInv
<1>1. EndOK'
  BY DEF EndOK, WriteBroken, CloseForce, Disconnected
<1>2. WireOK'
  BY EmptyWire DEF WriteBroken, CloseForce
<1>3. HttpTypeOK'
  BY NoItems DEF HttpTypeOK, WireOK, WantType, WriteBroken, CloseForce, Disconnected
<1>4. WantOK'
  BY DEF WantOK, HttpTypeOK, WireOK, WriteBroken, CloseForce, Disconnected
<1>5. CountsOK'
  BY DEF CountsOK, HttpTypeOK, WireOK, WriteBroken, CloseForce, Disconnected
<1>6. RightBytes'
  BY NoItems DEF RightBytes, WriteBroken, CloseForce, Disconnected
<1>7. ~spoilt' => ClearOK'
  BY DEF EndOK, ClearOK, BodyOK, WantOK, HttpTypeOK, WireOK, WriteBroken, CloseForce, Disconnected
<1>8. ~spoilt' => ReplyOK'
  BY DEF ClearOK, ReplyOK, HttpTypeOK, WireOK, WantOK, WriteBroken, CloseForce, Disconnected
<1>9. ~spoilt' => BodyOK'
  BY DEF BodyOK, HttpTypeOK, WireOK, WriteBroken, CloseForce, Disconnected
<1> QED BY <1>1, <1>2, <1>3, <1>4, <1>5, <1>6, <1>7, <1>8, <1>9

LEMMA RetryStep == ASSUME HttpInv, Retry PROVE HttpInv'
<1> USE DEF HttpInv
<1>1. EndOK'
  BY DEF EndOK, Retry, CloseForce, Disconnected
<1>2. WireOK'
  BY EmptyWire DEF Retry, CloseForce
<1>3. HttpTypeOK'
  BY DEF HttpTypeOK, WireOK, WantType, Retry, CloseForce, Disconnected
<1>4. WantOK'
  BY DEF WantOK, HttpTypeOK, WireOK, Retry, CloseForce, Disconnected
<1>5. CountsOK'
  BY DEF CountsOK, HttpTypeOK, WireOK, Retry, CloseForce, Disconnected
<1>6. RightBytes'
  BY DEF RightBytes, Retry, CloseForce, Disconnected
<1>7. ~spoilt' => ClearOK'
  BY DEF EndOK, ClearOK, BodyOK, WantOK, HttpTypeOK, WireOK, Retry, CloseForce, Disconnected
<1>8. ~spoilt' => ReplyOK'
  BY DEF ClearOK, ReplyOK, HttpTypeOK, WireOK, WantOK, Retry, CloseForce, Disconnected
<1>9. ~spoilt' => BodyOK'
  BY DEF BodyOK, HttpTypeOK, WireOK, Retry, CloseForce, Disconnected
<1> QED BY <1>1, <1>2, <1>3, <1>4, <1>5, <1>6, <1>7, <1>8, <1>9

LEMMA StartStatStep == ASSUME HttpInv, StartStat PROVE HttpInv'
<1> USE DEF HttpInv
<1>1. EndOK'
  BY DEF EndOK, StartStat, NoWant, serverVars
<1>2. WireOK'
  BY DEF WireOK, HttpTypeOK, StartStat, NoWant, serverVars
<1>3. HttpTypeOK'
  BY DEF HttpTypeOK, WireOK, WantType, StartStat, NoWant, serverVars
<1>4. WantOK'
  BY DEF WantOK, HttpTypeOK, WireOK, StartStat, NoWant, serverVars
<1>5. CountsOK'
  BY DEF CountsOK, HttpTypeOK, WireOK, StartStat, NoWant, serverVars
<1>6. RightBytes'
  BY DEF RightBytes, StartStat, NoWant, serverVars
<1>7. ~spoilt' => ClearOK'
  BY DEF EndOK, ClearOK, BodyOK, WantOK, HttpTypeOK, WireOK, StartStat, NoWant, serverVars
<1>8. ~spoilt' => ReplyOK'
  BY DEF ClearOK, ReplyOK, HttpTypeOK, WireOK, WantOK, StartStat, NoWant, serverVars
<1>9. ~spoilt' => BodyOK'
  BY DEF BodyOK, HttpTypeOK, WireOK, StartStat, NoWant, serverVars
<1> QED BY <1>1, <1>2, <1>3, <1>4, <1>5, <1>6, <1>7, <1>8, <1>9

LEMMA ArriveStep == ASSUME HttpInv, Arrive PROVE HttpInv'
<1> USE DEF HttpInv
<1>1. EndOK'
  BY DEF EndOK, Arrive, clientVars
<1>2. WireOK'
  BY DEF WireOK, HttpTypeOK, Arrive, clientVars
<1>3. HttpTypeOK'
  BY DEF HttpTypeOK, WireOK, WantType, Arrive, clientVars
<1>4. WantOK'
  BY DEF WantOK, HttpTypeOK, WireOK, Arrive, clientVars
<1>5. CountsOK'
  BY DEF CountsOK, HttpTypeOK, WireOK, Arrive, clientVars
<1>6. RightBytes'
  BY DEF RightBytes, Arrive, clientVars
<1>7. ~spoilt' => ClearOK'
  BY DEF EndOK, ClearOK, BodyOK, WantOK, HttpTypeOK, WireOK, Arrive, clientVars
<1>8. ~spoilt' => ReplyOK'
  BY DEF ClearOK, ReplyOK, HttpTypeOK, WireOK, WantOK, Arrive, clientVars
<1>9. ~spoilt' => BodyOK'
  BY DEF BodyOK, HttpTypeOK, WireOK, Arrive, clientVars
<1> QED BY <1>1, <1>2, <1>3, <1>4, <1>5, <1>6, <1>7, <1>8, <1>9

LEMMA ResizeStep == ASSUME HttpInv, Resize PROVE HttpInv'
<1> USE DEF HttpInv
<1>1. EndOK'
  BY DEF EndOK, Resize, clientVars
<1>2. WireOK'
  BY HttpAssumption DEF WireOK, HttpTypeOK, Resize, clientVars
<1>3. HttpTypeOK'
  BY DEF HttpTypeOK, WireOK, WantType, Resize, clientVars
<1>4. WantOK'
  BY DEF WantOK, HttpTypeOK, WireOK, Resize, clientVars
<1>5. CountsOK'
  BY DEF CountsOK, HttpTypeOK, WireOK, Resize, clientVars
<1>6. RightBytes'
  BY DEF RightBytes, Resize, clientVars
<1>7. ~spoilt' => ClearOK'
  BY DEF EndOK, ClearOK, BodyOK, WantOK, HttpTypeOK, WireOK, Resize, clientVars
<1>8. ~spoilt' => ReplyOK'
  BY DEF ClearOK, ReplyOK, HttpTypeOK, WireOK, WantOK, Resize, clientVars
<1>9. ~spoilt' => BodyOK'
  BY DEF BodyOK, HttpTypeOK, WireOK, Resize, clientVars
<1> QED BY <1>1, <1>2, <1>3, <1>4, <1>5, <1>6, <1>7, <1>8, <1>9

LEMMA WriteKeptStep == ASSUME HttpInv, WriteKept PROVE HttpInv'
<1> USE DEF HttpInv
<1>1. EndOK'
  BY DEF EndOK, WriteKept
<1>2. WireOK'
  BY DEF WireOK, HttpTypeOK, WriteKept
<1>3. HttpTypeOK'
  BY DEF HttpTypeOK, WireOK, WantType, WriteKept
<1>4. WantOK'
  BY DEF WantOK, HttpTypeOK, WireOK, WriteKept
<1>5. CountsOK'
  BY DEF CountsOK, HttpTypeOK, WireOK, WriteKept
<1>6. RightBytes'
  BY DEF RightBytes, WriteKept
<1>7. ~spoilt' => ClearOK'
  BY DEF EndOK, ClearOK, BodyOK, WantOK, HttpTypeOK, WireOK, WriteKept
<1>8. ~spoilt' => ReplyOK'
  BY DEF ClearOK, ReplyOK, HttpTypeOK, WireOK, WantOK, WriteKept
<1>9. ~spoilt' => BodyOK'
  BY DEF BodyOK, HttpTypeOK, WireOK, WriteKept
<1> QED BY <1>1, <1>2, <1>3, <1>4, <1>5, <1>6, <1>7, <1>8, <1>9

LEMMA ReplyResetStep == ASSUME HttpInv, ReplyReset PROVE HttpInv'
<1> USE DEF HttpInv
<1>1. EndOK'
  BY DEF EndOK, ReplyReset, Fails, serverVars
<1>2. WireOK'
  BY DEF WireOK, HttpTypeOK, ReplyReset, Fails, serverVars
<1>3. HttpTypeOK'
  BY NoItems DEF HttpTypeOK, WireOK, WantType, ReplyReset, Fails, serverVars
<1>4. WantOK'
  BY DEF WantOK, HttpTypeOK, WireOK, ReplyReset, Fails, serverVars
<1>5. CountsOK'
  BY DEF CountsOK, HttpTypeOK, WireOK, ReplyReset, Fails, serverVars
<1>6. RightBytes'
  BY NoItems DEF RightBytes, ReplyReset, Fails, serverVars
<1>7. ~spoilt' => ClearOK'
  BY DEF EndOK, ClearOK, BodyOK, WantOK, HttpTypeOK, WireOK, ReplyReset, Fails, serverVars
<1>8. ~spoilt' => ReplyOK'
  BY DEF ClearOK, ReplyOK, HttpTypeOK, WireOK, WantOK, ReplyReset, Fails, serverVars
<1>9. ~spoilt' => BodyOK'
  BY DEF BodyOK, HttpTypeOK, WireOK, ReplyReset, Fails, serverVars
<1> QED BY <1>1, <1>2, <1>3, <1>4, <1>5, <1>6, <1>7, <1>8, <1>9

LEMMA BodyFailsStep == ASSUME HttpInv, BodyFails PROVE HttpInv'
<1> USE DEF HttpInv
<1>1. EndOK'
  BY DEF EndOK, BodyFails, Fails, serverVars
<1>2. WireOK'
  BY DEF WireOK, HttpTypeOK, BodyFails, Fails, serverVars
<1>3. HttpTypeOK'
  BY NoItems DEF HttpTypeOK, WireOK, WantType, BodyFails, Fails, serverVars
<1>4. WantOK'
  BY DEF WantOK, HttpTypeOK, WireOK, BodyFails, Fails, serverVars
<1>5. CountsOK'
  BY DEF CountsOK, HttpTypeOK, WireOK, BodyFails, Fails, serverVars
<1>6. RightBytes'
  BY NoItems DEF RightBytes, BodyFails, Fails, serverVars
<1>7. ~spoilt' => ClearOK'
  BY DEF EndOK, ClearOK, BodyOK, WantOK, HttpTypeOK, WireOK, BodyFails, Fails, serverVars
<1>8. ~spoilt' => ReplyOK'
  BY DEF ClearOK, ReplyOK, HttpTypeOK, WireOK, WantOK, BodyFails, Fails, serverVars
<1>9. ~spoilt' => BodyOK'
  BY DEF BodyOK, HttpTypeOK, WireOK, BodyFails, Fails, serverVars
<1> QED BY <1>1, <1>2, <1>3, <1>4, <1>5, <1>6, <1>7, <1>8, <1>9


LEMMA StartReadStep ==
  ASSUME HttpInv, NEW off \in {0, Page}, StartRead(off) PROVE HttpInv'
<1> USE DEF HttpInv
<1>a. UNCHANGED <<length, up, owed, wire, arrived, sock_type, file_size, filled, left, spoilt>>
      /\ answer' = NoAnswer
  BY DEF StartRead, serverVars
<1>b. PICK size : /\ size = Least(Page, file_size - off)
                  /\ \/ size < 0 /\ at' = "aborted" /\ UNCHANGED <<want, req_buf>>
                     \/ size = 0 /\ UNCHANGED <<at, want, req_buf>>
                     \/ /\ size > 0 /\ at' = "send"
                        /\ want' = [method |-> "GET", off |-> off, size |-> size]
                        /\ req_buf' = IF Len(req_buf) < size THEN [i \in 1 .. size |-> Junk] ELSE req_buf
  BY DEF StartRead
<1>c. size \in Int /\ off \in Nat /\ at = "idle" /\ Junk \in Int
  BY <1>b, HttpAssumption DEF Least, HttpTypeOK, StartRead, Junk
<1>d. /\ want' \in WantType /\ req_buf' \in Seq(Int)
      /\ at' = "send" => want'.method = "GET" /\ want'.size >= 1 /\ want'.size <= Len(req_buf')
  <2>1. CASE size <= 0
    BY <1>b, <1>c, <2>1 DEF HttpTypeOK
  <2>2. CASE size > 0
    <3>1. want' \in WantType /\ want'.method = "GET" /\ want'.size = size
      BY <1>b, <1>c, <2>2 DEF WantType
    <3>2. [i \in 1 .. size |-> Junk] \in Seq(Int) /\ Len([i \in 1 .. size |-> Junk]) = size
      BY <1>c, <2>2
    <3> QED BY <1>b, <1>c, <2>2, <3>1, <3>2 DEF HttpTypeOK
  <2> QED BY <1>c, <2>1, <2>2
<1>e. at' \in {"aborted", "idle", "send"}
  BY <1>b, <1>c
<1>1. WireOK' /\ EndOK' /\ CountsOK' /\ RightBytes'
  BY <1>a, <1>e, NoItems DEF WireOK, EndOK, CountsOK, RightBytes
<1>2. HttpTypeOK'
  BY <1>a, <1>d, <1>e, NoItems DEF HttpTypeOK
<1>3. WantOK'
  BY <1>d, <1>e DEF WantOK
<1>4. ~spoilt' => ClearOK' /\ ReplyOK' /\ BodyOK'
  BY <1>a, <1>c, <1>e DEF ClearOK, ReplyOK, BodyOK, HttpTypeOK
<1> QED BY <1>1, <1>2, <1>3, <1>4


LEMMA TakeWire ==
  ASSUME WireOK, NEW n \in 0 .. Len(wire)
  PROVE  /\ SubSeq(wire, 1, n) \in Seq(Items) /\ Len(SubSeq(wire, 1, n)) = n
         /\ \A i \in 1 .. n : SubSeq(wire, 1, n)[i] = wire[i]
         /\ SubSeq(wire, n + 1, Len(wire)) \in Seq(Items)
         /\ Len(SubSeq(wire, n + 1, Len(wire))) = Len(wire) - n
         /\ \A i \in 1 .. Len(wire) - n : SubSeq(wire, n + 1, Len(wire))[i] = wire[n + i]
<1>1. \A i \in 1 .. Len(wire) : wire[i] \in Items
  BY DEF WireOK
<1>2. n \in Nat /\ Len(wire) \in Nat
  BY DEF WireOK
<1>3. SubSeq(wire, 1, n) \in Seq(Items) /\ Len(SubSeq(wire, 1, n)) = n
         /\ \A i \in 1 .. n : SubSeq(wire, 1, n)[i] = wire[i]
  BY <1>1, <1>2, SubSeqProperties
<1>4. /\ SubSeq(wire, n + 1, Len(wire)) \in Seq(Items)
      /\ Len(SubSeq(wire, n + 1, Len(wire))) = Len(wire) - n
      /\ \A i \in 1 .. Len(wire) - n : SubSeq(wire, n + 1, Len(wire))[i] = wire[n + i]
  BY <1>1, <1>2, SubSeqProperties
<1> QED BY <1>3, <1>4

LEMMA TakeOK ==
  ASSUME WireOK, EndOK, NEW n \in 1 .. arrived, Take(n)
  PROVE  /\ WireOK' /\ EndOK' /\ owed' = owed /\ Len(wire') = Len(wire) - n /\ n \in 1 .. Len(wire)
         /\ \A i \in 1 .. Len(wire') : wire'[i] = wire[n + i]
<1>1. n \in 0 .. Len(wire) /\ n \in 1 .. Len(wire) /\ n \in Nat /\ n >= 1 /\ n <= arrived
  BY DEF WireOK
<1>2. /\ wire' \in Seq(Items) /\ Len(wire') = Len(wire) - n
      /\ \A i \in 1 .. Len(wire) - n : wire'[i] = wire[n + i]
  BY <1>1, TakeWire DEF Take
<1>3. owed' = owed /\ length' = length /\ up' = up /\ arrived' = arrived - n
  BY DEF Take
<1>4. arrived' \in Nat /\ arrived' <= Len(wire')
  BY <1>1, <1>2, <1>3 DEF WireOK
<1>5. WireOK'
  BY <1>2, <1>3, <1>4 DEF WireOK
<1>6. EndOK'
  BY <1>3 DEF EndOK
<1> QED BY <1>1, <1>2, <1>3, <1>5, <1>6

LEMMA ReadRefusedStep == ASSUME HttpInv, NEW n \in 1 .. arrived, ReadRefused(n) PROVE HttpInv'
<1> USE DEF HttpInv
<1>1. /\ WireOK' /\ EndOK' /\ owed' = owed /\ Len(wire') = Len(wire) - n /\ n \in 1 .. Len(wire)
      /\ at = "reply" /\ wire' \in Seq(Items)
  BY TakeOK DEF ReadRefused, WireOK
<1>2. /\ file_size' = file_size /\ req_buf' = req_buf /\ at' = "idle" /\ want' = want /\ filled' = filled
      /\ left' = left /\ answer' = NoAnswer /\ spoilt' = (spoilt \/ want.method = "GET")
  BY DEF ReadRefused, Fails
<1>3. HttpTypeOK' /\ WantOK' /\ CountsOK' /\ RightBytes'
  BY <1>2, NoItems DEF HttpTypeOK, WantOK, CountsOK, RightBytes
<1>4. ASSUME ~spoilt' PROVE ClearOK' /\ ReplyOK' /\ BodyOK'
  <2>1. ~spoilt /\ want.method = "HEAD" /\ ReplyOK
    BY <1>1, <1>2, <1>4 DEF WantOK
  <2>2. Len(wire) <= 1 /\ Len(wire) \in Nat
    BY <1>1, <2>1 DEF ReplyOK, WireOK
  <2>3. Len(wire') = 0 /\ wire # << >>
    BY <1>1, <2>2
  <2>4. wire' = << >> /\ owed' = << >>
    BY <1>1, <2>1, <2>3, EmptySeq DEF ReplyOK
  <2> QED BY <1>2, <2>4 DEF ClearOK, ReplyOK, BodyOK
<1> QED BY <1>1, <1>3, <1>4

LEMMA ReadStatStep == ASSUME HttpInv, NEW n \in 1 .. arrived, ReadStat(n) PROVE HttpInv'
<1> USE DEF HttpInv
<1>1. /\ req_buf' = req_buf /\ at' = "idle" /\ want' = want /\ filled' = filled /\ left' = left
      /\ answer' = NoAnswer /\ file_size' = wire[1].length
      /\ at = "reply" /\ want.method = "HEAD" /\ IsHeader(wire[1])
  BY DEF ReadStat, Accepts
<1>2. n \in 1 .. Len(wire) /\ wire[1] \in Items
  BY DEF WireOK
<1>3. file_size' \in Int
  BY <1>1, <1>2, ItemKind DEF HeaderItems
<1>4. CASE wire[1].close
  <2>1. Disconnected /\ length' = length /\ spoilt' = FALSE
    BY <1>4 DEF ReadStat, CloseForce
  <2>2. WireOK' /\ EndOK'
    BY <2>1, EmptyWire
  <2>3. HttpTypeOK' /\ WantOK' /\ CountsOK' /\ RightBytes'
    BY <1>1, <1>3, <2>1, NoItems DEF HttpTypeOK, WantOK, CountsOK, RightBytes
  <2>4. ClearOK' /\ ReplyOK' /\ BodyOK'
    BY <1>1, <2>1 DEF ClearOK, ReplyOK, BodyOK, Disconnected
  <2> QED BY <2>2, <2>3, <2>4
<1>5. CASE ~wire[1].close
  <2>1. Take(n) /\ spoilt' = spoilt
    BY <1>5 DEF ReadStat
  <2>2. WireOK' /\ EndOK' /\ owed' = owed /\ Len(wire') = Len(wire) - n /\ wire' \in Seq(Items)
    BY <2>1, TakeOK DEF WireOK
  <2>3. HttpTypeOK' /\ WantOK' /\ CountsOK' /\ RightBytes'
    BY <1>1, <1>3, <2>1, NoItems DEF HttpTypeOK, WantOK, CountsOK, RightBytes
  <2>4. ASSUME ~spoilt' PROVE ClearOK' /\ ReplyOK' /\ BodyOK'
    <3>1. ~spoilt /\ ReplyOK
      BY <2>1, <2>4 DEF HttpTypeOK
    <3>2. Len(wire) <= 1 /\ Len(wire) \in Nat
      BY <1>1, <3>1 DEF ReplyOK, WireOK
    <3>3. Len(wire') = 0 /\ wire # << >>
      BY <1>2, <2>2, <3>2
    <3>4. wire' = << >> /\ owed' = << >>
      BY <1>1, <2>2, <3>1, <3>3, EmptySeq DEF ReplyOK
    <3> QED BY <1>1, <3>4 DEF ClearOK, ReplyOK, BodyOK
  <2> QED BY <2>2, <2>3, <2>4
<1> QED BY <1>4, <1>5

LEMMA ServerClosesStep == ASSUME HttpInv, ServerCloses PROVE HttpInv'
<1> USE DEF HttpInv
<1>0. PICK n \in arrived .. Len(wire) : wire' = SubSeq(wire, 1, n)
  BY DEF ServerCloses, clientVars
<1>a. /\ n \in 0 .. Len(wire) /\ wire' \in Seq(Items) /\ Len(wire') = n
      /\ \A i \in 1 .. n : wire'[i] = wire[i]
  BY <1>0, TakeWire DEF WireOK
<1>b. /\ length' = length /\ arrived' = arrived /\ owed' = << >> /\ up' = FALSE
      /\ file_size' = file_size /\ req_buf' = req_buf /\ at' = at /\ want' = want /\ filled' = filled
      /\ left' = left /\ answer' = answer /\ spoilt' = spoilt
  BY DEF ServerCloses, clientVars
<1>7. owed' \in Seq(WantType)
  BY <1>b, NoItems
<1>8. arrived' \in Nat /\ arrived' <= Len(wire')
  BY <1>0, <1>a, <1>b DEF WireOK
<1>9. length' \in Nat \ {0} /\ up' \in BOOLEAN
  BY <1>b DEF WireOK
<1>1. WireOK'
  BY <1>a, <1>7, <1>8, <1>9 DEF WireOK
<1>6. EndOK'
  BY <1>b DEF EndOK
<1>2. HttpTypeOK' /\ WantOK' /\ CountsOK' /\ RightBytes'
  BY <1>b DEF HttpTypeOK, WantOK, CountsOK, RightBytes
<1>3. ~spoilt' => ClearOK'
  BY <1>a, <1>b DEF ClearOK, WireOK
<1>4. ~spoilt' => ReplyOK'
  <2> SUFFICES ASSUME ~spoilt', at' = "reply" PROVE ReplyOK'
    BY DEF ReplyOK
  <2>1. ReplyOK /\ at = "reply" /\ want' = want /\ (wire' # << >> => n >= 1 /\ wire # << >>)
    BY <1>a, <1>b DEF clientVars, WireOK
  <2>2. wire' # << >> => wire'[1] = wire[1]
    <3> SUFFICES ASSUME wire' # << >> PROVE wire'[1] = wire[1]
      OBVIOUS
    <3>1. 1 \in 1 .. n
      BY <2>1, <1>a DEF WireOK
    <3>2. \A i \in 1 .. n : wire'[i] = wire[i]
      BY <1>a
    <3>3. \A i : i \in 1 .. n => wire'[i] = wire[i]
      BY <3>2
    <3> QED BY <3>1, <3>3
  <2>3. ReplyOK
    BY <2>1
  <2>4. want'.method = "HEAD" => Len(wire') <= 1
    BY <1>a, <2>1, <2>3 DEF ReplyOK, WireOK
  <2>5. ASSUME want'.method = "GET", wire' # << >>, Takes(want', wire'[1])
        PROVE  /\ Len(wire') <= 1 + wire'[1].length
               /\ \A i \in 2 .. Len(wire') : wire'[i] = Byte(want'.off + i - 2)
    <3>1. Takes(want, wire[1]) /\ wire # << >> /\ want.method = "GET"
      BY <2>1, <2>2, <2>5
    <3>2. /\ Len(wire) <= 1 + wire[1].length
          /\ \A i \in 2 .. Len(wire) : wire[i] = Byte(want.off + i - 2)
      BY <2>1, <2>3, <3>1 DEF ReplyOK
    <3>3. wire[1] \in Items /\ wire[1].length \in Nat /\ Len(wire') <= Len(wire) /\ Len(wire) \in Nat
      <4>1. wire[1] \in Items /\ Len(wire) \in Nat /\ Len(wire') <= Len(wire)
        BY <1>a, <2>1, <2>5 DEF WireOK
      <4> QED BY <4>1, <3>1, ItemKind DEF Takes, HeaderItems
    <3>4. Len(wire') <= 1 + wire'[1].length
      BY <1>a, <2>2, <2>5, <3>2, <3>3
    <3>5. \A i \in 2 .. Len(wire') : wire'[i] = Byte(want'.off + i - 2)
      BY <1>a, <2>1, <3>2, <3>3
    <3> QED BY <3>4, <3>5
  <2> QED BY <1>b, <2>1, <2>4, <2>5 DEF ReplyOK
<1>5. ~spoilt' => BodyOK'
  <2> SUFFICES ASSUME ~spoilt', at' = "body" PROVE BodyOK'
    BY DEF BodyOK
  <2>1. BodyOK /\ at = "body" /\ UNCHANGED <<want, filled, left, req_buf>>
    BY <1>b DEF clientVars, WireOK, HttpTypeOK
  <2> QED BY <1>a, <1>b, <2>1 DEF BodyOK, WireOK, HttpTypeOK
<1> QED BY <1>1, <1>2, <1>3, <1>4, <1>5, <1>6

LEMMA ReplyIs ==
  ASSUME NEW w \in WantType, NEW close \in BOOLEAN, length \in Nat \ {0}
  PROVE  /\ Reply(w, close) \in Seq(Items)
         /\ w.method = "HEAD" => Len(Reply(w, close)) = 1
         /\ w.method = "GET" /\ w.size >= 1 /\ Takes(w, Reply(w, close)[1]) =>
              /\ Len(Reply(w, close)) = 1 + Reply(w, close)[1].length
              /\ \A i \in 2 .. Len(Reply(w, close)) : Reply(w, close)[i] = Byte(w.off + i - 2)
<1> DEFINE first == IF Ranged(w) THEN w.off ELSE 0
           last == IF Ranged(w) THEN Least(w.off + w.size, length) - 1 ELSE length - 1
           head == Header(IF Ranged(w) THEN 206 ELSE 200, last - first + 1, close)
           bytes == [i \in 1 .. last - first + 1 |-> Byte(first + i - 1)]
<1>0. w.off \in Nat /\ w.size \in Nat /\ w.method \in {"none", "HEAD", "GET"} /\ first \in Nat /\ last \in Int
  BY DEF WantType, Least
<1>1. CASE w.method = "HEAD"
  <2>1. Reply(w, close) = <<Header(200, length, close)>> /\ Header(200, length, close) \in Items
    BY <1>1, ItemKind DEF Reply
  <2>2. Reply(w, close) \in Seq(Items) /\ Len(Reply(w, close)) = 1
    BY <2>1
  <2> QED BY <1>1, <2>2
<1>2. CASE w.method # "HEAD" /\ first > last
  <2>1. Reply(w, close) = <<Header(416, 1, close), Byte(Junk)>>
    BY <1>2 DEF Reply
  <2>2. Header(416, 1, close) \in Items /\ Byte(Junk) \in Items /\ Header(416, 1, close).status = 416
    BY ItemKind DEF Junk
  <2>3. Reply(w, close) \in Seq(Items) /\ Reply(w, close)[1].status = 416
    BY <2>1, <2>2
  <2> QED BY <1>2, <2>3 DEF Takes
<1>3. CASE w.method # "HEAD" /\ first <= last
  <2>1. Reply(w, close) = <<head>> \o bytes
    BY <1>0, <1>3 DEF Reply
  <2>2. /\ head \in Items /\ head.length = last - first + 1 /\ head.status = IF Ranged(w) THEN 206 ELSE 200
    BY <1>0, <1>3, ItemKind
  <2>3. \A i \in 1 .. last - first + 1 : Byte(first + i - 1) \in Items
    BY <1>0, ItemKind
  <2>4. bytes \in Seq(Items) /\ Len(bytes) = last - first + 1
    BY <1>0, <1>3, <2>3
  <2>5. <<head>> \in Seq(Items) /\ Len(<<head>>) = 1 /\ <<head>>[1] = head
    BY <2>2
  <2> HIDE DEF head
  <2>6. /\ Reply(w, close) \in Seq(Items) /\ Len(Reply(w, close)) = 1 + (last - first + 1)
        /\ \A i \in 1 .. Len(Reply(w, close)) : Reply(w, close)[i] = IF i <= 1 THEN <<head>>[i] ELSE bytes[i - 1]
    <3> HIDE DEF bytes, first, last
    <3>1. /\ <<head>> \o bytes \in Seq(Items) /\ Len(<<head>> \o bytes) = Len(<<head>>) + Len(bytes)
          /\ \A i \in 1 .. Len(<<head>>) + Len(bytes) :
               (<<head>> \o bytes)[i] = IF i <= Len(<<head>>) THEN <<head>>[i] ELSE bytes[i - Len(<<head>>)]
      BY ONLY <2>4, <2>5, ConcatProperties
    <3> QED BY <1>0, <2>1, <2>4, <2>5, <3>1
  <2> HIDE DEF first, last, bytes
  <2>7. Reply(w, close)[1] = head /\ Len(Reply(w, close)) = 1 + Reply(w, close)[1].length
    BY <1>0, <1>3, <2>2, <2>5, <2>6
  <2>10. \A i \in 1 .. last - first + 1 : bytes[i] = Byte(first + i - 1)
    BY DEF bytes
  <2>8. \A i \in 2 .. Len(Reply(w, close)) : Reply(w, close)[i] = Byte(first + i - 2)
    <3> TAKE i \in 2 .. Len(Reply(w, close))
    <3>1. i \in Int /\ i >= 2 /\ i - 1 \in 1 .. last - first + 1 /\ Reply(w, close)[i] = bytes[i - 1]
      BY <1>0, <1>3, <2>6
    <3>2. first + (i - 1) - 1 = first + i - 2
      BY <1>0, <3>1
    <3> QED BY <3>1, <3>2, <2>10
  <2>9. w.method = "GET" /\ w.size >= 1 => first = w.off
    BY <1>0 DEF Ranged, first
  <2> QED BY <1>3, <2>6, <2>7, <2>8, <2>9
<1> QED BY <1>0, <1>1, <1>2, <1>3

LEMMA RespondStep == ASSUME HttpInv, Respond PROVE HttpInv'
<1> USE DEF HttpInv
<1>a. /\ length' = length /\ arrived' = arrived
      /\ file_size' = file_size /\ req_buf' = req_buf /\ at' = at /\ want' = want /\ filled' = filled
      /\ left' = left /\ answer' = answer /\ spoilt' = spoilt
  BY DEF Respond, clientVars
<1>b. owed # << >> /\ Head(owed) \in WantType /\ Tail(owed) \in Seq(WantType)
  BY HeadTailProperties DEF Respond, WireOK
<1>c. PICK close \in BOOLEAN :
        /\ \/ wire' = wire \o Reply(Head(owed), close)
           \/ wire' = wire \o <<Header(500, 1, close)>>
                           \o IF Head(owed).method = "GET" THEN <<Byte(Junk)>> ELSE << >>
        /\ up' = ~close
  BY DEF Respond
<1> DEFINE body == IF Head(owed).method = "GET" THEN <<Byte(Junk)>> ELSE << >>
           refusal == <<Header(500, 1, close)>> \o body
<1>h. /\ refusal \in Seq(Items) /\ refusal[1].status = 500
      /\ Head(owed).method = "HEAD" => Len(refusal) = 1
      /\ wire \o <<Header(500, 1, close)>> \o body = wire \o refusal
  <2>1. Header(500, 1, close) \in Items /\ Byte(Junk) \in Items /\ Header(500, 1, close).status = 500
    BY ItemKind DEF Junk
  <2>2. <<Header(500, 1, close)>> \in Seq(Items) /\ Len(<<Header(500, 1, close)>>) = 1
        /\ <<Header(500, 1, close)>>[1] = Header(500, 1, close)
    BY <2>1
  <2>3. body \in Seq(Items) /\ (Head(owed).method = "HEAD" => Len(body) = 0)
    BY <2>1, NoItems
  <2> HIDE DEF body
  <2>4. /\ refusal \in Seq(Items) /\ Len(refusal) = 1 + Len(body)
        /\ \A i \in 1 .. 1 + Len(body) : refusal[i] = IF i <= 1 THEN <<Header(500, 1, close)>>[i] ELSE body[i - 1]
    BY <2>2, <2>3, ConcatProperties
  <2>5. refusal[1] = Header(500, 1, close)
    BY <2>2, <2>3, <2>4
  <2>6. wire \o <<Header(500, 1, close)>> \o body = wire \o refusal
    BY <2>2, <2>3, ConcatAssociative DEF WireOK
  <2> QED BY <2>1, <2>3, <2>4, <2>5, <2>6
<1> HIDE DEF body, refusal
<1>g. PICK response : response \in {Reply(Head(owed), close), refusal} /\ wire' = wire \o response
  BY <1>c, <1>h DEF body
<1>d. owed' = IF up' THEN Tail(owed) ELSE << >>
  BY DEF Respond
<1>e. /\ response \in Seq(Items)
      /\ Head(owed).method = "HEAD" => Len(response) = 1
      /\ Head(owed).method = "GET" /\ Head(owed).size >= 1 /\ Takes(Head(owed), response[1]) =>
              /\ Len(response) = 1 + response[1].length
              /\ \A i \in 2 .. Len(response) : response[i] = Byte(Head(owed).off + i - 2)
  <2>1. CASE response = Reply(Head(owed), close)
    BY <1>b, <2>1, ReplyIs DEF WireOK
  <2>2. CASE response = refusal
    BY <1>h, <2>2 DEF Takes
  <2> QED BY <1>g, <2>1, <2>2
<1>f. wire' \in Seq(Items) /\ Len(wire') = Len(wire) + Len(response) /\ Len(response) \in Nat /\ Len(wire) \in Nat
  BY <1>g, <1>e, ConcatProperties DEF WireOK
<1>1. WireOK'
  <2>1. owed' \in Seq(WantType)
    BY <1>b, <1>d, NoItems
  <2>2. arrived' <= Len(wire') /\ arrived' \in Nat
    BY <1>a, <1>f DEF WireOK
  <2>3. length' \in Nat \ {0} /\ up' \in BOOLEAN
    BY <1>a, <1>c DEF WireOK
  <2> QED BY <1>f, <2>1, <2>2, <2>3 DEF WireOK
<1>2. EndOK'
  BY <1>d DEF EndOK
<1>3. HttpTypeOK' /\ WantOK' /\ CountsOK' /\ RightBytes'
  BY <1>a DEF HttpTypeOK, WantOK, CountsOK, RightBytes
<1>4. ASSUME ~spoilt' PROVE ClearOK' /\ ReplyOK' /\ BodyOK'
  <2>1. at \notin {"idle", "send", "body"}
    BY <1>a, <1>b, <1>4 DEF ClearOK, BodyOK, HttpTypeOK
  <2>2. ASSUME at = "reply" PROVE ReplyOK'
    <3>1. owed = <<want>> /\ wire = << >> /\ Head(owed) = want /\ Tail(owed) = << >>
      <4>1. ReplyOK
        BY <1>a, <1>4 DEF HttpTypeOK
      <4>2. owed = <<want>> /\ wire = << >>
        BY <1>b, <2>2, <4>1 DEF ReplyOK
      <4> QED BY <4>2
    <3>2. wire' = response /\ owed' = << >>
      BY <1>g, <1>d, <1>e, <3>1, ConcatEmptySeq
    <3>3. want.method = "GET" => want.size >= 1
      BY <2>2 DEF WantOK
    <3>4. Takes(want', wire'[1]) = Takes(want, response[1])
      BY <1>a, <3>2
    <3>5. want'.method = "HEAD" => Len(wire') <= 1
      <4>1. Head(owed).method = "HEAD" => Len(response) = 1
        BY <1>e
      <4>2. want.method = "HEAD" => Len(wire') = 1
        BY <4>1, <3>1, <3>2
      <4>3. want'.method = "HEAD" => Len(wire') = 1
        BY <4>2, <1>a
      <4>4. Len(wire') = 1 => Len(wire') <= 1
        OBVIOUS
      <4> QED BY <4>3, <4>4
    <3>6. ASSUME want'.method = "GET", Takes(want', wire'[1])
          PROVE  /\ Len(wire') <= 1 + wire'[1].length
                 /\ \A i \in 2 .. Len(wire') : wire'[i] = Byte(want'.off + i - 2)
      <4>1. /\ Len(response) = 1 + response[1].length
            /\ \A i \in 2 .. Len(response) : response[i] = Byte(want.off + i - 2)
        BY <1>a, <1>e, <3>1, <3>2, <3>3, <3>4, <3>6
      <4> QED BY <1>a, <1>f, <3>2, <4>1
    <3> QED BY <3>2, <3>5, <3>6 DEF ReplyOK
  <2> QED BY <1>a, <2>1, <2>2 DEF ClearOK, ReplyOK, BodyOK
<1> QED BY <1>1, <1>2, <1>3, <1>4

LEMMA BytesOf ==
  ASSUME NEW items \in Seq(Items)
  PROVE  /\ Bytes(items) \in Seq(Int) /\ Len(Bytes(items)) = Len(items)
         /\ \A i \in 1 .. Len(items), k \in Int : items[i] = Byte(k) => Bytes(items)[i] = k
<1>1. \A i \in 1 .. Len(items) : (IF IsHeader(items[i]) THEN Junk ELSE items[i].byte) \in Int
  <2> TAKE i \in 1 .. Len(items)
  <2>1. items[i] \in Items
    OBVIOUS
  <2>2. ~IsHeader(items[i]) => items[i] \in ByteItems
    BY <2>1, ItemKind DEF Items
  <2>3. ~IsHeader(items[i]) => items[i].byte \in Int
    BY <2>2 DEF ByteItems
  <2> QED BY <2>3 DEF Junk
<1>2. Bytes(items) = [i \in 1 .. Len(items) |-> IF IsHeader(items[i]) THEN Junk ELSE items[i].byte]
  BY DEF Bytes
<1>3. Bytes(items) \in Seq(Int) /\ Len(Bytes(items)) = Len(items)
  BY <1>1, <1>2
<1>4. ASSUME NEW i \in 1 .. Len(items), NEW k \in Int, items[i] = Byte(k) PROVE Bytes(items)[i] = k
  BY <1>2, <1>4, ItemKind
<1> QED BY <1>3, <1>4

LEMMA FillIs ==
  ASSUME req_buf \in Seq(Int), NEW from \in Int, NEW data \in Seq(Int)
  PROVE  /\ Fill(from, data) \in Seq(Int) /\ Len(Fill(from, data)) = Len(req_buf)
         /\ \A i \in 1 .. Len(req_buf) :
              Fill(from, data)[i] = IF i - from \in 1 .. Len(data) THEN data[i - from] ELSE req_buf[i]
<1>1. DOMAIN data = 1 .. Len(data) /\ DOMAIN req_buf = 1 .. Len(req_buf)
  OBVIOUS
<1>2. Fill(from, data) =
        [i \in 1 .. Len(req_buf) |-> IF i - from \in 1 .. Len(data) THEN data[i - from] ELSE req_buf[i]]
  BY <1>1 DEF Fill
<1>3. \A i \in 1 .. Len(req_buf) :
        (IF i - from \in 1 .. Len(data) THEN data[i - from] ELSE req_buf[i]) \in Int
  OBVIOUS
<1> QED BY <1>2, <1>3

LEMMA ReadHeaderStep == ASSUME HttpInv, NEW n \in 1 .. arrived, ReadHeader(n) PROVE HttpInv'
<1> USE DEF HttpInv
<1> DEFINE items == SubSeq(wire, 2, n)
           body == Bytes(items)
           size == Least(wire[1].length, want.size)
<1>a. /\ file_size' = file_size /\ want' = want /\ Take(n)
      /\ at = "reply" /\ want.method = "GET" /\ Takes(want, wire[1])
      /\ answer' = [NoAnswer EXCEPT !.whole = (wire[1].length = want.size /\ ~spoilt)]
      /\ spoilt' = (spoilt \/ wire[1].length > want.size)
  BY DEF ReadHeader, Accepts, Expected, Takes
<1>b. \/ Len(body) > size /\ at' = "overrun" /\ UNCHANGED <<req_buf, filled, left>>
      \/ /\ Len(body) <= size /\ at' = "body"
         /\ req_buf' = Fill(0, body) /\ filled' = Len(body) /\ left' = size - Len(body)
  BY DEF ReadHeader
<1>c. /\ WireOK' /\ EndOK' /\ owed' = owed /\ Len(wire') = Len(wire) - n /\ n \in 1 .. Len(wire)
      /\ \A i \in 1 .. Len(wire') : wire'[i] = wire[n + i]
      /\ Len(wire) \in Nat /\ n \in Nat /\ n >= 1 /\ n <= Len(wire) /\ Len(wire') \in Nat
  BY <1>a, TakeOK DEF WireOK
<1>d. wire[1] \in Items /\ wire[1].length \in Nat /\ wire # << >>
  <2>1. wire[1] \in Items /\ wire # << >>
    BY <1>c DEF WireOK
  <2> QED BY <2>1, <1>a, ItemKind DEF Takes, HeaderItems
<1>e. /\ want.size \in Nat /\ want.size >= 1 /\ want.size <= Len(req_buf) /\ want.off \in Nat
      /\ size \in Nat /\ size <= want.size /\ size <= wire[1].length
      /\ (wire[1].length <= want.size => size = wire[1].length)
  BY <1>a, <1>d DEF WantOK, HttpTypeOK, WantType, Least
<1>f. /\ items \in Seq(Items) /\ Len(items) = n - 1
      /\ \A i \in 1 .. n - 1 : items[i] = wire[i + 1]
  <2>1. \A i \in 2 .. n : wire[i] \in Items
    BY <1>c DEF WireOK
  <2>2. /\ items \in Seq(Items) /\ Len(items) = IF 2 <= n THEN n - 2 + 1 ELSE 0
        /\ \A i \in 1 .. n - 2 + 1 : items[i] = wire[2 + i - 1]
    BY <2>1, <1>c, SubSeqProperties
  <2>3. \A i \in 1 .. n - 1 : i \in Int /\ i \in 1 .. n - 2 + 1 /\ 2 + i - 1 = i + 1
    BY <1>c
  <2>4. Len(items) = n - 1
    BY <2>2, <1>c
  <2> HIDE DEF items
  <2>5. ASSUME NEW i \in 1 .. n - 1 PROVE items[i] = wire[i + 1]
    BY <2>2, <2>3
  <2> QED BY <2>2, <2>4, <2>5
<1> HIDE DEF items
<1>g. /\ body \in Seq(Int) /\ Len(body) = n - 1
      /\ \A i \in 1 .. n - 1, k \in Int : items[i] = Byte(k) => body[i] = k
  BY <1>f, BytesOf
<1> HIDE DEF body, size
<1>h. /\ req_buf' \in Seq(Int) /\ Len(req_buf') = Len(req_buf)
      /\ at' = "body" => \A i \in 1 .. n - 1 : req_buf'[i] = body[i]
  <2>1. CASE at' # "body"
    BY <1>b, <2>1 DEF HttpTypeOK
  <2>2. CASE at' = "body"
    <3>1. req_buf' = Fill(0, body) /\ n - 1 <= size
      BY <1>b, <1>g, <2>2
    <3>2. /\ req_buf' \in Seq(Int) /\ Len(req_buf') = Len(req_buf)
          /\ \A i \in 1 .. Len(req_buf) :
               req_buf'[i] = IF i - 0 \in 1 .. Len(body) THEN body[i - 0] ELSE req_buf[i]
      BY <3>1, <1>g, FillIs DEF HttpTypeOK
    <3>3. \A i \in 1 .. n - 1 : i \in 1 .. Len(req_buf) /\ i - 0 = i /\ i \in 1 .. Len(body)
      BY <3>1, <1>c, <1>e, <1>g DEF HttpTypeOK
    <3>4. \A i \in 1 .. n - 1 : req_buf'[i] = body[i]
      BY <3>2, <3>3
    <3> QED BY <3>2, <3>4
  <2> QED BY <2>1, <2>2
<1>i. /\ answer'.off = 0 /\ answer'.data = << >> /\ answer'.whole = (wire[1].length = want.size /\ ~spoilt)
      /\ answer' \in Answers
  BY <1>a, NoItems DEF NoAnswer, Answers
<1>j. /\ at' \in {"body", "overrun"} /\ filled' \in Int /\ left' \in Int /\ spoilt' \in BOOLEAN
      /\ at' = "body" => filled' = n - 1 /\ left' = size - (n - 1) /\ n - 1 <= size
  <2>1. at' \in {"body", "overrun"} /\ filled' \in Int /\ left' \in Int
    <3>1. filled \in Int /\ left \in Int
      BY DEF HttpTypeOK
    <3>2. Len(body) \in Int /\ size - Len(body) \in Int
      BY <1>c, <1>e, <1>g
    <3> QED BY <1>b, <3>1, <3>2
  <2>2. spoilt' \in BOOLEAN
    BY <1>a DEF HttpTypeOK
  <2>3. at' = "body" => filled' = n - 1 /\ left' = size - (n - 1) /\ n - 1 <= size
    BY <1>b, <1>g
  <2> QED BY <2>1, <2>2, <2>3
<1>k. spoilt' <=> spoilt \/ wire[1].length > want.size
  BY <1>a
<1>l. want' = want
  BY <1>a
<1>1. HttpTypeOK'
  BY <1>a, <1>h, <1>i, <1>j DEF HttpTypeOK
<1>2. WantOK'
  BY <1>a, <1>e, <1>h, <1>j DEF WantOK
<1>3. RightBytes'
  BY <1>i DEF RightBytes
<1>4. CountsOK'
  <2> SUFFICES ASSUME at' = "body"
               PROVE  /\ filled' >= 0 /\ left' >= 0 /\ filled' + left' <= want'.size /\ answer'.data = << >>
                      /\ answer'.whole => ~spoilt' /\ filled' + left' = want'.size
    BY DEF CountsOK
  <2>1. filled' >= 0 /\ left' >= 0 /\ filled' + left' = size /\ size <= want.size
    BY <1>c, <1>e, <1>j
  <2>2. answer'.whole => ~spoilt /\ wire[1].length = want.size
    BY <1>i
  <2>4. wire[1].length = want.size => ~(wire[1].length > want.size) /\ size = want.size
    BY <1>d, <1>e
  <2>3. answer'.whole => ~spoilt' /\ size = want.size
    BY <2>2, <2>4, <1>k
  <2> QED BY <2>1, <2>3, <1>a, <1>i
<1>5. ASSUME ~spoilt' PROVE ClearOK' /\ ReplyOK' /\ BodyOK'
  <2>1. ~spoilt /\ wire[1].length <= want.size
    <3>1. ~spoilt /\ ~(wire[1].length > want.size)
      BY <1>k, <1>5
    <3> QED BY <3>1, <1>d, <1>e
  <2>2. /\ owed = << >> /\ Len(wire) <= 1 + wire[1].length
        /\ \A i \in 2 .. Len(wire) : wire[i] = Byte(want.off + i - 2)
    BY <2>1, <1>a, <1>d DEF ReplyOK
  <2>3. ASSUME at' = "body" PROVE BodyOK'
    <3>1. filled' = n - 1 /\ left' = wire[1].length - (n - 1)
      BY <2>1, <2>3, <1>e, <1>j
    <3>2. Len(wire') <= left'
      BY <3>1, <2>2, <1>c, <1>d
    <3>3. ASSUME NEW i \in 1 .. Len(wire') PROVE wire'[i] = Byte(want'.off + filled' + i - 1)
      <4>1. wire'[i] = wire[n + i] /\ n + i \in 2 .. Len(wire) /\ i \in Int
        BY <1>c
      <4>2. wire'[i] = Byte(want.off + (n + i) - 2)
        BY <4>1, <2>2
      <4>3. want.off + (n + i) - 2 = want'.off + filled' + i - 1
        BY <4>1, <3>1, <1>l, <1>c, <1>e
      <4> QED BY <4>2, <4>3
    <3>4. ASSUME NEW i \in 1 .. filled' PROVE req_buf'[i] = want'.off + i - 1
      <4>1. i \in 1 .. n - 1 /\ i + 1 \in 2 .. Len(wire) /\ i \in Int
        BY <3>1, <1>c
      <4>2. items[i] = Byte(want.off + (i + 1) - 2)
        BY <4>1, <1>f, <2>2
      <4>3. body[i] = want.off + (i + 1) - 2
        BY <4>1, <4>2, <1>e, <1>g
      <4>4. want.off + (i + 1) - 2 = want'.off + i - 1
        BY <4>1, <1>a, <1>e
      <4> QED BY <4>1, <4>3, <4>4, <2>3, <1>h
    <3> QED BY <3>2, <3>3, <3>4, <2>2, <1>c DEF BodyOK
  <2> QED BY <1>j, <2>3 DEF ClearOK, ReplyOK, BodyOK
<1> QED BY <1>c, <1>1, <1>2, <1>3, <1>4, <1>5

LEMMA ReadBodyStep == ASSUME HttpInv, NEW n \in 1 .. arrived, ReadBody(n) PROVE HttpInv'
<1> USE DEF HttpInv
<1> DEFINE items == SubSeq(wire, 1, n)
           body == Bytes(items)
<1>a. /\ at' = "body" /\ at = "body" /\ n <= left /\ filled' = filled + n /\ left' = left - n
      /\ req_buf' = Fill(filled, body) /\ Take(n)
  BY DEF ReadBody
<1>b. file_size' = file_size /\ want' = want /\ answer' = answer /\ spoilt' = spoilt
  BY DEF ReadBody
<1>c. /\ WireOK' /\ EndOK' /\ owed' = owed /\ Len(wire') = Len(wire) - n
      /\ \A i \in 1 .. Len(wire') : wire'[i] = wire[n + i]
      /\ Len(wire) \in Nat /\ n \in Nat /\ n >= 1 /\ n <= Len(wire)
  <2>1. /\ WireOK' /\ EndOK' /\ owed' = owed /\ Len(wire') = Len(wire) - n /\ n \in 1 .. Len(wire)
        /\ \A i \in 1 .. Len(wire') : wire'[i] = wire[n + i]
    BY <1>a, TakeOK
  <2>2. Len(wire) \in Nat
    BY DEF WireOK
  <2>3. n \in Nat /\ n >= 1 /\ n <= Len(wire)
    BY <2>1, <2>2
  <2> QED BY <2>1, <2>2, <2>3
<1>d. items \in Seq(Items) /\ Len(items) = n /\ \A i \in 1 .. n : items[i] = wire[i]
  BY <1>c, TakeWire
<1> HIDE DEF items
<1>e. /\ body \in Seq(Int) /\ Len(body) = n
      /\ \A i \in 1 .. n, k \in Int : items[i] = Byte(k) => body[i] = k
  BY <1>d, BytesOf
<1> HIDE DEF body
<1>f. /\ filled \in Int /\ left \in Int /\ filled >= 0 /\ left >= 0 /\ filled + left <= want.size
      /\ want.size \in Nat /\ want.off \in Nat /\ want.size <= Len(req_buf) /\ want.method = "GET"
  BY <1>a DEF HttpTypeOK, CountsOK, WantOK, WantType
<1>g. /\ req_buf' \in Seq(Int) /\ Len(req_buf') = Len(req_buf)
      /\ \A i \in 1 .. Len(req_buf) :
           req_buf'[i] = IF i - filled \in 1 .. n THEN body[i - filled] ELSE req_buf[i]
  BY <1>a, <1>e, FillIs DEF HttpTypeOK
<1>1. HttpTypeOK'
  BY <1>a, <1>b, <1>c, <1>f, <1>g DEF HttpTypeOK
<1>2. WantOK'
  BY <1>a, <1>b, <1>g DEF WantOK
<1>3. CountsOK' /\ RightBytes'
  <2>1. filled' >= 0 /\ left' >= 0 /\ filled' + left' = filled + left
    BY <1>a, <1>c, <1>f
  <2> QED BY <1>a, <1>b, <2>1 DEF CountsOK, RightBytes
<1>4. ASSUME ~spoilt' PROVE ClearOK' /\ ReplyOK' /\ BodyOK'
  <2>1. /\ owed = << >> /\ Len(wire) <= left
        /\ \A i \in 1 .. Len(wire) : wire[i] = Byte(want.off + filled + i - 1)
        /\ \A i \in 1 .. filled : req_buf[i] = want.off + i - 1
    BY <1>4, <1>a, <1>b DEF BodyOK
  <2>2. Len(wire') <= left'
    BY <1>a, <1>c, <1>f, <2>1
  <2>3. ASSUME NEW i \in 1 .. Len(wire') PROVE wire'[i] = Byte(want'.off + filled' + i - 1)
    <3>1. wire'[i] = wire[n + i] /\ n + i \in 1 .. Len(wire) /\ i \in Int
      BY <1>c
    <3>2. wire'[i] = Byte(want.off + filled + (n + i) - 1)
      BY <3>1, <2>1
    <3>3. want.off + filled + (n + i) - 1 = want'.off + filled' + i - 1
      BY <3>1, <1>a, <1>b, <1>c, <1>f
    <3> QED BY <3>2, <3>3
  <2>4. ASSUME NEW i \in 1 .. filled' PROVE req_buf'[i] = want'.off + i - 1
    <3>1. i \in Int /\ i \in 1 .. filled + n /\ i \in 1 .. Len(req_buf)
      BY <1>a, <1>c, <1>f, HttpInv DEF HttpTypeOK
    <3>2. CASE i <= filled
      <4>1. i \in 1 .. filled /\ i - filled \notin 1 .. n
        BY <3>1, <3>2, <1>c, <1>f
      <4> QED BY <4>1, <3>1, <1>b, <1>g, <2>1
    <3>3. CASE i > filled
      <4>1. i - filled \in 1 .. n /\ i - filled \in 1 .. Len(wire)
        BY <3>1, <3>3, <1>c, <1>f
      <4>2. items[i - filled] = Byte(want.off + filled + (i - filled) - 1)
        BY <4>1, <1>d, <2>1
      <4>3. want.off + filled + (i - filled) - 1 = want.off + i - 1 /\ want.off + i - 1 \in Int
        BY <3>1, <1>f
      <4>4. body[i - filled] = want.off + i - 1
        BY <4>1, <4>2, <4>3, <1>e
      <4> QED BY <4>1, <4>4, <3>1, <1>b, <1>g
    <3> QED BY <3>1, <3>2, <3>3, <1>f
  <2> QED BY <1>a, <1>c, <2>1, <2>2, <2>3, <2>4 DEF ClearOK, ReplyOK, BodyOK
<1> QED BY <1>c, <1>1, <1>2, <1>3, <1>4

LEMMA BodyEndsStep == ASSUME HttpInv, BodyEnds PROVE HttpInv'
<1> USE DEF HttpInv
<1> DEFINE data == SubSeq(req_buf, 1, want.size - left)
<1>a. /\ at = "body" /\ at' = "idle" /\ answer' = [answer EXCEPT !.off = want.off, !.data = data]
      /\ left = 0 \/ wire = << >>
      /\ CloseSocket
  BY DEF BodyEnds
<1>b. /\ file_size' = file_size /\ req_buf' = req_buf /\ want' = want /\ filled' = filled /\ left' = left
      /\ length' = length
  BY DEF BodyEnds
<1>c. /\ filled \in Int /\ left \in Int /\ filled >= 0 /\ left >= 0 /\ filled + left <= want.size
      /\ want.size \in Nat /\ want.off \in Nat /\ want.size <= Len(req_buf) /\ answer \in Answers
      /\ req_buf \in Seq(Int) /\ (answer.whole => ~spoilt /\ filled + left = want.size)
  BY <1>a DEF HttpTypeOK, CountsOK, WantOK, WantType
<1>d. /\ data \in Seq(Int) /\ Len(data) = want.size - left
      /\ \A i \in 1 .. want.size - left : data[i] = req_buf[i]
  <2>1. \A i \in 1 .. want.size - left : req_buf[i] \in Int
    BY <1>c
  <2>2. want.size - left \in Int /\ want.size - left >= 0
    BY <1>c
  <2>3. /\ data \in Seq(Int) /\ Len(data) = IF 1 <= want.size - left THEN want.size - left - 1 + 1 ELSE 0
        /\ \A i \in 1 .. want.size - left - 1 + 1 : data[i] = req_buf[1 + i - 1]
    BY <2>1, <2>2, SubSeqProperties
  <2> HIDE DEF data
  <2>4. Len(data) = want.size - left
    BY <2>2, <2>3
  <2>5. \A i \in 1 .. want.size - left : data[i] = req_buf[i]
    <3> TAKE i \in 1 .. want.size - left
    <3>1. i \in 1 .. want.size - left - 1 + 1 /\ 1 + i - 1 = i
      BY <2>2
    <3> QED BY <2>3, <3>1
  <2> QED BY <2>3, <2>4, <2>5
<1> HIDE DEF data
<1>e. /\ answer'.off = want.off /\ answer'.data = data /\ answer'.whole = answer.whole
      /\ answer' \in Answers
  <2>1. answer' = [off |-> want.off, data |-> data, whole |-> answer.whole]
    BY <1>a, <1>c DEF Answers
  <2>2. answer.whole \in BOOLEAN
    BY <1>c DEF Answers
  <2> QED BY <2>1, <2>2, <1>c, <1>d DEF Answers
<1>f. /\ WireOK' /\ EndOK' /\ spoilt' \in BOOLEAN
      /\ \/ UNCHANGED <<owed, wire, spoilt>>
         \/ owed' = << >> /\ wire' = << >>
  <2>1. CASE sock_type = "keepalive"
    <3>1. UNCHANGED <<up, owed, wire, arrived, spoilt>>
      BY <1>a, <2>1 DEF CloseSocket
    <3> QED BY <3>1, <1>b DEF WireOK, EndOK, HttpTypeOK
  <2>2. CASE sock_type # "keepalive"
    <3>1. Disconnected /\ spoilt' = FALSE
      BY <1>a, <2>2 DEF CloseSocket, CloseForce
    <3>2. WireOK' /\ EndOK'
      BY <3>1, <1>b, EmptyWire
    <3> QED BY <3>1, <3>2 DEF Disconnected
  <2> QED BY <2>1, <2>2
<1>1. HttpTypeOK'
  BY <1>a, <1>b, <1>e, <1>f DEF HttpTypeOK
<1>2. WantOK' /\ CountsOK'
  BY <1>a DEF WantOK, CountsOK
<1>3. RightBytes'
  <2> SUFFICES ASSUME answer'.whole, NEW i \in DOMAIN answer'.data
               PROVE  answer'.data[i] = answer'.off + i - 1
    BY DEF RightBytes
  <2>1. ~spoilt /\ filled + left = want.size
    BY <1>c, <1>e
  <2>2. i \in 1 .. filled /\ i \in 1 .. want.size - left
    <3>1. i \in 1 .. want.size - left
      BY <1>d, <1>e
    <3> QED BY <3>1, <2>1, <1>c
  <2>3. \A j \in 1 .. filled : req_buf[j] = want.off + j - 1
    BY <2>1, <1>a DEF BodyOK
  <2> QED BY <2>2, <2>3, <1>d, <1>e
<1>4. ASSUME ~spoilt' PROVE ClearOK' /\ ReplyOK' /\ BodyOK'
  <2>1. owed' = << >> /\ wire' = << >>
    <3>1. CASE UNCHANGED <<owed, wire, spoilt>>
      <4>1. owed = << >> /\ Len(wire) <= left
        BY <1>4, <1>a, <3>1 DEF BodyOK
      <4>2. wire = << >>
        BY <4>1, <1>a, EmptySeq DEF WireOK
      <4> QED BY <4>1, <4>2, <3>1
    <3> QED BY <3>1, <1>f
  <2> QED BY <1>a, <2>1 DEF ClearOK, ReplyOK, BodyOK
<1> QED BY <1>f, <1>1, <1>2, <1>3, <1>4

LEMMA IdleHttp == ASSUME HttpInv, UNCHANGED httpVars PROVE HttpInv'
<1> USE DEF HttpInv, httpVars, serverVars, clientVars
<1>1. WireOK' /\ EndOK' /\ HttpTypeOK'
  BY DEF WireOK, EndOK, HttpTypeOK
<1>2. WantOK' /\ CountsOK' /\ RightBytes'
  BY DEF WantOK, CountsOK, RightBytes
<1>3. ~spoilt' => ClearOK' /\ ReplyOK' /\ BodyOK'
  BY DEF ClearOK, ReplyOK, BodyOK
<1> QED BY <1>1, <1>2, <1>3

\* Every action keeps the invariant.
LEMMA HttpStep == ASSUME HttpInv, [HttpNext]_httpVars PROVE HttpInv'
<1>1. CASE Respond \/ Arrive \/ ServerCloses \/ Resize
  BY <1>1, RespondStep, ArriveStep, ServerClosesStep, ResizeStep
<1>2. CASE StartStat
  BY <1>2, StartStatStep
<1>3. ASSUME NEW off \in {0, Page}, StartRead(off) PROVE HttpInv'
  BY <1>3, StartReadStep
<1>4. CASE Connect \/ ConnectFails \/ WriteKept \/ WriteBroken \/ Retry \/ ReplyReset
  BY <1>4, ConnectStep, ConnectFailsStep, WriteKeptStep, WriteBrokenStep, RetryStep, ReplyResetStep
<1>5. ASSUME NEW n \in 1 .. arrived, ReadRefused(n) \/ ReadStat(n) \/ ReadHeader(n) \/ ReadBody(n)
      PROVE  HttpInv'
  BY <1>5, ReadRefusedStep, ReadStatStep, ReadHeaderStep, ReadBodyStep
<1>6. CASE BodyFails \/ BodyEnds
  BY <1>6, BodyFailsStep, BodyEndsStep
<1>7. CASE UNCHANGED httpVars
  BY <1>7, IdleHttp
<1> QED BY <1>1, <1>2, <1>3, <1>4, <1>5, <1>6, <1>7 DEF HttpNext

\* Through every loss, timeout and retry, what is on a connection that no failed
\* read spoilt answers the request the reader is in (httpfs2.c:924-1113).
THEOREM HttpInvariance == HttpSpec => []HttpInv
BY HttpStart, HttpStep, PTL DEF HttpSpec

\* What a read returns are the bytes at the offset it asked for, for every file
\* length, page size and number of requests (httpfs2.c:1064-1113).
THEOREM BytesAreRight == HttpSpec => []RightBytes
<1>1. HttpInv => RightBytes
  BY DEF HttpInv
<1> QED BY <1>1, HttpInvariance, PTL
-----------------------------------------------------------------------------
(***************************************************************************)
(* UlockMgr: the stores and the locks of the owners.                       *)
(***************************************************************************)

CallType ==
  [by : Callers, owner : LockOwners, fd : Fds, cmd : {"GETLK", "SETLK", "SETLKW"},
   type : {"WRLCK", "UNLCK"}, bytes : {"some", "all"}]
Stores == UNION {[S -> Nat] : S \in SUBSET Fds}
UlockTypeOK ==
  /\ owner_list \in SUBSET LockOwners /\ unsure \in SUBSET LockOwners
  /\ fds \in [LockOwners -> Stores] /\ cfd \in [LockOwners -> {"none", "up", "broken"}]
  /\ at_op \in [Callers -> {"idle", "sent", "wait", "dead"}] /\ asked \in [Callers -> CallType]
  /\ reply \in [Callers -> {"none", "ok", "EAGAIN", "EINTR", "EIO"}]
  /\ owes \in [Callers -> BOOLEAN]
  /\ held \in [LockOwners -> SUBSET (Fds \X Pieces)]
  /\ told \in [LockOwners -> SUBSET (Fds \X Pieces)]

\* Where a thread is fits what it asked and what it was answered.
SeatOK(t) ==
  /\ at_op[t] = "idle" => ~owes[t] /\ reply[t] = "none"
  /\ at_op[t] # "idle" => (owes[t] <=> ~UnlockAll(asked[t]))
  /\ at_op[t] \in {"wait", "dead"} => asked[t].cmd = "SETLKW"
  /\ reply[t] \in {"EAGAIN", "EINTR"} => asked[t].type = "WRLCK"
  /\ at_op[t] # "idle" /\ asked[t].cmd = "SETLKW" => asked[t].type = "WRLCK"

\* An owner with a store is in the list.
ListedOK(o) == DOMAIN fds[o] # {} => o \in owner_list

InCall(t, o) == at_op[t] # "idle" /\ asked[t].owner = o
After(c, locks) ==
  IF c.cmd = "GETLK" THEN locks
  ELSE IF c.type = "UNLCK" THEN locks \ Extent(c) ELSE locks \cup Extent(c)

\* Of an owner whose threads call one at a time, and whose server lives.
SureOK(o) ==
  /\ cfd[o] # "broken"
  /\ told[o] \subseteq (DOMAIN fds[o]) \X Pieces
  /\ (\A t \in Callers : ~InCall(t, o)) => held[o] = told[o]
  /\ \A t \in Callers : InCall(t, o) =>
       /\ o \in owner_list
       /\ \A u \in Callers : InCall(u, o) => u = t
       /\ reply[t] # "EIO"
       /\ held[o] = IF reply[t] = "ok" THEN After(asked[t], told[o]) ELSE told[o]

UlockInv ==
  /\ UlockTypeOK
  /\ \A t \in Callers : SeatOK(t)
  /\ \A o \in LockOwners : ListedOK(o)
  /\ StoresInUse
  /\ \A o \in LockOwners \ unsure : SureOK(o)
-----------------------------------------------------------------------------
Users(o, f) == {t \in Callers : owes[t] /\ asked[t].owner = o /\ asked[t].fd = f}

LEMMA UsersFinite ==
  ASSUME NEW o, NEW f
  PROVE  IsFiniteSet(Users(o, f)) /\ Cardinality(Users(o, f)) \in Nat
BY UlockCallAssumption, FS_Subset, FS_CardinalityType DEF Users

\* The two halves of StoresInUse, for one owner.
StoreOK(o) ==
  /\ \A t \in Callers : owes[t] /\ asked[t].owner = o => o \in owner_list /\ asked[t].fd \in DOMAIN fds[o]
  /\ \A f \in DOMAIN fds[o] : fds[o][f] = Cardinality(Users(o, f))

LEMMA StoresByOwner == StoresInUse <=> \A o \in LockOwners : StoreOK(o)
BY DEF StoresInUse, StoreOK, Users

LEMMA StoresByOwnerNext == StoresInUse' <=> (\A o \in LockOwners : StoreOK(o))'
BY StoresByOwner, PTL

\* A store is a function of some files.
LEMMA StoreIs ==
  ASSUME UlockTypeOK, NEW o \in LockOwners
  PROVE  fds[o] \in [DOMAIN fds[o] -> Nat] /\ DOMAIN fds[o] \in SUBSET Fds
BY DEF UlockTypeOK, Stores

LEMMA AsSentFits ==
  ASSUME NEW c \in UlockCalls
  PROVE  /\ AsSent(c) \in CallType /\ AsSent(c).owner = c.owner
         /\ AsSent(c).cmd = "SETLKW" => AsSent(c).type = "WRLCK"
<1>1. c \in CallType
  BY UlockCallAssumption DEF CallType
<1>2. CASE c.cmd = "SETLKW" /\ c.type = "UNLCK"
  BY <1>1, <1>2 DEF AsSent, CallType
<1>3. CASE ~(c.cmd = "SETLKW" /\ c.type = "UNLCK")
  BY <1>1, <1>3 DEF AsSent, CallType
<1> QED
  BY <1>2, <1>3

LEMMA NoCallIs ==
  ASSUME NEW t \in Callers PROVE NoCall(t) \in CallType
BY UlockCallAssumption DEF NoCall, CallType

LEMMA ExtentIs ==
  ASSUME NEW c \in CallType
  PROVE  /\ Extent(c) \subseteq {c.fd} \X Pieces /\ Extent(c) \subseteq Fds \X Pieces
         /\ c.bytes = "all" => Extent(c) = {c.fd} \X Pieces
BY DEF Extent, CallType, Pieces

LEMMA AfterIs ==
  ASSUME NEW c \in CallType, NEW locks \in SUBSET (Fds \X Pieces)
  PROVE  After(c, locks) \in SUBSET (Fds \X Pieces)
BY ExtentIs DEF After

LEMMA UlockInitOK ==
  ASSUME UlockInit PROVE UlockInv
<1>1. \A o \in LockOwners : fds[o] = NoStore /\ DOMAIN fds[o] = {}
  BY DEF UlockInit, NoStore
<1>2. NoStore \in Stores
  <2>1. NoStore \in [{} -> Nat]
    BY DEF NoStore
  <2> QED
    BY <2>1 DEF Stores
<1>3. UlockTypeOK
  BY <1>2, NoCallIs DEF UlockInit, UlockTypeOK
<1>4. \A t \in Callers : SeatOK(t)
  BY DEF UlockInit, SeatOK
<1>5. StoresInUse
  BY <1>1 DEF UlockInit, StoresInUse
<1>6. \A o \in LockOwners : ListedOK(o)
  BY <1>1 DEF ListedOK
<1>7. \A o \in LockOwners \ unsure : SureOK(o)
  BY <1>1 DEF UlockInit, SureOK, InCall
<1> QED
  BY <1>3, <1>4, <1>5, <1>6, <1>7 DEF UlockInv
-----------------------------------------------------------------------------
\* What a step leaves alone of an owner.
LEMMA StoreKept ==
  ASSUME NEW p \in LockOwners, StoreOK(p), fds'[p] = fds[p],
         p \in owner_list => p \in owner_list',
         \A u \in Callers : owes'[u] /\ asked'[u].owner = p <=> owes[u] /\ asked[u].owner = p,
         \A u \in Callers : owes[u] /\ asked[u].owner = p => asked'[u].fd = asked[u].fd
  PROVE  StoreOK(p)'
<1>1. ASSUME NEW u \in Callers, owes'[u], asked'[u].owner = p
      PROVE  p \in owner_list' /\ asked'[u].fd \in DOMAIN fds'[p]
  BY <1>1 DEF StoreOK
<1>2. ASSUME NEW f \in DOMAIN fds'[p] PROVE fds'[p][f] = Cardinality(Users(p, f)')
  <2>1. Users(p, f)' = Users(p, f)
    BY DEF Users
  <2> QED
    BY <2>1, <1>2 DEF StoreOK
<1> QED
  BY <1>1, <1>2 DEF StoreOK

LEMMA SureKept ==
  ASSUME NEW p \in LockOwners, SureOK(p), fds'[p] = fds[p], cfd'[p] = cfd[p],
         told'[p] = told[p], held'[p] = held[p], p \in owner_list => p \in owner_list',
         \A u \in Callers : InCall(u, p)' <=> InCall(u, p),
         \A u \in Callers : InCall(u, p) => asked'[u] = asked[u] /\ reply'[u] = reply[u]
  PROVE  SureOK(p)'
<1>1. cfd'[p] # "broken" /\ told'[p] \subseteq (DOMAIN fds'[p]) \X Pieces
  BY DEF SureOK
<1>2. (\A u \in Callers : ~InCall(u, p)') => held'[p] = told'[p]
  BY DEF SureOK
<1>3. ASSUME NEW u \in Callers, InCall(u, p)'
      PROVE  /\ p \in owner_list'
             /\ \A v \in Callers : InCall(v, p)' => v = u
             /\ reply'[u] # "EIO"
             /\ held'[p] = IF reply'[u] = "ok" THEN After(asked[u]', told[p]') ELSE told'[p]
  <2>1. InCall(u, p) /\ asked'[u] = asked[u] /\ reply'[u] = reply[u]
    BY <1>3
  <2>2. After(asked[u]', told[p]') = After(asked[u], told[p])
    BY <2>1
  <2> QED
    BY <1>3, <2>1, <2>2 DEF SureOK
<1> QED
  BY <1>1, <1>2, <1>3 DEF SureOK
-----------------------------------------------------------------------------
\* A request that is sent.
LEMMA SentOK ==
  ASSUME UlockInv, NEW t \in Callers, NEW c \in CallType,
         c.cmd = "SETLKW" => c.type = "WRLCK", at_op[t] = "idle",
         SendsMessage(t, c), UNCHANGED <<reply, held>>,
         unsure' = unsure \cup {o \in {c.owner} :
                                  \E u \in Callers : at_op[u] # "idle" /\ asked[u].owner = o}
  PROVE  UlockInv'
<1> DEFINE o == c.owner
           new == Stored(c)
<1>0. UlockTypeOK /\ o \in LockOwners
  BY DEF UlockInv, CallType
<1>1. /\ owner_list' = owner_list \cup {o} /\ cfd' = [cfd EXCEPT ![o] = "up"]
      /\ at_op' = [at_op EXCEPT ![t] = "sent"] /\ asked' = [asked EXCEPT ![t] = c]
      /\ owes' = [owes EXCEPT ![t] = ~UnlockAll(c)] /\ fds' = [fds EXCEPT ![o] = new]
      /\ UNCHANGED <<told, reply, held>>
  <2>1. cfd' = [cfd EXCEPT ![o] = "up"]
    BY <1>0 DEF SendsMessage, UlockTypeOK
  <2> QED
    BY <2>1 DEF SendsMessage
<1>2. /\ ~owes[t] /\ reply[t] = "none"
  BY DEF UlockInv, SeatOK
<1>3. /\ DOMAIN fds[o] \subseteq DOMAIN new
      /\ DOMAIN new \in SUBSET Fds
      /\ new \in [DOMAIN new -> Nat]
      /\ ~UnlockAll(c) => c.fd \in DOMAIN new
      /\ \A f \in DOMAIN new : f \notin DOMAIN fds[o] => f = c.fd /\ ~UnlockAll(c)
      /\ \A f \in DOMAIN new :
           new[f] = (IF f \in DOMAIN fds[o] THEN fds[o][f] ELSE 0)
                    + (IF f = c.fd /\ ~UnlockAll(c) THEN 1 ELSE 0)
  <2>1. fds[o] \in [DOMAIN fds[o] -> Nat] /\ DOMAIN fds[o] \in SUBSET Fds /\ c.fd \in Fds
    BY <1>0, StoreIs DEF CallType
  <2>2. CASE UnlockAll(c)
    BY <2>1, <2>2 DEF Stored
  <2>3. CASE ~UnlockAll(c)
    BY <2>1, <2>3 DEF Stored
  <2> QED
    BY <2>2, <2>3
<1> HIDE DEF new
<1>4. UlockTypeOK'
  <2>1. new \in Stores
    BY <1>3 DEF Stores
  <2>2. unsure' \in SUBSET LockOwners
    BY <1>0 DEF UlockTypeOK
  <2>3. owes' \in [Callers -> BOOLEAN]
    BY <1>0, <1>1 DEF UlockTypeOK
  <2> QED
    BY <1>0, <1>1, <2>1, <2>2, <2>3 DEF UlockTypeOK
<1>5. ASSUME NEW u \in Callers PROVE SeatOK(u)'
  <2>0. SeatOK(u)
    BY DEF UlockInv
  <2>1. CASE u = t
    <3>1. at_op'[t] = "sent" /\ asked'[t] = c /\ (owes'[t] <=> ~UnlockAll(c)) /\ reply'[t] = "none"
      BY <1>0, <1>1, <1>2 DEF UlockTypeOK
    <3> QED
      BY <2>1, <3>1 DEF SeatOK
  <2>2. CASE u # t
    <3>1. at_op'[u] = at_op[u] /\ asked'[u] = asked[u] /\ owes'[u] = owes[u] /\ reply'[u] = reply[u]
      BY <1>0, <1>1, <2>2 DEF UlockTypeOK
    <3> QED
      BY <2>0, <3>1 DEF SeatOK
  <2> QED
    BY <2>1, <2>2
<1>6. ASSUME NEW p \in LockOwners PROVE ListedOK(p)'
  BY <1>0, <1>1 DEF UlockInv, ListedOK, UlockTypeOK
<1>7. ASSUME NEW p \in LockOwners PROVE StoreOK(p)'
  <2>0. StoreOK(p) /\ fds'[o] = new /\ (p # o => fds'[p] = fds[p])
    BY <1>0, <1>1, StoresByOwner DEF UlockInv, UlockTypeOK
  <2>1. ASSUME NEW u \in Callers, owes'[u], asked'[u].owner = p
        PROVE  p \in owner_list' /\ asked'[u].fd \in DOMAIN fds'[p]
    <3>1. CASE u = t
      <4>1. (owes'[u] <=> ~UnlockAll(c)) /\ asked'[u] = c
        BY <1>0, <1>1, <3>1 DEF UlockTypeOK
      <4>2. ~UnlockAll(c) /\ p = o
        BY <2>1, <4>1
      <4> QED
        BY <1>1, <1>3, <2>0, <4>1, <4>2
    <3>2. CASE u # t
      <4>1. owes[u] /\ asked[u].owner = p /\ asked'[u] = asked[u]
        BY <1>0, <1>1, <2>1, <3>2 DEF UlockTypeOK
      <4>2. p \in owner_list /\ asked[u].fd \in DOMAIN fds[p]
        BY <2>0, <4>1 DEF StoreOK
      <4> QED
        BY <1>1, <1>3, <2>0, <4>1, <4>2
    <3> QED
      BY <3>1, <3>2
  <2>2. ASSUME NEW f \in DOMAIN fds'[p]
        PROVE  fds'[p][f] = Cardinality(Users(p, f)')
    <3> DEFINE adds == p = o /\ f = c.fd /\ ~UnlockAll(c)
    <3>1. Users(p, f)' = IF adds THEN Users(p, f) \cup {t} ELSE Users(p, f)
      <4>1. \A u \in Callers : u # t => (owes'[u] <=> owes[u]) /\ asked'[u] = asked[u]
        BY <1>0, <1>1 DEF UlockTypeOK
      <4>2. (owes'[t] <=> ~UnlockAll(c)) /\ asked'[t] = c
        BY <1>0, <1>1 DEF UlockTypeOK
      <4> QED
        BY <1>2, <4>1, <4>2 DEF Users
    <3>2. t \notin Users(p, f)
      BY <1>2 DEF Users
    <3>3. Cardinality(Users(p, f)') = Cardinality(Users(p, f)) + (IF adds THEN 1 ELSE 0)
      <4>1. Cardinality(Users(p, f) \cup {t}) = Cardinality(Users(p, f)) + 1
        BY <3>2, UsersFinite, FS_AddElement
      <4>2. CASE adds
        BY <3>1, <4>1, <4>2
      <4>3. CASE ~adds
        BY <3>1, <4>3, UsersFinite
      <4> QED
        BY <4>2, <4>3
    <3>4. CASE p # o
      BY <2>0, <2>2, <3>3, <3>4, UsersFinite DEF StoreOK
    <3>5. CASE p = o /\ f \in DOMAIN fds[o]
      BY <1>3, <2>0, <2>2, <3>3, <3>5 DEF StoreOK
    <3>6. CASE p = o /\ f \notin DOMAIN fds[o]
      <4>1. Users(p, f) = {}
        BY <2>0, <3>6 DEF StoreOK, Users
      <4>2. Cardinality(Users(p, f)) = 0
        BY <4>1, FS_EmptySet
      <4> QED
        BY <1>3, <2>0, <2>2, <3>3, <3>6, <4>2
    <3> QED
      BY <3>4, <3>5, <3>6
  <2> QED
    BY <2>1, <2>2 DEF StoreOK
<1>8. ASSUME NEW p \in LockOwners \ unsure' PROVE SureOK(p)'
  <2>0. p \notin unsure /\ SureOK(p)
    BY <1>8 DEF UlockInv
  <2>1. CASE p # o
    <3>1. \A u \in Callers : InCall(u, p)' <=> InCall(u, p)
      BY <1>0, <1>1, <2>1 DEF InCall, UlockTypeOK
    <3>2. \A u \in Callers : InCall(u, p)' => asked'[u] = asked[u]
      BY <1>0, <1>1, <2>1 DEF InCall, UlockTypeOK
    <3>3. cfd'[p] = cfd[p] /\ fds'[p] = fds[p]
      BY <1>0, <1>1, <2>1 DEF UlockTypeOK
    <3> QED
      BY <1>1, <2>0, <3>1, <3>2, <3>3 DEF SureOK
  <2>2. CASE p = o
    <3>1. \A u \in Callers : ~InCall(u, o)
      BY <1>8, <2>2 DEF InCall
    <3>2. held[o] = told[o]
      BY <2>0, <2>2, <3>1 DEF SureOK
    <3>3. \A u \in Callers : InCall(u, o)' => u = t
      BY <1>0, <1>1, <3>1 DEF InCall, UlockTypeOK
    <3>4. InCall(t, o)'
      BY <1>0, <1>1 DEF InCall, UlockTypeOK
    <3>5. cfd'[o] = "up" /\ fds'[o] = new /\ o \in owner_list'
      BY <1>0, <1>1 DEF UlockTypeOK
    <3>6. told'[o] \subseteq (DOMAIN fds'[o]) \X Pieces
      BY <1>1, <1>3, <2>0, <2>2, <3>5 DEF SureOK
    <3> QED
      BY <1>1, <1>2, <2>2, <3>2, <3>3, <3>4, <3>5, <3>6 DEF SureOK
  <2> QED
    BY <2>1, <2>2
<1> QED
  BY <1>4, <1>5, <1>6, <1>7, <1>8, StoresByOwnerNext DEF UlockInv

\* A request that could not be sent, or needs no owner.
LEMMA NotSentOK ==
  ASSUME UlockInv, NEW c \in CallType, NEW error, NotSent(c, error),
         error = "ok" => c.cmd = "GETLK" \/ (c.type = "UNLCK" /\ c.owner \notin owner_list),
         owner_list' \in {owner_list, owner_list \cup {c.owner}},
         cfd' \in {cfd, [cfd EXCEPT ![c.owner] = "up"]},
         unsure' \in {unsure, unsure \cup {c.owner}},
         UNCHANGED <<reply, held>>
  PROVE  UlockInv'
<1> DEFINE o == c.owner
<1>0. UlockTypeOK /\ o \in LockOwners
  BY DEF UlockInv, CallType
<1>1. UNCHANGED <<fds, at_op, asked, owes, reply, held>>
  BY DEF NotSent
<1>2. \A p \in LockOwners : told'[p] \subseteq told[p] /\ (p \notin unsure => told'[p] = told[p])
  <2>1. CASE error # "ok" \/ c.cmd = "GETLK"
    BY <2>1 DEF NotSent, Tells
  <2>2. CASE error = "ok" /\ c.cmd # "GETLK"
    <3>1. c.type = "UNLCK" /\ o \notin owner_list
      BY <2>2
    <3>2. told' = [told EXCEPT ![o] = @ \ Extent(c)]
      BY <2>2, <3>1 DEF NotSent, Tells
    <3>3. DOMAIN fds[o] = {}
      BY <1>0, <3>1 DEF UlockInv, ListedOK
    <3>4. o \notin unsure => told[o] = {}
      BY <1>0, <3>3 DEF UlockInv, SureOK
    <3> QED
      BY <1>0, <3>2, <3>4 DEF UlockTypeOK
  <2> QED
    BY <2>1, <2>2
<1>3. told' \in [LockOwners -> SUBSET (Fds \X Pieces)]
  <2>1. told' = told \/ \E S : told' = [told EXCEPT ![o] = S]
    BY DEF NotSent, Tells
  <2>2. DOMAIN told' = LockOwners /\ told' = [p \in LockOwners |-> told'[p]]
    BY <1>0, <2>1 DEF UlockTypeOK
  <2> QED
    BY <1>0, <1>2, <2>2 DEF UlockTypeOK
<1>4. UlockTypeOK'
  <2>1. cfd' \in [LockOwners -> {"none", "up", "broken"}]
    BY <1>0 DEF UlockTypeOK
  <2>2. owner_list' \in SUBSET LockOwners /\ unsure' \in SUBSET LockOwners
    BY <1>0 DEF UlockTypeOK
  <2> QED
    BY <1>0, <1>1, <1>3, <2>1, <2>2 DEF UlockTypeOK
<1>5. ASSUME NEW u \in Callers PROVE SeatOK(u)'
  BY <1>1 DEF UlockInv, SeatOK
<1>6. ASSUME NEW p \in LockOwners PROVE ListedOK(p)' /\ StoreOK(p)'
  <2>1. StoreOK(p) /\ ListedOK(p)
    BY StoresByOwner DEF UlockInv
  <2> QED
    BY <1>1, <2>1, StoreKept DEF ListedOK
<1>7. ASSUME NEW p \in LockOwners \ unsure' PROVE SureOK(p)'
  <2>1. p \notin unsure /\ SureOK(p) /\ told'[p] = told[p]
    BY <1>2, <1>7 DEF UlockInv
  <2>2. CASE cfd'[p] = cfd[p]
    BY <1>1, <2>1, <2>2, SureKept DEF InCall
  <2>3. CASE cfd'[p] = "up"
    BY <1>1, <2>1, <2>3 DEF SureOK, InCall
  <2> QED
    BY <1>0, <2>2, <2>3 DEF UlockTypeOK
<1> QED
  BY <1>4, <1>5, <1>6, <1>7, StoresByOwnerNext DEF UlockInv

LEMMA OpOK ==
  ASSUME UlockInv, NEW t \in Callers, NEW c \in UlockCalls, Op(t, c)
  PROVE  UlockInv'
<1> DEFINE d == AsSent(c)
           crowd == {o \in {c.owner} : \E u \in Callers : at_op[u] # "idle" /\ asked[u].owner = o}
<1>1. d \in CallType /\ d.owner = c.owner /\ (d.cmd = "SETLKW" => d.type = "WRLCK")
  BY AsSentFits
<1>2. /\ at_op[t] = "idle" /\ SendRequest(t, d)
      /\ unsure' = unsure \cup {o \in {d.owner} : \E u \in Callers : at_op[u] # "idle" /\ asked[u].owner = o}
      /\ UNCHANGED <<reply, held>>
  BY <1>1 DEF Op
<1>3. unsure' \in {unsure, unsure \cup {d.owner}}
  BY <1>2
<1> HIDE DEF d
<1>4. CASE SendsMessage(t, d)
  BY <1>1, <1>2, <1>4, SentOK
<1>5. CASE d.owner \in owner_list /\ NotSent(d, "EIO") /\ UNCHANGED <<owner_list, cfd>>
  BY <1>1, <1>2, <1>3, <1>5, NotSentOK
<1>6. CASE (NewOwner(d.owner) \/ NoOwner) /\ NotSent(d, "ENOLCK")
  <2>1. owner_list' \in {owner_list, owner_list \cup {d.owner}} /\ cfd' \in {cfd, [cfd EXCEPT ![d.owner] = "up"]}
    BY <1>6 DEF NewOwner, NoOwner
  <2> QED
    BY <1>1, <1>2, <1>3, <1>6, <2>1, NotSentOK
<1>7. CASE d.owner \notin owner_list /\ ~Wants(d) /\ NotSent(d, WithoutOwner(d)) /\ UNCHANGED <<owner_list, cfd>>
  <2>1. d.cmd = "GETLK" \/ d.type = "UNLCK"
    BY <1>7 DEF Wants
  <2> QED
    BY <1>1, <1>2, <1>3, <1>7, <2>1, NotSentOK
<1> QED
  BY <1>2, <1>4, <1>5, <1>6, <1>7 DEF SendRequest
-----------------------------------------------------------------------------
\* The return of a call, with its last answer.
LEMMA FinishOK ==
  ASSUME UlockInv, NEW t \in Callers, at_op[t] \in {"sent", "wait"}, reply[t] # "none",
         Finish(t, reply[t])
  PROVE  UlockInv'
<1> DEFINE c == asked[t]
           o == c.owner
           uses == fds[o]
           kept == IF UnlockAll(c) THEN KeptFiles(uses, c.fd) ELSE DOMAIN uses
           new == fds'[o]
           gone == UnlockAll(c) /\ kept = {}
<1>0. UlockTypeOK /\ c \in CallType /\ o \in LockOwners /\ StoreOK(o) /\ SeatOK(t)
  BY StoresByOwner DEF UlockInv, UlockTypeOK, CallType
<1>1. /\ (owes[t] <=> ~UnlockAll(c)) /\ (reply[t] \in {"EAGAIN", "EINTR"} => c.type = "WRLCK")
      /\ uses \in [DOMAIN uses -> Nat] /\ DOMAIN uses \in SUBSET Fds
  BY <1>0, StoreIs DEF SeatOK
<1>2. \A u \in Callers : owes[u] /\ asked[u].owner = o =>
        o \in owner_list /\ asked[u].fd \in DOMAIN uses /\ uses[asked[u].fd] > 0
  <2> SUFFICES ASSUME NEW u \in Callers, owes[u], asked[u].owner = o
               PROVE  o \in owner_list /\ asked[u].fd \in DOMAIN uses /\ uses[asked[u].fd] > 0
    OBVIOUS
  <2> DEFINE f == asked[u].fd
  <2>1. o \in owner_list /\ f \in DOMAIN uses /\ uses[f] = Cardinality(Users(o, f))
    BY <1>0 DEF StoreOK
  <2>2. u \in Users(o, f)
    BY DEF Users
  <2>3. Cardinality(Users(o, f)) # 0
    BY <2>2, UsersFinite, FS_EmptySet
  <2> QED
    BY <1>1, <2>1, <2>3, UsersFinite
<1>3. /\ DOMAIN new = kept /\ kept \in SUBSET Fds /\ new \in [kept -> Nat]
      /\ \A f \in kept : new[f] = uses[f] - (IF owes[t] /\ f = c.fd THEN 1 ELSE 0)
      /\ \A f \in DOMAIN uses : f # c.fd \/ uses[f] > 0 => f \in kept
      /\ ~UnlockAll(c) => c.fd \in kept
  <2>1. CASE UnlockAll(c)
    <3>1. new = [f \in kept |-> uses[f]] /\ kept = {f \in DOMAIN uses : f # c.fd \/ uses[f] > 0}
      BY <1>0, <1>1, <2>1 DEF Finish, UlockTypeOK, KeptFiles
    <3> QED
      BY <1>1, <2>1, <3>1
  <2>2. CASE ~UnlockAll(c)
    <3>1. new = [f \in DOMAIN uses |-> [uses EXCEPT ![c.fd] = @ - 1][f]] /\ kept = DOMAIN uses
      BY <1>0, <1>1, <2>2 DEF Finish, UlockTypeOK
    <3>2. owes[t] /\ c.fd \in DOMAIN uses /\ uses[c.fd] > 0
      BY <1>1, <1>2, <2>2
    <3>3. \A f \in DOMAIN uses : new[f] = IF f = c.fd THEN uses[f] - 1 ELSE uses[f]
      BY <1>1, <3>1
    <3> QED
      BY <1>1, <3>1, <3>2, <3>3
  <2> QED
    BY <2>1, <2>2
<1>4. /\ fds' = [fds EXCEPT ![o] = new]
      /\ owner_list' = IF gone THEN owner_list \ {o} ELSE owner_list
      /\ cfd' = IF gone THEN [cfd EXCEPT ![o] = "none"] ELSE cfd
      /\ held' = IF gone THEN [held EXCEPT ![o] = {}] ELSE held
      /\ Idles(t) /\ unsure' = unsure
      /\ Tells(c, IF UnlockAll(c) THEN "ok" ELSE reply[t])
  <2>1. fds' = [fds EXCEPT ![o] = new]
    BY <1>0 DEF Finish, UlockTypeOK
  <2>2. kept = (IF UnlockAll(c) THEN KeptFiles(IF owes[t] THEN [fds[o] EXCEPT ![c.fd] = @ - 1] ELSE fds[o], c.fd)
                ELSE DOMAIN (IF owes[t] THEN [fds[o] EXCEPT ![c.fd] = @ - 1] ELSE fds[o]))
    BY <1>1
  <2>3. /\ owner_list' = IF gone THEN owner_list \ {o} ELSE owner_list
        /\ cfd' = IF gone THEN [cfd EXCEPT ![o] = "none"] ELSE cfd
        /\ held' = IF gone THEN [held EXCEPT ![o] = {}] ELSE held
    BY <2>2 DEF Finish
  <2> QED
    BY <2>1, <2>3 DEF Finish
<1>5. /\ at_op'[t] = "idle" /\ ~owes'[t] /\ reply'[t] = "none"
      /\ \A u \in Callers : u # t => /\ at_op'[u] = at_op[u] /\ asked'[u] = asked[u] /\ reply'[u] = reply[u]
                                     /\ owes'[u] = owes[u]
  BY <1>0, <1>4 DEF Idles, UlockTypeOK
<1>6. told' = [told EXCEPT ![o] = told'[o]]
      /\ told'[o] = IF UnlockAll(c) \/ reply[t] = "ok" THEN After(c, told[o]) ELSE told[o]
  <2>1. UnlockAll(c) => c.cmd # "GETLK"
    BY DEF UnlockAll
  <2> QED
    BY <1>0, <1>4, <2>1 DEF Tells, After, UlockTypeOK
<1> HIDE DEF kept
<1>7. UlockTypeOK'
  <2>1. new \in Stores
    BY <1>3 DEF Stores
  <2>2. told'[o] \in SUBSET (Fds \X Pieces)
    BY <1>0, <1>6, AfterIs DEF UlockTypeOK
  <2>3. owes' \in [Callers -> BOOLEAN]
    BY <1>0, <1>4 DEF UlockTypeOK, Idles
  <2>4. asked' \in [Callers -> CallType]
    BY <1>0, <1>4, NoCallIs DEF UlockTypeOK, Idles
  <2>5. told' \in [LockOwners -> SUBSET (Fds \X Pieces)]
    BY <1>0, <1>6, <2>2 DEF UlockTypeOK
  <2>6. fds' \in [LockOwners -> Stores]
    BY <1>0, <1>4, <2>1 DEF UlockTypeOK
  <2>7. /\ at_op' \in [Callers -> {"idle", "sent", "wait", "dead"}]
        /\ reply' \in [Callers -> {"none", "ok", "EAGAIN", "EINTR", "EIO"}]
    BY <1>0, <1>4 DEF UlockTypeOK, Idles
  <2>8. /\ owner_list' \in SUBSET LockOwners /\ unsure' \in SUBSET LockOwners
        /\ cfd' \in [LockOwners -> {"none", "up", "broken"}]
        /\ held' \in [LockOwners -> SUBSET (Fds \X Pieces)]
    BY <1>0, <1>4 DEF UlockTypeOK
  <2> QED
    BY <2>3, <2>4, <2>5, <2>6, <2>7, <2>8 DEF UlockTypeOK
<1>8. ASSUME NEW u \in Callers PROVE SeatOK(u)'
  <2>0. SeatOK(u)
    BY DEF UlockInv
  <2>1. CASE u = t
    BY <1>5, <2>1 DEF SeatOK
  <2>2. CASE u # t
    BY <1>5, <2>0, <2>2 DEF SeatOK
  <2> QED
    BY <2>1, <2>2
<1>9. ASSUME NEW p \in LockOwners PROVE ListedOK(p)' /\ StoreOK(p)'
  <2>0. ListedOK(p) /\ StoreOK(p)
    BY StoresByOwner DEF UlockInv
  <2>1. CASE p # o
    <3>1. fds'[p] = fds[p] /\ (p \in owner_list => p \in owner_list')
      BY <1>0, <1>4, <2>1 DEF UlockTypeOK
    <3>2. \A u \in Callers : owes'[u] /\ asked'[u].owner = p <=> owes[u] /\ asked[u].owner = p
      BY <1>5, <2>1
    <3>3. \A u \in Callers : owes[u] /\ asked[u].owner = p => asked'[u].fd = asked[u].fd
      BY <1>5, <2>1
    <3>4. StoreOK(p)'
      BY <2>0, <3>1, <3>2, <3>3, StoreKept
    <3> QED
      BY <2>0, <3>1, <3>4 DEF ListedOK
  <2>2. CASE p = o
    <3>1. ListedOK(p)'
      <4>1. CASE gone
        BY <1>3, <2>2, <4>1 DEF ListedOK
      <4>2. CASE ~gone
        <5>1. kept # {} => DOMAIN uses # {}
          BY DEF kept, KeptFiles
        <5> QED
          BY <1>3, <1>4, <2>0, <2>2, <4>2, <5>1 DEF ListedOK
      <4> QED
        BY <4>1, <4>2
    <3>2. ASSUME NEW u \in Callers, owes'[u], asked'[u].owner = p
          PROVE  p \in owner_list' /\ asked'[u].fd \in DOMAIN fds'[p]
      <4>1. u # t /\ owes[u] /\ asked[u].owner = o /\ asked'[u] = asked[u]
        BY <1>5, <2>2, <3>2
      <4>2. o \in owner_list /\ asked[u].fd \in kept
        BY <1>2, <1>3, <4>1
      <4> QED
        BY <1>3, <1>4, <2>2, <4>1, <4>2
    <3>3. ASSUME NEW f \in DOMAIN fds'[p] PROVE fds'[p][f] = Cardinality(Users(p, f)')
      <4> DEFINE mine == owes[t] /\ f = c.fd
      <4>1. f \in kept /\ f \in DOMAIN uses
        BY <1>3, <2>2, <3>3 DEF kept, KeptFiles
      <4>2. uses[f] = Cardinality(Users(o, f))
        BY <1>0, <4>1 DEF StoreOK
      <4>3. Users(p, f)' = Users(o, f) \ {t} /\ (t \in Users(o, f) <=> mine)
        BY <1>5, <2>2 DEF Users
      <4>4. Cardinality(Users(o, f) \ {t}) = IF mine THEN Cardinality(Users(o, f)) - 1
                                                    ELSE Cardinality(Users(o, f))
        <5>1. CASE mine
          <6> DEFINE users == Users(o, f)
          <6>1. IsFiniteSet(users) /\ t \in users
            BY <4>3, <5>1, UsersFinite
          <6> HIDE DEF users
          <6>2. Cardinality(users \ {t}) = Cardinality(users) - 1
            BY <6>1, FS_RemoveElement
          <6> QED
            BY <5>1, <6>2 DEF users
        <5>2. CASE ~mine
          BY <4>3, <5>2, Zenon
        <5> QED
          BY <5>1, <5>2
      <4>5. new[f] = uses[f] - (IF mine THEN 1 ELSE 0)
        BY <1>3, <4>1
      <4>6. uses[f] \in Nat
        BY <1>1, <4>1
      <4>7. fds'[p][f] = new[f]
        BY <2>2
      <4>8. Cardinality(Users(p, f)') = IF mine THEN uses[f] - 1 ELSE uses[f]
        BY <4>2, <4>3, <4>4
      <4> HIDE DEF mine, new, uses
      <4> QED
        BY <4>5, <4>6, <4>7, <4>8
    <3> QED
      BY <3>1, <3>2, <3>3 DEF StoreOK
  <2> QED
    BY <2>1, <2>2
<1>10. ASSUME NEW p \in LockOwners \ unsure' PROVE SureOK(p)'
  <2>0. p \notin unsure /\ SureOK(p)
    BY <1>4, <1>10 DEF UlockInv
  <2>1. CASE p # o
    <3>1. /\ fds'[p] = fds[p] /\ (p \in owner_list => p \in owner_list') /\ cfd'[p] = cfd[p]
          /\ held'[p] = held[p]
      BY <1>0, <1>4, <2>1 DEF UlockTypeOK
    <3>2. told'[p] = told[p]
      BY <1>0, <1>6, <2>1 DEF UlockTypeOK
    <3>3. \A u \in Callers : InCall(u, p)' <=> InCall(u, p)
      BY <1>5, <2>1 DEF InCall
    <3>4. \A u \in Callers : InCall(u, p) => asked'[u] = asked[u] /\ reply'[u] = reply[u]
      BY <1>5, <2>1 DEF InCall
    <3> QED
      BY <2>0, <3>1, <3>2, <3>3, <3>4, SureKept
  <2>2. CASE p = o
    <3>1. InCall(t, o)
      BY DEF InCall
    <3>2. /\ \A u \in Callers : InCall(u, o) => u = t
          /\ reply[t] # "EIO" /\ cfd[o] # "broken" /\ told[o] \subseteq (DOMAIN uses) \X Pieces
          /\ held[o] = IF reply[t] = "ok" THEN After(c, told[o]) ELSE told[o]
      BY <2>0, <2>2, <3>1 DEF SureOK
    <3>3. \A u \in Callers : ~InCall(u, p)'
      BY <1>5, <2>2, <3>2 DEF InCall
    <3>4. reply[t] \in {"ok", "EAGAIN", "EINTR"}
      BY <1>0, <3>2 DEF UlockTypeOK
    <3>5. UnlockAll(c) => reply[t] = "ok"
      BY <1>1, <3>4 DEF UnlockAll
    <3>6. told'[o] = held[o]
      BY <1>6, <3>2, <3>5
    <3>7. told'[o] \subseteq kept \X Pieces
      <4>1. CASE UnlockAll(c)
        <5>1. told'[o] = told[o] \ ({c.fd} \X Pieces)
          BY <1>0, <1>6, <4>1, ExtentIs DEF After, UnlockAll
        <5> QED
          BY <1>3, <3>2, <5>1
      <4>2. CASE ~UnlockAll(c)
        <5>1. kept = DOMAIN uses /\ c.fd \in kept
          BY <1>3, <4>2 DEF kept
        <5>2. Extent(c) \subseteq {c.fd} \X Pieces
          BY <1>0, ExtentIs
        <5> QED
          BY <1>6, <3>2, <5>1, <5>2 DEF After
      <4> QED
        BY <4>1, <4>2
    <3>8. held'[o] = told'[o] /\ cfd'[o] # "broken"
      <4>1. CASE gone
        <5>1. told'[o] = {}
          BY <3>7, <4>1
        <5> QED
          BY <1>0, <1>4, <4>1, <5>1 DEF UlockTypeOK
      <4>2. CASE ~gone
        BY <1>4, <3>2, <3>6, <4>2
      <4> QED
        BY <4>1, <4>2
    <3> QED
      BY <1>3, <2>2, <3>3, <3>7, <3>8 DEF SureOK
  <2> QED
    BY <2>1, <2>2
<1> QED
  BY <1>7, <1>8, <1>9, <1>10, StoresByOwnerNext DEF UlockInv
-----------------------------------------------------------------------------
\* Steps that move a caller or answer it, and leave the stores alone.
LEMMA MoveOK ==
  ASSUME UlockInv, NEW t \in Callers, at_op[t] # "idle",
         UNCHANGED <<owner_list, fds, cfd, asked, owes, told, unsure>>,
         at_op' \in [Callers -> {"idle", "sent", "wait", "dead"}],
         reply' \in [Callers -> {"none", "ok", "EAGAIN", "EINTR", "EIO"}],
         held' \in [LockOwners -> SUBSET (Fds \X Pieces)],
         \A u \in Callers : u # t => at_op'[u] = at_op[u] /\ reply'[u] = reply[u],
         at_op'[t] # "idle", at_op'[t] \in {"wait", "dead"} => asked[t].cmd = "SETLKW",
         reply'[t] \in {"EAGAIN", "EINTR"} => asked[t].type = "WRLCK",
         \A p \in LockOwners : p # asked[t].owner => held'[p] = held[p],
         asked[t].owner \in LockOwners \ unsure =>
           /\ reply'[t] # "EIO"
           /\ LET o == asked[t].owner
              IN held'[o] = IF reply'[t] = "ok" THEN After(asked[t], told[o]) ELSE told[o]
  PROVE  UlockInv'
<1>0. UlockTypeOK
  BY DEF UlockInv
<1>1. UlockTypeOK'
  BY <1>0 DEF UlockTypeOK
<1>2. ASSUME NEW u \in Callers PROVE SeatOK(u)'
  <2>0. SeatOK(u)
    BY DEF UlockInv
  <2>1. CASE u = t
    BY <2>0, <2>1 DEF SeatOK
  <2>2. CASE u # t
    BY <2>0, <2>2 DEF SeatOK
  <2> QED
    BY <2>1, <2>2
<1>3. ASSUME NEW p \in LockOwners PROVE ListedOK(p)' /\ StoreOK(p)'
  <2>1. ListedOK(p) /\ StoreOK(p)
    BY StoresByOwner DEF UlockInv
  <2> QED
    BY <2>1, StoreKept DEF ListedOK
<1>4. ASSUME NEW p \in LockOwners \ unsure' PROVE SureOK(p)'
  <2>0. SureOK(p) /\ p \notin unsure
    BY <1>4 DEF UlockInv
  <2>1. \A u \in Callers : InCall(u, p)' <=> InCall(u, p)
    BY DEF InCall
  <2>2. CASE p # asked[t].owner
    <3>1. \A u \in Callers : InCall(u, p) => asked'[u] = asked[u] /\ reply'[u] = reply[u]
      BY <2>2 DEF InCall
    <3> QED
      BY <2>0, <2>1, <2>2, <3>1, SureKept
  <2>3. CASE p = asked[t].owner
    <3>1. InCall(t, p) /\ p \in owner_list /\ (\A u \in Callers : InCall(u, p) => u = t)
      BY <2>0, <2>3 DEF InCall, SureOK
    <3>2. reply'[t] # "EIO" /\ held'[p] = IF reply'[t] = "ok" THEN After(asked[t], told[p]) ELSE told[p]
      BY <2>0, <2>3
    <3>3. After(asked[t]', told[p]') = After(asked[t], told[p]) /\ told'[p] = told[p]
      OBVIOUS
    <3>4. cfd'[p] # "broken" /\ told'[p] \subseteq (DOMAIN fds'[p]) \X Pieces
      BY <2>0 DEF SureOK
    <3> QED
      BY <2>1, <3>1, <3>2, <3>3, <3>4 DEF SureOK
  <2> QED
    BY <2>2, <2>3
<1> QED
  BY <1>1, <1>2, <1>3, <1>4, StoresByOwnerNext DEF UlockInv

\* What is known of the owner of a caller without its answer.
LEMMA AskedIs ==
  ASSUME UlockInv, NEW t \in Callers, at_op[t] # "idle"
  PROVE  /\ SeatOK(t) /\ asked[t] \in CallType /\ asked[t].owner \in LockOwners
         /\ LET o == asked[t].owner
            IN o \notin unsure =>
                 /\ cfd[o] # "broken" /\ reply[t] # "EIO"
                 /\ held[o] = IF reply[t] = "ok" THEN After(asked[t], told[o]) ELSE told[o]
<1>1. SeatOK(t) /\ asked[t] \in CallType /\ asked[t].owner \in LockOwners
  BY DEF UlockInv, UlockTypeOK, CallType
<1>2. InCall(t, asked[t].owner)
  BY DEF InCall
<1>3. asked[t].owner \notin unsure => SureOK(asked[t].owner)
  BY <1>1 DEF UlockInv
<1> QED
  BY <1>1, <1>2, <1>3 DEF SureOK

LEMMA FirstAnswerOK ==
  ASSUME UlockInv, NEW t \in Callers, FirstAnswer(t) PROVE UlockInv'
<1>1. at_op[t] = "sent" /\ reply[t] # "none" /\ UlockTypeOK
  BY DEF FirstAnswer, UlockInv
<1>2. CASE Finish(t, reply[t])
  BY <1>1, <1>2, FinishOK
<1>3. CASE ~Finish(t, reply[t])
  <2>1. /\ asked[t].cmd = "SETLKW" /\ reply[t] = "EAGAIN"
        /\ at_op' = [at_op EXCEPT ![t] = "wait"] /\ reply' = [reply EXCEPT ![t] = "none"]
        /\ UNCHANGED <<owner_list, fds, cfd, asked, owes, held, told, unsure>>
    BY <1>3 DEF FirstAnswer, Moves, lockVars
  <2>2. /\ at_op' \in [Callers -> {"idle", "sent", "wait", "dead"}] /\ at_op'[t] = "wait"
        /\ reply' \in [Callers -> {"none", "ok", "EAGAIN", "EINTR", "EIO"}] /\ reply'[t] = "none"
        /\ held' \in [LockOwners -> SUBSET (Fds \X Pieces)]
        /\ \A u \in Callers : u # t => at_op'[u] = at_op[u] /\ reply'[u] = reply[u]
    BY <1>1, <2>1 DEF UlockTypeOK
  <2>3. asked[t].owner \in LockOwners \ unsure => held[asked[t].owner] = told[asked[t].owner]
    BY <1>1, <2>1, AskedIs
  <2> QED
    BY <1>1, <2>1, <2>2, <2>3, MoveOK
<1> QED
  BY <1>2, <1>3

LEMMA SignalledOK ==
  ASSUME UlockInv, NEW t \in Callers, Signalled(t) PROVE UlockInv'
<1>0. /\ UlockTypeOK /\ at_op[t] = "wait" /\ reply[t] = "none" /\ SeatOK(t)
      /\ asked[t].cmd = "SETLKW" /\ asked[t].type = "WRLCK"
      /\ UNCHANGED <<owner_list, fds, cfd, asked, owes, held, told, unsure>>
  BY AskedIs DEF Signalled, UlockInv, lockVars, SeatOK
<1>1. /\ at_op' \in [Callers -> {"idle", "sent", "wait", "dead"}] /\ at_op'[t] \in {"wait", "dead"}
      /\ reply' \in [Callers -> {"none", "ok", "EAGAIN", "EINTR", "EIO"}]
      /\ reply'[t] \in {"none", "EINTR", "EIO"}
      /\ reply'[t] = "EIO" => cfd[asked[t].owner] # "up" /\ cfd[asked[t].owner] # "none"
      /\ held' \in [LockOwners -> SUBSET (Fds \X Pieces)]
      /\ \A u \in Callers : u # t => at_op'[u] = at_op[u] /\ reply'[u] = reply[u]
  BY <1>0 DEF UlockTypeOK, Signalled, Moves
<1>2. asked[t].owner \in LockOwners \ unsure =>
        held[asked[t].owner] = told[asked[t].owner] /\ reply'[t] # "EIO"
  <2>1. cfd[asked[t].owner] \in {"none", "up", "broken"}
    BY <1>0, AskedIs DEF UlockTypeOK
  <2> QED
    BY <1>0, <1>1, <2>1, AskedIs
<1> QED
  BY <1>0, <1>1, <1>2, MoveOK

\* What the server does for a caller is what the caller will be told.
LEMMA GrantsIs ==
  ASSUME UlockTypeOK, NEW t \in Callers, asked[t] \in CallType, Grants(t)
  PROVE  LET o == asked[t].owner
         IN /\ held'[o] = After(asked[t], held[o]) /\ held' \in [LockOwners -> SUBSET (Fds \X Pieces)]
            /\ \A p \in LockOwners : p # o => held'[p] = held[p]
<1> DEFINE c == asked[t]
<1>1. c.owner \in LockOwners /\ held \in [LockOwners -> SUBSET (Fds \X Pieces)]
  BY DEF CallType, UlockTypeOK
<1>2. held' = [held EXCEPT ![c.owner] = After(c, held[c.owner])]
  <2>1. CASE c.cmd = "GETLK"
    BY <1>1, <2>1 DEF Grants, After
  <2>2. CASE c.cmd # "GETLK" /\ c.type = "UNLCK"
    BY <1>1, <2>2 DEF Grants, After
  <2>3. CASE c.cmd # "GETLK" /\ c.type # "UNLCK"
    BY <1>1, <2>3 DEF Grants, After
  <2> QED
    BY <2>1, <2>2, <2>3
<1>3. After(c, held[c.owner]) \in SUBSET (Fds \X Pieces)
  BY <1>1, AfterIs
<1> QED
  BY <1>1, <1>2, <1>3

LEMMA ServeOK ==
  ASSUME UlockInv, NEW t \in Callers, Serve(t) \/ GrantLate(t) PROVE UlockInv'
<1>0. /\ UlockTypeOK /\ at_op[t] # "idle" /\ reply[t] = "none"
      /\ UNCHANGED <<owner_list, fds, cfd, at_op, asked, owes, told, unsure>>
      /\ at_op[t] \in {"wait", "dead"} => asked[t].cmd = "SETLKW"
  BY AskedIs DEF Serve, GrantLate, UlockInv, SeatOK
<1>1. asked[t] \in CallType /\ asked[t].owner \in LockOwners
  BY <1>0, AskedIs
<1>2. asked[t].owner \notin unsure => held[asked[t].owner] = told[asked[t].owner]
  BY <1>0, AskedIs
<1>3. CASE reply' = [reply EXCEPT ![t] = "EAGAIN"] /\ UNCHANGED held /\ asked[t].type = "WRLCK"
  <2>1. /\ reply' \in [Callers -> {"none", "ok", "EAGAIN", "EINTR", "EIO"}] /\ reply'[t] = "EAGAIN"
        /\ held' \in [LockOwners -> SUBSET (Fds \X Pieces)]
        /\ at_op' \in [Callers -> {"idle", "sent", "wait", "dead"}]
        /\ \A u \in Callers : u # t => at_op'[u] = at_op[u] /\ reply'[u] = reply[u]
    BY <1>0, <1>3 DEF UlockTypeOK
  <2> QED
    BY <1>0, <1>1, <1>2, <1>3, <2>1, MoveOK
<1>4. CASE reply' = [reply EXCEPT ![t] = "ok"] /\ Grants(t)
  <2>1. /\ reply' \in [Callers -> {"none", "ok", "EAGAIN", "EINTR", "EIO"}] /\ reply'[t] = "ok"
        /\ at_op' \in [Callers -> {"idle", "sent", "wait", "dead"}]
        /\ \A u \in Callers : u # t => at_op'[u] = at_op[u] /\ reply'[u] = reply[u]
    BY <1>0, <1>4 DEF UlockTypeOK
  <2>2. /\ held'[asked[t].owner] = After(asked[t], held[asked[t].owner])
        /\ held' \in [LockOwners -> SUBSET (Fds \X Pieces)]
        /\ \A p \in LockOwners : p # asked[t].owner => held'[p] = held[p]
    BY <1>0, <1>1, <1>4, GrantsIs
  <2> QED
    BY <1>0, <1>1, <1>2, <2>1, <2>2, MoveOK
<1> QED
  BY <1>3, <1>4 DEF Serve, GrantLate

LEMMA ServerDiesOK ==
  ASSUME UlockInv, NEW o \in LockOwners, ServerDies(o) PROVE UlockInv'
<1>0. UlockTypeOK /\ UNCHANGED <<owner_list, fds, at_op, asked, owes, told>>
  BY DEF UlockInv, ServerDies
<1>1. /\ cfd' = [cfd EXCEPT ![o] = "broken"] /\ held' = [held EXCEPT ![o] = {}]
      /\ unsure' = unsure \cup {o}
      /\ reply' \in [Callers -> {"none", "ok", "EAGAIN", "EINTR", "EIO"}]
      /\ \A u \in Callers : reply'[u] = reply[u] \/ (reply'[u] = "EIO" /\ asked[u].owner = o /\ at_op[u] # "idle")
  BY <1>0 DEF ServerDies, UlockTypeOK
<1>2. UlockTypeOK'
  BY <1>0, <1>1 DEF UlockTypeOK
<1>3. ASSUME NEW u \in Callers PROVE SeatOK(u)'
  <2>1. SeatOK(u)
    BY DEF UlockInv
  <2> QED
    BY <1>0, <1>1, <2>1 DEF SeatOK
<1>4. ASSUME NEW p \in LockOwners PROVE ListedOK(p)' /\ StoreOK(p)'
  <2>1. ListedOK(p) /\ StoreOK(p)
    BY StoresByOwner DEF UlockInv
  <2> QED
    BY <1>0, <2>1, StoreKept DEF ListedOK
<1>5. ASSUME NEW p \in LockOwners \ unsure' PROVE SureOK(p)'
  <2>1. SureOK(p) /\ p # o /\ held'[p] = held[p] /\ cfd'[p] = cfd[p]
    <3>1. p \notin unsure /\ p # o
      BY <1>1, <1>5
    <3> QED
      BY <1>0, <1>1, <3>1 DEF UlockInv, UlockTypeOK
  <2>2. \A u \in Callers : InCall(u, p)' <=> InCall(u, p)
    BY <1>0 DEF InCall
  <2>3. \A u \in Callers : InCall(u, p) => asked'[u] = asked[u] /\ reply'[u] = reply[u]
    BY <1>0, <1>1, <2>1 DEF InCall
  <2> QED
    BY <1>0, <2>1, <2>2, <2>3, SureKept
<1> QED
  BY <1>2, <1>3, <1>4, <1>5, StoresByOwnerNext DEF UlockInv

LEMMA UlockSame ==
  ASSUME UlockInv, UNCHANGED <<owner_list, fds, cfd, callVars, lockVars>> PROVE UlockInv'
<1> USE DEF callVars, lockVars
<1>1. \A t \in Callers, o \in LockOwners : InCall(t, o)' <=> InCall(t, o)
  BY DEF InCall
<1>2. UlockTypeOK' /\ (\A t \in Callers : SeatOK(t))' /\ (\A o \in LockOwners : ListedOK(o))'
  BY DEF UlockInv, UlockTypeOK, SeatOK, ListedOK
<1>3. \A o \in LockOwners : StoreOK(o)'
  BY StoresByOwner, StoreKept DEF UlockInv
<1>4. \A o \in LockOwners \ unsure' : SureOK(o)'
  BY <1>1, SureKept DEF UlockInv
<1> QED
  BY <1>2, <1>3, <1>4, StoresByOwnerNext DEF UlockInv

LEMMA UlockStepOK ==
  ASSUME UlockInv, [UlockNext]_ulockVars PROVE UlockInv'
<1>1. ASSUME NEW c \in UlockCalls, Op(c.by, c) PROVE UlockInv'
  <2>1. c.by \in Callers
    BY UlockCallAssumption
  <2> QED
    BY <1>1, <2>1, OpOK
<1>2. ASSUME NEW t \in Callers, LastAnswer(t) PROVE UlockInv'
  BY <1>2, FinishOK DEF LastAnswer
<1>3. CASE DaemonDies
  BY <1>3, UlockSame DEF DaemonDies
<1>4. CASE UNCHANGED ulockVars
  BY <1>4, UlockSame DEF ulockVars
<1> QED
  BY <1>1, <1>2, <1>3, <1>4, FirstAnswerOK, SignalledOK, ServeOK, ServerDiesOK DEF UlockNext

\* The stores, the connections and the locks of the lock manager's owners fit
\* together in every state (ulockmgr.c).
THEOREM UlockInvariance == UlockSpec => []UlockInv
<1>1. UlockInit => UlockInv
  BY UlockInitOK
<1>2. UlockInv /\ [UlockNext]_ulockVars => UlockInv'
  BY UlockStepOK
<1> QED
  BY <1>1, <1>2, PTL DEF UlockSpec

\* A caller that waits finds its owner and its file when it comes back, every
\* use of a file is given back, and what callers were told is what the server
\* holds (ulockmgr_send_request, ulockmgr.c:238-353).
THEOREM LocksAreKept == UlockSpec => []UlockKept
<1>1. ASSUME UlockInv PROVE UlockKept
  <2>1. ASSUME NEW o \in LockOwners \ unsure, \A t \in Callers : asked[t].owner = o => at_op[t] = "idle"
        PROVE  told[o] = held[o]
    <3>1. SureOK(o) /\ \A t \in Callers : ~InCall(t, o)
      BY <1>1, <2>1 DEF UlockInv, InCall
    <3> QED
      BY <3>1 DEF SureOK
  <2> QED
    BY <1>1, <2>1 DEF UlockInv, UlockKept, LocksTold
<1> QED
  BY <1>1, UlockInvariance, PTL

(***************************************************************************)
(* FuseListing: a directory read page by page.                             *)
(***************************************************************************)

\* A set of numbers has a least one.
LEMMA LeastSuch ==
  ASSUME NEW S \in SUBSET Nat, S # {}
  PROVE  \E m \in S : \A k \in S : m <= k
<1> DEFINE R == {ss \in Nat \X Nat : ss[1] < ss[2]}
<1>1. IsWellFoundedOn(R, Nat)
  BY NatLessThanWellFounded DEF OpToRel
<1>2. \A m, n \in Nat : <<m, n>> \notin R => n <= m
  OBVIOUS
<1> HIDE DEF R
<1>3. \E k \in S : \A j \in S : ~ (<<j, k>> \in R)
  BY <1>1, WFMin, Zenon
<1> QED
  BY <1>2, <1>3

\* The end of an interval is its greatest number.
LEMMA GreatestOf ==
  ASSUME NEW n \in Nat, NEW s \in SUBSET (1 .. n + 1), n + 1 \in s
  PROVE  Max(s) = n + 1
<1>1. \A y \in s : n + 1 >= y
  OBVIOUS
<1>2. \A x \in s : (\A y \in s : x >= y) => x = n + 1
  OBVIOUS
<1> QED
  BY <1>1, <1>2 DEF Max

\* Entries as fill_dir makes them.
Entries == [name : Names, off : Nat]

\* The function that sums up sizes over the sets of indexes, as FoldLeft finds it.
Sums(seq, n, it) ==
  it = [s \in SUBSET (1 .. n) |->
          IF s = {} THEN 0 ELSE it[s \ {Max(s)}] + DirentSize(seq[Max(s)].name)]
\* The function that lists whole entries over them.
Fills(names, n, it) ==
  it = [s \in SUBSET (1 .. n) |->
          IF s = {} THEN << >> ELSE FillWhole(it[s \ {Max(s)}], names[Max(s)])]

\* There are such functions, for every length: FoldLeft's CHOOSE finds one.
LEMMA SumsExist ==
  ASSUME NEW seq, NEW n \in Nat
  PROVE  \E it : Sums(seq, n, it)
<1> DEFINE S == {k \in Nat : ~\E it : Sums(seq, k, it)}
<1>1. SUFFICES ASSUME S # {} PROVE FALSE
  OBVIOUS
<1>2. PICK k \in S : \A j \in S : k <= j
  BY <1>1, LeastSuch
<1>3. k # 0
  <2> DEFINE it == [s \in SUBSET (1 .. 0) |-> 0]
  <2>1. 1 .. 0 = {} /\ \A s \in SUBSET (1 .. 0) : s = {}
    OBVIOUS
  <2>2. Sums(seq, 0, it)
    BY <2>1 DEF Sums
  <2> QED
    BY <1>2, <2>2
<1>4. k - 1 \in Nat /\ k - 1 \notin S /\ k - 1 + 1 = k
  BY <1>2, <1>3
<1>5. PICK it : Sums(seq, k - 1, it)
  BY <1>4
<1> DEFINE next == [s \in SUBSET (1 .. k) |->
                      IF k \notin s THEN it[s] ELSE it[s \ {k}] + DirentSize(seq[k].name)]
<1>6. ASSUME NEW s \in SUBSET (1 .. k)
      PROVE  next[s] = IF s = {} THEN 0 ELSE next[s \ {Max(s)}] + DirentSize(seq[Max(s)].name)
  <2>1. CASE k \in s
    <3>1. Max(s) = k
      BY <1>4, <2>1, GreatestOf
    <3>2. s \ {k} \in SUBSET (1 .. k) /\ k \notin s \ {k} /\ s # {}
      BY <2>1
    <3>3. next[s \ {k}] = it[s \ {k}]
      BY <3>2
    <3> QED
      BY <2>1, <3>1, <3>2, <3>3
  <2>2. CASE k \notin s
    <3>1. s \in SUBSET (1 .. k - 1)
      BY <1>2, <1>4, <2>2
    <3>2. s \ {Max(s)} \in SUBSET (1 .. k) /\ k \notin s \ {Max(s)}
      BY <2>2
    <3>3. it[s] = IF s = {} THEN 0 ELSE it[s \ {Max(s)}] + DirentSize(seq[Max(s)].name)
      BY <1>5, <3>1 DEF Sums
    <3>4. next[s] = it[s] /\ next[s \ {Max(s)}] = it[s \ {Max(s)}]
      BY <2>2, <3>2
    <3> HIDE DEF next
    <3> QED
      BY <3>3, <3>4
  <2> QED
    BY <2>1, <2>2
<1>7. next = [s \in SUBSET (1 .. k) |-> next[s]]
  OBVIOUS
<1>8. Sums(seq, k, next)
  <2> HIDE DEF next
  <2> QED
    BY <1>6, <1>7 DEF Sums
<1> QED
  BY <1>2, <1>8

\* And for the lists.
LEMMA FillsExist ==
  ASSUME NEW names, NEW n \in Nat
  PROVE  \E it : Fills(names, n, it)
<1> DEFINE S == {k \in Nat : ~\E it : Fills(names, k, it)}
<1>1. SUFFICES ASSUME S # {} PROVE FALSE
  OBVIOUS
<1>2. PICK k \in S : \A j \in S : k <= j
  BY <1>1, LeastSuch
<1>3. k # 0
  <2> DEFINE it == [s \in SUBSET (1 .. 0) |-> << >>]
  <2>1. 1 .. 0 = {} /\ \A s \in SUBSET (1 .. 0) : s = {}
    OBVIOUS
  <2>2. Fills(names, 0, it)
    BY <2>1 DEF Fills
  <2> QED
    BY <1>2, <2>2
<1>4. k - 1 \in Nat /\ k - 1 \notin S /\ k - 1 + 1 = k
  BY <1>2, <1>3
<1>5. PICK it : Fills(names, k - 1, it)
  BY <1>4
<1> DEFINE next == [s \in SUBSET (1 .. k) |->
                      IF k \notin s THEN it[s] ELSE FillWhole(it[s \ {k}], names[k])]
<1>6. ASSUME NEW s \in SUBSET (1 .. k)
      PROVE  next[s] = IF s = {} THEN << >> ELSE FillWhole(next[s \ {Max(s)}], names[Max(s)])
  <2>1. CASE k \in s
    <3>1. Max(s) = k
      BY <1>4, <2>1, GreatestOf
    <3>2. s \ {k} \in SUBSET (1 .. k) /\ k \notin s \ {k} /\ s # {}
      BY <2>1
    <3>3. next[s \ {k}] = it[s \ {k}]
      BY <3>2
    <3> QED
      BY <2>1, <3>1, <3>2, <3>3
  <2>2. CASE k \notin s
    <3>1. s \in SUBSET (1 .. k - 1)
      BY <1>2, <1>4, <2>2
    <3>2. s \ {Max(s)} \in SUBSET (1 .. k) /\ k \notin s \ {Max(s)}
      BY <2>2
    <3>3. it[s] = IF s = {} THEN << >> ELSE FillWhole(it[s \ {Max(s)}], names[Max(s)])
      BY <1>5, <3>1 DEF Fills
    <3>4. next[s] = it[s] /\ next[s \ {Max(s)}] = it[s \ {Max(s)}]
      BY <2>2, <3>2
    <3> HIDE DEF next
    <3> QED
      BY <3>3, <3>4
  <2> QED
    BY <2>1, <2>2
<1>7. next = [s \in SUBSET (1 .. k) |-> next[s]]
  OBVIOUS
<1>8. Fills(names, k, next)
  <2> HIDE DEF next
  <2> QED
    BY <1>6, <1>7 DEF Fills
<1> QED
  BY <1>2, <1>8

\* The prefixes of an interval.
LEMMA Prefix ==
  ASSUME NEW n \in Nat, NEW k \in 1 .. n
  PROVE  /\ 1 .. k \in SUBSET (1 .. n) /\ 1 .. k - 1 \in SUBSET (1 .. n)
         /\ 1 .. k # {} /\ Max(1 .. k) = k /\ (1 .. k) \ {k} = 1 .. k - 1
<1>1. k - 1 \in Nat /\ k - 1 + 1 = k
  OBVIOUS
<1>2. Max(1 .. k) = k
  <2>1. 1 .. k \in SUBSET (1 .. k - 1 + 1) /\ k - 1 + 1 \in 1 .. k
    BY <1>1
  <2> QED
    BY ONLY <1>1, <2>1, GreatestOf
<1>3. 1 .. k \in SUBSET (1 .. n) /\ 1 .. k - 1 \in SUBSET (1 .. n) /\ k \in 1 .. k
  OBVIOUS
<1>4. \A j : j \in (1 .. k) \ {k} <=> j \in 1 .. k - 1
  OBVIOUS
<1>5. (1 .. k) \ {k} = 1 .. k - 1
  BY <1>4, Zenon
<1> QED
  BY <1>2, <1>3, <1>5

\* f says at which byte each entry ends.
Ends(entries, f) ==
  /\ f \in [0 .. Len(entries) -> Nat] /\ f[0] = 0
  /\ \A k \in 1 .. Len(entries) : f[k] = f[k - 1] + DirentSize(entries[k].name)

\* An entry takes some bytes, and fits on a page.
LEMMA DirentSizeIs ==
  ASSUME NEW name \in Names
  PROVE  DirentSize(name) \in Nat /\ DirentSize(name) > 0 /\ DirentSize(name) <= DirPage
<1>1. Length[name] \in Nat
  BY ListingAssumption
<1> DEFINE l == Length[name]
<1>2. DirentSize(name) = ((24 + l + 7) \div 8) * 8
  BY DEF DirentSize
<1> HIDE DEF l
<1>3. l \in Nat
  BY <1>1 DEF l
<1>4. ((24 + l + 7) \div 8) * 8 \in Nat /\ ((24 + l + 7) \div 8) * 8 > 0
  BY <1>3
<1> QED
  BY <1>2, <1>4, ListingAssumption

\* Sizes add up along a sequence.
LEMMA SizeRuns ==
  ASSUME NEW entries, NEW n \in Nat, DOMAIN entries = 1 .. n
  PROVE  \E f : /\ f = [k \in 0 .. n |-> f[k]] /\ f[0] = 0 /\ Size(entries) = f[n]
                /\ \A k \in 1 .. n : f[k] = f[k - 1] + DirentSize(entries[k].name)
<1> DEFINE it == CHOOSE i : Sums(entries, n, i)
<1>1. Sums(entries, n, it)
  BY SumsExist
<1>2. Size(entries) = it[1 .. n]
  <2>1. Size(entries) = (CHOOSE i : i = [s \in SUBSET DOMAIN entries |->
                           IF s = {} THEN 0 ELSE i[s \ {Max(s)}] + DirentSize(entries[Max(s)].name)])[DOMAIN entries]
    BY Zenon DEF Size, FoldLeft, MapThenFoldSet
  <2>2. it = CHOOSE i : i = [s \in SUBSET (1 .. n) |->
                           IF s = {} THEN 0 ELSE i[s \ {Max(s)}] + DirentSize(entries[Max(s)].name)]
    BY Zenon DEF Sums
  <2> QED
    BY <2>1, <2>2, Zenon
<1> HIDE DEF it
<1> DEFINE f == [k \in 0 .. n |-> it[1 .. k]]
<1>3. f[0] = 0
  <2>1. 1 .. 0 = {} /\ {} \in SUBSET (1 .. n)
    OBVIOUS
  <2>2. it[{}] = 0
    BY <1>1, <2>1 DEF Sums
  <2> QED
    BY <2>1, <2>2
<1>4. ASSUME NEW k \in 1 .. n PROVE f[k] = f[k - 1] + DirentSize(entries[k].name)
  <2>1. \A s \in SUBSET (1 .. n) :
          it[s] = IF s = {} THEN 0 ELSE it[s \ {Max(s)}] + DirentSize(entries[Max(s)].name)
    BY <1>1 DEF Sums
  <2>2. /\ 1 .. k \in SUBSET (1 .. n) /\ 1 .. k # {} /\ Max(1 .. k) = k /\ (1 .. k) \ {k} = 1 .. k - 1
    BY Prefix
  <2>3. it[1 .. k] = it[(1 .. k) \ {Max(1 .. k)}] + DirentSize(entries[Max(1 .. k)].name)
    BY ONLY <2>1, <2>2, Zenon
  <2>4. it[1 .. k] = it[1 .. k - 1] + DirentSize(entries[k].name)
    BY ONLY <2>2, <2>3, Zenon
  <2> QED
    BY <2>4
<1>5. f = [k \in 0 .. n |-> f[k]] /\ f[n] = it[1 .. n]
  OBVIOUS
<1> QED
  BY <1>2, <1>3, <1>4, <1>5

\* f is the running sum of d.
RunningSum(n, d, f) == f[0] = 0 /\ \A k \in 1 .. n : f[k] = f[k - 1] + d[k]

\* There is only one.
LEMMA SumsAgree ==
  ASSUME NEW n \in Nat, NEW d, NEW f, NEW g, RunningSum(n, d, f), RunningSum(n, d, g)
  PROVE  \A k \in 0 .. n : f[k] = g[k]
<1> DEFINE S == {k \in 0 .. n : f[k] # g[k]}
<1>1. SUFFICES ASSUME S # {} PROVE FALSE
  OBVIOUS
<1>2. S \in SUBSET Nat
  OBVIOUS
<1>3. PICK k \in S : \A j \in S : k <= j
  BY <1>1, <1>2, LeastSuch
<1>4. k # 0
  BY <1>3 DEF RunningSum
<1>5. k \in 1 .. n /\ k - 1 \in 0 .. n /\ k - 1 \notin S
  BY <1>3, <1>4
<1>6. f[k - 1] = g[k - 1]
  BY <1>5
<1>7. f[k] = g[k]
  BY <1>5, <1>6, Zenon DEF RunningSum
<1> QED
  BY <1>3, <1>7

\* An entry of a listing.
LEMMA EntryIs ==
  ASSUME NEW entries \in Seq(Entries), NEW k \in 1 .. Len(entries)
  PROVE  entries[k] \in Entries /\ entries[k].name \in Names /\ entries[k].off \in Nat
<1>1. entries[k] \in Entries
  OBVIOUS
<1> QED
  BY <1>1 DEF Entries

\* Every list of entries has ends.
LEMMA EndsExist ==
  ASSUME NEW entries \in Seq(Entries)
  PROVE  \E f : Ends(entries, f) /\ Size(entries) = f[Len(entries)]
<1> DEFINE n == Len(entries)
<1>1. n \in Nat /\ DOMAIN entries = 1 .. n
  OBVIOUS
<1>2. PICK f : /\ f = [k \in 0 .. n |-> f[k]] /\ f[0] = 0 /\ Size(entries) = f[n]
               /\ \A k \in 1 .. n : f[k] = f[k - 1] + DirentSize(entries[k].name)
  BY <1>1, SizeRuns
<1>3. \A k \in 1 .. n : DirentSize(entries[k].name) \in Nat
  <2>1. \A k \in 1 .. n : entries[k].name \in Names
    BY EntryIs
  <2> QED
    BY <2>1, DirentSizeIs
<1>4. \A k \in 0 .. n : f[k] \in Nat
  <2> DEFINE S == {k \in 0 .. n : f[k] \notin Nat}
  <2>1. SUFFICES ASSUME S # {} PROVE FALSE
    OBVIOUS
  <2>2. S \in SUBSET Nat
    OBVIOUS
  <2>3. PICK k \in S : \A j \in S : k <= j
    BY <2>1, <2>2, LeastSuch
  <2>4. k # 0
    BY <1>2, <2>3
  <2>5. k \in 1 .. n /\ k - 1 \in 0 .. n /\ k - 1 \notin S
    BY <1>1, <2>3, <2>4
  <2>6. f[k - 1] \in Nat /\ DirentSize(entries[k].name) \in Nat /\ f[k] = f[k - 1] + DirentSize(entries[k].name)
    BY <1>2, <1>3, <2>5
  <2>7. f[k] \in Nat
    BY <2>6
  <2> QED
    BY <2>3, <2>7
<1>5. f \in [0 .. n -> Nat]
  <2> HIDE DEF n
  <2> QED
    BY <1>2, <1>4
<1> QED
  BY <1>2, <1>5 DEF Ends

\* The ends of a list say where each of its entries starts.
LEMMA EndsAre ==
  ASSUME NEW entries \in Seq(Entries), NEW f, Ends(entries, f)
  PROVE  /\ Size(entries) = f[Len(entries)]
         /\ \A k \in 1 .. Len(entries) : Start(entries, k) = f[k - 1]
<1> DEFINE n == Len(entries)
<1> DEFINE d == [k \in 1 .. n |-> DirentSize(entries[k].name)]
<1>1. n \in Nat /\ f[0] = 0 /\ \A k \in 1 .. n : f[k] = f[k - 1] + d[k]
  BY DEF Ends
<1>2. ASSUME NEW k \in 0 .. n PROVE Size(SubSeq(entries, 1, k)) = f[k]
  <2> DEFINE prefix == SubSeq(entries, 1, k)
  <2>1. prefix \in Seq(Entries) /\ Len(prefix) = k /\ \A j \in 1 .. k : prefix[j] = entries[j]
    OBVIOUS
  <2>2. PICK g : Ends(prefix, g) /\ Size(prefix) = g[Len(prefix)]
    BY <2>1, EndsExist
  <2>3. g[0] = 0 /\ \A j \in 1 .. k : g[j] = g[j - 1] + d[j]
    <3>1. \A j \in 1 .. k : d[j] = DirentSize(prefix[j].name)
      BY <2>1
    <3> QED
      BY <2>1, <2>2, <3>1 DEF Ends
  <2>4. k \in Nat /\ \A j \in 1 .. k : f[j] = f[j - 1] + d[j]
    BY <1>1
  <2> HIDE DEF d, prefix
  <2>5. \A j \in 0 .. k : g[j] = f[j]
    <3>1. k \in Nat /\ RunningSum(k, d, g) /\ RunningSum(k, d, f)
      BY <1>1, <2>3, <2>4 DEF RunningSum
    <3> QED
      BY ONLY <3>1, SumsAgree
  <2> QED
    BY <2>1, <2>2, <2>4, <2>5 DEF prefix
<1>3. SubSeq(entries, 1, n) = entries
  OBVIOUS
<1>4. n \in 0 .. n /\ \A k \in 1 .. n : k - 1 \in 0 .. n
  BY <1>1
<1> HIDE DEF n
<1>5. Size(entries) = f[n]
  BY <1>2, <1>3, <1>4
<1>6. \A k \in 1 .. n : Start(entries, k) = f[k - 1]
  BY <1>2, <1>4 DEF Start
<1> QED
  BY <1>5, <1>6 DEF n

\* Ends grow.
LEMMA EndsGrow ==
  ASSUME NEW entries \in Seq(Entries), NEW f, Ends(entries, f)
  PROVE  \A j, k \in 0 .. Len(entries) : j < k => f[j] < f[k]
<1> DEFINE n == Len(entries)
<1>1. n \in Nat /\ f \in [0 .. n -> Nat] /\ \A k \in 1 .. n : f[k - 1] < f[k]
  <2>1. ASSUME NEW k \in 1 .. n PROVE f[k - 1] < f[k]
    <3>1. entries[k].name \in Names
      BY EntryIs
    <3>2. DirentSize(entries[k].name) \in Nat /\ DirentSize(entries[k].name) > 0
      BY <3>1, DirentSizeIs
    <3>3. f[k] = f[k - 1] + DirentSize(entries[k].name) /\ f[k - 1] \in Nat
      BY DEF Ends
    <3> QED
      BY <3>2, <3>3
  <2> QED
    BY <2>1 DEF Ends
<1>2. SUFFICES ASSUME NEW j \in 0 .. n, {k \in 0 .. n : j < k /\ ~(f[j] < f[k])} # {} PROVE FALSE
  OBVIOUS
<1> DEFINE S == {k \in 0 .. n : j < k /\ ~(f[j] < f[k])}
<1> HIDE DEF n
<1>3. S \in SUBSET Nat /\ S # {}
  BY <1>1, <1>2
<1>4. PICK k \in S : \A i \in S : k <= i
  BY <1>3, LeastSuch
<1>5. k \in 1 .. n /\ k - 1 \in 0 .. n /\ k - 1 \notin S /\ f[k - 1] < f[k] /\ f[k] \in Nat /\ f[k - 1] \in Nat /\ f[j] \in Nat
  BY <1>1, <1>4
<1>6. k - 1 = j \/ f[j] < f[k - 1]
  BY <1>1, <1>4, <1>5
<1> QED
  BY <1>4, <1>5, <1>6

\* What fill_dir makes of a list of names without offsets: every name, with the byte behind it.
Listed(names, c) ==
  /\ c \in Seq(Entries) /\ Len(c) = Len(names)
  /\ \A k \in 1 .. Len(names) : c[k].name = names[k] /\ \A f : Ends(c, f) => c[k].off = f[k]

\* One entry more.
LEMMA FillWholeLists ==
  ASSUME NEW names \in Seq(Names), NEW name \in Names, NEW c, Listed(names, c)
  PROVE  Listed(Append(names, name), FillWhole(c, name))
<1> DEFINE n == Len(names)
           e == [name |-> name, off |-> Size(c) + DirentSize(name)]
           d == FillWhole(c, name)
<1>1. n \in Nat /\ c \in Seq(Entries) /\ Len(c) = n
  BY DEF Listed
<1>2. PICK g : Ends(c, g) /\ Size(c) = g[n]
  BY <1>1, EndsExist
<1>3. Size(c) \in Nat
  BY <1>1, <1>2 DEF Ends
<1>4. e \in Entries
  <2>1. Size(c) + DirentSize(name) \in Nat
    BY <1>3, DirentSizeIs
  <2> QED
    BY <2>1 DEF Entries
<1>5. d = Append(c, e)
  BY DEF FillWhole
<1> HIDE DEF e
<1>6. /\ d \in Seq(Entries) /\ Len(d) = n + 1 /\ d[n + 1] = e /\ \A k \in 1 .. n : d[k] = c[k]
  BY <1>1, <1>4, <1>5
<1> HIDE DEF d
<1>7. Append(names, name) \in Seq(Names) /\ Len(Append(names, name)) = n + 1
      /\ Append(names, name)[n + 1] = name /\ \A k \in 1 .. n : Append(names, name)[k] = names[k]
  OBVIOUS
<1> DEFINE all == Append(names, name)
<1> HIDE DEF all
<1>8. ASSUME NEW k \in 1 .. n + 1, NEW f, Ends(d, f)
      PROVE  d[k].name = all[k] /\ d[k].off = f[k]
  <2>1. Ends(c, [j \in 0 .. n |-> f[j]])
    <3>1. f \in [0 .. n + 1 -> Nat] /\ f[0] = 0 /\ \A j \in 1 .. n + 1 : f[j] = f[j - 1] + DirentSize(d[j].name)
      BY <1>6, <1>8 DEF Ends
    <3>2. [j \in 0 .. n |-> f[j]] \in [0 .. n -> Nat]
      BY <1>1, <3>1
    <3> QED
      BY <1>1, <1>6, <3>1, <3>2 DEF Ends
  <2>2. CASE k \in 1 .. n
    <3>1. c[k].name = names[k] /\ c[k].off = [j \in 0 .. n |-> f[j]][k]
      BY <2>1, <2>2 DEF Listed
    <3> QED
      BY <1>1, <1>6, <1>7, <2>2, <3>1 DEF all
  <2>3. CASE k = n + 1
    <3>1. Size(c) = [j \in 0 .. n |-> f[j]][n]
      BY <1>1, <2>1, EndsAre
    <3>2. f[n + 1] = f[n] + DirentSize(name)
      <4>1. d[n + 1].name = name
        BY <1>6 DEF e
      <4>2. f[n + 1] = f[n + 1 - 1] + DirentSize(d[n + 1].name) /\ n + 1 - 1 = n
        BY <1>1, <1>6, <1>8 DEF Ends
      <4> QED
        BY <4>1, <4>2
    <3>3. d[k].name = name /\ d[k].off = Size(c) + DirentSize(name)
      BY <1>6, <2>3 DEF e
    <3>4. n \in 0 .. n
      BY <1>1
    <3> QED
      BY <1>7, <2>3, <3>1, <3>2, <3>3, <3>4 DEF all
  <2> QED
    BY <1>1, <2>2, <2>3
<1>9. Listed(all, d)
  <2>1. \E f : Ends(d, f)
    BY <1>6, EndsExist
  <2>2. \A k \in 1 .. n + 1 : d[k].name = all[k] /\ \A f : Ends(d, f) => d[k].off = f[k]
    BY <1>8, <2>1, Zenon
  <2> QED
    BY <1>6, <1>7, <2>2 DEF Listed, all
<1> QED
  BY <1>9 DEF all, d

\* The whole listing.
LEMMA WholeLists ==
  ASSUME NEW names \in Seq(Names)
  PROVE  Listed(names, Whole(names))
<1> DEFINE n == Len(names)
           it == CHOOSE i : Fills(names, n, i)
<1>1. n \in Nat /\ DOMAIN names = 1 .. n
  OBVIOUS
<1>2. Fills(names, n, it)
  BY <1>1, FillsExist
<1>3. Whole(names) = it[1 .. n]
  <2>1. Whole(names) = (CHOOSE i : i = [s \in SUBSET DOMAIN names |->
                          IF s = {} THEN << >> ELSE FillWhole(i[s \ {Max(s)}], names[Max(s)])])[DOMAIN names]
    BY Zenon DEF Whole, FoldLeft, MapThenFoldSet
  <2>2. it = CHOOSE i : i = [s \in SUBSET (1 .. n) |->
                          IF s = {} THEN << >> ELSE FillWhole(i[s \ {Max(s)}], names[Max(s)])]
    BY Zenon DEF Fills
  <2> QED
    BY <1>1, <2>1, <2>2, Zenon
<1> HIDE DEF it, n
<1>4. \A s \in SUBSET (1 .. n) :
        it[s] = IF s = {} THEN << >> ELSE FillWhole(it[s \ {Max(s)}], names[Max(s)])
  BY <1>2 DEF Fills
<1> DEFINE S == {k \in 0 .. n : ~Listed(SubSeq(names, 1, k), it[1 .. k])}
<1>5. S = {}
  <2>1. SUFFICES ASSUME S # {} PROVE FALSE
    OBVIOUS
  <2>2. S \in SUBSET Nat
    OBVIOUS
  <2>3. PICK k \in S : \A j \in S : k <= j
    BY <2>1, <2>2, LeastSuch
  <2>4. k # 0
    <3>1. 1 .. 0 = {} /\ {} \in SUBSET (1 .. n)
      OBVIOUS
    <3>2. it[1 .. 0] = << >>
      BY <1>4, <3>1, Zenon
    <3>3. << >> \in Seq(Entries) /\ Len(<< >>) = 0 /\ SubSeq(names, 1, 0) = << >>
      OBVIOUS
    <3>4. Listed(<< >>, << >>)
      BY <3>3 DEF Listed
    <3> QED
      BY <2>3, <3>2, <3>3, <3>4
  <2>5. k \in 1 .. n /\ k - 1 \in 0 .. n /\ k - 1 \notin S /\ k \in Nat
    BY <1>1, <2>3, <2>4
  <2>6. Listed(SubSeq(names, 1, k - 1), it[1 .. k - 1])
    BY <2>5
  <2>7. /\ 1 .. k \in SUBSET (1 .. n) /\ 1 .. k # {} /\ Max(1 .. k) = k /\ (1 .. k) \ {k} = 1 .. k - 1
    BY <1>1, <2>5, Prefix
  <2>8. it[1 .. k] = FillWhole(it[(1 .. k) \ {Max(1 .. k)}], names[Max(1 .. k)])
    BY ONLY <1>4, <2>7, Zenon
  <2>9. it[1 .. k] = FillWhole(it[1 .. k - 1], names[k])
    BY ONLY <2>7, <2>8, Zenon
  <2>10. SubSeq(names, 1, k) = Append(SubSeq(names, 1, k - 1), names[k]) /\ SubSeq(names, 1, k - 1) \in Seq(Names)
         /\ names[k] \in Names
    BY <2>5 DEF n
  <2>11. Listed(SubSeq(names, 1, k), it[1 .. k])
    BY <2>6, <2>9, <2>10, FillWholeLists
  <2> QED
    BY <2>3, <2>11
<1>6. SubSeq(names, 1, n) = names
  BY DEF n
<1>7. n \in 0 .. n /\ n \notin S
  BY <1>1, <1>5
<1> QED
  BY <1>3, <1>6, <1>7

\* The names from one place to another, with their places.
Stretch(names, from, to) == [i \in 1 .. to - from |-> FillPage(names[from + i], from + i)]

\* Such a stretch is a list of entries.
LEMMA StretchIs ==
  ASSUME NEW names \in Seq(Names), NEW from \in 0 .. Len(names), NEW to \in from .. Len(names)
  PROVE  /\ Stretch(names, from, to) \in Seq(Entries) /\ Len(Stretch(names, from, to)) = to - from
         /\ \A i \in 1 .. to - from : /\ Stretch(names, from, to)[i].name = names[from + i]
                                      /\ Stretch(names, from, to)[i].off = from + i
<1>1. to - from \in Nat /\ from \in Nat
  OBVIOUS
<1>2. ASSUME NEW i \in 1 .. to - from PROVE FillPage(names[from + i], from + i) \in Entries
  <2>1. from + i \in 1 .. Len(names) /\ from + i \in Nat
    OBVIOUS
  <2>2. names[from + i] \in Names
    BY <2>1
  <2> QED
    BY <2>1, <2>2 DEF FillPage, Entries
<1>3. Stretch(names, from, to) \in Seq(Entries)
  BY <1>1, <1>2 DEF Stretch
<1> QED
  BY <1>1, <1>3 DEF Stretch, FillPage

\* A page of a listing with offsets is a stretch that fits; it is not empty before the end.
LEMMA PageIs ==
  ASSUME NEW names \in Seq(Names), NEW off \in 0 .. Len(names)
  PROVE  \E k \in off .. Len(names) :
           PageOf(names, off) = Stretch(names, off, k) /\ (off < Len(names) => off < k)
<1> DEFINE n == Len(names)
           Ok(k) == Fits(Stretch(names, off, k), DirPage)
           Last1(k) == Ok(k) /\ (k < n => ~Ok(k + 1))
<1>1. n \in Nat /\ off \in Nat /\ off <= n
  OBVIOUS
<1>2. Ok(off)
  <2>0. names \in Seq(Names) /\ off \in 0 .. Len(names) /\ off \in off .. Len(names) /\ off - off = 0
    BY <1>1
  <2>1. Stretch(names, off, off) \in Seq(Entries) /\ Len(Stretch(names, off, off)) = 0
    BY ONLY <2>0, StretchIs
  <2>2. PICK f : Ends(Stretch(names, off, off), f) /\ Size(Stretch(names, off, off)) = f[0]
    BY <2>1, EndsExist
  <2>3. Size(Stretch(names, off, off)) = 0
    BY <2>2 DEF Ends
  <2> QED
    BY <2>3, ListingAssumption DEF Fits
<1>3. ASSUME off < n PROVE Ok(off + 1)
  <2> DEFINE one == Stretch(names, off, off + 1)
  <2>0. /\ names \in Seq(Names) /\ off \in 0 .. Len(names)
        /\ off + 1 \in off .. Len(names) /\ off + 1 - off = 1
    BY <1>1, <1>3
  <2>1. one \in Seq(Entries) /\ Len(one) = 1
    <3>1. PICK to \in off .. Len(names) : to = off + 1
      BY <2>0
    <3>2. Stretch(names, off, to) \in Seq(Entries) /\ Len(Stretch(names, off, to)) = to - off
      BY StretchIs
    <3>3. one = Stretch(names, off, to) /\ to - off = 1
      BY <2>0, <3>1
    <3> QED
      BY ONLY <3>2, <3>3
  <2> HIDE DEF one
  <2>2. PICK f : Ends(one, f) /\ Size(one) = f[1]
    BY <2>1, EndsExist
  <2>3. f[1] = 0 + DirentSize(one[1].name) /\ one[1].name \in Names
    <3>1. f[1] = f[0] + DirentSize(one[1].name) /\ f[0] = 0
      <4>1. 1 \in 1 .. Len(one) /\ 1 - 1 = 0
        BY <2>1
      <4>2. f[0] = 0 /\ \A k \in 1 .. Len(one) : f[k] = f[k - 1] + DirentSize(one[k].name)
        BY <2>2 DEF Ends
      <4> QED
        BY ONLY <4>1, <4>2
    <3> QED
      BY <2>1, <3>1, EntryIs
  <2>4. f[1] <= DirPage
    BY <2>3, DirentSizeIs
  <2> QED
    BY <2>2, <2>4 DEF Fits, one
<1>4. \E k \in off .. n : Last1(k)
  <2>1. CASE \A k \in off .. n : Ok(k)
    <3>1. Last1(n) /\ n \in off .. n
      BY <1>1, <2>1
    <3> QED
      BY <3>1
  <2>2. CASE {k \in off .. n : ~Ok(k)} # {}
    <3> DEFINE S == {k \in off .. n : ~Ok(k)}
    <3> HIDE DEF Ok
    <3>1. S \in SUBSET Nat
      BY <1>1
    <3>2. PICK k \in S : \A j \in S : k <= j
      BY <2>2, <3>1, LeastSuch
    <3>3. k # off
      BY <1>2, <3>2
    <3>4. k - 1 \in off .. n /\ k - 1 \notin S /\ k - 1 + 1 = k
      BY <1>1, <3>2, <3>3
    <3>5. Last1(k - 1)
      BY <3>2, <3>4
    <3> QED
      BY <3>4, <3>5
  <2> QED
    BY <2>1, <2>2
<1> DEFINE k == CHOOSE j \in off .. n : Last1(j)
<1>5. k \in off .. n /\ Last1(k)
  <2> HIDE DEF Last1
  <2> QED
    BY <1>4
<1>6. PageOf(names, off) = Stretch(names, off, k)
  BY DEF PageOf, Stretch
<1>7. ASSUME off < n PROVE off < k
  <2> HIDE DEF k, Ok
  <2>1. k # off
    BY <1>3, <1>5, <1>7
  <2> QED
    BY <1>1, <1>5, <2>1
<1> HIDE DEF k
<1> QED
  BY <1>5, <1>6, <1>7

\* A reply from the end of the i-th entry on goes to the end of the listing or fills a page.
ReachesAnEntry(c, f, i, size) ==
  size = f[Len(c)] - f[i] \/ (size = DirPage /\ f[i] + DirPage <= f[Len(c)])

\* The reply r is from d, with the entries c, and begins behind the i-th.
BeginsAt(d, r, c, f, i) ==
  /\ c \in Seq(Entries) /\ d.contents = c /\ Ends(c, f) /\ i \in 0 .. Len(c)
  /\ r.size \in Nat /\ r.from = f[i] /\ ReachesAnEntry(c, f, i, r.size)

\* What the kernel takes of a reply: from the entry at its first byte to the last one that ends in it.
LEMMA ParsedIs ==
  ASSUME NEW d, NEW r, NEW c, NEW f, NEW i, BeginsAt(d, r, c, f, i)
  PROVE  \E j \in i .. Len(c) : /\ Parsed(d, r) = SubSeq(c, i + 1, j)
                                /\ i < Len(c) => i < j
                                /\ r.size = f[Len(c)] - f[i] => j = Len(c)
<1> USE DEF BeginsAt
<1> DEFINE n == Len(c)
           size == r.size
           C == Complete(d, r)
<1>1. /\ n \in Nat /\ f \in [0 .. n -> Nat] /\ i \in 0 .. n /\ DirPage \in Nat
      /\ \A k \in 1 .. n : k \in 0 .. n /\ k - 1 \in 0 .. n /\ f[k] \in Nat /\ f[k - 1] \in Nat
  <2>1. n \in Nat /\ f \in [0 .. n -> Nat] /\ i \in 0 .. n /\ DirPage \in Nat
    BY ListingAssumption DEF Ends
  <2>2. \A k \in 1 .. n : k \in 0 .. n /\ k - 1 \in 0 .. n
    BY <2>1
  <2> QED
    BY <2>1, <2>2
<1>2. \A j, k \in 0 .. n : j < k => f[j] < f[k]
  BY EndsGrow
<1>3. C = {k \in 1 .. n : k > i /\ f[k] <= f[i] + size}
  <2>1. \A k \in 1 .. n : Start(c, k) = f[k - 1] /\ Start(c, k) + DirentSize(c[k].name) = f[k]
    <3>1. \A k \in 1 .. n : Start(c, k) = f[k - 1]
      BY EndsAre
    <3>2. \A k \in 1 .. n : f[k] = f[k - 1] + DirentSize(c[k].name)
      BY DEF Ends
    <3> QED
      BY <3>1, <3>2
  <2>2. \A k \in 1 .. n : f[k - 1] >= f[i] <=> k > i
    <3>1. SUFFICES ASSUME NEW k \in 1 .. n PROVE f[k - 1] >= f[i] <=> k > i
      OBVIOUS
    <3>2. k - 1 = i \/ k - 1 < i \/ i < k - 1
      BY <1>1
    <3> HIDE DEF n
    <3>3. k - 1 \in 0 .. n /\ i \in 0 .. n /\ f[k - 1] \in Nat /\ f[i] \in Nat /\ k \in Nat /\ i \in Nat
      BY <1>1
    <3>4. (k - 1 < i => f[k - 1] < f[i]) /\ (i < k - 1 => f[i] < f[k - 1])
      BY ONLY <1>2, <3>3, Zenon DEF n
    <3> QED
      BY ONLY <3>2, <3>3, <3>4
  <2>3. C = {k \in 1 .. n : f[k - 1] >= f[i] /\ f[k] <= f[i] + size}
    BY <2>1 DEF Complete
  <2> HIDE DEF C, n
  <2> QED
    BY <2>2, <2>3
<1>4. f[i] \in Nat /\ f[n] \in Nat
  BY <1>1
<1>5. CASE i = n
  <2>1. C = {}
    BY <1>1, <1>3, <1>5
  <2>2. Parsed(d, r) = << >>
    BY <2>1 DEF Parsed
  <2>3. SubSeq(c, n + 1, n) = << >>
    BY <1>1
  <2> QED
    BY <1>1, <1>5, <2>2, <2>3
<1>6. CASE i < n
  <2>1. i + 1 \in C
    <3>1. i + 1 \in 1 .. n /\ i + 1 - 1 = i
      BY <1>1, <1>6
    <3>2. f[i + 1] = f[i] + DirentSize(c[i + 1].name)
      BY <3>1 DEF Ends
    <3>3. DirentSize(c[i + 1].name) \in Nat /\ DirentSize(c[i + 1].name) <= DirPage
      BY <3>1, EntryIs, DirentSizeIs
    <3>4. f[i + 1] <= f[n]
      <4>1. i + 1 = n \/ i + 1 < n
        BY <1>1, <3>1
      <4> HIDE DEF n
      <4> QED
        BY <1>1, <1>2, <3>1, <4>1
    <3>5. f[i + 1] <= f[i] + size
      BY <1>1, <1>4, <3>2, <3>3, <3>4 DEF ReachesAnEntry
    <3>6. i + 1 > i
      BY <1>1
    <3> HIDE DEF C
    <3> HIDE DEF n
    <3> QED
      BY ONLY <1>3, <3>1, <3>5, <3>6
  <2>2. PICK m \in C : \A k \in C : k <= m
    <3> HIDE DEF C
    <3> HIDE DEF n
    <3> DEFINE T == {n - k : k \in C}
    <3>1. \A k \in C : k \in 1 .. n /\ n - k \in Nat
      BY <1>1, <1>3
    <3>2. T \in SUBSET Nat /\ T # {}
      BY <1>1, <2>1, <3>1
    <3>3. PICK x \in T : \A y \in T : x <= y
      <4> HIDE DEF T
      <4> QED
        BY ONLY <3>2, LeastSuch, Zenon
    <3>4. PICK m \in C : x = n - m
      BY <3>3
    <3>5. SUFFICES ASSUME NEW k \in C PROVE k <= m
      BY <3>4
    <3>6. n - k \in T
      OBVIOUS
    <3>7. n - m <= n - k
      BY <3>3, <3>4, <3>6
    <3> QED
      BY ONLY <1>1, <3>1, <3>4, <3>7
  <2> HIDE DEF C, n
  <2>3. m \in 1 .. n /\ m > i
    BY <1>3
  <2>4. Max(C) = m
    <3>1. \A k \in C : m >= k
      BY <1>1, <1>3, <2>2
    <3>2. \A x \in C : (\A y \in C : x >= y) => x = m
      BY <1>1, <1>3, <2>2, <3>1
    <3> QED
      BY <3>1, <3>2 DEF Max
  <2>5. Min(C) = i + 1
    <3>1. \A k \in C : i + 1 <= k
      BY <1>1, <1>3
    <3>2. \A x \in C : (\A y \in C : x <= y) => x = i + 1
      BY <1>1, <1>3, <2>1, <3>1
    <3> QED
      BY <2>1, <3>1, <3>2 DEF Min
  <2>6. Parsed(d, r) = SubSeq(c, i + 1, m)
    <3>1. C # {} /\ C = Complete(d, r) /\ d.contents = c
      BY <2>1 DEF C
    <3> QED
      BY <2>4, <2>5, <3>1, Zenon DEF Parsed
  <2>7. ASSUME size = f[n] - f[i] PROVE m = n
    <3>1. n \in C
      BY <1>1, <1>3, <1>4, <1>6, <2>7
    <3> QED
      BY <1>1, <2>2, <2>3, <3>1
  <2>8. m \in i .. n /\ i < m
    BY <1>1, <2>3
  <2> QED
    BY <2>6, <2>7, <2>8 DEF n
<1>7. i = n \/ i < n
  BY <1>1
<1> QED
  BY <1>5, <1>6, <1>7, Zenon

\* The reader between two calls.
Readers == [pos : Nat, got : Seq(Names), since : Seq(Names), cookies : SUBSET [pos : Nat, got : Seq(Names)],
            state : {"reads", "end"}, again : BOOLEAN]

\* The reply of a whole listing, asked for at the end of one of its entries.
LEMMA WholeReply ==
  ASSUME NEW c \in Seq(Entries), NEW f, Ends(c, f), NEW i \in 0 .. Len(c)
  PROVE  \E size \in Nat :
           /\ DirReply([contents |-> c, filled |-> TRUE], f[i]) = [from |-> f[i], size |-> size]
           /\ ReachesAnEntry(c, f, i, size)
           /\ size = 0 <=> i = Len(c)
<1> DEFINE n == Len(c)
           d == [contents |-> c, filled |-> TRUE]
           sz == IF f[i] < f[n] THEN IF f[i] + DirPage > f[n] THEN f[n] - f[i] ELSE DirPage ELSE 0
<1>1. n \in Nat /\ i \in 0 .. n /\ n \in 0 .. n /\ f \in [0 .. n -> Nat] /\ DirPage \in Nat
  BY ListingAssumption DEF Ends
<1>2. f[i] \in Nat /\ f[n] \in Nat
  BY <1>1
<1>3. i = n \/ (i < n /\ f[i] < f[n])
  <2>1. \A j, k \in 0 .. n : j < k => f[j] < f[k]
    BY EndsGrow
  <2>2. i = n \/ i < n
    BY <1>1
  <2> HIDE DEF n
  <2> QED
    BY <1>1, <2>1, <2>2
<1>4. ASSUME i < n PROVE DirPage > 0
  <2>1. i + 1 \in 1 .. n
    BY <1>1, <1>4
  <2>2. c[i + 1].name \in Names
    BY <2>1, EntryIs
  <2>3. DirentSize(c[i + 1].name) \in Nat /\ DirentSize(c[i + 1].name) > 0 /\ DirentSize(c[i + 1].name) <= DirPage
    BY <2>2, DirentSizeIs
  <2> QED
    BY <1>1, <2>3
<1>5. DirReply(d, f[i]) = [from |-> f[i], size |-> sz]
  <2>1. Size(c) = f[n] /\ d.filled /\ d.contents = c
    BY EndsAre
  <2> QED
    BY <2>1 DEF DirReply
<1> HIDE DEF n
<1>6. /\ sz \in Nat /\ (sz = f[n] - f[i] \/ (sz = DirPage /\ f[i] + DirPage <= f[n]))
      /\ sz = 0 <=> i = n
  BY <1>1, <1>2, <1>3, <1>4
<1>7. /\ sz \in Nat /\ DirReply([contents |-> c, filled |-> TRUE], f[i]) = [from |-> f[i], size |-> sz]
      /\ ReachesAnEntry(c, f, i, sz)
      /\ sz = 0 <=> i = Len(c)
  BY <1>5, <1>6, Zenon DEF n, ReachesAnEntry
<1> HIDE DEF sz
<1> QED
  BY <1>7, Zenon

\* An empty reply is the end.
LEMMA TookEnds ==
  ASSUME NEW d, NEW r, r.size = 0
  PROVE  Took(d, r) = [reader EXCEPT !.state = "end"]
BY DEF Took

NamesOf(got) == [k \in DOMAIN got |-> got[k].name]

\* The names of a part of the entries.
LEMMA NamesOfPart ==
  ASSUME NEW c \in Seq(Entries), NEW i \in 0 .. Len(c), NEW j \in i .. Len(c), NEW got, got = SubSeq(c, i + 1, j)
  PROVE  /\ NamesOf(got) \in Seq(Names)
         /\ Len(NamesOf(got)) = j - i
         /\ \A m \in 1 .. j - i : NamesOf(got)[m] = c[i + m].name
<1>1. i \in Nat /\ j \in Nat /\ j - i \in Nat /\ j <= Len(c) /\ Len(c) \in Nat
  OBVIOUS
<1>2. got \in Seq(Entries) /\ Len(got) = j - i /\ DOMAIN got = 1 .. j - i
  BY <1>1
<1>3. ASSUME NEW m \in 1 .. j - i PROVE got[m] = c[i + m] /\ got[m].name \in Names
  <2>1. m \in Nat /\ m \in 1 .. j - i /\ i + 1 \in Nat /\ i + m = i + 1 + m - 1 /\ i + m \in 1 .. Len(c)
        /\ j - (i + 1) + 1 = j - i
    BY <1>1, <1>3
  <2>2. SubSeq(c, i + 1, j)[m] = c[i + 1 + m - 1]
    BY <1>1, <2>1
  <2>3. got[m] = c[i + m]
    BY <2>1, <2>2, Zenon
  <2> QED
    BY <2>1, <2>3, EntryIs
<1> DEFINE q == [k \in DOMAIN got |-> got[k].name]
<1>4. q \in Seq(Names) /\ Len(q) = j - i
  <2>1. \A m \in 1 .. j - i : got[m].name \in Names
    BY <1>3
  <2>2. q = [m \in 1 .. j - i |-> got[m].name]
    BY <1>2, Zenon
  <2> HIDE DEF q
  <2> QED
    BY ONLY <1>1, <2>1, <2>2
<1>5. \A m \in 1 .. j - i : q[m] = c[i + m].name
  BY <1>2, <1>3
<1> QED
  BY <1>4, <1>5 DEF NamesOf

\* q has the names behind the i-th entry, up to the j-th.
NextNames(c, i, j, q) == Len(q) = j - i /\ \A m \in 1 .. j - i : q[m] = c[i + m].name

\* The reader, moved on.
MovedTo(pos, got) ==
  [reader EXCEPT !.pos = pos, !.got = got, !.cookies = reader.cookies \cup {[pos |-> pos, got |-> got]}]

\* And has some of the rest.
BeginsBehind(d, r, c, f, i) == BeginsAt(d, r, c, f, i) /\ i < Len(c) /\ r.size # 0

\* A reply that is not empty moves the reader on, to the last entry that is whole in it.
LEMMA TookMoves ==
  ASSUME NEW d, NEW r, NEW c, NEW f, NEW i, BeginsBehind(d, r, c, f, i)
  PROVE  \E j \in i + 1 .. Len(c), q \in Seq(Names) :
           /\ NextNames(c, i, j, q)
           /\ Took(d, r) = MovedTo(c[j].off, reader.got \o q)
           /\ r.size = f[Len(c)] - f[i] => j = Len(c)
<1>0. PICK j \in i .. Len(c) :
        /\ Parsed(d, r) = SubSeq(c, i + 1, j)
        /\ i < Len(c) => i < j
        /\ r.size = f[Len(c)] - f[i] => j = Len(c)
  <2>1. BeginsAt(d, r, c, f, i)
    BY DEF BeginsBehind
  <2> QED
    BY ONLY <2>1, ParsedIs
<1>r. /\ c \in Seq(Entries) /\ d.contents = c /\ Ends(c, f) /\ r.size \in Nat \ {0}
      /\ i \in 0 .. Len(c) /\ i < Len(c) /\ r.from = f[i]
  BY DEF BeginsBehind, BeginsAt
<1> DEFINE n == Len(c)
           got == Parsed(d, r)
           q == NamesOf(got)
<1>1. j \in i .. n /\ got = SubSeq(c, i + 1, j) /\ i < j /\ (r.size = f[n] - f[i] => j = n)
  BY <1>0, <1>r, Zenon
<1> HIDE DEF got
<1>2. j \in i + 1 .. n /\ i \in Nat /\ n \in Nat /\ j \in Nat
  BY <1>1, <1>r
<1>3. q \in Seq(Names) /\ NextNames(c, i, j, q)
  <2>1. i \in 0 .. Len(c) /\ j \in i .. Len(c) /\ got = SubSeq(c, i + 1, j)
    BY <1>1, <1>r
  <2> HIDE DEF n
  <2>2. c \in Seq(Entries)
    BY <1>r
  <2> QED
    BY ONLY <2>1, <2>2, NamesOfPart DEF NextNames
<1>4. got # << >> /\ Last(got) = c[j]
  <2>1. Len(got) = j - i /\ j - i > 0 /\ got[j - i] = c[i + 1 + (j - i) - 1]
    BY <1>1, <1>2, <1>r
  <2>2. i + 1 + (j - i) - 1 = j
    BY <1>2
  <2> QED
    BY <2>1, <2>2 DEF Last
<1>5. r.size # 0 /\ Aligned(d, r)
  <2>1. i + 1 \in 1 .. n /\ i + 1 - 1 = i
    BY <1>2, <1>r
  <2>2. Start(c, i + 1) = f[i]
    <3>1. Start(c, i + 1) = f[i + 1 - 1]
      BY <1>r, <2>1, EndsAre
    <3> QED
      BY <2>1, <3>1, <1>r
  <2> QED
    BY <1>r, <2>1, <2>2 DEF Aligned
<1>6. Took(d, r) = MovedTo(c[j].off, reader.got \o q)
  <2>1. Parsed(d, r) = got
    BY DEF got
  <2> QED
    BY <1>4, <1>5, <2>1, Zenon DEF Took, NamesOf, MovedTo
<1> QED
  BY <1>1, <1>2, <1>3, <1>6

\* q goes on with the names from i to j.
Continues(names, i, j, q) == Len(q) = j - i /\ \A m \in 1 .. j - i : q[m] = names[i + m]

\* The names so far and the next ones.
LEMMA Joins ==
  ASSUME NEW names \in Seq(Names), NEW i \in 0 .. Len(names), NEW j \in i .. Len(names),
         NEW q \in Seq(Names), Continues(names, i, j, q)
  PROVE  SubSeq(names, 1, i) \o q = SubSeq(names, 1, j)
<1> DEFINE a == SubSeq(names, 1, i)
           b == SubSeq(names, 1, j)
<1>1. i \in Nat /\ j \in Nat /\ i <= j /\ j <= Len(names) /\ Len(names) \in Nat /\ j - i \in Nat
  OBVIOUS
<1>q. Len(q) = j - i /\ \A m \in 1 .. j - i : q[m] = names[i + m]
  BY DEF Continues
<1>2. /\ a \in Seq(Names) /\ Len(a) = i /\ b \in Seq(Names) /\ Len(b) = j
      /\ \A k \in 1 .. i : a[k] = names[k]
      /\ \A k \in 1 .. j : b[k] = names[k]
  BY <1>1
<1> HIDE DEF a, b
<1>3. a \o q \in Seq(Names) /\ Len(a \o q) = j
  <2>0. a \in Seq(Names) /\ q \in Seq(Names)
    BY <1>2
  <2>1. a \o q \in Seq(Names) /\ Len(a \o q) = Len(a) + Len(q)
    BY ONLY <2>0
  <2> QED
    BY <1>1, <1>2, <1>q, <2>1
<1>4. ASSUME NEW k \in 1 .. j PROVE (a \o q)[k] = b[k]
  <2>1. CASE k <= i
    <3>1. k \in 1 .. i /\ (a \o q)[k] = a[k]
      BY <1>1, <1>2, <1>q, <2>1
    <3> QED
      BY <1>2, <3>1
  <2>2. CASE k > i
    <3>1. (a \o q)[k] = q[k - i] /\ k - i \in 1 .. j - i /\ i + (k - i) = k
      BY <1>1, <1>2, <1>q, <2>2
    <3>2. q[k - i] = names[i + (k - i)]
      BY <1>q, <3>1
    <3> QED
      BY <1>2, <3>1, <3>2
  <2>3. k <= i \/ k > i
    BY <1>1
  <2> QED
    BY <2>1, <2>2, <2>3, Zenon
<1> QED
  BY <1>2, <1>3, <1>4 DEF a, b

\* The reader has the names before its place: places are positions in a paged
\* listing, and in a whole one the bytes where entries end.
Place(paged, names, pos, got) ==
  \E i \in 0 .. Len(names) :
    /\ got = SubSeq(names, 1, i)
    /\ IF paged THEN pos = i ELSE \E f : Ends(Whole(names), f) /\ pos = f[i]

ListType ==
  /\ paging \in BOOLEAN /\ dir \in Seq(Names) /\ reader \in Readers
  /\ dh \in [contents : Seq(Entries), filled : BOOLEAN]

ReaderAt ==
  /\ reader.pos = 0 => reader.got = << >> /\ reader.cookies = {}
  /\ reader.pos # 0 => Place(paging, reader.since, reader.pos, reader.got)
  /\ \A c \in reader.cookies : c.pos # 0 /\ Place(paging, reader.since, c.pos, c.got)

\* What the reader's place is measured in is still what is read.
ListingKept ==
  reader.pos # 0 => IF paging THEN reader.since = dir
                    ELSE dh = [contents |-> Whole(reader.since), filled |-> TRUE]

\* A page that says the listing is filled is the empty one behind the end.
PageAtEnd ==
  paging /\ dh.filled => /\ dh.contents = << >>
                         /\ reader.pos # 0 /\ reader.state = "reads" => reader.again

EndIsEnd == reader.state = "end" /\ ~reader.again => reader.got = reader.since

ListInv == ListType /\ ReaderAt /\ ListingKept /\ PageAtEnd /\ EndIsEnd

\* A directory's names in the order the file system gives them.
LEMMA DirIsSeq ==
  ASSUME NEW S \in SUBSET Names
  PROVE  SetToSeq(S) \in Seq(Names)
<1>1. IsFiniteSet(S)
  BY ListingAssumption, FS_Subset
<1>2. Cardinality(S) \in Nat /\ ExistsBijection(1 .. Cardinality(S), S)
  BY <1>1, FS_CardinalityType
<1>3. PICK g \in [1 .. Cardinality(S) -> S] : IsInjective(g)
  <2>1. PICK g : g \in Bijection(1 .. Cardinality(S), S)
    BY <1>2 DEF ExistsBijection
  <2>2. g \in [1 .. Cardinality(S) -> S] /\ \A a, b \in 1 .. Cardinality(S) : g[a] = g[b] => a = b
    BY <2>1 DEF Bijection, Injection, IsInjective
  <2> QED
    BY <2>2 DEF IsInjective
<1>4. SetToSeq(S) \in [1 .. Cardinality(S) -> S]
  BY <1>3 DEF SetToSeq
<1> QED
  BY <1>2, <1>4

\* Where the next read begins, in a whole listing and in a paged one.
LEMMA PlaceIs ==
  ASSUME NEW names \in Seq(Names), NEW pos, NEW got, Place(paging, names, pos, got), ~paging,
         NEW f, Ends(Whole(names), f)
  PROVE  \E i \in 0 .. Len(names) : got = SubSeq(names, 1, i) /\ pos = f[i]
<1>1. PICK i \in 0 .. Len(names) : got = SubSeq(names, 1, i) /\ \E g : Ends(Whole(names), g) /\ pos = g[i]
  BY DEF Place
<1>2. PICK g : Ends(Whole(names), g) /\ pos = g[i]
  BY <1>1
<1>3. Whole(names) \in Seq(Entries) /\ Len(Whole(names)) = Len(names)
  BY WholeLists DEF Listed
<1> DEFINE c == Whole(names)
           n == Len(c)
           d == [k \in 1 .. n |-> DirentSize(c[k].name)]
<1>4. RunningSum(n, d, f) /\ RunningSum(n, d, g)
  BY <1>2 DEF Ends, RunningSum
<1>5. n \in Nat /\ i \in 0 .. n
  BY <1>3
<1> HIDE DEF d, n
<1>6. f[i] = g[i]
  BY <1>4, <1>5, SumsAgree
<1> QED
  BY <1>1, <1>2, <1>6

\* A read of a whole listing.
LEMMA ReadsWhole ==
  ASSUME NEW names \in Seq(Names), ~paging, reader \in Readers,
         Place(paging, names, reader.pos, reader.got)
  PROVE  LET d == [contents |-> Whole(names), filled |-> TRUE]
             t == Took(d, DirReply(d, reader.pos))
         IN \/ t = [reader EXCEPT !.state = "end"] /\ reader.got = names
            \/ \E pos \in Nat \ {0}, got \in Seq(Names) :
                 /\ Place(paging, names, pos, got)
                 /\ t = MovedTo(pos, got)
<1> DEFINE c == Whole(names)
           n == Len(names)
           d == [contents |-> c, filled |-> TRUE]
           t == Took(d, DirReply(d, reader.pos))
<1>1. c \in Seq(Entries) /\ Len(c) = n /\ n \in Nat /\ \A k \in 1 .. n : c[k].name = names[k]
  BY WholeLists DEF Listed
<1>2. PICK f : Ends(c, f)
  BY <1>1, EndsExist
<1>3. PICK i \in 0 .. n : reader.got = SubSeq(names, 1, i) /\ reader.pos = f[i]
  BY <1>2, PlaceIs
<1>4. i \in 0 .. Len(c)
  BY <1>1
<1>5. PICK size \in Nat : /\ DirReply(d, f[i]) = [from |-> f[i], size |-> size]
                          /\ ReachesAnEntry(c, f, i, size)
                          /\ size = 0 <=> i = Len(c)
  BY <1>1, <1>2, <1>4, WholeReply
<1> HIDE DEF c
<1>6. CASE size = 0
  <2>1. t = [reader EXCEPT !.state = "end"]
    <3> DEFINE r == DirReply(d, reader.pos)
    <3>1. r.size = 0
      BY <1>3, <1>5, <1>6
    <3> HIDE DEF r, d
    <3>2. Took(d, r) = [reader EXCEPT !.state = "end"]
      BY ONLY <3>1, TookEnds
    <3> QED
      BY <3>2 DEF r
  <2>2. SubSeq(names, 1, n) = names
    OBVIOUS
  <2>3. i = n
    BY <1>1, <1>5, <1>6
  <2>4. reader.got = names
    BY ONLY <1>3, <2>2, <2>3
  <2> HIDE DEF t
  <2> QED
    BY <2>1, <2>4 DEF t, c, d
<1>7. CASE size # 0
  <2>1. i < Len(c) /\ size \in Nat \ {0}
    BY <1>4, <1>1, <1>5, <1>7
  <2> DEFINE r == [from |-> f[i], size |-> size]
  <2>0. BeginsBehind(d, r, c, f, i)
    BY <1>1, <1>2, <1>4, <1>5, <2>1 DEF BeginsBehind, BeginsAt
  <2> HIDE DEF r, d
  <2>2. PICK j \in i + 1 .. Len(c), q \in Seq(Names) :
          NextNames(c, i, j, q) /\ Took(d, r) = MovedTo(c[j].off, reader.got \o q)
    BY ONLY <2>0, TookMoves
  <2>3. j \in i .. n /\ i \in Nat /\ j \in 1 .. n /\ j \in 0 .. n
    BY <1>1, <1>4
  <2>4. \A m \in 1 .. j - i : i + m \in 1 .. n
    BY <2>3, <1>1
  <2>5. Continues(names, i, j, q)
    BY <1>1, <2>2, <2>4 DEF NextNames, Continues
  <2>6. reader.got \o q = SubSeq(names, 1, j)
    BY <1>3, <2>2, <2>3, <2>5, Joins
  <2>7. c[j].off = f[j] /\ f[j] \in Nat /\ f[j] # 0
    <3>1. c[j].off = f[j]
      BY <1>2, <2>3, WholeLists DEF Listed, c
    <3>2. f \in [0 .. n -> Nat] /\ f[0] = 0
      BY <1>1, <1>2 DEF Ends
    <3>3. f[0] < f[j]
      <4>1. 0 < j /\ 0 \in 0 .. Len(c) /\ j \in 0 .. Len(c)
        BY <1>1, <2>3
      <4>2. \A k, m \in 0 .. Len(c) : k < m => f[k] < f[m]
        BY <1>1, <1>2, EndsGrow
      <4> QED
        BY ONLY <4>1, <4>2
    <3> QED
      BY <2>3, <3>1, <3>2, <3>3
  <2>8. Place(paging, names, f[j], SubSeq(names, 1, j))
    BY <1>2, <2>3 DEF Place, c
  <2>9. SubSeq(names, 1, j) \in Seq(Names)
    BY <2>3
  <2>10. t = MovedTo(f[j], SubSeq(names, 1, j))
    BY <1>3, <1>5, <2>2, <2>6, <2>7, Zenon DEF r
  <2> HIDE DEF t, n
  <2>11. \E pos \in Nat \ {0}, got \in Seq(Names) :
                 /\ Place(paging, names, pos, got)
                 /\ t = MovedTo(pos, got)
    BY <2>7, <2>8, <2>9, <2>10
  <2> QED
    BY <2>11 DEF t, c, d
<1> QED
  BY <1>6, <1>7

\* A read of a page.
LEMMA ReadsPage ==
  ASSUME NEW names \in Seq(Names), paging, reader \in Readers,
         Place(paging, names, reader.pos, reader.got)
  PROVE  LET d == [contents |-> PageOf(names, reader.pos), filled |-> reader.pos >= Len(names)]
             t == Took(d, DirReply(d, reader.pos))
         IN /\ d \in [contents : Seq(Entries), filled : BOOLEAN]
            /\ d.filled => d.contents = << >>
            /\ \/ t = [reader EXCEPT !.state = "end"] /\ reader.got = names
               \/ /\ ~d.filled
                  /\ \E pos \in Nat \ {0}, got \in Seq(Names) : Place(paging, names, pos, got) /\ t = MovedTo(pos, got)
<1> DEFINE n == Len(names)
           c == PageOf(names, reader.pos)
           d == [contents |-> c, filled |-> reader.pos >= n]
           t == Took(d, DirReply(d, reader.pos))
<1>1. reader.pos \in 0 .. n /\ n \in Nat /\ reader.got = SubSeq(names, 1, reader.pos)
  BY DEF Place
<1>2. PICK k \in reader.pos .. n : c = Stretch(names, reader.pos, k) /\ (reader.pos < n => reader.pos < k)
  BY <1>1, PageIs
<1>3. k \in Nat /\ reader.pos \in Nat /\ k - reader.pos \in Nat /\ k <= n
  BY <1>1, <1>2
<1>4. /\ c \in Seq(Entries) /\ Len(c) = k - reader.pos
      /\ \A i \in 1 .. k - reader.pos : c[i].name = names[reader.pos + i] /\ c[i].off = reader.pos + i
  <2> DEFINE p == reader.pos
  <2>1. names \in Seq(Names) /\ p \in 0 .. Len(names) /\ k \in p .. Len(names)
    BY <1>1, <1>2
  <2> HIDE DEF p
  <2>2. /\ Stretch(names, p, k) \in Seq(Entries) /\ Len(Stretch(names, p, k)) = k - p
        /\ \A i \in 1 .. k - p : /\ Stretch(names, p, k)[i].name = names[p + i]
                                /\ Stretch(names, p, k)[i].off = p + i
    BY ONLY <2>1, StretchIs
  <2> QED
    BY <1>2, <2>2, Zenon DEF p
<1> HIDE DEF c
<1>5. d \in [contents : Seq(Entries), filled : BOOLEAN] /\ d.contents = c
  BY <1>4
<1>6. PICK f : Ends(c, f) /\ Size(c) = f[Len(c)]
  BY <1>4, EndsExist
<1>7. f[0] = 0 /\ f[Len(c)] \in Nat /\ Len(c) \in Nat
  BY <1>4, <1>6 DEF Ends
<1>8. CASE reader.pos = n
  <2>1. c = << >> /\ Len(c) = 0
    BY <1>1, <1>3, <1>4, <1>8
  <2>2. d.filled
    <3>1. reader.pos >= n
      BY <1>1, <1>8
    <3>2. d.filled = (reader.pos >= n)
      BY Zenon
    <3> QED
      BY <3>1, <3>2, Zenon
  <2>3. DirReply(d, reader.pos).size = 0
    <3>1. Size(c) = 0 /\ ~(reader.pos < 0)
      BY <1>3, <1>6, <1>7, <2>1
    <3> HIDE DEF d
    <3> QED
      BY <1>5, <2>2, <3>1 DEF DirReply
  <2>4. t = [reader EXCEPT !.state = "end"]
    <3> DEFINE r == DirReply(d, reader.pos)
    <3>1. r.size = 0
      BY <2>3
    <3> HIDE DEF r, d
    <3>2. Took(d, r) = [reader EXCEPT !.state = "end"]
      BY ONLY <3>1, TookEnds
    <3> QED
      BY <3>2 DEF r
  <2>5. reader.got = names
    <3>1. SubSeq(names, 1, n) = names
      OBVIOUS
    <3> QED
      BY <1>1, <1>8, <3>1
  <2>6. d.contents = << >>
    BY <1>5, <2>1
  <2> HIDE DEF d, t
  <2> QED
    BY <1>5, <2>4, <2>5, <2>6 DEF d, t, c
<1>9. CASE reader.pos < n
  <2>1. reader.pos < k /\ 0 < Len(c)
    BY <1>2, <1>3, <1>4, <1>9
  <2>2. ~d.filled /\ DirReply(d, reader.pos) = [from |-> 0, size |-> f[Len(c)]]
    <3>1. ~d.filled
      <4>1. ~(reader.pos >= n)
        BY <1>1, <1>9
      <4>2. d.filled = (reader.pos >= n)
        BY Zenon
      <4> QED
        BY <4>1, <4>2, Zenon
    <3> QED
      BY <1>5, <1>6, <3>1 DEF DirReply
  <2> DEFINE r == DirReply(d, reader.pos)
  <2>3. r.from = 0 /\ r.size = f[Len(c)]
    BY <2>2
  <2>4. f[0] < f[Len(c)]
    <3>1. \A j, m \in 0 .. Len(c) : j < m => f[j] < f[m]
      BY <1>4, <1>6, EndsGrow
    <3>2. 0 \in 0 .. Len(c) /\ Len(c) \in 0 .. Len(c)
      BY <1>7
    <3> QED
      BY ONLY <2>1, <3>1, <3>2
  <2>5. BeginsBehind(d, r, c, f, 0)
    <3>1. f[Len(c)] = f[Len(c)] - f[0]
      BY <1>7
    <3>2. r.size \in Nat \ {0} /\ r.from = f[0]
      BY <1>7, <2>3, <2>4
    <3>3. ReachesAnEntry(c, f, 0, r.size)
      BY <2>3, <3>1 DEF ReachesAnEntry
    <3>4. 0 \in 0 .. Len(c)
      BY <1>7
    <3> HIDE DEF r, d
    <3> QED
      BY <1>4, <1>5, <1>6, <2>1, <3>2, <3>3, <3>4 DEF BeginsBehind, BeginsAt
  <2> HIDE DEF r, d
  <2>6. PICK j \in 0 + 1 .. Len(c), q \in Seq(Names) :
          NextNames(c, 0, j, q) /\ Took(d, r) = MovedTo(c[j].off, reader.got \o q) /\ (r.size = f[Len(c)] - f[0] => j = Len(c))
    BY ONLY <2>5, TookMoves
  <2>7. j = k - reader.pos /\ j \in 1 .. k - reader.pos /\ reader.pos + j = k
    BY <1>3, <1>4, <1>7, <2>3, <2>6
  <2>8. Took(d, r) = MovedTo(k, reader.got \o q)
    BY <1>4, <2>6, <2>7
  <2>9. Continues(names, reader.pos, k, q)
    <3>1. Len(q) = k - reader.pos /\ \A m \in 1 .. k - reader.pos : q[m] = c[0 + m].name
      BY <1>3, <2>6, <2>7 DEF NextNames
    <3>2. \A m \in 1 .. k - reader.pos : 0 + m = m
      BY <1>3
    <3> QED
      BY <1>4, <3>1, <3>2 DEF Continues
  <2>10. SubSeq(names, 1, reader.pos) \o q = SubSeq(names, 1, k)
    BY <1>1, <1>2, <2>9, Joins
  <2>11. Place(paging, names, k, SubSeq(names, 1, k)) /\ SubSeq(names, 1, k) \in Seq(Names) /\ k \in Nat \ {0}
    BY <1>3, <2>1 DEF Place
  <2>12. t = MovedTo(k, SubSeq(names, 1, k))
    BY <1>1, <2>8, <2>10 DEF r
  <2> HIDE DEF t
  <2>13. \E pos \in Nat \ {0}, got \in Seq(Names) : Place(paging, names, pos, got) /\ t = MovedTo(pos, got)
    BY <2>11, <2>12
  <2> QED
    BY <1>5, <2>2, <2>13 DEF d, t, c
<1>10. reader.pos = n \/ reader.pos < n
  BY <1>1, <1>3
<1> QED
  BY <1>8, <1>9, <1>10, Zenon

\* A reader at the start has read nothing of what there is.
LEMMA PlaceOfNone ==
  ASSUME NEW names \in Seq(Names), NEW paged \in BOOLEAN
  PROVE  Place(paged, names, 0, << >>)
<1>1. 0 \in 0 .. Len(names) /\ << >> = SubSeq(names, 1, 0)
  OBVIOUS
<1>2. Whole(names) \in Seq(Entries)
  BY WholeLists DEF Listed
<1>3. PICK f : Ends(Whole(names), f)
  BY <1>2, EndsExist
<1>4. f[0] = 0
  BY <1>3 DEF Ends
<1> QED
  BY <1>1, <1>3, <1>4 DEF Place

\* The names of the pass the reader is in.
Since == IF reader.pos = 0 THEN dir ELSE reader.since

\* What a read does: it comes to the end with all of them, or moves on.
ReadDoes ==
  /\ paging' = paging /\ dir' = dir /\ dh' \in [contents : Seq(Entries), filled : BOOLEAN]
  /\ IF paging THEN Since = dir ELSE dh' = [contents |-> Whole(Since), filled |-> TRUE]
  /\ \/ /\ reader' = [reader EXCEPT !.state = "end", !.since = Since]
        /\ reader.again \/ reader.got = Since
        /\ paging /\ dh'.filled => dh'.contents = << >>
     \/ /\ \E pos \in Nat \ {0}, got \in Seq(Names) :
             Place(paging, Since, pos, got) /\ reader' = [MovedTo(pos, got) EXCEPT !.since = Since]
        /\ ~(paging /\ dh'.filled)

\* readdir_fill, fuse_lib_readdir and the kernel together do that.
LEMMA ReadIs ==
  ListInv /\ Read => ReadDoes
<1> SUFFICES ASSUME ListInv, Read PROVE ReadDoes
  OBVIOUS
<1>1. /\ paging \in BOOLEAN /\ dir \in Seq(Names) /\ reader \in Readers
      /\ dh \in [contents : Seq(Entries), filled : BOOLEAN]
  BY DEF ListInv, ListType
<1> DEFINE fresh == reader.pos = 0 \/ ~dh.filled
           d == IF fresh THEN Filled(reader.pos) ELSE dh
           t == Took(d, DirReply(d, reader.pos))
<1>2. /\ paging' = paging /\ dir' = dir /\ dh' = d /\ reader.state = "reads"
      /\ reader' = [t EXCEPT !.since = Since]
  BY Zenon DEF Read, Since
<1>3. Since \in Seq(Names)
  BY <1>1 DEF Since, Readers
<1>4. Place(paging, Since, reader.pos, reader.got)
  <2>1. CASE reader.pos = 0
    BY <1>1, <2>1, PlaceOfNone DEF ListInv, ReaderAt, Since
  <2>2. CASE reader.pos # 0
    BY <2>2 DEF ListInv, ReaderAt, Since
  <2> QED
    BY <2>1, <2>2
<1>5. CASE ~paging
  <2>1. d = [contents |-> Whole(Since), filled |-> TRUE]
    <3>1. CASE reader.pos = 0
      BY <1>5, <3>1 DEF Filled, Since
    <3>2. CASE reader.pos # 0
      <4>1. dh = [contents |-> Whole(reader.since), filled |-> TRUE]
        BY <1>5, <3>2 DEF ListInv, ListingKept
      <4>2. dh.filled
        BY <4>1
      <4> QED
        BY <3>2, <4>1, <4>2 DEF Since
    <3> QED
      BY <3>1, <3>2
  <2>2. Whole(Since) \in Seq(Entries)
    BY <1>3, WholeLists DEF Listed
  <2> DEFINE e == [contents |-> Whole(Since), filled |-> TRUE]
             u == Took(e, DirReply(e, reader.pos))
  <2>3. \/ u = [reader EXCEPT !.state = "end"] /\ reader.got = Since
        \/ \E pos \in Nat \ {0}, got \in Seq(Names) : Place(paging, Since, pos, got) /\ u = MovedTo(pos, got)
    BY <1>1, <1>3, <1>4, <1>5, ReadsWhole
  <2>4. t = u /\ dh' = e /\ e \in [contents : Seq(Entries), filled : BOOLEAN]
    BY <1>2, <2>1, <2>2
  <2> HIDE DEF t, u
  <2>5. \/ reader' = [reader EXCEPT !.state = "end", !.since = Since] /\ reader.got = Since
        \/ \E pos \in Nat \ {0}, got \in Seq(Names) :
             Place(paging, Since, pos, got) /\ reader' = [MovedTo(pos, got) EXCEPT !.since = Since]
    BY <1>2, <2>3, <2>4
  <2> QED
    BY <1>2, <1>5, <2>4, <2>5 DEF ReadDoes
<1>6. CASE paging
  <2>1. Since = dir
    BY <1>6 DEF ListInv, ListingKept, Since
  <2>2. CASE fresh
    <3> DEFINE e == [contents |-> PageOf(dir, reader.pos), filled |-> reader.pos >= Len(dir)]
               u == Took(e, DirReply(e, reader.pos))
    <3>1. d = e
      BY <1>6, <2>2 DEF Filled
    <3>2. Place(paging, dir, reader.pos, reader.got)
      BY <1>4, <2>1
    <3>3. /\ e \in [contents : Seq(Entries), filled : BOOLEAN]
          /\ e.filled => e.contents = << >>
          /\ \/ u = [reader EXCEPT !.state = "end"] /\ reader.got = dir
             \/ ~e.filled /\ \E pos \in Nat \ {0}, got \in Seq(Names) : Place(paging, dir, pos, got) /\ u = MovedTo(pos, got)
      BY <1>1, <1>6, <3>2, ReadsPage
    <3>4. t = u /\ dh' = e
      BY <1>2, <3>1
    <3> HIDE DEF t, u, e
    <3>5. \/ reader' = [reader EXCEPT !.state = "end", !.since = Since] /\ reader.got = Since
          \/ ~e.filled /\ \E pos \in Nat \ {0}, got \in Seq(Names) :
               Place(paging, Since, pos, got) /\ reader' = [MovedTo(pos, got) EXCEPT !.since = Since]
      BY <1>2, <2>1, <3>3, <3>4
    <3> QED
      BY <1>2, <1>6, <2>1, <3>3, <3>4, <3>5 DEF ReadDoes
  <2>3. CASE ~fresh
    <3>1. d = dh /\ dh.filled /\ reader.pos # 0
      BY <2>3
    <3>2. dh.contents = << >> /\ reader.again
      BY <1>2, <1>6, <3>1 DEF ListInv, PageAtEnd
    <3>3. DirReply(dh, reader.pos).size = 0
      <4>1. << >> \in Seq(Entries) /\ Len(<< >>) = 0
        OBVIOUS
      <4>2. PICK f : Ends(<< >>, f) /\ Size(<< >>) = f[0]
        BY <4>1, EndsExist
      <4>3. Size(dh.contents) = 0
        BY <3>2, <4>2 DEF Ends
      <4>4. ~(reader.pos < 0)
        BY <1>1 DEF Readers
      <4> QED
        BY <3>1, <4>3, <4>4 DEF DirReply
    <3>4. t = [reader EXCEPT !.state = "end"]
      <4> DEFINE r == DirReply(dh, reader.pos)
      <4>1. r.size = 0
        BY <3>3
      <4> HIDE DEF r
      <4>2. Took(dh, r) = [reader EXCEPT !.state = "end"]
        BY ONLY <4>1, TookEnds
      <4> QED
        BY <3>1, <4>2, Zenon DEF r
    <3> HIDE DEF t, d
    <3>5. reader' = [reader EXCEPT !.state = "end", !.since = Since]
      BY <1>2, <3>4
    <3> QED
      BY <1>1, <1>2, <1>6, <2>1, <3>1, <3>2, <3>5 DEF ReadDoes
  <2> QED
    BY <2>2, <2>3
<1> QED
  BY <1>1, <1>5, <1>6

\* The invariant holds at the start.
LEMMA ListInvInit == ListingInit => ListInv
<1> SUFFICES ASSUME ListingInit PROVE ListInv
  OBVIOUS
<1>1. dir \in Seq(Names)
  BY DirIsSeq DEF ListingInit
<1>2. << >> \in Seq(Names) /\ << >> \in Seq(Entries)
  OBVIOUS
<1>3. ListType
  BY <1>1, <1>2 DEF ListingInit, ListType, Readers
<1>4. ReaderAt /\ ListingKept /\ PageAtEnd /\ EndIsEnd
  BY DEF ListingInit, ReaderAt, ListingKept, PageAtEnd, EndIsEnd
<1> QED
  BY <1>3, <1>4 DEF ListInv

\* A read keeps the invariant.
LEMMA ReadKeeps ==
  ASSUME ListInv, Read
  PROVE  ListInv'
<1>1. ReadDoes
  BY ReadIs
<1>2. /\ paging \in BOOLEAN /\ dir \in Seq(Names) /\ reader \in Readers
  BY DEF ListInv, ListType
<1>3. Since \in Seq(Names)
  BY <1>2 DEF Since, Readers
<1>4. reader.pos # 0 => Since = reader.since
  BY DEF Since
<1>5. \A c \in reader.cookies : c.pos # 0 /\ Place(paging, Since, c.pos, c.got)
  <2>1. CASE reader.pos = 0
    BY <2>1 DEF ListInv, ReaderAt
  <2>2. CASE reader.pos # 0
    BY <1>4, <2>2 DEF ListInv, ReaderAt
  <2> QED
    BY <2>1, <2>2
<1>6. CASE /\ reader' = [reader EXCEPT !.state = "end", !.since = Since]
           /\ reader.again \/ reader.got = Since
           /\ paging /\ dh'.filled => dh'.contents = << >>
  <2>1. /\ reader'.pos = reader.pos /\ reader'.got = reader.got /\ reader'.since = Since
        /\ reader'.cookies = reader.cookies /\ reader'.state = "end" /\ reader'.again = reader.again
        /\ reader' \in Readers
    BY <1>2, <1>3, <1>6 DEF Readers
  <2>2. ListType'
    BY <1>1, <1>2, <2>1 DEF ReadDoes, ListType
  <2>3. ReaderAt'
    BY <1>1, <1>4, <1>5, <2>1 DEF ReadDoes, ReaderAt, ListInv
  <2>4. ListingKept'
    BY <1>1, <2>1 DEF ReadDoes, ListingKept
  <2>5. PageAtEnd'
    BY <1>1, <1>6, <2>1 DEF ReadDoes, PageAtEnd
  <2>6. EndIsEnd'
    BY <1>6, <2>1 DEF EndIsEnd
  <2> QED
    BY <2>2, <2>3, <2>4, <2>5, <2>6 DEF ListInv
<1>7. CASE /\ \E pos \in Nat \ {0}, got \in Seq(Names) :
                Place(paging, Since, pos, got) /\ reader' = [MovedTo(pos, got) EXCEPT !.since = Since]
           /\ ~(paging /\ dh'.filled)
  <2>1. PICK pos \in Nat \ {0}, got \in Seq(Names) :
          Place(paging, Since, pos, got) /\ reader' = [MovedTo(pos, got) EXCEPT !.since = Since]
    BY <1>7
  <2>2. reader.state = "reads"
    BY DEF Read
  <2>3. /\ reader'.pos = pos /\ reader'.got = got /\ reader'.since = Since
        /\ reader'.cookies = reader.cookies \cup {[pos |-> pos, got |-> got]}
        /\ reader'.state = "reads" /\ reader' \in Readers
    <3> DEFINE more == reader.cookies \cup {[pos |-> pos, got |-> got]}
    <3>1. reader' = [pos |-> pos, got |-> got, since |-> Since, cookies |-> more, state |-> "reads", again |-> reader.again]
      BY <1>2, <2>1, <2>2 DEF Readers, MovedTo
    <3>2. more \in SUBSET [pos : Nat, got : Seq(Names)]
      BY <1>2 DEF Readers
    <3>3. reader.again \in BOOLEAN
      BY <1>2 DEF Readers
    <3> HIDE DEF more
    <3>4. reader' \in Readers
      BY <1>3, <3>1, <3>2, <3>3 DEF Readers
    <3> QED
      BY <3>1, <3>4 DEF more
  <2>4. ListType'
    BY <1>1, <1>2, <2>3 DEF ReadDoes, ListType
  <2>5. ReaderAt'
    <3>1. paging' = paging
      BY <1>1 DEF ReadDoes
    <3>2. \A c \in reader'.cookies : c.pos # 0 /\ Place(paging, Since, c.pos, c.got)
      BY <1>5, <2>1, <2>3
    <3> QED
      BY <2>1, <2>3, <3>1, <3>2 DEF ReaderAt
  <2>6. ListingKept'
    BY <1>1, <2>3 DEF ReadDoes, ListingKept
  <2>7. PageAtEnd'
    BY <1>1, <1>7 DEF ReadDoes, PageAtEnd
  <2>8. EndIsEnd'
    BY <2>3 DEF EndIsEnd
  <2> QED
    BY <2>4, <2>5, <2>6, <2>7, <2>8 DEF ListInv
<1> QED
  BY <1>1, <1>6, <1>7 DEF ReadDoes

\* So does every step.
LEMMA ListInvStep ==
  ASSUME ListInv, [ListingNext]_listingVars
  PROVE  ListInv'
<1>1. CASE Read
  BY <1>1, ReadKeeps
<1>2. CASE ReadFails
  <2>1. << >> \in Seq(Entries)
    OBVIOUS
  <2>2. ListType'
    BY <1>2, <2>1 DEF ReadFails, ListInv, ListType
  <2>3. ReaderAt' /\ EndIsEnd'
    BY <1>2 DEF ReadFails, ListInv, ReaderAt, EndIsEnd
  <2>4. ListingKept'
    BY <1>2 DEF ReadFails, ListInv, ListingKept
  <2>5. PageAtEnd'
    BY <1>2 DEF ReadFails, ListInv, ListType, PageAtEnd
  <2> QED
    BY <2>2, <2>3, <2>4, <2>5 DEF ListInv
<1>3. CASE Rewind
  <2>1. << >> \in Seq(Names)
    OBVIOUS
  <2>2. reader' \in Readers /\ reader'.pos = 0 /\ reader'.got = << >> /\ reader'.cookies = {} /\ reader'.state = "reads"
    BY <1>3, <2>1 DEF Rewind, ListInv, ListType, Readers
  <2>3. ListType'
    BY <1>3, <2>2 DEF Rewind, ListInv, ListType
  <2>4. ReaderAt' /\ ListingKept' /\ EndIsEnd'
    BY <2>2 DEF ReaderAt, ListingKept, EndIsEnd
  <2>5. PageAtEnd'
    BY <1>3, <2>2 DEF Rewind, ListInv, PageAtEnd
  <2> QED
    BY <2>3, <2>4, <2>5 DEF ListInv
<1>4. ASSUME NEW c \in reader.cookies, Seek(c) PROVE ListInv'
  <2>1. /\ c \in [pos : Nat, got : Seq(Names)] /\ reader.pos # 0 /\ c.pos # 0
        /\ Place(paging, reader.since, c.pos, c.got)
    BY <1>4 DEF ListInv, ListType, ReaderAt, Readers
  <2>2. /\ reader' \in Readers /\ reader'.pos = c.pos /\ reader'.got = c.got /\ reader'.since = reader.since
        /\ reader'.cookies = reader.cookies /\ reader'.state = "reads"
        /\ reader'.again = (reader.again \/ (paging /\ reader.state = "end"))
        /\ paging' = paging /\ dir' = dir /\ dh' = dh
    BY <1>4, <2>1 DEF Seek, ListInv, ListType, Readers
  <2>3. ListType'
    BY <2>2 DEF ListInv, ListType
  <2>4. ReaderAt'
    BY <2>1, <2>2 DEF ListInv, ReaderAt
  <2>5. ListingKept'
    BY <2>1, <2>2 DEF ListInv, ListingKept
  <2>6. PageAtEnd'
    <3>1. reader.state \in {"reads", "end"}
      BY DEF ListInv, ListType, Readers
    <3> QED
      BY <2>1, <2>2, <3>1 DEF ListInv, PageAtEnd
  <2>7. EndIsEnd'
    BY <2>2 DEF EndIsEnd
  <2> QED
    BY <2>3, <2>4, <2>5, <2>6, <2>7 DEF ListInv
<1>5. ASSUME NEW S \in SUBSET Names, Change(SetToSeq(S)) PROVE ListInv'
  <2>1. SetToSeq(S) \in Seq(Names)
    BY DirIsSeq
  <2>2. ~paging /\ dir' \in Seq(Names) /\ paging' = paging /\ dh' = dh /\ reader' = reader
    BY <1>5, <2>1 DEF Change
  <2> QED
    BY <2>2 DEF ListInv, ListType, ReaderAt, ListingKept, PageAtEnd, EndIsEnd
<1>6. CASE UNCHANGED listingVars
  BY <1>6 DEF listingVars, ListInv, ListType, ReaderAt, ListingKept, PageAtEnd, EndIsEnd
<1> QED
  BY <1>1, <1>2, <1>3, <1>4, <1>5, <1>6 DEF ListingNext

\* A reader that comes to the end has every name that was in the directory when
\* it began, once and in order, and no page begins inside an entry, whatever
\* the names, their lengths and the size of a page (fill_dir, readdir_fill,
\* fuse_lib_readdir).
THEOREM ListingsAreWhole == ListingSpec => []ListedOnce
<1>1. ListingInit => ListInv
  BY ListInvInit
<1>2. ListInv /\ [ListingNext]_listingVars => ListInv'
  BY ListInvStep
<1>3. ListInv => ListedOnce
  BY DEF ListInv, ListType, Readers, EndIsEnd, ListedOnce
<1> QED
  BY <1>1, <1>2, <1>3, PTL DEF ListingSpec
=============================================================================
