----------------------------- MODULE FuseNodes_proof ------------------------
(***************************************************************************)
(* Proofs about the nodes of libfuse, first part: the inductive invariant  *)
(* of FuseLib, what the operators of NodeTable do to a table that is a     *)
(* tree, and what one request's step leaves of everything another relies   *)
(* on. FuseLib_proof goes through the steps.                               *)
(***************************************************************************)
EXTENDS FuseLib, FiniteSetTheorems, SequenceTheorems, WellFoundedInduction, TLAPS

(***************************************************************************)
(* The inductive invariant.                                                *)
(***************************************************************************)
\* What the theorems assume of a workload with a rename: no lookup of "." (an NFS export) comes with it,
\* nor, on a mount that keeps its nodes (noforget), a revalidation. A revalidation takes no mutex of the
\* directory: it may ask the file system before a removal and make a node for the name after it, so
\* that rename_node replaces a node it did not lock. TLC has the behaviours in which a lookup of "." has
\* that node locked by then, and, with noforget, in which the kernel has forgotten it already and
\* the assertion of unlink_node fails.
RenamesApart ==
  \A w \in Workloads : (\E r \in DOMAIN w.reqs : w.reqs[r].op = "rename") =>
    \A q \in DOMAIN w.reqs : w.reqs[q].op # "dot" /\ (w.noforget => w.reqs[q].op # "revalidate")

\* The ids next_id gives out, the lookup a node keeps with noforget, and the handlers.
Ids == 1 .. MaxId - 1
Kept == IF work.noforget THEN 1 ELSE 0
Ops == DOMAIN fuse_path_ops

\* The nodes are a tree: no set of them has all its parents in itself.
Rooted(ns) ==
  \A S \in SUBSET (DOMAIN ns \ {Root}) : S # {} => \E n \in S : ns[n].parent \notin S
\* A node whose lookups are gone has no name and no lock.
NodeOK(n) ==
  /\ DOMAIN n = DOMAIN Node(NoName, None, 0, 0)
  /\ n.parent \in Ids \cup {None} /\ n.nlookup \in Nat /\ n.refctr \in Nat /\ n.open \in Nat
  /\ n.tree \in Nat \cup {-1}
  /\ n.name = NoName => n.parent = None
  /\ n.nlookup = 0 => n.name = NoName /\ n.tree = 0
\* No two children of a node have one name, and every parent is there.
TableOK(ns) ==
  /\ Root \in DOMAIN ns /\ DOMAIN ns \subseteq Ids
  /\ \A id \in DOMAIN ns : NodeOK(ns[id])
  /\ ns[Root].name = NoName /\ ns[Root].nlookup > 0 /\ ns[Root].tree = 0
  /\ \A id \in DOMAIN ns : ns[id].name # NoName => ns[id].parent \in DOMAIN ns
  /\ \A m, n \in DOMAIN ns : ns[m].name # NoName /\ ns[m].name = ns[n].name /\ ns[m].parent = ns[n].parent => m = n
  /\ Rooted(ns)

\* Steps that answer; a request with its path ahead of it, and one with its answer ahead.
Replies == {"reply", "reply_open", "reply_entry"}
Getting(r) == \E s \in Gets : Ahead(r, s)
Replying(r) == \E s \in Replies : Ahead(r, s)
\* The locals of a request, and where it is: what it may have locked, found, answered and hidden so far.
LocOK(l) ==
  /\ DOMAIN l = DOMAIN NoLoc
  /\ {l.w, l.w2, l.id, l.victim} \subseteq Ids \cup {None} /\ l.n \in Nat
  /\ {l.locked, l.hide, l.intr, l.pinned} \subseteq BOOLEAN
PlaceOK(r) ==
  /\ LocOK(loc[r])
  /\ ~Started(r) => loc[r] = NoLoc /\ answer[r] = "none"
  /\ Started(r) =>
      /\ \A q \in Req(r).needs : answer[q] = "ok"
      /\ Running(r) => Applies(r, Step(r), loc[r])
      /\ loc[r].locked => Ahead(r, "free") /\ ~Getting(r)
      /\ loc[r].err = "ok" /\ Ahead(r, "free") /\ ~Getting(r) =>
           loc[r].locked \/ Req(r).op \in {"release", "releasedir", "flush", "getlk"}
      /\ loc[r].id # None => Req(r).op \in Finders /\ ~Ahead(r, "find") /\ loc[r].err = "ok"
      /\ Req(r).op \in Finders /\ ~Ahead(r, "find") /\ loc[r].err = "ok" => loc[r].id # None
      /\ IF Req(r).op = "forget" THEN answer[r] = "ok" ELSE answer[r] = "none" <=> Replying(r)
      /\ answer[r] = "ok" => loc[r].err = "ok"
      /\ answer[r] = "err" => loc[r].err # "ok"
      /\ loc[r].intr <=> answer[r] = "intr"
      /\ loc[r].intr => loc[r].err = "ok"
      /\ loc[r].pinned => Ahead(r, "unpin") /\ ~Ahead(r, "pin") /\ Req(r).op = "dot"
      /\ Req(r).op = "dot" /\ loc[r].err = "ok" /\ ~Ahead(r, "pin") /\ Ahead(r, "unpin") => loc[r].pinned
      /\ loc[r].w # None => Req(r).op \in {"unlink", "rmdir", "rename"}
      /\ loc[r].w2 # None => Req(r).op = "rename"
      /\ Req(r).op = "forget" => loc[r].n > 0 \/ NodeOf(r) = Root
      /\ Req(r).op \in {"unlink", "rmdir"} => loc[r].victim # None
      /\ Req(r).op = "revalidate" => loc[r].victim = Req(r).victim
      /\ Req(r).op \in {"unlink", "rmdir"} /\ loc[r].locked => loc[r].w = loc[r].victim
      /\ loc[r].hide => Req(r).op \in {"unlink", "rename", "getlk"}
      /\ loc[r].hide /\ loc[r].err = "ok" /\ Req(r).op # "getlk" /\ ~Ahead(r, "hide_name") => loc[r].hname # NoName
\* Who waits in the queue waits for its path, once.
QueueOK ==
  /\ queue \in Seq(Reqs)
  /\ \A j, k \in DOMAIN queue : queue[j] = queue[k] => j = k
  /\ \A k \in DOMAIN queue : Step(queue[k]) \in Gets \cup Forgets
  /\ \A r \in woken : Queued(r)
\* The types of the rest.
TypeOK ==
  /\ work \in Workloads /\ TableOK(nodes) /\ ctr \in 0 .. MaxId
  /\ DOMAIN pc = Reqs /\ DOMAIN loc = Reqs /\ DOMAIN answer = Reqs
  /\ \A r \in Reqs : pc[r] \in Nat
  /\ answer \in [Reqs -> {"none", "ok", "err", "intr"}]
  /\ known \in [1 .. MaxId -> Nat]

\* A node has the lookups the kernel has, those on their way to it and back, and its own, if it is kept.
LookupsOK ==
  \A id \in Ids \ {Root} :
    IF id \in DOMAIN nodes
    THEN nodes[id].nlookup = known[id] + Cardinality(InFlight(id)) + Cardinality(Returning(id))
                             + (IF nodes[id].name # NoName THEN Kept ELSE 0)
    ELSE known[id] = 0 /\ InFlight(id) = {} /\ Returning(id) = {}
\* It has a reference from each child, from its lookups, and from each lookup of "." under way.
Pinners(id) == {r \in Reqs : loc[r].pinned /\ NodeOf(r) = id}
RefsOK ==
  /\ \A id \in DOMAIN nodes :
       nodes[id].refctr = Cardinality(Children(id)) + (IF nodes[id].nlookup > 0 THEN 1 ELSE 0) + Cardinality(Pinners(id))
  /\ \A r \in Reqs : loc[r].pinned => NodeOf(r) \in DOMAIN nodes
\* It is locked by one writer, or by as many readers as there are paths through it; whatever has
\* a lock has the nodes of its path under their names.
TwoPaths(r) == Req(r).op \in {"rename", "link"}
TreesOK ==
  /\ \A id \in DOMAIN nodes \ {Root} :
       /\ nodes[id].tree = IF Writers(id) # {} THEN -1 ELSE Cardinality(Readers(id))
       /\ Writers(id) # {} => Readers(id) = {}
       /\ \A q, r \in Writers(id) : q = r
  /\ \A r \in Reqs : loc[r].locked =>
       /\ NodeOf(r) \in DOMAIN nodes /\ \A k \in DOMAIN Chain(nodes, NodeOf(r)) : nodes[Chain(nodes, NodeOf(r))[k]].name # NoName
       /\ TwoPaths(r) => Req(r).n2 \in DOMAIN nodes /\ \A k \in DOMAIN Chain(nodes, Req(r).n2) : nodes[Chain(nodes, Req(r).n2)[k]].name # NoName
       /\ loc[r].w \in DOMAIN nodes \cup {None} /\ loc[r].w2 \in DOMAIN nodes \cup {None}
       /\ loc[r].w # Root /\ loc[r].w2 # Root
       /\ loc[r].w = loc[r].w2 => loc[r].w = None
\* The kernel has the nodes its requests are about, and those of open files.
HeldOK ==
  /\ \A r \in Unanswered : Req(r).op # "dot" => \A id \in Mentions(r) : Holds(id)
  /\ \A q \in Reqs : Req(q).op \in {"open", "create"} /\ answer[q] = "ok"
       /\ (\A p \in Reqs : Req(p).op = "release" /\ Req(p).handle = q => ~Started(p)) => Holds(Opened(q))
\* A node has as many opens as there are requests that opened it and did not close it.
Counted(q) == Started(q) /\ ~Ahead(q, "count") /\ loc[q].err = "ok"
Closed(q) == \/ loc[q].intr /\ ~Ahead(q, "uncount")
             \/ \E p \in Reqs : Req(p).op = "release" /\ Req(p).handle = q /\ Started(p) /\ ~Ahead(p, "uncount")
OpenBy(id) == {q \in Reqs : Req(q).op \in {"open", "create"} /\ Counted(q) /\ ~Closed(q) /\ Opened(q) = id}
OpensOK ==
  \A id \in Ids : IF id \in DOMAIN nodes THEN nodes[id].open = Cardinality(OpenBy(id)) ELSE OpenBy(id) = {}
\* One request at a time has the mutex of a directory.
MutexOK == \A q, r \in Unanswered : q # r => Mutexes(q) \cap Mutexes(r) = {}
\* A node nobody has a path through and only a revalidation can find.
Stranger(x) ==
  /\ x \in DOMAIN nodes \ {Root} /\ known[x] = 0 /\ nodes[x].tree = 0 /\ Children(x) = {}
  /\ \A q \in Unanswered : loc[q].id = x => Req(q).op = "revalidate"
\* What unlink, rmdir and rename are to remove or replace is what was there when the kernel sent them,
\* and what they locked; with a rename, it may be a stranger as well.
Renaming(r) == Req(r).op = "rename" /\ Ahead(r, "rename_node") /\ loc[r].err = "ok"
Removing(r) == Req(r).op \in {"unlink", "rmdir"} /\ Ahead(r, "remove") /\ loc[r].err = "ok"
Doom(r) == lookup_node(nodes, Doomed(r)[1], Doomed(r)[2])
NamesOK(r) ==
  /\ Started(r) /\ (Removing(r) \/ (Renaming(r) /\ work.noforget)) =>
       IF loc[r].hide /\ ~Ahead(r, "hide_node") THEN work.noforget /\ Renaming(r) => Doom(r) = None
       ELSE Doom(r) = loc[r].victim
  /\ loc[r].locked /\ Renaming(r) =>
       \A x \in {Doom(r), lookup_node(nodes, Req(r).n, Req(r).nm)} :
         x \in {None, loc[r].w, loc[r].w2} \/ Stranger(x)
\* The inductive invariant.
IInv ==
  /\ nodes # Abort /\ TypeOK /\ (\A r \in Reqs : PlaceOK(r)) /\ QueueOK
  /\ LookupsOK /\ RefsOK /\ TreesOK /\ HeldOK /\ OpensOK /\ MutexOK
  /\ (\A r \in Reqs : NamesOK(r)) /\ PathStable

(***************************************************************************)
(* Trees: the way up from a node, and what is called by a name.            *)
(***************************************************************************)

\* A non-empty set of numbers has a least one.
LEMMA LeastNumber ==
  ASSUME NEW S \in SUBSET Nat, S # {}
  PROVE  \E m \in S : \A k \in S : m <= k
<1> DEFINE R == {ss \in Nat \X Nat : ss[1] < ss[2]}
<1>1. IsWellFoundedOn(R, Nat)
  BY NatLessThanWellFounded DEF OpToRel
<1>2. \A m, n \in Nat : <<m, n>> \notin R => n <= m
  OBVIOUS
<1> HIDE DEF R
<1>3. \E k \in S : \A j \in S : ~ (<<j, k>> \in R)
  BY <1>1, WFMin, Zenon
<1> QED
  BY <1>2, <1>3

\* c, of len ids, leads from id to the root, or to an unhashed node, parent by parent.
IsChain(ns, id, c, len) ==
  /\ len \in Nat /\ c \in [1 .. len -> DOMAIN ns \ {Root}]
  /\ \A j, k \in 1 .. len : c[j] = c[k] => j = k
  /\ IF id \in {Root, None} THEN len = 0 ELSE len > 0 /\ c[1] = id
  /\ \A k \in 1 .. len - 1 : c[k + 1] = ns[c[k]].parent
  /\ len > 0 => ns[c[len]].parent \in {Root, None}

\* f is the way up from id: id itself, then its parent, and so on.
Rises(ns, id, f) ==
  f = [k \in Nat |-> IF k = 0 THEN id
                     ELSE IF f[k - 1] \in {Root, None} THEN None ELSE ns[f[k - 1]].parent]

\* The way up is the only function that rises like this.
LEMMA UpIs ==
  ASSUME NEW ns, NEW id, NEW u, Rises(ns, id, u)
  PROVE  Up(ns, id) = u
<1> DEFINE f == Up(ns, id)
<1>1. Rises(ns, id, f)
  BY Zenon DEF Up, Rises
<1> HIDE DEF f
<1>2. \A k \in Nat : f[k] = u[k]
  <2> DEFINE S == {k \in Nat : f[k] # u[k]}
  <2>1. SUFFICES ASSUME S # {} PROVE FALSE
    OBVIOUS
  <2>2. PICK m \in S : \A k \in S : m <= k
    BY <2>1, LeastNumber
  <2>3. m # 0
    BY <1>1, <2>2 DEF Rises
  <2>4. m - 1 \in Nat /\ f[m - 1] = u[m - 1]
    BY <2>2, <2>3
  <2>5. f[m] = u[m]
    BY <1>1, <2>2, <2>3, <2>4 DEF Rises
  <2> QED
    BY <2>2, <2>5
<1>3. f = [k \in Nat |-> f[k]] /\ u = [k \in Nat |-> u[k]]
  BY <1>1 DEF Rises
<1> QED
  BY <1>2, <1>3 DEF f

\* A chain repeats nothing, so it is no longer than there are ids.
LEMMA ChainLength ==
  ASSUME NEW ns, DOMAIN ns \subseteq Ids, NEW id, NEW c, NEW len, IsChain(ns, id, c, len)
  PROVE  len \in 0 .. MaxId
<1>1. IsFiniteSet(Ids) /\ Cardinality(Ids) = MaxId - 1
  <2>1. 1 \in Int /\ MaxId - 1 \in Int /\ ~ (1 > MaxId - 1)
    BY MaxIdAssumption
  <2> QED
    BY <2>1, FS_Interval DEF Ids
<1>2. c \in Injection(1 .. len, Ids)
  <2>1. c \in [1 .. len -> Ids] /\ \A j, k \in 1 .. len : c[j] = c[k] => j = k
    BY DEF IsChain
  <2> QED
    BY <2>1 DEF Injection, IsInjective
<1>3. Cardinality(1 .. len) <= Cardinality(Ids)
  BY <1>1, <1>2, FS_Injection
<1>4. Cardinality(1 .. len) = len
  <2>1. len \in Int /\ 1 \in Int /\ len >= 0
    BY DEF IsChain
  <2> QED
    BY <2>1, FS_Interval
<1> QED
  BY <1>1, <1>3, <1>4, MaxIdAssumption DEF IsChain

\* Chain finds the chain, whatever way it was found to be one.
LEMMA ChainIs ==
  ASSUME NEW ns, DOMAIN ns \subseteq Ids, NEW id, NEW c, NEW len, IsChain(ns, id, c, len)
  PROVE  Chain(ns, id) = c
<1> DEFINE u == [k \in Nat |-> IF k < len THEN c[k + 1]
                               ELSE IF k > len THEN None
                               ELSE IF len = 0 THEN id ELSE ns[c[len]].parent]
<1>1. len \in Nat /\ \A k \in 1 .. len : c[k] \in DOMAIN ns \ {Root} /\ c[k] \notin {Root, None}
  BY DEF IsChain, Ids, None
<1>2. u[len] \in {Root, None} /\ \A k \in 0 .. len - 1 : u[k] = c[k + 1] /\ u[k] \notin {Root, None}
  BY <1>1 DEF IsChain
<1>3. Rises(ns, id, u)
  <2> DEFINE v(k) == IF k = 0 THEN id ELSE IF u[k - 1] \in {Root, None} THEN None ELSE ns[u[k - 1]].parent
  <2>1. SUFFICES ASSUME NEW k \in Nat PROVE u[k] = v(k)
    <3> HIDE DEF u
    <3>1. u = [k \in Nat |-> u[k]]
      BY DEF u
    <3> QED
      BY <2>1, <3>1 DEF Rises
  <2>2. CASE k = 0
    BY <1>1, <2>2 DEF IsChain
  <2>3. CASE k > 0 /\ k < len
    <3>1. k - 1 \in 0 .. len - 1 /\ k - 1 + 1 = k /\ k \in 1 .. len - 1
      BY <1>1, <2>3
    <3>2. u[k - 1] = c[k] /\ u[k - 1] \notin {Root, None} /\ u[k] = c[k + 1]
      BY <1>1, <1>2, <2>3, <3>1
    <3> QED
      BY <2>3, <3>1, <3>2 DEF IsChain
  <2>4. CASE k > 0 /\ k = len
    <3>1. k - 1 \in 0 .. len - 1 /\ k - 1 + 1 = k
      BY <1>1, <2>4
    <3>2. u[k - 1] = c[k] /\ u[k - 1] \notin {Root, None} /\ u[k] = ns[c[len]].parent
      BY <1>1, <1>2, <2>4, <3>1
    <3> QED
      BY <2>4, <3>1, <3>2
  <2>5. CASE k > len
    <3>1. u[k] = None
      BY <1>1, <2>5
    <3>2. u[k - 1] \in {Root, None}
      BY <1>1, <1>2, <2>5 DEF None
    <3> QED
      BY <1>1, <2>5, <3>1, <3>2
  <2> QED
    BY <1>1, <2>2, <2>3, <2>4, <2>5
<1>4. Up(ns, id) = u
  <2> HIDE DEF u
  <2> QED
    BY <1>3, UpIs
<1>5. len \in 0 .. MaxId
  BY ChainLength
<1> DEFINE Top(k) == u[k] \in {Root, None} /\ \A j \in 0 .. k - 1 : u[j] \notin {Root, None}
<1>6. Top(len) /\ \A k \in 0 .. MaxId : Top(k) => k = len
  <2> HIDE DEF u
  <2> QED
    BY <1>1, <1>2
<1>7. (CHOOSE k \in 0 .. MaxId : Top(k)) = len
  <2> HIDE DEF Top
  <2> QED
    BY <1>5, <1>6
<1>8. Chain(ns, id) = [k \in 1 .. len |-> u[k - 1]]
  <2> HIDE DEF u
  <2> QED
    BY <1>4, <1>7 DEF Chain
<1>9. c = [k \in 1 .. len |-> c[k]]
  BY DEF IsChain
<1>10. \A k \in 1 .. len : u[k - 1] = c[k]
  BY <1>1
<1> HIDE DEF u
<1> QED
  BY <1>8, <1>9, <1>10

\* A parent's chain, with the child before it, is the child's chain.
LEMMA ChainRec ==
  ASSUME NEW ns, NEW id \in DOMAIN ns \ {Root}, None \notin DOMAIN ns,
         ns[id].parent \in DOMAIN ns \cup {None}, NEW c, NEW len,
         IsChain(ns, ns[id].parent, c, len), \A k \in 1 .. len : c[k] # id
  PROVE  \E d, n : IsChain(ns, id, d, n)
<1> DEFINE d == [k \in 1 .. len + 1 |-> IF k = 1 THEN id ELSE c[k - 1]]
<1>0. len \in Nat /\ c \in [1 .. len -> DOMAIN ns \ {Root}]
  BY DEF IsChain
<1>1. d \in [1 .. len + 1 -> DOMAIN ns \ {Root}]
  <2>1. \A k \in 1 .. len + 1 : k # 1 => k - 1 \in 1 .. len
    BY <1>0
  <2> QED
    BY <1>0, <2>1
<1>2. \A j, k \in 1 .. len + 1 : d[j] = d[k] => j = k
  <2>1. \A k \in 1 .. len + 1 : k # 1 => k - 1 \in 1 .. len /\ d[k] = c[k - 1] /\ d[k] # id
    BY <1>0
  <2>2. d[1] = id
    BY <1>0
  <2>3. \A j, k \in 1 .. len : c[j] = c[k] => j = k
    BY DEF IsChain
  <2> HIDE DEF d
  <2> QED
    BY <1>0, <2>1, <2>2, <2>3
<1>3. d[1] = id /\ id \notin {Root, None}
  BY <1>0
<1>4. \A k \in 1 .. len : d[k + 1] = ns[d[k]].parent
  <2>1. SUFFICES ASSUME NEW k \in 1 .. len PROVE d[k + 1] = ns[d[k]].parent
    OBVIOUS
  <2>2. d[k + 1] = c[k]
    BY <1>0
  <2>3. CASE k = 1
    <3>1. ns[id].parent \notin {Root, None}
      BY <1>0, <2>1 DEF IsChain
    <3> QED
      BY <1>0, <1>3, <2>2, <2>3, <3>1 DEF IsChain
  <2>4. CASE k # 1
    <3>1. k - 1 \in 1 .. len - 1 /\ k - 1 + 1 = k /\ d[k] = c[k - 1]
      BY <1>0, <2>4
    <3>2. c[k - 1 + 1] = ns[c[k - 1]].parent
      BY <3>1 DEF IsChain
    <3> QED
      BY <2>2, <3>1, <3>2
  <2> QED
    BY <2>3, <2>4
<1>5. ns[d[len + 1]].parent \in {Root, None}
  <2>1. CASE len = 0
    BY <1>3, <2>1 DEF IsChain
  <2>2. CASE len # 0
    <3>1. d[len + 1] = c[len]
      BY <1>0, <2>2
    <3> QED
      BY <1>0, <2>2, <3>1 DEF IsChain
  <2> QED
    BY <2>1, <2>2
<1>6. len + 1 \in Nat /\ len + 1 > 0 /\ len + 1 - 1 = len
  BY <1>0
<1>7. IsChain(ns, id, d, len + 1)
  <2> HIDE DEF d
  <2> QED
    BY <1>1, <1>2, <1>3, <1>4, <1>5, <1>6 DEF IsChain
<1> QED
  BY <1>7

\* The rest of a chain is the chain of where it starts.
LEMMA ChainTail ==
  ASSUME NEW ns, NEW id, None \notin DOMAIN ns, NEW c, NEW len, IsChain(ns, id, c, len), NEW j \in 1 .. len
  PROVE  \E d, n : IsChain(ns, c[j], d, n)
<1> DEFINE d == [k \in 1 .. len - j + 1 |-> c[k + j - 1]]
<1>0. len \in Nat /\ j \in Nat /\ c \in [1 .. len -> DOMAIN ns \ {Root}] /\ len - j + 1 \in Nat /\ len - j + 1 > 0
  BY DEF IsChain
<1>1. \A k \in 1 .. len - j + 1 : k + j - 1 \in 1 .. len /\ d[k] = c[k + j - 1]
  BY <1>0
<1>2. d \in [1 .. len - j + 1 -> DOMAIN ns \ {Root}]
  BY <1>0, <1>1
<1>3. \A i, k \in 1 .. len - j + 1 : d[i] = d[k] => i = k
  <2> HIDE DEF d
  <2>1. SUFFICES ASSUME NEW i \in 1 .. len - j + 1, NEW k \in 1 .. len - j + 1, d[i] = d[k] PROVE i = k
    OBVIOUS
  <2>2. i + j - 1 = k + j - 1
    BY <1>1, <2>1 DEF IsChain
  <2> QED
    BY <1>0, <2>2
<1>4. c[j] \notin {Root, None} /\ d[1] = c[j]
  BY <1>0, <1>1
<1>5. \A k \in 1 .. len - j + 1 - 1 : d[k + 1] = ns[d[k]].parent
  <2>1. SUFFICES ASSUME NEW k \in 1 .. len - j + 1 - 1 PROVE d[k + 1] = ns[d[k]].parent
    OBVIOUS
  <2>2. k + j - 1 \in 1 .. len - 1 /\ k + 1 + j - 1 = (k + j - 1) + 1 /\ k \in 1 .. len - j + 1 /\ k + 1 \in 1 .. len - j + 1
    BY <1>0
  <2> HIDE DEF d
  <2> QED
    BY <1>1, <2>2 DEF IsChain
<1>6. ns[d[len - j + 1]].parent \in {Root, None}
  <2>1. len - j + 1 + j - 1 = len /\ len - j + 1 \in 1 .. len - j + 1 /\ len > 0
    BY <1>0
  <2> HIDE DEF d
  <2> QED
    BY <1>1, <2>1 DEF IsChain
<1>7. IsChain(ns, c[j], d, len - j + 1)
  <2> HIDE DEF d
  <2> QED
    BY <1>0, <1>2, <1>3, <1>4, <1>5, <1>6 DEF IsChain
<1> QED
  BY <1>7

\* Every node has a chain.
LEMMA ChainExists ==
  ASSUME NEW ns, TableOK(ns), NEW id \in DOMAIN ns \cup {None}
  PROVE  \E c, len : IsChain(ns, id, c, len)
<1>0. None \notin DOMAIN ns /\ Root \in DOMAIN ns
  BY DEF TableOK, Ids, None
<1>1. CASE id \in {Root, None}
  <2>1. 1 .. 0 = {}
    OBVIOUS
  <2>2. IsChain(ns, id, [k \in 1 .. 0 |-> k], 0)
    BY <1>1, <2>1 DEF IsChain
  <2> QED
    BY <2>2
<1>2. CASE id \notin {Root, None}
  <2> DEFINE Bad == {x \in DOMAIN ns \ {Root} : ~ \E c, len : IsChain(ns, x, c, len)}
  <2>1. SUFFICES ASSUME Bad # {} PROVE FALSE
    BY <1>2
  <2>2. PICK n \in Bad : ns[n].parent \notin Bad
    BY <2>1 DEF TableOK, Rooted
  <2>3. ns[n].parent \in DOMAIN ns \cup {None}
    <3>1. n \in DOMAIN ns
      OBVIOUS
    <3> QED
      BY <3>1 DEF TableOK, NodeOK
  <2>4. \E c, len : IsChain(ns, ns[n].parent, c, len)
    <3>1. CASE ns[n].parent \in {Root, None}
      <4>1. 1 .. 0 = {}
        OBVIOUS
      <4>2. IsChain(ns, ns[n].parent, [k \in 1 .. 0 |-> k], 0)
        BY <3>1, <4>1 DEF IsChain
      <4> QED
        BY <4>2
    <3>2. CASE ns[n].parent \notin {Root, None}
      BY <2>2, <2>3, <3>2
    <3> QED
      BY <3>1, <3>2
  <2>5. PICK c, len : IsChain(ns, ns[n].parent, c, len)
    BY <2>4
  <2>6. \A k \in 1 .. len : c[k] # n
    BY <1>0, <2>5, ChainTail
  <2>7. \E d, m : IsChain(ns, n, d, m)
    BY <1>0, <2>3, <2>5, <2>6, ChainRec
  <2> QED
    BY <2>7
<1> QED
  BY <1>1, <1>2

\* The nodes that a path locks for reading: its own and those above it.
Above(ns, id) == {Chain(ns, id)[k] : k \in DOMAIN Chain(ns, id)}

\* What Chain is in a table that is a tree: the ids above one, each once, closed under parents.
LEMMA ChainFacts ==
  ASSUME NEW ns, TableOK(ns), NEW id \in DOMAIN ns \cup {None}
  PROVE  /\ Chain(ns, id) \in Seq(DOMAIN ns \ {Root})
         /\ Above(ns, id) \subseteq DOMAIN ns \ {Root}
         /\ id \notin {Root, None} => id \in Above(ns, id)
         /\ id \in {Root, None} => Above(ns, id) = {}
         /\ \A x \in Above(ns, id) : ns[x].parent \in Above(ns, id) \cup {Root, None}
         /\ \A j, k \in DOMAIN Chain(ns, id) : Chain(ns, id)[j] = Chain(ns, id)[k] => j = k
         /\ ToSet(Chain(ns, id)) = Above(ns, id)
         /\ \A x : Contains(Chain(ns, id), x) <=> x \in Above(ns, id)
<1>1. PICK c, len : IsChain(ns, id, c, len)
  BY ChainExists
<1>2. Chain(ns, id) = c
  BY <1>1, ChainIs DEF TableOK
<1>3. len \in Nat /\ c \in [1 .. len -> DOMAIN ns \ {Root}] /\ DOMAIN c = 1 .. len
  BY <1>1 DEF IsChain
<1>4. c \in Seq(DOMAIN ns \ {Root}) /\ Len(c) = len
  BY <1>3
<1>5. Above(ns, id) = {c[k] : k \in 1 .. len}
  BY <1>2, <1>3 DEF Above
<1>6. \A x \in Above(ns, id) : ns[x].parent \in Above(ns, id) \cup {Root, None}
  <2>1. SUFFICES ASSUME NEW k \in 1 .. len PROVE ns[c[k]].parent \in {c[j] : j \in 1 .. len} \cup {Root, None}
    BY <1>5
  <2>2. CASE k = len
    BY <1>1, <1>3, <2>2 DEF IsChain
  <2>3. CASE k # len
    <3>1. k \in 1 .. len - 1 /\ k + 1 \in 1 .. len
      BY <1>3, <2>3
    <3>2. c[k + 1] = ns[c[k]].parent
      BY <1>1, <3>1 DEF IsChain
    <3> QED
      BY <3>1, <3>2
  <2> QED
    BY <2>2, <2>3
<1>7. id \notin {Root, None} => id \in Above(ns, id)
  BY <1>1, <1>3, <1>5 DEF IsChain
<1>8. id \in {Root, None} => Above(ns, id) = {}
  BY <1>1, <1>3, <1>5 DEF IsChain
<1>9. ToSet(Chain(ns, id)) = Above(ns, id)
  BY DEF ToSet, Above
<1>10. \A x : Contains(Chain(ns, id), x) <=> x \in Above(ns, id)
  BY <1>2, <1>4, <1>5 DEF Contains
<1>11. \A j, k \in DOMAIN c : c[j] = c[k] => j = k
  BY <1>1, <1>3 DEF IsChain
<1> QED
  BY <1>2, <1>3, <1>4, <1>5, <1>6, <1>7, <1>8, <1>9, <1>10, <1>11, ZenonT(30)

\* A chain stays what it is while its nodes keep their parents, and its path while
\* they keep their names.
LEMMA ChainStays ==
  ASSUME NEW ns, TableOK(ns), NEW id \in DOMAIN ns \cup {None}, NEW ns2, DOMAIN ns2 \subseteq Ids,
         \A x \in Above(ns, id) : x \in DOMAIN ns2 /\ ns2[x].parent = ns[x].parent
  PROVE  /\ Chain(ns2, id) = Chain(ns, id) /\ Above(ns2, id) = Above(ns, id)
         /\ (\A x \in Above(ns, id) : ns2[x].name = ns[x].name) => PathOf(ns2, id) = PathOf(ns, id)
<1>1. PICK c, len : IsChain(ns, id, c, len)
  BY ChainExists
<1>2. Chain(ns, id) = c
  BY <1>1, ChainIs DEF TableOK
<1>3. len \in Nat /\ c \in [1 .. len -> DOMAIN ns \ {Root}] /\ DOMAIN c = 1 .. len
  BY <1>1 DEF IsChain
<1>4. \A k \in 1 .. len : c[k] \in DOMAIN ns2 \ {Root} /\ ns2[c[k]].parent = ns[c[k]].parent
  BY <1>2, <1>3 DEF Above
<1>5. IsChain(ns2, id, c, len)
  <2>1. c \in [1 .. len -> DOMAIN ns2 \ {Root}]
    BY <1>3, <1>4
  <2>2. \A k \in 1 .. len - 1 : c[k + 1] = ns2[c[k]].parent
    <3>1. \A k \in 1 .. len - 1 : k \in 1 .. len
      BY <1>3
    <3> QED
      BY <1>1, <1>4, <3>1 DEF IsChain
  <2>3. len > 0 => ns2[c[len]].parent \in {Root, None}
    BY <1>1, <1>3, <1>4 DEF IsChain
  <2> QED
    BY <1>1, <2>1, <2>2, <2>3 DEF IsChain
<1>6. Chain(ns2, id) = c
  BY <1>5, ChainIs
<1>7. Above(ns2, id) = Above(ns, id)
  BY <1>2, <1>6 DEF Above
<1>8. ASSUME \A x \in Above(ns, id) : ns2[x].name = ns[x].name
      PROVE  PathOf(ns2, id) = PathOf(ns, id)
  <2>1. \A k \in DOMAIN c : ns2[c[k]].name = ns[c[k]].name
    BY <1>2, <1>8 DEF Above
  <2>2. Len(c) = len
    BY <1>3
  <2>3. \A k \in DOMAIN c : Len(c) + 1 - k \in DOMAIN c
    BY <1>3, <2>2
  <2>4. [k \in DOMAIN c |-> ns2[c[Len(c) + 1 - k]].name] = [k \in DOMAIN c |-> ns[c[Len(c) + 1 - k]].name]
    BY <2>1, <2>3
  <2>5. (\E k \in DOMAIN c : ns2[c[k]].name = NoName) <=> (\E k \in DOMAIN c : ns[c[k]].name = NoName)
    BY <2>1
  <2> QED
    BY <1>2, <1>6, <2>4, <2>5 DEF PathOf
<1> QED
  BY <1>2, <1>6, <1>7, <1>8

\* The path of a node whose chain has names.
LEMMA PathIs ==
  ASSUME NEW ns, NEW id, \A k \in DOMAIN Chain(ns, id) : ns[Chain(ns, id)[k]].name # NoName
  PROVE  PathOf(ns, id) = [k \in DOMAIN Chain(ns, id) |->
           ns[Chain(ns, id)[Len(Chain(ns, id)) + 1 - k]].name]
BY DEF PathOf

\* lookup_node finds a node of that name under that directory, and the only one.
LEMMA LookupFacts ==
  ASSUME NEW ns, TableOK(ns), NEW p, NEW name, name # NoName
  PROVE  /\ lookup_node(ns, p, name) = None \/
              /\ lookup_node(ns, p, name) \in DOMAIN ns \ {Root}
              /\ ns[lookup_node(ns, p, name)].name = name /\ ns[lookup_node(ns, p, name)].parent = p
         /\ \A x \in DOMAIN ns : ns[x].name = name /\ ns[x].parent = p => lookup_node(ns, p, name) = x
<1> DEFINE found == {id \in DOMAIN ns : ns[id].name = name /\ ns[id].parent = p}
<1>1. \A x \in found : lookup_node(ns, p, name) \in found
  BY DEF lookup_node
<1>2. \A x, y \in found : x = y
  BY DEF TableOK
<1>3. found = {} => lookup_node(ns, p, name) = None
  BY DEF lookup_node
<1>4. Root \notin found
  BY DEF TableOK
<1> QED
  BY <1>1, <1>2, <1>3, <1>4

\* Tables with the same names have the same node under each name, and keep a tree.
LEMMA LookupSame ==
  ASSUME NEW ns, NEW ns2, DOMAIN ns2 = DOMAIN ns, NEW p, NEW name,
         \A x \in DOMAIN ns : ns2[x].name = ns[x].name /\ ns2[x].parent = ns[x].parent
  PROVE  lookup_node(ns2, p, name) = lookup_node(ns, p, name)
<1> DEFINE found(n) == {id \in DOMAIN n : n[id].name = name /\ n[id].parent = p}
           first(S) == CHOOSE id \in S : TRUE
<1>1. found(ns2) = found(ns)
  OBVIOUS
<1>2. \A n : lookup_node(n, p, name) = IF found(n) = {} THEN None ELSE first(found(n))
  BY DEF lookup_node
<1> HIDE DEF found, first
<1> QED
  BY <1>1, <1>2

\* A table that is a tree is not what an abort leaves.
LEMMA NotAborted ==
  ASSUME NEW ns, TableOK(ns)
  PROVE  ns # Abort /\ None \notin DOMAIN ns
<1>1. None \notin DOMAIN ns
  BY DEF TableOK, Ids, None
<1>2. Root \in DOMAIN ns /\ ns[Root].nlookup > 0
  BY DEF TableOK
<1>3. Abort[Root].nlookup = 0
  BY DEF Abort, Node
<1> QED
  BY <1>1, <1>2, <1>3

(***************************************************************************)
(* The programs of the handlers: what comes after what.                    *)
(***************************************************************************)

\* Sequences of steps are joined by appending.
LEMMA Joined ==
  ASSUME NEW S, NEW s \in Seq(S), NEW t \in Seq(S), NEW u \in Seq(S), Len(u) = Len(s) + Len(t),
         \A k \in 1 .. Len(u) : u[k] = IF k <= Len(s) THEN s[k] ELSE t[k - Len(s)]
  PROVE  s \o t = u
<1> DEFINE c == s \o t
<1>1. c \in Seq(S) /\ Len(c) = Len(u)
      /\ \A k \in 1 .. Len(u) : c[k] = IF k <= Len(s) THEN s[k] ELSE t[k - Len(s)]
  BY ConcatProperties
<1> HIDE DEF c
<1>2. \A k \in 1 .. Len(c) : c[k] = u[k]
  BY <1>1
<1>3. c = u
  BY <1>1, <1>2, SeqEqual
<1> QED
  BY <1>3 DEF c

\* The steps of flush, put together.
LEMMA FlushSteps ==
  ASSUME NEW a, NEW b, NEW c, NEW d, NEW e
  PROVE  <<a>> \o <<b, c>> \o <<d, e>> = <<a, b, c, d, e>>
<1> DEFINE S == {a, b, c, d, e}
<1>1. <<a>> \o <<b, c>> = <<a, b, c>>
  <2>1. <<a>> \in Seq(S) /\ <<b, c>> \in Seq(S) /\ <<a, b, c>> \in Seq(S)
    OBVIOUS
  <2>2. Len(<<a>>) = 1 /\ Len(<<b, c>>) = 2 /\ Len(<<a, b, c>>) = 3
    OBVIOUS
  <2>3. \A k \in 1 .. 3 : <<a, b, c>>[k]
          = IF k <= 1 THEN <<a>>[k] ELSE <<b, c>>[k - 1]
    OBVIOUS
  <2>4. Len(<<a, b, c>>) = Len(<<a>>) + Len(<<b, c>>)
    BY <2>2
  <2>5. \A k \in 1 .. Len(<<a, b, c>>) : <<a, b, c>>[k]
          = IF k <= Len(<<a>>) THEN <<a>>[k] ELSE <<b, c>>[k - Len(<<a>>)]
    BY <2>2, <2>3
  <2> HIDE DEF S
  <2> QED
    BY <2>1, <2>4, <2>5, Joined
<1>2. <<a, b, c>> \o <<d, e>> = <<a, b, c, d, e>>
  <2>1. <<a, b, c>> \in Seq(S) /\ <<d, e>> \in Seq(S) /\ <<a, b, c, d, e>> \in Seq(S)
    OBVIOUS
  <2>2. Len(<<a, b, c>>) = 3 /\ Len(<<d, e>>) = 2 /\ Len(<<a, b, c, d, e>>) = 5
    OBVIOUS
  <2>3. \A k \in 1 .. 5 : <<a, b, c, d, e>>[k]
          = IF k <= 3 THEN <<a, b, c>>[k] ELSE <<d, e>>[k - 3]
    OBVIOUS
  <2>4. Len(<<a, b, c, d, e>>) = Len(<<a, b, c>>) + Len(<<d, e>>)
    BY <2>2
  <2>5. \A k \in 1 .. Len(<<a, b, c, d, e>>) : <<a, b, c, d, e>>[k]
          = IF k <= Len(<<a, b, c>>) THEN <<a, b, c>>[k] ELSE <<d, e>>[k - Len(<<a, b, c>>)]
    BY <2>2, <2>3
  <2> HIDE DEF S
  <2> QED
    BY <2>1, <2>4, <2>5, Joined
<1> QED
  BY <1>1, <1>2

\* The steps of release, put together.
LEMMA ReleaseSteps ==
  ASSUME NEW a, NEW b, NEW c, NEW d, NEW e, NEW f, NEW g
  PROVE  <<a>> \o <<b, c>> \o <<d, e>> \o <<f, g>> = <<a, b, c, d, e, f, g>>
<1> DEFINE S == {a, b, c, d, e, f, g}
<1>1. <<a>> \o <<b, c>> \o <<d, e>> = <<a, b, c, d, e>>
  BY FlushSteps
<1>2. <<a, b, c, d, e>> \o <<f, g>> = <<a, b, c, d, e, f, g>>
  <2>1. <<a, b, c, d, e>> \in Seq(S) /\ <<f, g>> \in Seq(S) /\ <<a, b, c, d, e, f, g>> \in Seq(S)
    OBVIOUS
  <2>2. Len(<<a, b, c, d, e>>) = 5 /\ Len(<<f, g>>) = 2 /\ Len(<<a, b, c, d, e, f, g>>) = 7
    OBVIOUS
  <2>3. \A k \in 1 .. 7 : <<a, b, c, d, e, f, g>>[k]
          = IF k <= 5 THEN <<a, b, c, d, e>>[k] ELSE <<f, g>>[k - 5]
    OBVIOUS
  <2>4. Len(<<a, b, c, d, e, f, g>>) = Len(<<a, b, c, d, e>>) + Len(<<f, g>>)
    BY <2>2
  <2>5. \A k \in 1 .. Len(<<a, b, c, d, e, f, g>>) : <<a, b, c, d, e, f, g>>[k]
          = IF k <= Len(<<a, b, c, d, e>>) THEN <<a, b, c, d, e>>[k] ELSE <<f, g>>[k - Len(<<a, b, c, d, e>>)]
    BY <2>2, <2>3
  <2> HIDE DEF S
  <2> QED
    BY <2>1, <2>4, <2>5, Joined
<1> QED
  BY <1>1, <1>2

\* The steps of open, put together.
LEMMA OpenSteps ==
  ASSUME NEW a, NEW b, NEW c, NEW d, NEW e, NEW f, NEW g
  PROVE  <<a, b, c, d>> \o <<e, f>> \o <<g>> = <<a, b, c, d, e, f, g>>
<1> DEFINE S == {a, b, c, d, e, f, g}
<1>1. <<a, b, c, d>> \o <<e, f>> = <<a, b, c, d, e, f>>
  <2>1. <<a, b, c, d>> \in Seq(S) /\ <<e, f>> \in Seq(S) /\ <<a, b, c, d, e, f>> \in Seq(S)
    OBVIOUS
  <2>2. Len(<<a, b, c, d>>) = 4 /\ Len(<<e, f>>) = 2 /\ Len(<<a, b, c, d, e, f>>) = 6
    OBVIOUS
  <2>3. \A k \in 1 .. 6 : <<a, b, c, d, e, f>>[k]
          = IF k <= 4 THEN <<a, b, c, d>>[k] ELSE <<e, f>>[k - 4]
    OBVIOUS
  <2>4. Len(<<a, b, c, d, e, f>>) = Len(<<a, b, c, d>>) + Len(<<e, f>>)
    BY <2>2
  <2>5. \A k \in 1 .. Len(<<a, b, c, d, e, f>>) : <<a, b, c, d, e, f>>[k]
          = IF k <= Len(<<a, b, c, d>>) THEN <<a, b, c, d>>[k] ELSE <<e, f>>[k - Len(<<a, b, c, d>>)]
    BY <2>2, <2>3
  <2> HIDE DEF S
  <2> QED
    BY <2>1, <2>4, <2>5, Joined
<1>2. <<a, b, c, d, e, f>> \o <<g>> = <<a, b, c, d, e, f, g>>
  <2>1. <<a, b, c, d, e, f>> \in Seq(S) /\ <<g>> \in Seq(S) /\ <<a, b, c, d, e, f, g>> \in Seq(S)
    OBVIOUS
  <2>2. Len(<<a, b, c, d, e, f>>) = 6 /\ Len(<<g>>) = 1 /\ Len(<<a, b, c, d, e, f, g>>) = 7
    OBVIOUS
  <2>3. \A k \in 1 .. 7 : <<a, b, c, d, e, f, g>>[k]
          = IF k <= 6 THEN <<a, b, c, d, e, f>>[k] ELSE <<g>>[k - 6]
    OBVIOUS
  <2>4. Len(<<a, b, c, d, e, f, g>>) = Len(<<a, b, c, d, e, f>>) + Len(<<g>>)
    BY <2>2
  <2>5. \A k \in 1 .. Len(<<a, b, c, d, e, f, g>>) : <<a, b, c, d, e, f, g>>[k]
          = IF k <= Len(<<a, b, c, d, e, f>>) THEN <<a, b, c, d, e, f>>[k] ELSE <<g>>[k - Len(<<a, b, c, d, e, f>>)]
    BY <2>2, <2>3
  <2> HIDE DEF S
  <2> QED
    BY <2>1, <2>4, <2>5, Joined
<1> QED
  BY <1>1, <1>2

\* The steps of create, put together.
LEMMA CreateSteps ==
  ASSUME NEW a, NEW b, NEW c, NEW d, NEW e, NEW f, NEW g, NEW h, NEW i, NEW j
  PROVE  <<a, b, c, d, e, f>> \o <<g, h>> \o <<i, j>> = <<a, b, c, d, e, f, g, h, i, j>>
<1> DEFINE S == {a, b, c, d, e, f, g, h, i, j}
<1>1. <<a, b, c, d, e, f>> \o <<g, h>> = <<a, b, c, d, e, f, g, h>>
  <2>1. <<a, b, c, d, e, f>> \in Seq(S) /\ <<g, h>> \in Seq(S) /\ <<a, b, c, d, e, f, g, h>> \in Seq(S)
    OBVIOUS
  <2>2. Len(<<a, b, c, d, e, f>>) = 6 /\ Len(<<g, h>>) = 2 /\ Len(<<a, b, c, d, e, f, g, h>>) = 8
    OBVIOUS
  <2>3. \A k \in 1 .. 8 : <<a, b, c, d, e, f, g, h>>[k]
          = IF k <= 6 THEN <<a, b, c, d, e, f>>[k] ELSE <<g, h>>[k - 6]
    OBVIOUS
  <2>4. Len(<<a, b, c, d, e, f, g, h>>) = Len(<<a, b, c, d, e, f>>) + Len(<<g, h>>)
    BY <2>2
  <2>5. \A k \in 1 .. Len(<<a, b, c, d, e, f, g, h>>) : <<a, b, c, d, e, f, g, h>>[k]
          = IF k <= Len(<<a, b, c, d, e, f>>) THEN <<a, b, c, d, e, f>>[k] ELSE <<g, h>>[k - Len(<<a, b, c, d, e, f>>)]
    BY <2>2, <2>3
  <2> HIDE DEF S
  <2> QED
    BY <2>1, <2>4, <2>5, Joined
<1>2. <<a, b, c, d, e, f, g, h>> \o <<i, j>> = <<a, b, c, d, e, f, g, h, i, j>>
  <2>1. <<a, b, c, d, e, f, g, h>> \in Seq(S) /\ <<i, j>> \in Seq(S) /\ <<a, b, c, d, e, f, g, h, i, j>> \in Seq(S)
    OBVIOUS
  <2>2. Len(<<a, b, c, d, e, f, g, h>>) = 8 /\ Len(<<i, j>>) = 2 /\ Len(<<a, b, c, d, e, f, g, h, i, j>>) = 10
    OBVIOUS
  <2>3. \A k \in 1 .. 10 : <<a, b, c, d, e, f, g, h, i, j>>[k]
          = IF k <= 8 THEN <<a, b, c, d, e, f, g, h>>[k] ELSE <<i, j>>[k - 8]
    OBVIOUS
  <2>4. Len(<<a, b, c, d, e, f, g, h, i, j>>) = Len(<<a, b, c, d, e, f, g, h>>) + Len(<<i, j>>)
    BY <2>2
  <2>5. \A k \in 1 .. Len(<<a, b, c, d, e, f, g, h, i, j>>) : <<a, b, c, d, e, f, g, h, i, j>>[k]
          = IF k <= Len(<<a, b, c, d, e, f, g, h>>) THEN <<a, b, c, d, e, f, g, h>>[k] ELSE <<i, j>>[k - Len(<<a, b, c, d, e, f, g, h>>)]
    BY <2>2, <2>3
  <2> HIDE DEF S
  <2> QED
    BY <2>1, <2>4, <2>5, Joined
<1> QED
  BY <1>1, <1>2

\* The steps of unlink, put together.
LEMMA RemoveSteps ==
  ASSUME NEW a, NEW b, NEW c, NEW d, NEW e, NEW f, NEW g, NEW h, NEW i
  PROVE  <<a, b>> \o <<c, d, e>> \o <<f, g, h, i>> = <<a, b, c, d, e, f, g, h, i>>
<1> DEFINE S == {a, b, c, d, e, f, g, h, i}
<1>1. <<a, b>> \o <<c, d, e>> = <<a, b, c, d, e>>
  <2>1. <<a, b>> \in Seq(S) /\ <<c, d, e>> \in Seq(S) /\ <<a, b, c, d, e>> \in Seq(S)
    OBVIOUS
  <2>2. Len(<<a, b>>) = 2 /\ Len(<<c, d, e>>) = 3 /\ Len(<<a, b, c, d, e>>) = 5
    OBVIOUS
  <2>3. \A k \in 1 .. 5 : <<a, b, c, d, e>>[k]
          = IF k <= 2 THEN <<a, b>>[k] ELSE <<c, d, e>>[k - 2]
    OBVIOUS
  <2>4. Len(<<a, b, c, d, e>>) = Len(<<a, b>>) + Len(<<c, d, e>>)
    BY <2>2
  <2>5. \A k \in 1 .. Len(<<a, b, c, d, e>>) : <<a, b, c, d, e>>[k]
          = IF k <= Len(<<a, b>>) THEN <<a, b>>[k] ELSE <<c, d, e>>[k - Len(<<a, b>>)]
    BY <2>2, <2>3
  <2> HIDE DEF S
  <2> QED
    BY <2>1, <2>4, <2>5, Joined
<1>2. <<a, b, c, d, e>> \o <<f, g, h, i>> = <<a, b, c, d, e, f, g, h, i>>
  <2>1. <<a, b, c, d, e>> \in Seq(S) /\ <<f, g, h, i>> \in Seq(S) /\ <<a, b, c, d, e, f, g, h, i>> \in Seq(S)
    OBVIOUS
  <2>2. Len(<<a, b, c, d, e>>) = 5 /\ Len(<<f, g, h, i>>) = 4 /\ Len(<<a, b, c, d, e, f, g, h, i>>) = 9
    OBVIOUS
  <2>3. \A k \in 1 .. 9 : <<a, b, c, d, e, f, g, h, i>>[k]
          = IF k <= 5 THEN <<a, b, c, d, e>>[k] ELSE <<f, g, h, i>>[k - 5]
    OBVIOUS
  <2>4. Len(<<a, b, c, d, e, f, g, h, i>>) = Len(<<a, b, c, d, e>>) + Len(<<f, g, h, i>>)
    BY <2>2
  <2>5. \A k \in 1 .. Len(<<a, b, c, d, e, f, g, h, i>>) : <<a, b, c, d, e, f, g, h, i>>[k]
          = IF k <= Len(<<a, b, c, d, e>>) THEN <<a, b, c, d, e>>[k] ELSE <<f, g, h, i>>[k - Len(<<a, b, c, d, e>>)]
    BY <2>2, <2>3
  <2> HIDE DEF S
  <2> QED
    BY <2>1, <2>4, <2>5, Joined
<1> QED
  BY <1>1, <1>2

\* The handlers that only take a path and call the file system.
PathOps == {"access", "readlink", "read", "write", "fsync", "fsyncdir", "statfs", "setxattr", "getxattr",
            "listxattr", "removexattr", "bmap", "ioctl", "poll", "readdir"}

\* The programs, step by step.
LEMMA Programs ==
  ASSUME NEW op \in Ops
  PROVE  \/ op \in PathOps /\ fuse_path_ops[op] = <<"get", "touch", "free", "reply">>
         \/ op = "getattr" /\ fuse_path_ops[op] = <<"get", "touch", "free", "cache", "reply">>
         \/ op = "setattr" /\ fuse_path_ops[op] = <<"get", "touch", "touch", "free", "cache", "reply">>
         \/ op = "opendir" /\ fuse_path_ops[op] = <<"get", "touch", "reply", "free">>
         \/ op = "releasedir" /\ fuse_path_ops[op] = <<"getany", "touch", "free", "reply">>
         \/ op = "release" /\ fuse_path_ops[op]
              = <<"getany", "fs_unlock", "list_lock", "uncount", "unlink_hidden", "free", "reply">>
         \/ op = "open" /\ fuse_path_ops[op]
              = <<"get", "openfs", "count", "reply_open", "uncount", "unlink_hidden", "free">>
         \/ op = "create" /\ fuse_path_ops[op]
              = <<"getname", "make", "stat", "find", "count", "reply_open", "uncount", "unlink_hidden", "undo", "free">>
         \/ op \in {"lookup", "revalidate", "dot"} /\ fuse_path_ops[op]
              = <<"pin", "getname", "stat", "find", "free", "unpin", "reply_entry", "undo">>
         \/ op \in {"mknod", "mkdir", "symlink"} /\ fuse_path_ops[op]
              = <<"getname", "make", "stat", "find", "free", "reply_entry", "undo">>
         \/ op = "link" /\ fuse_path_ops[op]
              = <<"get2", "link", "stat2", "find", "free", "reply_entry", "undo">>
         \/ op = "unlink" /\ fuse_path_ops[op]
              = <<"getw", "is_open", "hide_name", "hide_rename", "hide_node", "unlink", "remove", "free", "reply">>
         \/ op = "rmdir" /\ fuse_path_ops[op] = <<"getw", "rmdir", "remove", "free", "reply">>
         \/ op = "rename" /\ fuse_path_ops[op]
              = <<"get2w", "is_open", "hide_name", "hide_rename", "hide_node", "rename", "rename_node", "free", "reply">>
         \/ op = "forget" /\ fuse_path_ops[op] = <<"forget">>
         \/ op = "flush" /\ fuse_path_ops[op] = <<"getany", "fs_unlock", "list_lock", "free", "reply">>
         \/ op \in {"setlk", "setlkw"} /\ fuse_path_ops[op] = <<"get", "fs_lock", "free", "list_lock", "reply">>
         \/ op = "getlk" /\ fuse_path_ops[op] = <<"list_conflict", "get", "fs_getlk", "free", "reply">>
<1>1. fuse_path_ops["release"]
      = <<"getany", "fs_unlock", "list_lock", "uncount", "unlink_hidden", "free", "reply">>
  <2>1. fuse_path_ops["release"] = <<"getany">> \o <<"fs_unlock", "list_lock">>
                                   \o <<"uncount", "unlink_hidden">> \o <<"free", "reply">>
    BY DEF fuse_path_ops, fuse_lib_release, flush_common, do_release
  <2> QED
    BY <2>1, ReleaseSteps
<1>2. fuse_path_ops["flush"] = <<"getany", "fs_unlock", "list_lock", "free", "reply">>
  <2>1. fuse_path_ops["flush"] = <<"getany">> \o <<"fs_unlock", "list_lock">> \o <<"free", "reply">>
    BY DEF fuse_path_ops, fuse_lib_flush, flush_common
  <2> QED
    BY <2>1, FlushSteps
<1>3. fuse_path_ops["open"] = <<"get", "openfs", "count", "reply_open", "uncount", "unlink_hidden", "free">>
  <2>1. fuse_path_ops["open"]
        = <<"get", "openfs", "count", "reply_open">> \o <<"uncount", "unlink_hidden">> \o <<"free">>
    BY DEF fuse_path_ops, fuse_lib_open, do_release
  <2> QED
    BY <2>1, OpenSteps
<1>4. fuse_path_ops["create"]
      = <<"getname", "make", "stat", "find", "count", "reply_open", "uncount", "unlink_hidden", "undo", "free">>
  <2>1. fuse_path_ops["create"] = <<"getname", "make", "stat", "find", "count", "reply_open">>
                                  \o <<"uncount", "unlink_hidden">> \o <<"undo", "free">>
    BY DEF fuse_path_ops, fuse_lib_create, do_release
  <2> QED
    BY <2>1, CreateSteps
<1>5. fuse_path_ops["unlink"]
      = <<"getw", "is_open", "hide_name", "hide_rename", "hide_node", "unlink", "remove", "free", "reply">>
  <2>1. fuse_path_ops["unlink"] = <<"getw", "is_open">> \o <<"hide_name", "hide_rename", "hide_node">>
                                  \o <<"unlink", "remove", "free", "reply">>
    BY DEF fuse_path_ops, fuse_lib_unlink, hide_node
  <2> QED
    BY <2>1, RemoveSteps
<1>6. fuse_path_ops["rename"]
      = <<"get2w", "is_open", "hide_name", "hide_rename", "hide_node", "rename", "rename_node", "free", "reply">>
  <2>1. fuse_path_ops["rename"] = <<"get2w", "is_open">> \o <<"hide_name", "hide_rename", "hide_node">>
                                  \o <<"rename", "rename_node", "free", "reply">>
    BY DEF fuse_path_ops, fuse_lib_rename, hide_node
  <2> QED
    BY <2>1, RemoveSteps
<1>7. op \in PathOps => fuse_path_ops[op] = <<"get", "touch", "free", "reply">>
  BY DEF PathOps, fuse_path_ops, PathCall, fuse_lib_access, fuse_lib_readlink, fuse_lib_read, fuse_lib_write,
         fuse_lib_fsync, fuse_lib_fsyncdir, fuse_lib_statfs, fuse_lib_setxattr, common_getxattr,
         common_listxattr, fuse_lib_removexattr, fuse_lib_bmap, fuse_lib_ioctl, fuse_lib_poll, readdir_fill
<1>8. op \in {"mknod", "mkdir", "symlink"} =>
        fuse_path_ops[op] = <<"getname", "make", "stat", "find", "free", "reply_entry", "undo">>
  BY DEF fuse_path_ops, Making, fuse_lib_mknod, fuse_lib_mkdir, fuse_lib_symlink
<1>9. op \in {"lookup", "revalidate", "dot"} => fuse_path_ops[op]
              = <<"pin", "getname", "stat", "find", "free", "unpin", "reply_entry", "undo">>
  BY DEF fuse_path_ops, fuse_lib_lookup
<1>10. op \in {"setlk", "setlkw"} => fuse_path_ops[op] = <<"get", "fs_lock", "free", "list_lock", "reply">>
  BY DEF fuse_path_ops, fuse_lib_setlk
<1>11. /\ fuse_path_ops["getattr"] = <<"get", "touch", "free", "cache", "reply">>
       /\ fuse_path_ops["setattr"] = <<"get", "touch", "touch", "free", "cache", "reply">>
       /\ fuse_path_ops["opendir"] = <<"get", "touch", "reply", "free">>
       /\ fuse_path_ops["releasedir"] = <<"getany", "touch", "free", "reply">>
  BY DEF fuse_path_ops, fuse_lib_getattr, fuse_lib_setattr, fuse_lib_opendir, fuse_lib_releasedir
<1>12. /\ fuse_path_ops["link"] = <<"get2", "link", "stat2", "find", "free", "reply_entry", "undo">>
       /\ fuse_path_ops["rmdir"] = <<"getw", "rmdir", "remove", "free", "reply">>
       /\ fuse_path_ops["forget"] = <<"forget">>
       /\ fuse_path_ops["getlk"] = <<"list_conflict", "get", "fs_getlk", "free", "reply">>
  BY DEF fuse_path_ops, fuse_lib_link, fuse_lib_rmdir, fuse_lib_forget, fuse_lib_getlk
<1>13. op \in PathOps \cup {"getattr", "setattr", "opendir", "releasedir", "release", "open", "create", "lookup",
               "revalidate", "dot", "mknod", "mkdir", "symlink", "link", "unlink", "rmdir", "rename", "forget",
               "flush", "setlk", "setlkw", "getlk"}
  BY DEF Ops, fuse_path_ops, PathOps
<1> QED
  BY <1>1, <1>2, <1>3, <1>4, <1>5, <1>6, <1>7, <1>8, <1>9, <1>10, <1>11, <1>12, <1>13

\* Step t comes at place k of op's program or after it.
Later(op, k, t) == \E j \in DOMAIN fuse_path_ops[op] : j >= k /\ fuse_path_ops[op][j] = t

\* Steps that may set an error.
Spoils == Gets \cup {"pin", "touch", "stat", "stat2", "openfs", "make", "link", "unlink", "rmdir", "rename",
                     "hide_name", "hide_rename", "hide_node", "rename_node", "fs_lock", "fs_unlock"}

\* What a handler may have to do after its answer.
Ends == {"uncount", "unlink_hidden", "undo", "free"}

\* The order of the steps in a program, seen from place k with step s.
Ordered(op, k, s) ==
  /\ s # "touch" => ~Later(op, k + 1, s)
  /\ s \in Gets => \A g \in Gets : ~Later(op, k + 1, g)
  /\ (\E g \in Gets : Later(op, k, g)) => Later(op, k + 1, "free")
  /\ s \in {"touch", "stat", "stat2", "openfs", "make", "link", "unlink", "rmdir", "rename", "hide_name", "hide_rename",
            "hide_node", "rename_node", "fs_unlock", "find", "count", "uncount", "remove", "is_open",
            "unlink_hidden", "fs_getlk", "fs_lock"}
       => Later(op, k + 1, "free") /\ \A g \in Gets : ~Later(op, k, g)
  /\ s = "free" => \A g \in Gets : ~Later(op, k, g)
  /\ s \in Replies =>
       \A t : Later(op, k + 1, t) => t \in Ends /\ (t = "uncount" => op \in {"open", "create"})
                                     /\ (t = "undo" => op \in Finders)
  /\ s \in Replies => ~Later(op, k, "find") /\ ~Later(op, k, "count") /\ ~Later(op, k, "pin") /\ ~Later(op, k, "unpin")
                      /\ (\A g \in Gets : ~Later(op, k, g)) /\ op # "forget"
  /\ (\E u \in Spoils : Later(op, k, u)) => (\E t \in Replies : Later(op, k + 1, t)) /\ (op \in Finders => Later(op, k + 1, "find"))
  /\ op \in Finders => ~Later(op, k, "reply")
  /\ s = "find" => op \in Finders /\ (Later(op, k + 1, "reply_entry") \/ Later(op, k + 1, "reply_open"))
  /\ Later(op, k, "find") => op \in Finders
  /\ s = "pin" => op \in {"lookup", "revalidate", "dot"} /\ Later(op, k + 1, "unpin") /\ Later(op, k + 1, "getname")
  /\ op = "dot" => s \notin {"get", "getany", "getw", "get2", "get2w", "count", "uncount"}
  /\ op = "dot" /\ s = "getname" => Later(op, k + 1, "unpin") /\ ~Later(op, k, "pin")
  /\ op = "dot" /\ s = "find" => Later(op, k + 1, "unpin") /\ ~Later(op, k, "pin")
  /\ s = "unpin" => ~Later(op, k, "pin") /\ op \in {"lookup", "revalidate", "dot"}
  /\ s = "reply_open" => op \in {"open", "create"} /\ Later(op, k + 1, "uncount") /\ (op = "create" => Later(op, k + 1, "undo"))
  /\ s = "reply_entry" => op \in Finders /\ Later(op, k + 1, "undo")
  /\ s = "undo" => op \in Finders
  /\ s = "forget" <=> op = "forget"
  /\ s \in {"getw", "rmdir", "unlink", "remove"} => op \in {"unlink", "rmdir"}
  /\ op \in {"unlink", "rmdir"} /\ s \in Gets => s = "getw" /\ Later(op, k + 1, "remove")
  /\ s = "remove" => \E t \in Replies : Later(op, k + 1, t)
  /\ s \in {"get2w", "rename", "rename_node"} => op = "rename"
  /\ op = "rename" /\ s \in Gets => s = "get2w"
  /\ op = "link" /\ s \in Gets => s = "get2"
  /\ s \in Gets /\ op \notin {"rename", "link", "unlink", "rmdir"} => s \in {"get", "getany", "getname"}
  /\ s = "getany" => op \in {"release", "releasedir", "flush"}
  /\ s \in {"is_open", "hide_name", "hide_rename", "hide_node"} =>
       op \in {"unlink", "rename"} /\ (s # "hide_node" => Later(op, k + 1, "hide_node"))
  /\ Later(op, k, "hide_node") => Later(op, k, "remove") \/ Later(op, k, "rename_node")
  /\ s \in {"hide_node", "hide_name", "hide_rename", "is_open"} =>
       IF op = "unlink" THEN Later(op, k + 1, "remove") /\ Later(op, k + 1, "unlink") ELSE Later(op, k + 1, "rename_node")
  /\ Later(op, k, "remove") => op \in {"unlink", "rmdir"} /\ (\E t \in Replies : Later(op, k, t))
  /\ Later(op, k, "rename_node") => op = "rename" /\ (\E t \in Replies : Later(op, k, t))
  /\ s \in {"count", "openfs"} => op \in {"open", "create"}
  /\ s = "count" => Later(op, k + 1, "uncount") /\ Later(op, k + 1, "reply_open") /\ ~Later(op, k, "find")
  /\ s = "uncount" => op \in {"open", "create", "release"} /\ ~Later(op, k, "count")
  /\ op = "release" /\ Later(op, k, "uncount") => \E t \in Replies : Later(op, k, t)
  /\ Later(op, k, "count") => Later(op, k, "reply_open") /\ Later(op, k, "uncount")
  /\ Later(op, k, "uncount") /\ op \in {"open", "create"} => Later(op, k, "free")
  /\ s \in {"cache", "list_lock", "list_conflict"} => (\E t \in Replies : Later(op, k + 1, t)) /\ op # "dot"
  /\ s = "list_conflict" => Later(op, k + 1, "get") /\ op = "getlk"
  /\ s = "find" => Later(op, k + 1, "free")
  /\ s = "unlink_hidden" => op \in {"open", "create", "release"}
  /\ Later(op, k, "find") => \E t \in Replies : Later(op, k, t)
  /\ Later(op, k + 1, "get") => op = "getlk"
  /\ op \in {"open", "create"} /\ (\E u \in Spoils : Later(op, k, u)) => Later(op, k + 1, "count")
  /\ op = "create" /\ Later(op, k, "find") => Later(op, k + 1, "count")
  /\ op = "create" /\ Later(op, k, "uncount") => Later(op, k, "undo")
  /\ s = "undo" => ~Later(op, k, "uncount")
  /\ s = "reply_entry" => op \notin {"open", "create"}
  /\ s = "is_open" => Later(op, k + 1, "hide_name")
  /\ s = "hide_node" => ~Later(op, k, "hide_name")

\* The order of the steps of the handlers that only take a path.
LEMMA OrderPath ==
  ASSUME NEW op, op \in PathOps, NEW k \in DOMAIN fuse_path_ops[op],
         fuse_path_ops[op] = <<"get", "touch", "free", "reply">>
  PROVE  Ordered(op, k, fuse_path_ops[op][k])
<1> DEFINE s == fuse_path_ops[op][k]
<1>1. k \in 1 .. 4
  OBVIOUS
<1>2. \A i, t : Later(op, i, t) <=>
       (i <= 1 /\ t = "get") \/ (i <= 2 /\ t = "touch") \/ (i <= 3 /\ t = "free")
       \/ (i <= 4 /\ t = "reply")
  BY DEF Later
<1>3. (k = 1 /\ s = "get") \/ (k = 2 /\ s = "touch") \/ (k = 3 /\ s = "free")
      \/ (k = 4 /\ s = "reply")
  BY <1>1
<1> HIDE DEF s
<1> QED
  BY <1>2, <1>3, SMTT(60) DEF Ordered, Replies, Gets, Spoils, Ends, Finders, s, PathOps

\* The order of the steps of getattr.
LEMMA OrderGetattr ==
  ASSUME NEW op, op = "getattr", NEW k \in DOMAIN fuse_path_ops[op],
         fuse_path_ops[op] = <<"get", "touch", "free", "cache", "reply">>
  PROVE  Ordered(op, k, fuse_path_ops[op][k])
<1> DEFINE s == fuse_path_ops[op][k]
<1>1. k \in 1 .. 5
  OBVIOUS
<1>2. \A i, t : Later(op, i, t) <=>
       (i <= 1 /\ t = "get") \/ (i <= 2 /\ t = "touch") \/ (i <= 3 /\ t = "free")
       \/ (i <= 4 /\ t = "cache") \/ (i <= 5 /\ t = "reply")
  BY DEF Later
<1>3. (k = 1 /\ s = "get") \/ (k = 2 /\ s = "touch") \/ (k = 3 /\ s = "free")
      \/ (k = 4 /\ s = "cache") \/ (k = 5 /\ s = "reply")
  BY <1>1
<1> HIDE DEF s
<1> QED
  BY <1>2, <1>3, SMTT(60) DEF Ordered, Replies, Gets, Spoils, Ends, Finders, s

\* The order of the steps of setattr.
LEMMA OrderSetattr ==
  ASSUME NEW op, op = "setattr", NEW k \in DOMAIN fuse_path_ops[op],
         fuse_path_ops[op] = <<"get", "touch", "touch", "free", "cache", "reply">>
  PROVE  Ordered(op, k, fuse_path_ops[op][k])
<1> DEFINE s == fuse_path_ops[op][k]
<1>1. k \in 1 .. 6
  OBVIOUS
<1>2. \A i, t : Later(op, i, t) <=>
       (i <= 1 /\ t = "get") \/ (i <= 2 /\ t = "touch") \/ (i <= 3 /\ t = "touch")
       \/ (i <= 4 /\ t = "free") \/ (i <= 5 /\ t = "cache") \/ (i <= 6 /\ t = "reply")
  BY DEF Later
<1>3. (k = 1 /\ s = "get") \/ (k = 2 /\ s = "touch") \/ (k = 3 /\ s = "touch")
      \/ (k = 4 /\ s = "free") \/ (k = 5 /\ s = "cache") \/ (k = 6 /\ s = "reply")
  BY <1>1
<1> HIDE DEF s
<1> QED
  BY <1>2, <1>3, SMTT(60) DEF Ordered, Replies, Gets, Spoils, Ends, Finders, s

\* The order of the steps of opendir.
LEMMA OrderOpendir ==
  ASSUME NEW op, op = "opendir", NEW k \in DOMAIN fuse_path_ops[op],
         fuse_path_ops[op] = <<"get", "touch", "reply", "free">>
  PROVE  Ordered(op, k, fuse_path_ops[op][k])
<1> DEFINE s == fuse_path_ops[op][k]
<1>1. k \in 1 .. 4
  OBVIOUS
<1>2. \A i, t : Later(op, i, t) <=>
       (i <= 1 /\ t = "get") \/ (i <= 2 /\ t = "touch") \/ (i <= 3 /\ t = "reply")
       \/ (i <= 4 /\ t = "free")
  BY DEF Later
<1>3. (k = 1 /\ s = "get") \/ (k = 2 /\ s = "touch") \/ (k = 3 /\ s = "reply")
      \/ (k = 4 /\ s = "free")
  BY <1>1
<1> HIDE DEF s
<1> QED
  BY <1>2, <1>3, SMTT(60) DEF Ordered, Replies, Gets, Spoils, Ends, Finders, s

\* The order of the steps of releasedir.
LEMMA OrderReleasedir ==
  ASSUME NEW op, op = "releasedir", NEW k \in DOMAIN fuse_path_ops[op],
         fuse_path_ops[op] = <<"getany", "touch", "free", "reply">>
  PROVE  Ordered(op, k, fuse_path_ops[op][k])
<1> DEFINE s == fuse_path_ops[op][k]
<1>1. k \in 1 .. 4
  OBVIOUS
<1>2. \A i, t : Later(op, i, t) <=>
       (i <= 1 /\ t = "getany") \/ (i <= 2 /\ t = "touch") \/ (i <= 3 /\ t = "free")
       \/ (i <= 4 /\ t = "reply")
  BY DEF Later
<1>3. (k = 1 /\ s = "getany") \/ (k = 2 /\ s = "touch") \/ (k = 3 /\ s = "free")
      \/ (k = 4 /\ s = "reply")
  BY <1>1
<1> HIDE DEF s
<1> QED
  BY <1>2, <1>3, SMTT(60) DEF Ordered, Replies, Gets, Spoils, Ends, Finders, s

\* The order of the steps of release.
LEMMA OrderRelease ==
  ASSUME NEW op, op = "release", NEW k \in DOMAIN fuse_path_ops[op],
         fuse_path_ops[op] = <<"getany", "fs_unlock", "list_lock", "uncount", "unlink_hidden", "free", "reply">>
  PROVE  Ordered(op, k, fuse_path_ops[op][k])
<1> DEFINE s == fuse_path_ops[op][k]
<1>1. k \in 1 .. 7
  OBVIOUS
<1>2. \A i, t : Later(op, i, t) <=>
       (i <= 1 /\ t = "getany") \/ (i <= 2 /\ t = "fs_unlock") \/ (i <= 3 /\ t = "list_lock")
       \/ (i <= 4 /\ t = "uncount") \/ (i <= 5 /\ t = "unlink_hidden")
       \/ (i <= 6 /\ t = "free") \/ (i <= 7 /\ t = "reply")
  BY DEF Later
<1>3. (k = 1 /\ s = "getany") \/ (k = 2 /\ s = "fs_unlock") \/ (k = 3 /\ s = "list_lock")
      \/ (k = 4 /\ s = "uncount") \/ (k = 5 /\ s = "unlink_hidden")
      \/ (k = 6 /\ s = "free") \/ (k = 7 /\ s = "reply")
  BY <1>1
<1> HIDE DEF s
<1> QED
  BY <1>2, <1>3, SMTT(60) DEF Ordered, Replies, Gets, Spoils, Ends, Finders, s

\* The order of the steps of open.
LEMMA OrderOpen ==
  ASSUME NEW op, op = "open", NEW k \in DOMAIN fuse_path_ops[op],
         fuse_path_ops[op] = <<"get", "openfs", "count", "reply_open", "uncount", "unlink_hidden"
                             , "free">>
  PROVE  Ordered(op, k, fuse_path_ops[op][k])
<1> DEFINE s == fuse_path_ops[op][k]
<1>1. k \in 1 .. 7
  OBVIOUS
<1>2. \A i, t : Later(op, i, t) <=>
       (i <= 1 /\ t = "get") \/ (i <= 2 /\ t = "openfs") \/ (i <= 3 /\ t = "count")
       \/ (i <= 4 /\ t = "reply_open") \/ (i <= 5 /\ t = "uncount")
       \/ (i <= 6 /\ t = "unlink_hidden") \/ (i <= 7 /\ t = "free")
  BY DEF Later
<1>3. (k = 1 /\ s = "get") \/ (k = 2 /\ s = "openfs") \/ (k = 3 /\ s = "count")
      \/ (k = 4 /\ s = "reply_open") \/ (k = 5 /\ s = "uncount") \/ (k = 6 /\ s = "unlink_hidden")
      \/ (k = 7 /\ s = "free")
  BY <1>1
<1> HIDE DEF s
<1> QED
  BY <1>2, <1>3, SMTT(60) DEF Ordered, Replies, Gets, Spoils, Ends, Finders, s

\* The order of the steps of create.
LEMMA OrderCreate ==
  ASSUME NEW op, op = "create", NEW k \in DOMAIN fuse_path_ops[op],
         fuse_path_ops[op] = <<"getname", "make", "stat", "find", "count", "reply_open", "uncount"
                             , "unlink_hidden", "undo", "free">>
  PROVE  Ordered(op, k, fuse_path_ops[op][k])
<1> DEFINE s == fuse_path_ops[op][k]
<1>1. k \in 1 .. 10
  OBVIOUS
<1>2. \A i, t : Later(op, i, t) <=>
       (i <= 1 /\ t = "getname") \/ (i <= 2 /\ t = "make") \/ (i <= 3 /\ t = "stat")
       \/ (i <= 4 /\ t = "find") \/ (i <= 5 /\ t = "count") \/ (i <= 6 /\ t = "reply_open")
       \/ (i <= 7 /\ t = "uncount") \/ (i <= 8 /\ t = "unlink_hidden") \/ (i <= 9 /\ t = "undo")
       \/ (i <= 10 /\ t = "free")
  BY DEF Later
<1>3. (k = 1 /\ s = "getname") \/ (k = 2 /\ s = "make") \/ (k = 3 /\ s = "stat")
      \/ (k = 4 /\ s = "find") \/ (k = 5 /\ s = "count") \/ (k = 6 /\ s = "reply_open")
      \/ (k = 7 /\ s = "uncount") \/ (k = 8 /\ s = "unlink_hidden") \/ (k = 9 /\ s = "undo")
      \/ (k = 10 /\ s = "free")
  BY <1>1
<1> HIDE DEF s
<1> QED
  BY <1>2, <1>3, SMTT(60) DEF Ordered, Replies, Gets, Spoils, Ends, Finders, s

\* The order of the steps of a lookup, of any kind.
LEMMA OrderLookup ==
  ASSUME NEW op, op \in {"lookup", "revalidate", "dot"}, NEW k \in DOMAIN fuse_path_ops[op],
         fuse_path_ops[op] = <<"pin", "getname", "stat", "find", "free", "unpin", "reply_entry"
                             , "undo">>
  PROVE  Ordered(op, k, fuse_path_ops[op][k])
<1> DEFINE s == fuse_path_ops[op][k]
<1>1. k \in 1 .. 8
  OBVIOUS
<1>2. \A i, t : Later(op, i, t) <=>
       (i <= 1 /\ t = "pin") \/ (i <= 2 /\ t = "getname") \/ (i <= 3 /\ t = "stat")
       \/ (i <= 4 /\ t = "find") \/ (i <= 5 /\ t = "free") \/ (i <= 6 /\ t = "unpin")
       \/ (i <= 7 /\ t = "reply_entry") \/ (i <= 8 /\ t = "undo")
  BY DEF Later
<1>3. (k = 1 /\ s = "pin") \/ (k = 2 /\ s = "getname") \/ (k = 3 /\ s = "stat")
      \/ (k = 4 /\ s = "find") \/ (k = 5 /\ s = "free") \/ (k = 6 /\ s = "unpin")
      \/ (k = 7 /\ s = "reply_entry") \/ (k = 8 /\ s = "undo")
  BY <1>1
<1> HIDE DEF s
<1> QED
  BY <1>2, <1>3, SMTT(60) DEF Ordered, Replies, Gets, Spoils, Ends, Finders, s

\* The order of the steps of mknod, mkdir and symlink.
LEMMA OrderMaking ==
  ASSUME NEW op, op \in {"mknod", "mkdir", "symlink"}, NEW k \in DOMAIN fuse_path_ops[op],
         fuse_path_ops[op] = <<"getname", "make", "stat", "find", "free", "reply_entry", "undo">>
  PROVE  Ordered(op, k, fuse_path_ops[op][k])
<1> DEFINE s == fuse_path_ops[op][k]
<1>1. k \in 1 .. 7
  OBVIOUS
<1>2. \A i, t : Later(op, i, t) <=>
       (i <= 1 /\ t = "getname") \/ (i <= 2 /\ t = "make") \/ (i <= 3 /\ t = "stat")
       \/ (i <= 4 /\ t = "find") \/ (i <= 5 /\ t = "free") \/ (i <= 6 /\ t = "reply_entry")
       \/ (i <= 7 /\ t = "undo")
  BY DEF Later
<1>3. (k = 1 /\ s = "getname") \/ (k = 2 /\ s = "make") \/ (k = 3 /\ s = "stat")
      \/ (k = 4 /\ s = "find") \/ (k = 5 /\ s = "free") \/ (k = 6 /\ s = "reply_entry")
      \/ (k = 7 /\ s = "undo")
  BY <1>1
<1> HIDE DEF s
<1> QED
  BY <1>2, <1>3, SMTT(60) DEF Ordered, Replies, Gets, Spoils, Ends, Finders, s

\* The order of the steps of link.
LEMMA OrderLink ==
  ASSUME NEW op, op = "link", NEW k \in DOMAIN fuse_path_ops[op],
         fuse_path_ops[op] = <<"get2", "link", "stat2", "find", "free", "reply_entry", "undo">>
  PROVE  Ordered(op, k, fuse_path_ops[op][k])
<1> DEFINE s == fuse_path_ops[op][k]
<1>1. k \in 1 .. 7
  OBVIOUS
<1>2. \A i, t : Later(op, i, t) <=>
       (i <= 1 /\ t = "get2") \/ (i <= 2 /\ t = "link") \/ (i <= 3 /\ t = "stat2")
       \/ (i <= 4 /\ t = "find") \/ (i <= 5 /\ t = "free") \/ (i <= 6 /\ t = "reply_entry")
       \/ (i <= 7 /\ t = "undo")
  BY DEF Later
<1>3. (k = 1 /\ s = "get2") \/ (k = 2 /\ s = "link") \/ (k = 3 /\ s = "stat2")
      \/ (k = 4 /\ s = "find") \/ (k = 5 /\ s = "free") \/ (k = 6 /\ s = "reply_entry")
      \/ (k = 7 /\ s = "undo")
  BY <1>1
<1> HIDE DEF s
<1> QED
  BY <1>2, <1>3, SMTT(60) DEF Ordered, Replies, Gets, Spoils, Ends, Finders, s

\* The order of the steps of unlink.
LEMMA OrderUnlink ==
  ASSUME NEW op, op = "unlink", NEW k \in DOMAIN fuse_path_ops[op],
         fuse_path_ops[op] = <<"getw", "is_open", "hide_name", "hide_rename", "hide_node", "unlink"
                             , "remove", "free", "reply">>
  PROVE  Ordered(op, k, fuse_path_ops[op][k])
<1> DEFINE s == fuse_path_ops[op][k]
<1>1. k \in 1 .. 9
  OBVIOUS
<1>2. \A i, t : Later(op, i, t) <=>
       (i <= 1 /\ t = "getw") \/ (i <= 2 /\ t = "is_open") \/ (i <= 3 /\ t = "hide_name")
       \/ (i <= 4 /\ t = "hide_rename") \/ (i <= 5 /\ t = "hide_node") \/ (i <= 6 /\ t = "unlink")
       \/ (i <= 7 /\ t = "remove") \/ (i <= 8 /\ t = "free") \/ (i <= 9 /\ t = "reply")
  BY DEF Later
<1>3. (k = 1 /\ s = "getw") \/ (k = 2 /\ s = "is_open") \/ (k = 3 /\ s = "hide_name")
      \/ (k = 4 /\ s = "hide_rename") \/ (k = 5 /\ s = "hide_node") \/ (k = 6 /\ s = "unlink")
      \/ (k = 7 /\ s = "remove") \/ (k = 8 /\ s = "free") \/ (k = 9 /\ s = "reply")
  BY <1>1
<1> HIDE DEF s
<1> QED
  BY <1>2, <1>3, SMTT(60) DEF Ordered, Replies, Gets, Spoils, Ends, Finders, s

\* The order of the steps of rmdir.
LEMMA OrderRmdir ==
  ASSUME NEW op, op = "rmdir", NEW k \in DOMAIN fuse_path_ops[op],
         fuse_path_ops[op] = <<"getw", "rmdir", "remove", "free", "reply">>
  PROVE  Ordered(op, k, fuse_path_ops[op][k])
<1> DEFINE s == fuse_path_ops[op][k]
<1>1. k \in 1 .. 5
  OBVIOUS
<1>2. \A i, t : Later(op, i, t) <=>
       (i <= 1 /\ t = "getw") \/ (i <= 2 /\ t = "rmdir") \/ (i <= 3 /\ t = "remove")
       \/ (i <= 4 /\ t = "free") \/ (i <= 5 /\ t = "reply")
  BY DEF Later
<1>3. (k = 1 /\ s = "getw") \/ (k = 2 /\ s = "rmdir") \/ (k = 3 /\ s = "remove")
      \/ (k = 4 /\ s = "free") \/ (k = 5 /\ s = "reply")
  BY <1>1
<1> HIDE DEF s
<1> QED
  BY <1>2, <1>3, SMTT(60) DEF Ordered, Replies, Gets, Spoils, Ends, Finders, s

\* The order of the steps of rename.
LEMMA OrderRename ==
  ASSUME NEW op, op = "rename", NEW k \in DOMAIN fuse_path_ops[op],
         fuse_path_ops[op] = <<"get2w", "is_open", "hide_name", "hide_rename", "hide_node", "rename"
                             , "rename_node", "free", "reply">>
  PROVE  Ordered(op, k, fuse_path_ops[op][k])
<1> DEFINE s == fuse_path_ops[op][k]
<1>1. k \in 1 .. 9
  OBVIOUS
<1>2. \A i, t : Later(op, i, t) <=>
       (i <= 1 /\ t = "get2w") \/ (i <= 2 /\ t = "is_open") \/ (i <= 3 /\ t = "hide_name")
       \/ (i <= 4 /\ t = "hide_rename") \/ (i <= 5 /\ t = "hide_node") \/ (i <= 6 /\ t = "rename")
       \/ (i <= 7 /\ t = "rename_node") \/ (i <= 8 /\ t = "free") \/ (i <= 9 /\ t = "reply")
  BY DEF Later
<1>3. (k = 1 /\ s = "get2w") \/ (k = 2 /\ s = "is_open") \/ (k = 3 /\ s = "hide_name")
      \/ (k = 4 /\ s = "hide_rename") \/ (k = 5 /\ s = "hide_node") \/ (k = 6 /\ s = "rename")
      \/ (k = 7 /\ s = "rename_node") \/ (k = 8 /\ s = "free") \/ (k = 9 /\ s = "reply")
  BY <1>1
<1> HIDE DEF s
<1> QED
  BY <1>2, <1>3, SMTT(60) DEF Ordered, Replies, Gets, Spoils, Ends, Finders, s

\* The order of the steps of forget.
LEMMA OrderForget ==
  ASSUME NEW op, op = "forget", NEW k \in DOMAIN fuse_path_ops[op],
         fuse_path_ops[op] = <<"forget">>
  PROVE  Ordered(op, k, fuse_path_ops[op][k])
<1> DEFINE s == fuse_path_ops[op][k]
<1>1. k \in 1 .. 1
  OBVIOUS
<1>2. \A i, t : Later(op, i, t) <=>
       (i <= 1 /\ t = "forget")
  BY DEF Later
<1>3. (k = 1 /\ s = "forget")
  BY <1>1
<1> HIDE DEF s
<1> QED
  BY <1>2, <1>3, SMTT(60) DEF Ordered, Replies, Gets, Spoils, Ends, Finders, s

\* The order of the steps of flush.
LEMMA OrderFlush ==
  ASSUME NEW op, op = "flush", NEW k \in DOMAIN fuse_path_ops[op],
         fuse_path_ops[op] = <<"getany", "fs_unlock", "list_lock", "free", "reply">>
  PROVE  Ordered(op, k, fuse_path_ops[op][k])
<1> DEFINE s == fuse_path_ops[op][k]
<1>1. k \in 1 .. 5
  OBVIOUS
<1>2. \A i, t : Later(op, i, t) <=>
       (i <= 1 /\ t = "getany") \/ (i <= 2 /\ t = "fs_unlock") \/ (i <= 3 /\ t = "list_lock")
       \/ (i <= 4 /\ t = "free") \/ (i <= 5 /\ t = "reply")
  BY DEF Later
<1>3. (k = 1 /\ s = "getany") \/ (k = 2 /\ s = "fs_unlock") \/ (k = 3 /\ s = "list_lock")
      \/ (k = 4 /\ s = "free") \/ (k = 5 /\ s = "reply")
  BY <1>1
<1> HIDE DEF s
<1> QED
  BY <1>2, <1>3, SMTT(60) DEF Ordered, Replies, Gets, Spoils, Ends, Finders, s

\* The order of the steps of setlk and setlkw.
LEMMA OrderSetlk ==
  ASSUME NEW op, op \in {"setlk", "setlkw"}, NEW k \in DOMAIN fuse_path_ops[op],
         fuse_path_ops[op] = <<"get", "fs_lock", "free", "list_lock", "reply">>
  PROVE  Ordered(op, k, fuse_path_ops[op][k])
<1> DEFINE s == fuse_path_ops[op][k]
<1>1. k \in 1 .. 5
  OBVIOUS
<1>2. \A i, t : Later(op, i, t) <=>
       (i <= 1 /\ t = "get") \/ (i <= 2 /\ t = "fs_lock") \/ (i <= 3 /\ t = "free")
       \/ (i <= 4 /\ t = "list_lock") \/ (i <= 5 /\ t = "reply")
  BY DEF Later
<1>3. (k = 1 /\ s = "get") \/ (k = 2 /\ s = "fs_lock") \/ (k = 3 /\ s = "free")
      \/ (k = 4 /\ s = "list_lock") \/ (k = 5 /\ s = "reply")
  BY <1>1
<1> HIDE DEF s
<1> QED
  BY <1>2, <1>3, SMTT(60) DEF Ordered, Replies, Gets, Spoils, Ends, Finders, s

\* The order of the steps of getlk.
LEMMA OrderGetlk ==
  ASSUME NEW op, op = "getlk", NEW k \in DOMAIN fuse_path_ops[op],
         fuse_path_ops[op] = <<"list_conflict", "get", "fs_getlk", "free", "reply">>
  PROVE  Ordered(op, k, fuse_path_ops[op][k])
<1> DEFINE s == fuse_path_ops[op][k]
<1>1. k \in 1 .. 5
  OBVIOUS
<1>2. \A i, t : Later(op, i, t) <=>
       (i <= 1 /\ t = "list_conflict") \/ (i <= 2 /\ t = "get") \/ (i <= 3 /\ t = "fs_getlk")
       \/ (i <= 4 /\ t = "free") \/ (i <= 5 /\ t = "reply")
  BY DEF Later
<1>3. (k = 1 /\ s = "list_conflict") \/ (k = 2 /\ s = "get") \/ (k = 3 /\ s = "fs_getlk")
      \/ (k = 4 /\ s = "free") \/ (k = 5 /\ s = "reply")
  BY <1>1
<1> HIDE DEF s
<1> QED
  BY <1>2, <1>3, SMTT(60) DEF Ordered, Replies, Gets, Spoils, Ends, Finders, s

\* Every step of every handler is in order.
LEMMA OrderOf ==
  ASSUME NEW op \in Ops, NEW k \in DOMAIN fuse_path_ops[op]
  PROVE  Ordered(op, k, fuse_path_ops[op][k])
BY Programs, OrderPath, OrderGetattr, OrderSetattr, OrderOpendir, OrderReleasedir, OrderRelease, OrderOpen
   , OrderCreate, OrderLookup, OrderMaking, OrderLink, OrderUnlink, OrderRmdir, OrderRename
   , OrderForget, OrderFlush, OrderSetlk, OrderGetlk

(***************************************************************************)
(* Where requests are in their programs.                                   *)
(***************************************************************************)

\* The handler that serves a request.
Op(r) == Req(r).op

\* Steps with a rule of their own in Applies.
Special == Replies \cup {"free", "pin", "unpin", "uncount", "undo", "unlink_hidden", "hide_name", "hide_rename",
                         "hide_node", "unlink", "remove", "get", "fs_getlk", "fs_unlock", "list_lock"}

\* When a step is taken and when it is skipped, spelled out.
LEMMA AppliesIs ==
  ASSUME NEW r, NEW l
  PROVE  /\ Applies(r, "free", l) = l.locked
         /\ \A t \in Replies : Applies(r, t, l) = TRUE
         /\ Applies(r, "pin", l) = (Op(r) = "dot")
         /\ Applies(r, "unpin", l) = l.pinned
         /\ Applies(r, "uncount", l) = (Op(r) = "release" \/ l.intr)
         /\ Applies(r, "undo", l) = l.intr
         /\ \A t \in {"hide_name", "hide_rename", "hide_node"} : Applies(r, t, l) = (l.err = "ok" /\ l.hide)
         /\ \A t \in {"unlink", "remove"} : Applies(r, t, l) = (l.err = "ok" /\ ~l.hide)
         /\ \A t \in {"get", "fs_getlk"} : Applies(r, t, l) = (l.err = "ok" /\ ~l.hide)
         /\ \A t \in {"fs_unlock", "list_lock"} :
              Applies(r, t, l) = (l.err = "ok" /\ (Op(r) = "release" => Req(r).flush))
         /\ \A t : t \notin Special => Applies(r, t, l) = (l.err = "ok")
<1>1. Applies(r, "free", l) = l.locked /\ Applies(r, "pin", l) = (Op(r) = "dot") /\ Applies(r, "unpin", l) = l.pinned
  BY DEF Applies, Op
<1>2. Applies(r, "uncount", l) = (Op(r) = "release" \/ l.intr) /\ Applies(r, "undo", l) = l.intr
  BY DEF Applies, Op
<1>3. \A t \in Replies : Applies(r, t, l) = TRUE
  BY DEF Applies, Replies
<1>4. \A t \in {"hide_name", "hide_rename", "hide_node"} : Applies(r, t, l) = (l.err = "ok" /\ l.hide)
  BY DEF Applies
<1>5. \A t \in {"unlink", "remove"} : Applies(r, t, l) = (l.err = "ok" /\ ~l.hide)
  BY DEF Applies
<1>6. \A t \in {"get", "fs_getlk"} : Applies(r, t, l) = (l.err = "ok" /\ ~l.hide)
  BY DEF Applies
<1>7. \A t : t \notin Special => Applies(r, t, l) = (l.err = "ok")
  BY DEF Applies, Special, Replies
<1>8. \A t \in {"fs_unlock", "list_lock"} :
        Applies(r, t, l) = (l.err = "ok" /\ (Op(r) = "release" => Req(r).flush))
  BY DEF Applies, Op
<1> QED
  BY <1>1, <1>2, <1>3, <1>4, <1>5, <1>6, <1>7, <1>8

\* A handler has a first and a last step.
LEMMA ProgramSeq ==
  ASSUME NEW op \in Ops
  PROVE  \E n \in Nat \ {0} : DOMAIN fuse_path_ops[op] = 1 .. n /\ Len(fuse_path_ops[op]) = n
<1> DEFINE p == fuse_path_ops[op]
<1>1. \/ \E a : p = <<a>>
      \/ \E a, b, c, d : p = <<a, b, c, d>>
      \/ \E a, b, c, d, e : p = <<a, b, c, d, e>>
      \/ \E a, b, c, d, e, f : p = <<a, b, c, d, e, f>>
      \/ \E a, b, c, d, e, f, g : p = <<a, b, c, d, e, f, g>>
      \/ \E a, b, c, d, e, f, g, h : p = <<a, b, c, d, e, f, g, h>>
      \/ \E a, b, c, d, e, f, g, h, i : p = <<a, b, c, d, e, f, g, h, i>>
      \/ \E a, b, c, d, e, f, g, h, i, j : p = <<a, b, c, d, e, f, g, h, i, j>>
  BY Programs
<1> HIDE DEF p
<1>2. \E n \in {1, 4, 5, 6, 7, 8, 9, 10} : DOMAIN p = 1 .. n /\ Len(p) = n
  BY <1>1
<1> QED
  BY <1>2 DEF p

\* The requests of a workload are finitely many numbers, and each is one the kernel sends.
LEMMA WorkOK ==
  ASSUME TypeOK
  PROVE  /\ IsFiniteSet(Reqs) /\ Reqs \subseteq Nat \ {0} /\ work.noforget \in BOOLEAN
         /\ \A r \in Reqs : RequestOK(work.reqs, r) /\ Op(r) \in Ops
BY WorkloadAssumption DEF TypeOK, Reqs, RequestOK, Op, Req, Ops

\* What a handler's next step is like.
LEMMA GotoFacts ==
  ASSUME TypeOK, NEW r \in Reqs, NEW from, from = 1 \/ from - 1 \in DOMAIN Program(r), from \in Nat,
         NEW l, work' = work, Goto(r, from, l)
  PROVE  /\ DOMAIN pc' = Reqs /\ DOMAIN loc' = Reqs /\ loc'[r] = l
         /\ pc'[r] \in Nat /\ pc'[r] >= from
         /\ \A q \in Reqs \ {r} : pc'[q] = pc[q] /\ loc'[q] = loc[q]
         /\ \A t : Ahead(r, t)' => Later(Op(r), from, t)
         /\ \A t : Later(Op(r), from, t) /\ Applies(r, t, l) => Ahead(r, t)'
         /\ pc'[r] \in DOMAIN Program(r) => Applies(r, Program(r)[pc'[r]], l)
<1> DEFINE p == Program(r)
           next == {k \in from .. Len(p) : Applies(r, p[k], l)}
           first == CHOOSE k \in next : \A j \in next : k <= j
<1>1. PICK n \in Nat \ {0} : DOMAIN p = 1 .. n /\ Len(p) = n
  BY WorkOK, ProgramSeq DEF Program, Op
<1>0. from <= n + 1
  BY <1>1
<1>2. loc' = [loc EXCEPT ![r] = l] /\ pc' = [pc EXCEPT ![r] = IF next = {} THEN Len(p) + 1 ELSE first]
  BY DEF Goto
<1>3. next # {} => first \in next /\ \A j \in next : first <= j
  <2> HIDE DEF p
  <2>1. next \subseteq Nat
    BY <1>1
  <2> HIDE DEF next
  <2> QED
    BY <2>1, LeastNumber
<1>4. \A j \in next : j \in DOMAIN p /\ j \in Nat /\ j >= from /\ Applies(r, p[j], l)
  BY <1>1
<1>5. \A j \in DOMAIN p : j >= from /\ Applies(r, p[j], l) => j \in next
  BY <1>1
<1>6. DOMAIN pc = Reqs /\ DOMAIN loc = Reqs
  BY DEF TypeOK
<1> DEFINE new == IF next = {} THEN Len(p) + 1 ELSE first
<1>7. DOMAIN pc' = Reqs /\ DOMAIN loc' = Reqs /\ loc'[r] = l /\ pc'[r] = new
      /\ \A q \in Reqs \ {r} : pc'[q] = pc[q] /\ loc'[q] = loc[q]
  <2> HIDE DEF new
  <2>1. pc' = [pc EXCEPT ![r] = new]
    BY <1>2 DEF new
  <2> QED
    BY <1>2, <1>6, <2>1
<1>8. Program(r)' = p
  BY DEF Program, Req
<1>9. \A t : Ahead(r, t)' <=> \E k \in DOMAIN p : k >= pc'[r] /\ p[k] = t
  BY <1>8 DEF Ahead
<1>10. \A t : Later(Op(r), from, t) <=> \E k \in DOMAIN p : k >= from /\ p[k] = t
  BY DEF Later, Program, Op
<1> HIDE DEF p, next, first
<1>11. pc'[r] \in Nat /\ (next = {} => pc'[r] = n + 1) /\ (next # {} => pc'[r] = first)
  <2>1. CASE next = {}
    BY <1>1, <1>7, <2>1
  <2>2. CASE next # {}
    BY <1>3, <1>4, <1>7, <2>2
  <2> QED
    BY <2>1, <2>2
<1>12. pc'[r] >= from
  BY <1>0, <1>1, <1>3, <1>4, <1>11
<1>13. \A t : Later(Op(r), from, t) /\ Applies(r, t, l) => Ahead(r, t)'
  <2>1. SUFFICES ASSUME NEW t, NEW k \in DOMAIN p, k >= from, p[k] = t, Applies(r, t, l) PROVE k >= pc'[r]
    BY <1>9, <1>10
  <2> QED
    BY <1>3, <1>5, <1>11, <2>1
<1>14. \A t : Ahead(r, t)' => Later(Op(r), from, t)
  <2>1. \A k \in DOMAIN p : k >= pc'[r] => k >= from
    BY <1>1, <1>11, <1>12
  <2> QED
    BY <1>9, <1>10, <2>1
<1>15. pc'[r] \in DOMAIN p => Applies(r, p[pc'[r]], l)
  BY <1>1, <1>3, <1>4, <1>11
<1> QED
  BY <1>7, <1>11, <1>12, <1>13, <1>14, <1>15 DEF p

\* A step leaves request q where it is.
Same(q) ==
  /\ pc'[q] = pc[q] /\ loc'[q] = loc[q] /\ Req(q)' = Req(q) /\ Op(q)' = Op(q) /\ Step(q)' = Step(q)
  /\ Running(q)' = Running(q) /\ Started(q)' = Started(q) /\ \A t : Ahead(q, t)' = Ahead(q, t)

\* The steps a request has ahead are the later ones of its program.
LEMMA AheadLater ==
  ASSUME NEW r
  PROVE  /\ \A t : Ahead(r, t) <=> Later(Op(r), pc[r], t)
         /\ Program(r) = fuse_path_ops[Op(r)]
         /\ Running(r) => Step(r) = Program(r)[pc[r]] /\ pc[r] \in DOMAIN Program(r)
BY DEF Ahead, Later, Program, Op, Step, Running

\* A request whose place is kept is where it was.
LEMMA OthersSame ==
  ASSUME work' = work, NEW q, pc'[q] = pc[q], loc'[q] = loc[q]
  PROVE  Same(q)
<1>1. Req(q)' = Req(q) /\ Op(q)' = Op(q) /\ Program(q)' = Program(q)
  BY DEF Req, Op, Program
<1>2. Step(q)' = Step(q) /\ Running(q)' = Running(q) /\ Started(q)' = Started(q)
  BY <1>1 DEF Step, Running, Started
<1>3. \A t : Ahead(q, t)' = Ahead(q, t)
  BY <1>1 DEF Ahead
<1> QED
  BY <1>1, <1>2, <1>3 DEF Same

\* The step a request is at is in order, and ahead of it.
LEMMA RunningOrder ==
  ASSUME TypeOK, NEW r \in Reqs, Running(r)
  PROVE  Ordered(Op(r), pc[r], Step(r)) /\ Ahead(r, Step(r)) /\ Started(r) /\ pc[r] \in Nat
<1>1. Op(r) \in Ops
  BY WorkOK
<1>2. Ordered(Op(r), pc[r], Step(r))
  BY <1>1, OrderOf, AheadLater
<1>3. PICK n \in Nat \ {0} : DOMAIN Program(r) = 1 .. n
  BY <1>1, ProgramSeq, AheadLater
<1> QED
  BY <1>2, <1>3 DEF Ahead, Step, Running, Started

\* What the next step of a running handler, or the first of a new one, is like.
LEMMA AdvanceFacts ==
  ASSUME TypeOK, NEW r \in Reqs, Running(r), NEW l, work' = work, Advance(r, l)
  PROVE  /\ DOMAIN pc' = Reqs /\ DOMAIN loc' = Reqs /\ loc'[r] = l /\ pc'[r] \in Nat
         /\ \A q \in Reqs \ {r} : Same(q)
         /\ Req(r)' = Req(r) /\ Op(r)' = Op(r) /\ Started(r)' /\ Started(r)
         /\ \A t : Ahead(r, t)' => Ahead(r, t) /\ Later(Op(r), pc[r] + 1, t)
         /\ \A t : Ahead(r, t) /\ t # Step(r) /\ Applies(r, t, l) => Ahead(r, t)'
         /\ \A t : Later(Op(r), pc[r] + 1, t) /\ Applies(r, t, l) => Ahead(r, t)'
         /\ \A t : t = Step(r) /\ t # "touch" => ~Ahead(r, t)'
         /\ Running(r)' => Applies(r, Step(r)', l)
         /\ Ordered(Op(r), pc[r], Step(r))
<1>1. pc[r] \in Nat /\ pc[r] \in DOMAIN Program(r) /\ Ordered(Op(r), pc[r], Step(r)) /\ Step(r) = Program(r)[pc[r]] /\ Started(r)
  BY RunningOrder, AheadLater
<1>2. pc[r] + 1 \in Nat /\ pc[r] + 1 - 1 \in DOMAIN Program(r)
  BY <1>1
<1>3. Goto(r, pc[r] + 1, l)
  BY DEF Advance
<1>4. /\ DOMAIN pc' = Reqs /\ DOMAIN loc' = Reqs /\ loc'[r] = l
      /\ pc'[r] \in Nat /\ pc'[r] >= pc[r] + 1
      /\ \A q \in Reqs \ {r} : pc'[q] = pc[q] /\ loc'[q] = loc[q]
      /\ \A t : Ahead(r, t)' => Later(Op(r), pc[r] + 1, t)
      /\ \A t : Later(Op(r), pc[r] + 1, t) /\ Applies(r, t, l) => Ahead(r, t)'
      /\ pc'[r] \in DOMAIN Program(r) => Applies(r, Program(r)[pc'[r]], l)
  <2> DEFINE from == pc[r] + 1
  <2>0. from \in Nat /\ from - 1 = pc[r]
    BY <1>1
  <2>1. Goto(r, from, l)
    BY <1>3
  <2> HIDE DEF from
  <2>2. /\ DOMAIN pc' = Reqs /\ DOMAIN loc' = Reqs /\ loc'[r] = l
        /\ pc'[r] \in Nat /\ pc'[r] >= from
        /\ \A q \in Reqs \ {r} : pc'[q] = pc[q] /\ loc'[q] = loc[q]
        /\ \A t : Ahead(r, t)' => Later(Op(r), from, t)
        /\ \A t : Later(Op(r), from, t) /\ Applies(r, t, l) => Ahead(r, t)'
        /\ pc'[r] \in DOMAIN Program(r) => Applies(r, Program(r)[pc'[r]], l)
    BY <1>1, <2>0, <2>1, GotoFacts, ZenonT(30)
  <2> QED
    BY <2>2 DEF from
<1>5. \A q \in Reqs \ {r} : Same(q)
  BY <1>4, OthersSame
<1>6. Req(r)' = Req(r) /\ Op(r)' = Op(r) /\ Program(r)' = Program(r)
  BY DEF Req, Op, Program
<1>7. Started(r)'
  BY <1>1, <1>4 DEF Started
<1>8. PICK n \in Nat \ {0} : DOMAIN Program(r) = 1 .. n
  BY WorkOK, ProgramSeq, AheadLater
<1>9. \A t : Later(Op(r), pc[r] + 1, t) => Ahead(r, t)
  BY <1>1, <1>8, AheadLater DEF Later
<1>10. \A t : Ahead(r, t) /\ t # Step(r) => Later(Op(r), pc[r] + 1, t)
  <2>1. \A k \in DOMAIN Program(r) : k >= pc[r] => k = pc[r] \/ k >= pc[r] + 1
    BY <1>1, <1>8
  <2> QED
    BY <1>1, <2>1, AheadLater DEF Later
<1>11. \A t : t = Step(r) /\ t # "touch" => ~Ahead(r, t)'
  <2>1. Step(r) # "touch" => ~Later(Op(r), pc[r] + 1, Step(r))
    BY <1>1 DEF Ordered
  <2> QED
    BY <1>4, <2>1
<1>12. Running(r)' => Applies(r, Step(r)', l)
  BY <1>4, <1>6 DEF Running, Step
<1> QED
  BY <1>1, <1>4, <1>5, <1>6, <1>7, <1>9, <1>10, <1>11, <1>12

\* Where a request is when it has begun, and what is ahead of it.
LEMMA IssueGoto ==
  ASSUME TypeOK, NEW r \in Reqs, NEW l, work' = work, Goto(r, 1, l)
  PROVE  /\ DOMAIN pc' = Reqs /\ DOMAIN loc' = Reqs /\ loc'[r] = l /\ pc'[r] \in Nat
         /\ \A q \in Reqs \ {r} : Same(q)
         /\ Req(r)' = Req(r) /\ Op(r)' = Op(r) /\ Started(r)'
         /\ \A t : Ahead(r, t)' => Later(Op(r), 1, t)
         /\ \A t : Later(Op(r), 1, t) /\ Applies(r, t, l) => Ahead(r, t)'
         /\ Running(r)' => Applies(r, Step(r)', l)
<1>1. /\ DOMAIN pc' = Reqs /\ DOMAIN loc' = Reqs /\ loc'[r] = l
      /\ pc'[r] \in Nat /\ pc'[r] >= 1
      /\ \A q \in Reqs \ {r} : pc'[q] = pc[q] /\ loc'[q] = loc[q]
      /\ \A t : Ahead(r, t)' => Later(Op(r), 1, t)
      /\ \A t : Later(Op(r), 1, t) /\ Applies(r, t, l) => Ahead(r, t)'
      /\ pc'[r] \in DOMAIN Program(r) => Applies(r, Program(r)[pc'[r]], l)
  BY GotoFacts
<1>2. Req(r)' = Req(r) /\ Op(r)' = Op(r) /\ Program(r)' = Program(r)
  BY DEF Req, Op, Program
<1> QED
  BY <1>1, <1>2, OthersSame DEF Running, Step, Started

(***************************************************************************)
(* Locks on paths: all of a path is taken, or nothing.                     *)
(***************************************************************************)

\* Two nodes differ in their locks and marks only.
Body(m, n) ==
  /\ DOMAIN m = DOMAIN n /\ m.name = n.name /\ m.parent = n.parent
  /\ m.nlookup = n.nlookup /\ m.refctr = n.refctr /\ m.open = n.open

\* The fields of a node.
LEMMA NodeFields ==
  DOMAIN Node(NoName, None, 0, 0)
    = {"name", "parent", "nlookup", "refctr", "open", "hidden", "tree", "ticket", "locks"}
BY DEF Node

\* A table with the names and parents of another is a table, with its chains and children.
LEMMA LikeTable ==
  ASSUME NEW ns, TableOK(ns), NEW ns2, DOMAIN ns2 = DOMAIN ns,
         \A id \in DOMAIN ns : ns2[id].name = ns[id].name /\ ns2[id].parent = ns[id].parent /\ NodeOK(ns2[id]),
         ns2[Root].nlookup > 0, ns2[Root].tree = 0
  PROVE  /\ TableOK(ns2)
         /\ \A id \in DOMAIN ns \cup {None} :
              Chain(ns2, id) = Chain(ns, id) /\ Above(ns2, id) = Above(ns, id) /\ PathOf(ns2, id) = PathOf(ns, id)
         /\ \A p, name : lookup_node(ns2, p, name) = lookup_node(ns, p, name)
         /\ \A id : ChildrenIn(ns2, id) = ChildrenIn(ns, id)
<1>1. Rooted(ns2)
  <2>1. Rooted(ns)
    BY DEF TableOK
  <2> QED
    BY <2>1 DEF Rooted
<1>2. TableOK(ns2)
  BY <1>1 DEF TableOK
<1>3. ASSUME NEW id \in DOMAIN ns \cup {None}
      PROVE  Chain(ns2, id) = Chain(ns, id) /\ Above(ns2, id) = Above(ns, id) /\ PathOf(ns2, id) = PathOf(ns, id)
  <2>1. DOMAIN ns2 \subseteq Ids
    BY DEF TableOK
  <2>2. \A x \in Above(ns, id) : x \in DOMAIN ns
    BY ChainFacts
  <2>3. \A x \in Above(ns, id) : x \in DOMAIN ns2 /\ ns2[x].parent = ns[x].parent /\ ns2[x].name = ns[x].name
    BY <2>2
  <2> QED
    BY <2>1, <2>3, ChainStays
<1>4. \A p, name : lookup_node(ns2, p, name) = lookup_node(ns, p, name)
  BY LookupSame
<1>5. \A id : ChildrenIn(ns2, id) = ChildrenIn(ns, id)
  BY DEF ChildrenIn
<1> QED
  BY <1>2, <1>3, <1>4, <1>5

\* A child is not above its parent.
LEMMA ChildBelow ==
  ASSUME NEW ns, TableOK(ns), NEW x \in DOMAIN ns \ {Root}, ns[x].parent \in DOMAIN ns
  PROVE  x \notin Above(ns, ns[x].parent)
<1> DEFINE id == ns[x].parent
<1>1. PICK c, len : IsChain(ns, id, c, len)
  BY ChainExists
<1>2. Chain(ns, id) = c
  BY <1>1, ChainIs DEF TableOK
<1>3. len \in Nat /\ DOMAIN c = 1 .. len
  BY <1>1 DEF IsChain
<1>4. SUFFICES ASSUME NEW k \in 1 .. len, c[k] = x PROVE FALSE
  BY <1>2, <1>3 DEF Above
<1>5. id \notin {Root, None} /\ c[1] = id
  BY <1>1, <1>3, <1>4 DEF IsChain
<1>6. CASE k = len
  BY <1>1, <1>3, <1>4, <1>5, <1>6 DEF IsChain
<1>7. CASE k # len
  <2>1. k \in 1 .. len - 1 /\ k + 1 \in 1 .. len /\ 1 \in 1 .. len /\ k + 1 # 1
    BY <1>3, <1>7
  <2>2. c[k + 1] = id
    BY <1>1, <1>4, <2>1 DEF IsChain
  <2> QED
    BY <1>1, <1>5, <2>1, <2>2 DEF IsChain
<1> QED
  BY <1>6, <1>7

\* Reservations change the tickets only.
LEMMA ReserveFacts ==
  ASSUME NEW ns, NEW ids, NEW t
  PROVE  /\ DOMAIN Reserve(ns, ids, t) = DOMAIN ns
         /\ \A n \in DOMAIN ns : Body(Reserve(ns, ids, t)[n], ns[n]) /\ Reserve(ns, ids, t)[n].tree = ns[n].tree
<1>1. \A n \in DOMAIN ns : Reserve(ns, ids, t)[n] \in {ns[n], [ns[n] EXCEPT !.ticket = t]}
  BY DEF Reserve
<1>2. \A m : Body(m, m) /\ Body([m EXCEPT !.ticket = t], m) /\ [m EXCEPT !.ticket = t].tree = m.tree
  BY DEF Body
<1>3. DOMAIN Reserve(ns, ids, t) = DOMAIN ns
  BY DEF Reserve
<1> QED
  BY <1>1, <1>2, <1>3

\* The table after a path was locked.
Locked(ns, ns2, ids, w) ==
  /\ DOMAIN ns2 = DOMAIN ns /\ \A n \in DOMAIN ns : Body(ns2[n], ns[n])
  /\ \A n \in DOMAIN ns : ns2[n].tree = IF n = w THEN -1 ELSE IF n \in ids THEN ns[n].tree + 1 ELSE ns[n].tree
\* unlock_path gives back w and the nodes of ids.
Unlocked(ns, ns2, ids, w) ==
  /\ DOMAIN ns2 = DOMAIN ns /\ \A n \in DOMAIN ns : Body(ns2[n], ns[n])
  /\ \A n \in DOMAIN ns : ns2[n].tree = IF n = w THEN 0 ELSE IF n \in ids THEN ns[n].tree - 1 ELSE ns[n].tree
\* Two tables differ in marks only: tickets, locks of files, hidden names.
Alike(ns, ns2) ==
  /\ DOMAIN ns2 = DOMAIN ns /\ \A n \in DOMAIN ns : Body(ns2[n], ns[n]) /\ ns2[n].tree = ns[n].tree
\* What try_get_path must find of the nodes it locks.
Free2(ns, ids, w) ==
  /\ \A n \in ids : ns[n].name # NoName /\ ns[n].tree # -1
  /\ w # None => ns[w].tree = 0

\* Locking a chain takes all of it or nothing.
LEMMA LockChainFacts ==
  ASSUME NEW ns, TableOK(ns), NEW id \in DOMAIN ns, NEW w, NEW name, NEW t,
         NEW R, R = LockChain(ns, Chain(ns, id), w, name, t)
  PROVE  /\ R.err \in {"ok", "EAGAIN", "ENOENT"}
         /\ R.err # "ok" => Alike(ns, R.nodes) /\ R.w = None /\ R.path = NoPath
         /\ R.err = "ok" =>
              /\ R.w = w /\ R.path = Named(PathOf(ns, id), name)
              /\ Free2(ns, Above(ns, id), w) /\ Locked(ns, R.nodes, Above(ns, id), w)
<1> DEFINE chain == Chain(ns, id)
           foreign(n) == ns[n].ticket \notin {0, t}
           gone(n) == ns[n].name = NoName
           stops == {k \in DOMAIN chain : gone(chain[k]) \/ ns[chain[k]].tree = -1 \/ foreign(chain[k])}
           stop == Min(stops \cup {Len(chain) + 1})
           passed == {chain[k] : k \in 1 .. stop - 1}
           fail(err, ids) == [err |-> err, path |-> NoPath, w |-> None, nodes |-> Reserve(ns, ids \ {None}, t)]
           tree(n) == IF n = w THEN -1 ELSE IF n \in passed THEN ns[n].tree + 1 ELSE ns[n].tree
           path == Named([k \in DOMAIN chain |-> ns[chain[Len(chain) + 1 - k]].name], name)
           locked(ids) == [n \in DOMAIN ns |->
                         IF n = w THEN [ns[n] EXCEPT !.tree = -1, !.ticket = 0]
                         ELSE IF n \in ids THEN [ns[n] EXCEPT !.tree = @ + 1, !.ticket = 0]
                         ELSE ns[n]]
           good == [err |-> "ok", path |-> path, w |-> w, nodes |-> locked(passed)]
           busy == w # None /\ (ns[w].tree # 0 \/ foreign(w))
<1>1. R = IF busy THEN fail("EAGAIN", {w})
          ELSE IF stop <= Len(chain) THEN fail(IF gone(chain[stop]) THEN "ENOENT" ELSE "EAGAIN", passed \cup {w})
          ELSE good
  BY Zenon DEF LockChain
<1>2. chain \in Seq(DOMAIN ns \ {Root}) /\ Len(chain) \in Nat /\ DOMAIN chain = 1 .. Len(chain)
  <2>1. chain \in Seq(DOMAIN ns \ {Root})
    BY ChainFacts
  <2> HIDE DEF chain
  <2> QED
    BY <2>1
<1>3. \A err \in {"EAGAIN", "ENOENT"} : \A ids : R = fail(err, ids) =>
        R.err = err /\ Alike(ns, R.nodes) /\ R.w = None /\ R.path = NoPath
  BY ReserveFacts DEF Alike
<1> HIDE DEF fail, good, busy, passed, stop
<1>4. CASE busy
  <2>1. R = fail("EAGAIN", {w})
    BY <1>1, <1>4, Zenon
  <2> QED
    BY ONLY <1>3, <2>1, Zenon
<1>5. CASE ~busy /\ stop <= Len(chain)
  <2> HIDE DEF chain, gone
  <2>1. \E err \in {"EAGAIN", "ENOENT"} : R = fail(err, passed \cup {w})
    BY ONLY <1>1, <1>5, Zenon
  <2> QED
    BY ONLY <1>3, <2>1, Zenon
<1>6. CASE ~busy /\ ~(stop <= Len(chain))
  <2>1. R = good
    BY ONLY <1>1, <1>6, Zenon
  <2> USE DEF good, busy, passed, stop
  <2>0. R.path = path /\ R.nodes = locked(passed) /\ R.err = "ok" /\ R.w = w
    <3> HIDE DEF path, locked, passed
    <3> QED
      BY <2>1
  <2>2. stops = {} /\ stop = Len(chain) + 1
    <3> DEFINE S == stops \cup {Len(chain) + 1}
    <3>1. S \subseteq Nat /\ S # {}
      BY <1>2
    <3>2. PICK m \in S : \A k \in S : m <= k
      BY <3>1, LeastNumber
    <3> HIDE DEF S
    <3>3. Min(S) \in S /\ \A k \in S : Min(S) <= k
      BY <3>2 DEF Min
    <3> USE DEF S
    <3>4. \A k \in stops : k \in Nat /\ k <= Len(chain)
      BY <1>2
    <3> HIDE DEF stops
    <3>5. stop \in Nat
      BY <3>1, <3>3
    <3>6. \A k \in stops : stop <= k
      BY <3>3
    <3>7. stops = {}
      <4>1. ~(stop <= Len(chain)) /\ Len(chain) \in Nat
        BY <1>2, <1>6
      <4> HIDE DEF stop, chain
      <4>2. \A k \in stops : FALSE
        BY <3>4, <3>5, <3>6, <4>1
      <4> QED
        BY <4>2
    <3>8. stop = Len(chain) + 1
      BY <3>3, <3>7
    <3> QED
      BY <3>7, <3>8
  <2>3. passed = Above(ns, id)
    <3>1. Above(ns, id) = {chain[k] : k \in DOMAIN chain}
      BY DEF Above
    <3> HIDE DEF stop, chain
    <3>2. 1 .. stop - 1 = DOMAIN chain
      BY <1>2, <2>2
    <3> QED
      BY <3>1, <3>2
  <2>4. \A n \in Above(ns, id) : ns[n].name # NoName /\ ns[n].tree # -1
    <3>1. \A k \in DOMAIN chain : ns[chain[k]].name # NoName /\ ns[chain[k]].tree # -1
      BY <2>2
    <3> QED
      BY <3>1 DEF Above
  <2>5. Free2(ns, Above(ns, id), w)
    BY <1>6, <2>4 DEF Free2
  <2>6. R.path = Named(PathOf(ns, id), name)
    <3>1. \A k \in DOMAIN chain : ns[chain[k]].name # NoName
      BY <2>2
    <3>2. PathOf(ns, id) = [k \in DOMAIN chain |-> ns[chain[Len(chain) + 1 - k]].name]
      BY <3>1, PathIs
    <3> HIDE DEF chain
    <3> QED
      BY <2>0, <3>2
  <2>7. Locked(ns, R.nodes, Above(ns, id), w)
    <3>1. R.nodes = [n \in DOMAIN ns |->
                         IF n = w THEN [ns[n] EXCEPT !.tree = -1, !.ticket = 0]
                         ELSE IF n \in Above(ns, id) THEN [ns[n] EXCEPT !.tree = @ + 1, !.ticket = 0]
                         ELSE ns[n]]
      <4> HIDE DEF passed
      <4> QED
        BY <2>0, <2>3
    <3>2. \A n \in DOMAIN ns : DOMAIN ns[n] = DOMAIN Node(NoName, None, 0, 0)
      BY DEF TableOK, NodeOK
    <3>3. SUFFICES ASSUME NEW n \in DOMAIN ns
          PROVE  /\ Body(R.nodes[n], ns[n])
                 /\ R.nodes[n].tree = IF n = w THEN -1 ELSE IF n \in Above(ns, id) THEN ns[n].tree + 1 ELSE ns[n].tree
      BY <3>1 DEF Locked
    <3>4. R.nodes[n] = IF n = w THEN [ns[n] EXCEPT !.tree = -1, !.ticket = 0]
                         ELSE IF n \in Above(ns, id) THEN [ns[n] EXCEPT !.tree = @ + 1, !.ticket = 0]
                         ELSE ns[n]
      BY <3>1
    <3>5. "tree" \in DOMAIN ns[n]
      BY <3>2, NodeFields
    <3>6. \A v : Body([ns[n] EXCEPT !.tree = v, !.ticket = 0], ns[n])
                 /\ [ns[n] EXCEPT !.tree = v, !.ticket = 0].tree = v
      BY <3>5 DEF Body
    <3>7. Body(ns[n], ns[n])
      BY DEF Body
    <3> QED
      BY <3>4, <3>6, <3>7, ZenonT(30)
  <2> QED
    BY <2>0, <2>5, <2>6, <2>7, ZenonT(30)
<1> QED
  BY <1>4, <1>5, <1>6, Zenon

\* Two tables with the same names, chains and children.
SameShape(ns, ns2) ==
  /\ DOMAIN ns2 = DOMAIN ns
  /\ \A id \in DOMAIN ns \cup {None} :
       Chain(ns2, id) = Chain(ns, id) /\ Above(ns2, id) = Above(ns, id) /\ PathOf(ns2, id) = PathOf(ns, id)
  /\ \A p, name : lookup_node(ns2, p, name) = lookup_node(ns, p, name)
  /\ \A id : ChildrenIn(ns2, id) = ChildrenIn(ns, id)

\* A table whose nodes differ in their locks only is still a tree, of the same paths.
LEMMA SameShapeTable ==
  ASSUME NEW ns, TableOK(ns), NEW ns2, DOMAIN ns2 = DOMAIN ns,
         \A n \in DOMAIN ns : /\ Body(ns2[n], ns[n]) /\ ns2[n].tree \in Nat \cup {-1}
                              /\ ns2[n].nlookup = 0 => ns2[n].tree = 0,
         ns2[Root].tree = 0
  PROVE  TableOK(ns2) /\ SameShape(ns, ns2)
<1>1. \A id \in DOMAIN ns : ns2[id].name = ns[id].name /\ ns2[id].parent = ns[id].parent /\ NodeOK(ns2[id])
  <2>1. SUFFICES ASSUME NEW id \in DOMAIN ns
        PROVE ns2[id].name = ns[id].name /\ ns2[id].parent = ns[id].parent /\ NodeOK(ns2[id])
    OBVIOUS
  <2>2. NodeOK(ns[id])
    BY DEF TableOK
  <2> QED
    BY <2>2 DEF NodeOK, Body
<1>2. ns2[Root].nlookup > 0
  BY DEF TableOK, Body
<1> QED
  BY <1>1, <1>2, LikeTable DEF SameShape

\* Marks do not change the tree.
LEMMA AlikeTable ==
  ASSUME NEW ns, TableOK(ns), NEW ns2, Alike(ns, ns2)
  PROVE  TableOK(ns2) /\ SameShape(ns, ns2)
<1>1. \A n \in DOMAIN ns : ns2[n].tree \in Nat \cup {-1} /\ (ns2[n].nlookup = 0 => ns2[n].tree = 0)
  BY DEF TableOK, NodeOK, Alike, Body
<1>2. ns2[Root].tree = 0
  BY DEF TableOK, Alike
<1> QED
  BY <1>1, <1>2, SameShapeTable DEF Alike

\* Locks do not change the tree.
LEMMA LockedTable ==
  ASSUME NEW ns, TableOK(ns), NEW id \in DOMAIN ns, NEW w \in (DOMAIN ns \ {Root}) \cup {None},
         w # None => ns[w].name # NoName, NEW ns2,
         Free2(ns, Above(ns, id), w), Locked(ns, ns2, Above(ns, id), w)
  PROVE  TableOK(ns2) /\ SameShape(ns, ns2)
<1>1. \A n \in DOMAIN ns : ns2[n].tree \in Nat \cup {-1} /\ (ns2[n].nlookup = 0 => ns2[n].tree = 0)
  BY NotAborted DEF TableOK, NodeOK, Free2, Locked, Body
<1>2. ns2[Root].tree = 0
  <2>1. Root \notin Above(ns, id)
    BY ChainFacts
  <2>2. w # Root
    BY DEF None, Root
  <2> QED
    BY <2>1, <2>2 DEF TableOK, Locked
<1> QED
  BY <1>1, <1>2, SameShapeTable DEF Locked

\* unlock_path gives back exactly the locks it is told of.
LEMMA UnlockFacts ==
  ASSUME NEW ns, TableOK(ns), NEW id \in DOMAIN ns, NEW w \in DOMAIN ns \cup {None},
         w # None => ns[w].tree = -1, \A n \in Above(ns, id) : ns[n].tree > 0, NEW t,
         NEW ns2, ns2 = unlock_path(ns, id, w, t)
  PROVE  Unlocked(ns, ns2, Above(ns, id), w) /\ TableOK(ns2) /\ SameShape(ns, ns2)
<1> DEFINE ids == Above(ns, id)
           open == [n \in DOMAIN ns |->
                  IF n = w THEN [ns[n] EXCEPT !.tree = 0]
                  ELSE IF n \in ids THEN [ns[n] EXCEPT !.tree = @ - 1] ELSE ns[n]]
<1>1. ToSet(Chain(ns, id)) = ids /\ ids \subseteq DOMAIN ns /\ Root \notin ids
  BY ChainFacts
<1>2. ns2 = UnlockChain(ns, ids, w, t)
  BY <1>1 DEF unlock_path
<1>3. ~ (\/ ~ (ids \subseteq DOMAIN ns) \/ (w # None /\ (w \notin DOMAIN ns \/ ns[w].tree # -1))
         \/ \E n \in ids : ns[n].tree <= 0)
  <2>1. \A n \in ids : ns[n].tree > 0 /\ ns[n].tree \in Nat \cup {-1}
    BY <1>1 DEF TableOK, NodeOK
  <2>2. \A n \in ids : ~ (ns[n].tree <= 0)
    BY <2>1
  <2> HIDE DEF ids
  <2> QED
    BY <1>1, <2>2
<1>4. ns2 = Reserve(open, ids \cup ({w} \ {None}), t)
  <2> HIDE DEF ids
  <2> QED
    BY <1>2, <1>3 DEF UnlockChain
<1>5. DOMAIN open = DOMAIN ns
  OBVIOUS
<1>6. DOMAIN ns2 = DOMAIN ns /\ \A n \in DOMAIN ns : Body(ns2[n], open[n]) /\ ns2[n].tree = open[n].tree
  <2> HIDE DEF open, ids
  <2> QED
    BY <1>4, <1>5, ReserveFacts
<1>7. \A n \in DOMAIN ns : Body(open[n], ns[n]) /\ open[n].tree =
        IF n = w THEN 0 ELSE IF n \in ids THEN ns[n].tree - 1 ELSE ns[n].tree
  <2>1. SUFFICES ASSUME NEW n \in DOMAIN ns
        PROVE Body(open[n], ns[n]) /\ open[n].tree =
               IF n = w THEN 0 ELSE IF n \in ids THEN ns[n].tree - 1 ELSE ns[n].tree
    OBVIOUS
  <2>2. "tree" \in DOMAIN ns[n]
    BY NodeFields DEF TableOK, NodeOK
  <2>3. \A v : Body([ns[n] EXCEPT !.tree = v], ns[n]) /\ [ns[n] EXCEPT !.tree = v].tree = v
    BY <2>2 DEF Body
  <2>4. open[n] = IF n = w THEN [ns[n] EXCEPT !.tree = 0]
                  ELSE IF n \in ids THEN [ns[n] EXCEPT !.tree = ns[n].tree - 1] ELSE ns[n]
    OBVIOUS
  <2>5. Body(ns[n], ns[n])
    BY DEF Body
  <2> HIDE DEF open, ids
  <2> QED
    BY <2>3, <2>4, <2>5
<1>8. Unlocked(ns, ns2, ids, w)
  <2> HIDE DEF open, ids
  <2> QED
    BY <1>6, <1>7 DEF Unlocked, Body
<1>9. \A n \in DOMAIN ns : ns2[n].tree \in Nat \cup {-1} /\ (ns2[n].nlookup = 0 => ns2[n].tree = 0)
  <2>1. SUFFICES ASSUME NEW n \in DOMAIN ns
        PROVE ns2[n].tree \in Nat \cup {-1} /\ (ns2[n].nlookup = 0 => ns2[n].tree = 0)
    OBVIOUS
  <2>2. NodeOK(ns[n]) /\ (n \in ids => ns[n].tree > 0)
    BY DEF TableOK
  <2> HIDE DEF ids
  <2> QED
    BY <1>8, <2>2 DEF Unlocked, Body, NodeOK
<1>10. ns2[Root].tree = 0
  <2>1. ns[Root].tree = 0 /\ Root \in DOMAIN ns
    BY DEF TableOK
  <2> HIDE DEF ids
  <2> QED
    BY <1>1, <1>8, <2>1 DEF Unlocked
<1> QED
  BY <1>8, <1>9, <1>10, SameShapeTable DEF Unlocked

\* try_get_path took the nodes of a1 and a2 to read, w1 and w2 to write.
GotPaths(ns, ns2, a1, a2, w1, w2) ==
  /\ DOMAIN ns2 = DOMAIN ns /\ \A n \in DOMAIN ns : Body(ns2[n], ns[n])
  /\ \A n \in DOMAIN ns :
       ns2[n].tree = IF n \in {w1, w2} THEN -1
                     ELSE ns[n].tree + (IF n \in a1 THEN 1 ELSE 0) + (IF n \in a2 THEN 1 ELSE 0)
  /\ \A n \in a1 \cup a2 : ns[n].name # NoName /\ ns[n].tree # -1
  /\ \A x \in {w1, w2} \ {None} : x \in DOMAIN ns \ {Root} /\ ns[x].tree = 0 /\ x \notin a1 \cup a2
  /\ w1 = w2 => w1 = None

\* The node a handler takes to write: the one it removes or replaces.
Wanted(ns, dir, name, wr) == IF wr THEN lookup_node(ns, dir, name) ELSE None

\* The node to write is a named one, and not on the way up from its directory.
LEMMA WantedFacts ==
  ASSUME NEW ns, TableOK(ns), NEW id \in DOMAIN ns, NEW name, NEW wr, wr => name # NoName,
         NEW w, w = Wanted(ns, id, name, wr)
  PROVE  /\ w \in (DOMAIN ns \ {Root}) \cup {None}
         /\ w # None => ns[w].name # NoName /\ w \notin Above(ns, id)
<1>1. CASE w = None
  BY <1>1
<1>2. CASE w # None
  <2>1. w \in DOMAIN ns \ {Root} /\ ns[w].name = name /\ ns[w].parent = id /\ name # NoName
    BY <1>2, LookupFacts DEF Wanted
  <2> QED
    BY <2>1, ChildBelow
<1> QED
  BY <1>1, <1>2

\* The outcome R of a try for one path.
OnePath(ns, id, name, wr, R) ==
  /\ R.err \in {"ok", "EAGAIN", "ENOENT"}
  /\ R.err # "ok" => Alike(ns, R.nodes) /\ R.w = None /\ R.path = NoPath
  /\ R.err = "ok" =>
       /\ R.w = Wanted(ns, id, name, wr) /\ R.path = Named(PathOf(ns, id), name)
       /\ Free2(ns, Above(ns, id), R.w) /\ Locked(ns, R.nodes, Above(ns, id), R.w)
  /\ TableOK(R.nodes) /\ SameShape(ns, R.nodes)

\* try_get_path takes all of one path, or nothing.
LEMMA TryPathFacts ==
  ASSUME NEW ns, TableOK(ns), NEW id \in DOMAIN ns, NEW name, NEW wr, wr => name # NoName, NEW t,
         NEW R, R = try_get_path(ns, id, name, wr, t)
  PROVE  OnePath(ns, id, name, wr, R)
<1> DEFINE w == Wanted(ns, id, name, wr)
<1>1. R = LockChain(ns, Chain(ns, id), w, name, t)
  BY DEF try_get_path, Wanted
<1>2. /\ w \in (DOMAIN ns \ {Root}) \cup {None}
      /\ w # None => ns[w].name # NoName /\ w \notin Above(ns, id)
  BY WantedFacts
<1> HIDE DEF w
<1>3. /\ R.err \in {"ok", "EAGAIN", "ENOENT"}
      /\ R.err # "ok" => Alike(ns, R.nodes) /\ R.w = None /\ R.path = NoPath
      /\ R.err = "ok" =>
           /\ R.w = w /\ R.path = Named(PathOf(ns, id), name)
           /\ Free2(ns, Above(ns, id), w) /\ Locked(ns, R.nodes, Above(ns, id), w)
  BY <1>1, LockChainFacts
<1>4. TableOK(R.nodes) /\ SameShape(ns, R.nodes)
  BY <1>2, <1>3, AlikeTable, LockedTable
<1> QED
  BY <1>3, <1>4 DEF w, OnePath

\* One path.
LEMMA GotOne ==
  ASSUME NEW ns, TableOK(ns), NEW id \in DOMAIN ns, NEW name, NEW wr, wr => name # NoName, NEW t,
         NEW R, R = try_get_path(ns, id, name, wr, t), R.err = "ok"
  PROVE  GotPaths(ns, R.nodes, Above(ns, id), {}, R.w, None)
<1>1. /\ R.w = Wanted(ns, id, name, wr)
      /\ Free2(ns, Above(ns, id), R.w) /\ Locked(ns, R.nodes, Above(ns, id), R.w)
  BY TryPathFacts, ZenonT(30) DEF OnePath
<1>2. /\ R.w \in (DOMAIN ns \ {Root}) \cup {None}
      /\ R.w # None => ns[R.w].name # NoName /\ R.w \notin Above(ns, id)
  BY <1>1, WantedFacts
<1>3. None \notin DOMAIN ns /\ \A n \in DOMAIN ns : ns[n].tree \in Nat \cup {-1}
  BY NotAborted DEF TableOK, NodeOK
<1>4. Above(ns, id) \subseteq DOMAIN ns
  BY ChainFacts
<1> QED
  BY <1>1, <1>2, <1>3, <1>4 DEF GotPaths, Free2, Locked

\* Two paths, or none.
GotBoth(ns, id1, name1, id2, name2, wr, R) ==
  /\ R.err \in {"ok", "EAGAIN", "ENOENT"} /\ TableOK(R.nodes) /\ SameShape(ns, R.nodes)
  /\ R.err # "ok" => /\ Alike(ns, R.nodes) /\ R.w = None /\ R.w2 = None
                     /\ R.path = NoPath /\ R.path2 = NoPath
  /\ R.err = "ok" =>
       /\ R.w = Wanted(ns, id1, name1, wr) /\ R.w2 = Wanted(ns, id2, name2, wr)
       /\ R.path = Named(PathOf(ns, id1), name1) /\ R.path2 = Named(PathOf(ns, id2), name2)
       /\ GotPaths(ns, R.nodes, Above(ns, id1), Above(ns, id2), R.w, R.w2)

\* try_get_path2 takes all of two paths, or nothing.
LEMMA GotTwo ==
  ASSUME NEW ns, TableOK(ns), NEW id1 \in DOMAIN ns, NEW id2 \in DOMAIN ns, NEW name1, NEW name2,
         NEW wr, wr => name1 # NoName /\ name2 # NoName, NEW t,
         NEW R, R = try_get_path2(ns, id1, name1, id2, name2, wr, t)
  PROVE  GotBoth(ns, id1, name1, id2, name2, wr, R)
<1>0. SUFFICES /\ R.err \in {"ok", "EAGAIN", "ENOENT"} /\ TableOK(R.nodes) /\ SameShape(ns, R.nodes)
               /\ R.err # "ok" => /\ Alike(ns, R.nodes) /\ R.w = None /\ R.w2 = None
                                  /\ R.path = NoPath /\ R.path2 = NoPath
               /\ R.err = "ok" =>
                    /\ R.w = Wanted(ns, id1, name1, wr) /\ R.w2 = Wanted(ns, id2, name2, wr)
                    /\ R.path = Named(PathOf(ns, id1), name1) /\ R.path2 = Named(PathOf(ns, id2), name2)
                    /\ GotPaths(ns, R.nodes, Above(ns, id1), Above(ns, id2), R.w, R.w2)
  BY DEF GotBoth
<1> DEFINE one == try_get_path(ns, id1, name1, wr, t)
           mid == one.nodes
           two == try_get_path(mid, id2, name2, wr, t)
           a1 == Above(ns, id1)
           a2 == Above(ns, id2)
           w1 == Wanted(ns, id1, name1, wr)
           w2 == Wanted(ns, id2, name2, wr)
<1>1. /\ one.err \in {"ok", "EAGAIN", "ENOENT"}
      /\ one.err # "ok" => Alike(ns, mid) /\ one.w = None /\ one.path = NoPath
      /\ one.err = "ok" =>
           /\ one.w = w1 /\ one.path = Named(PathOf(ns, id1), name1)
           /\ Free2(ns, a1, w1) /\ Locked(ns, mid, a1, w1)
      /\ TableOK(mid) /\ SameShape(ns, mid)
  <2> HIDE DEF one
  <2>1. OnePath(ns, id1, name1, wr, one)
    BY TryPathFacts DEF one
  <2> QED
    BY <2>1 DEF OnePath
<1>2. /\ w1 \in (DOMAIN ns \ {Root}) \cup {None} /\ (w1 # None => ns[w1].name # NoName /\ w1 \notin a1)
      /\ w2 \in (DOMAIN ns \ {Root}) \cup {None} /\ (w2 # None => ns[w2].name # NoName /\ w2 \notin a2)
  BY WantedFacts
<1>3. /\ DOMAIN mid = DOMAIN ns /\ id2 \in DOMAIN mid /\ Above(mid, id2) = a2 /\ PathOf(mid, id2) = PathOf(ns, id2)
      /\ Wanted(mid, id2, name2, wr) = w2 /\ Above(mid, id1) = a1
  <2> HIDE DEF one
  <2> QED
    BY <1>1 DEF SameShape, Wanted
<1>4. /\ two.err \in {"ok", "EAGAIN", "ENOENT"}
      /\ two.err # "ok" => Alike(mid, two.nodes) /\ two.w = None /\ two.path = NoPath
      /\ two.err = "ok" =>
           /\ two.w = w2 /\ two.path = Named(PathOf(ns, id2), name2)
           /\ Free2(mid, a2, w2) /\ Locked(mid, two.nodes, a2, w2)
      /\ TableOK(two.nodes) /\ SameShape(mid, two.nodes)
  <2> HIDE DEF one, two
  <2>1. OnePath(mid, id2, name2, wr, two)
    BY <1>1, <1>3, TryPathFacts DEF two
  <2> HIDE DEF mid, a2, w2
  <2> QED
    BY <1>3, <2>1 DEF OnePath
<1>5. R = BothPaths(one, IF one.err = "ok" THEN two ELSE one, id1, t)
  BY DEF try_get_path2, SecondPath
<1> HIDE DEF one, two, a1, a2, w1, w2
<1>6. CASE one.err # "ok"
  <2>1. R.err = one.err /\ R.w = None /\ R.w2 = None /\ R.path = NoPath /\ R.path2 = NoPath /\ R.nodes = mid
    BY <1>5, <1>6 DEF BothPaths
  <2> QED
    BY <1>1, <1>6, <2>1
<1>7. \A n \in DOMAIN ns : ns[n].tree \in Nat \cup {-1}
  BY DEF TableOK, NodeOK
<1>8. a1 \subseteq DOMAIN ns /\ a2 \subseteq DOMAIN ns /\ None \notin DOMAIN ns
  BY ChainFacts, NotAborted DEF a1, a2
<1>9. CASE one.err = "ok" /\ two.err # "ok"
  <2> DEFINE back == unlock_path(two.nodes, id1, w1, t)
  <2>1. /\ R.err = two.err /\ R.w = None /\ R.w2 = None /\ R.path = NoPath /\ R.path2 = NoPath
        /\ R.nodes = back
    BY <1>1, <1>5, <1>9 DEF BothPaths
  <2>2. DOMAIN two.nodes = DOMAIN ns /\ Above(two.nodes, id1) = a1
    BY <1>3, <1>4, <1>9 DEF Alike, SameShape
  <2>3. \A n \in DOMAIN ns : Body(two.nodes[n], ns[n])
          /\ two.nodes[n].tree = IF n = w1 THEN -1 ELSE IF n \in a1 THEN ns[n].tree + 1 ELSE ns[n].tree
    BY <1>1, <1>3, <1>4, <1>9 DEF Alike, Locked, Body
  <2>4. /\ (w1 # None => two.nodes[w1].tree = -1)
        /\ \A n \in a1 : two.nodes[n].tree > 0
    BY <1>1, <1>2, <1>7, <1>8, <1>9, <2>3 DEF Free2
  <2>5. id1 \in DOMAIN two.nodes /\ w1 \in DOMAIN two.nodes \cup {None}
    BY <1>2, <2>2
  <2>6. Unlocked(two.nodes, back, a1, w1) /\ TableOK(back) /\ SameShape(two.nodes, back)
    BY <1>4, <2>2, <2>4, <2>5, UnlockFacts
  <2>7. Alike(ns, back)
    <3>1. w1 # None => ns[w1].tree = 0
      BY <1>1, <1>9 DEF Free2
    <3> QED
      BY <1>7, <1>8, <2>2, <2>3, <2>6, <3>1 DEF Alike, Unlocked, Body
  <2> QED
    BY <1>4, <1>9, <2>1, <2>6, <2>7, AlikeTable
<1>10. CASE one.err = "ok" /\ two.err = "ok"
  <2>1. /\ R.err = "ok" /\ R.w = w1 /\ R.w2 = w2 /\ R.path = one.path /\ R.path2 = two.path /\ R.nodes = two.nodes
    BY <1>1, <1>4, <1>5, <1>10 DEF BothPaths
  <2>2. /\ Free2(ns, a1, w1) /\ Locked(ns, mid, a1, w1) /\ Free2(mid, a2, w2) /\ Locked(mid, two.nodes, a2, w2)
    BY <1>1, <1>4, <1>10
  <2>3. w1 # None => w1 \notin a2 /\ w1 # w2
    BY <1>2, <1>3, <1>8, <2>2 DEF Free2, Locked
  <2>4. w2 # None => w2 \notin a1 /\ ns[w2].tree = 0
    BY <1>2, <1>3, <1>7, <1>8, <2>2, <2>3 DEF Free2, Locked
  <2>5. \A n \in a2 : ns[n].name # NoName /\ ns[n].tree # -1
    BY <1>3, <1>7, <1>8, <2>2, <2>3 DEF Free2, Locked, Body
  <2>6. GotPaths(ns, two.nodes, a1, a2, w1, w2)
    <3>1. \A n \in DOMAIN ns : Body(two.nodes[n], ns[n])
      BY <1>3, <2>2 DEF Locked, Body
    <3>2. \A n \in DOMAIN ns :
             two.nodes[n].tree = IF n \in {w1, w2} THEN -1
                           ELSE ns[n].tree + (IF n \in a1 THEN 1 ELSE 0) + (IF n \in a2 THEN 1 ELSE 0)
      <4>1. SUFFICES ASSUME NEW n \in DOMAIN ns
             PROVE two.nodes[n].tree = IF n \in {w1, w2} THEN -1
                           ELSE ns[n].tree + (IF n \in a1 THEN 1 ELSE 0) + (IF n \in a2 THEN 1 ELSE 0)
        OBVIOUS
      <4>2. ns[n].tree \in Int
        BY <1>7
      <4>3. mid[n].tree = IF n = w1 THEN -1 ELSE IF n \in a1 THEN ns[n].tree + 1 ELSE ns[n].tree
        BY <2>2 DEF Locked
      <4>4. two.nodes[n].tree = IF n = w2 THEN -1 ELSE IF n \in a2 THEN mid[n].tree + 1 ELSE mid[n].tree
        BY <1>3, <2>2 DEF Locked
      <4>5. n = w1 => n \notin a2
        BY <1>8, <2>3
      <4> QED
        BY <4>2, <4>3, <4>4, <4>5
    <3>3. DOMAIN two.nodes = DOMAIN ns
      BY <1>3, <2>2 DEF Locked
    <3>4. \A n \in a1 \cup a2 : ns[n].name # NoName /\ ns[n].tree # -1
      BY <2>2, <2>5 DEF Free2
    <3>5. \A x \in {w1, w2} \ {None} : x \in DOMAIN ns \ {Root} /\ ns[x].tree = 0 /\ x \notin a1 \cup a2
      BY <1>2, <2>2, <2>3, <2>4 DEF Free2
    <3>6. w1 = w2 => w1 = None
      BY <2>3
    <3> QED
      BY <3>1, <3>2, <3>3, <3>4, <3>5, <3>6 DEF GotPaths
  <2>7. SameShape(ns, two.nodes)
    BY <1>1, <1>3, <1>4 DEF SameShape
  <2> QED
    BY <1>1, <1>4, <1>10, <2>1, <2>6, <2>7 DEF w1, w2, a1, a2
<1> QED
  BY <1>1, <1>6, <1>9, <1>10

(***************************************************************************)
(* Nodes come, lose their names, move and go.                              *)
(***************************************************************************)

\* next_id finds an id that is free.
LEMMA NextId ==
  ASSUME NEW ns, TableOK(ns), IdLeft(ns), NEW c \in 0 .. MaxId
  PROVE  next_id(ns, c) \in Ids \ DOMAIN ns
<1> DEFINE m == MaxId + 1
           free(k) == (c + k) % m
           usable == {k \in 1 .. m : free(k) \notin DOMAIN ns \cup {0, MaxId}}
<1>0. m \in Nat /\ m > 0 /\ c \in Nat
  BY MaxIdAssumption
<1>1. \A a \in Nat : a % m \in 0 .. m - 1
  BY <1>0
<1>2. PICK i \in Ids : i \notin DOMAIN ns
  BY DEF IdLeft, Ids
<1>3. i \in Nat /\ i > 0 /\ i < MaxId /\ i < m
  BY <1>0, <1>2, MaxIdAssumption DEF Ids
<1>4. i % m = i /\ (i + m) % m = i
  <2> HIDE DEF m
  <2>1. \A a \in Nat : a < m => a % m = a
    BY <1>0
  <2>2. \A a \in Nat : a < m => (a + m) % m = a
    BY <1>0
  <2> QED
    BY <1>3, <2>1, <2>2
<1>5. \E k \in 1 .. m : free(k) = i
  <2>1. CASE i > c
    <3>1. i - c \in 1 .. m /\ c + (i - c) = i
      BY <1>0, <1>3, <2>1
    <3> QED
      BY <1>4, <3>1
  <2>2. CASE ~(i > c)
    <3>1. i - c + m \in 1 .. m /\ c + (i - c + m) = i + m
      BY <1>0, <1>3, <2>2, MaxIdAssumption
    <3> QED
      BY <1>4, <3>1
  <2> QED
    BY <2>1, <2>2
<1>6. PICK k0 \in usable : TRUE
  BY <1>2, <1>3, <1>5
<1>7. usable \subseteq Nat /\ usable # {}
  BY <1>6
<1> DEFINE first == CHOOSE k \in usable : \A j \in usable : k <= j
<1>8. first \in usable
  <2>1. PICK n \in usable : \A j \in usable : n <= j
    BY <1>7, LeastNumber
  <2> HIDE DEF usable
  <2> QED
    BY <2>1
<1>9. next_id(ns, c) = free(first)
  BY DEF next_id
<1>10. free(first) \in 0 .. m - 1 /\ free(first) \notin DOMAIN ns \cup {0, MaxId}
  <2>1. first \in Nat /\ c + first \in Nat
    <3> HIDE DEF first, usable, m
    <3>1. first \in Nat
      BY <1>7, <1>8
    <3> QED
      BY <1>0, <3>1
  <2>2. free(first) \notin DOMAIN ns \cup {0, MaxId}
    BY <1>8
  <2> HIDE DEF first, usable, m
  <2>3. free(first) \in 0 .. m - 1
    BY <1>1, <2>1
  <2> QED
    BY <2>2, <2>3
<1> DEFINE id == free(first)
<1>11. id \in 0 .. MaxId /\ id \notin DOMAIN ns /\ id # 0 /\ id # MaxId
  <2>1. m - 1 = MaxId
    BY MaxIdAssumption
  <2> HIDE DEF first, usable, m, free
  <2> QED
    BY <1>10, <2>1
<1> HIDE DEF id
<1>12. id \in Ids
  BY <1>11, MaxIdAssumption DEF Ids
<1> QED
  BY <1>9, <1>11, <1>12 DEF id

\* What find_node does: one lookup more for a node, or a new node.
FoundOld(ns, id, ns2) ==
  /\ id \in DOMAIN ns /\ DOMAIN ns2 = DOMAIN ns
  /\ \A n \in DOMAIN ns :
       /\ DOMAIN ns2[n] = DOMAIN ns[n] /\ ns2[n].name = ns[n].name /\ ns2[n].parent = ns[n].parent
       /\ ns2[n].refctr = ns[n].refctr /\ ns2[n].open = ns[n].open /\ ns2[n].tree = ns[n].tree
       /\ ns2[n].nlookup = ns[n].nlookup + (IF n = id THEN 1 ELSE 0)
\* find_node makes a node of this name, with this many lookups.
FoundNew(ns, id, parent, name, lookups, ns2) ==
  /\ id \in Ids \ DOMAIN ns /\ DOMAIN ns2 = DOMAIN ns \cup {id} /\ parent \in DOMAIN ns
  /\ DOMAIN ns2[id] = DOMAIN Node(NoName, None, 0, 0) /\ ns2[id].name = name /\ ns2[id].parent = parent
  /\ ns2[id].nlookup = lookups /\ ns2[id].refctr = 1 /\ ns2[id].open = 0 /\ ns2[id].tree = 0
  /\ \A n \in DOMAIN ns :
       /\ DOMAIN ns2[n] = DOMAIN ns[n] /\ ns2[n].name = ns[n].name /\ ns2[n].parent = ns[n].parent
       /\ ns2[n].nlookup = ns[n].nlookup /\ ns2[n].open = ns[n].open /\ ns2[n].tree = ns[n].tree
       /\ ns2[n].refctr = ns[n].refctr + (IF n = parent THEN 1 ELSE 0)
\* What find_node does: one lookup more for the node that is there, or a new node.
Finding(ns, parent, name, c, noforget, R) ==
  LET old == IF name = NoName THEN parent ELSE lookup_node(ns, parent, name) IN
  /\ old # None => R.id = old /\ FoundOld(ns, old, R.nodes) /\ R.ctr = c
  /\ old = None => /\ name # NoName /\ FoundNew(ns, R.id, parent, name, IF noforget THEN 2 ELSE 1, R.nodes)
                   /\ R.ctr = R.id

\* find_node does one or the other.
LEMMA FindFacts ==
  ASSUME NEW ns, TableOK(ns), IdLeft(ns), NEW c \in 0 .. MaxId, NEW parent \in DOMAIN ns, NEW name,
         NEW noforget \in BOOLEAN, NEW R, R = find_node(ns, parent, name, c, noforget)
  PROVE  Finding(ns, parent, name, c, noforget, R)
<1> DEFINE old == IF name = NoName THEN parent ELSE lookup_node(ns, parent, name)
           new == next_id(ns, c)
           lookups == IF noforget THEN 2 ELSE 1
           with == [n \in DOMAIN ns \cup {new} |-> IF n = new THEN Node(NoName, None, lookups, 1) ELSE ns[n]]
           more == [ns EXCEPT ![old].nlookup = @ + 1]
           hashed == hash_name(with, new, parent, name)
<1>1. R = IF old # None THEN IF old \in DOMAIN ns THEN [id |-> old, nodes |-> more, ctr |-> c]
                             ELSE [id |-> old, nodes |-> Abort, ctr |-> c]
          ELSE [id |-> new, nodes |-> hashed, ctr |-> new]
  BY DEF find_node
<1>2. parent # None
  BY NotAborted
<1>3. CASE old # None
  <2>1. old \in DOMAIN ns
    BY <1>3, LookupFacts
  <2> HIDE DEF old, hashed, new
  <2>2. R.id = old /\ R.nodes = more /\ R.ctr = c
    <3> HIDE DEF more
    <3> QED
      BY <1>1, <1>3, <2>1
  <2>3. FoundOld(ns, old, more)
    <3>1. \A n \in DOMAIN ns : "nlookup" \in DOMAIN ns[n] /\ ns[n].nlookup \in Nat
      BY NodeFields DEF TableOK, NodeOK
    <3> QED
      BY <2>1, <3>1 DEF FoundOld
  <2> HIDE DEF more
  <2> QED
    BY <1>3, <2>2, <2>3 DEF Finding, old
<1>4. CASE old = None
  <2>1. name # NoName
    BY <1>2, <1>4
  <2>2. new \in Ids \ DOMAIN ns
    BY NextId
  <2> HIDE DEF old, new
  <2>3. R.id = new /\ R.nodes = hashed /\ R.ctr = new
    <3> HIDE DEF hashed
    <3> QED
      BY <1>1, <1>4
  <2>4. hashed = [with EXCEPT ![new].name = name, ![new].parent = parent, ![parent].refctr = @ + 1]
    BY <2>2 DEF hash_name
  <2>5. DOMAIN with = DOMAIN ns \cup {new} /\ with[new] = Node(NoName, None, lookups, 1)
        /\ \A n \in DOMAIN ns : with[n] = ns[n]
    BY <2>2
  <2> HIDE DEF with
  <2>6. parent # new
    BY <2>2
  <2>7. DOMAIN hashed = DOMAIN ns \cup {new}
        /\ hashed[new] = [Node(NoName, None, lookups, 1) EXCEPT !.name = name, !.parent = parent]
        /\ hashed[parent] = [ns[parent] EXCEPT !.refctr = @ + 1]
        /\ \A n \in DOMAIN ns : n # parent => hashed[n] = ns[n]
    BY <2>2, <2>4, <2>5, <2>6
  <2> HIDE DEF hashed
  <2>8. FoundNew(ns, new, parent, name, lookups, hashed)
    <3>1. DOMAIN hashed[new] = DOMAIN Node(NoName, None, 0, 0) /\ hashed[new].name = name /\ hashed[new].parent = parent
          /\ hashed[new].nlookup = lookups /\ hashed[new].refctr = 1 /\ hashed[new].open = 0 /\ hashed[new].tree = 0
      BY <2>7 DEF Node
    <3>2. ASSUME NEW n \in DOMAIN ns
          PROVE  /\ DOMAIN hashed[n] = DOMAIN ns[n] /\ hashed[n].name = ns[n].name /\ hashed[n].parent = ns[n].parent
                 /\ hashed[n].nlookup = ns[n].nlookup /\ hashed[n].open = ns[n].open /\ hashed[n].tree = ns[n].tree
                 /\ hashed[n].refctr = ns[n].refctr + (IF n = parent THEN 1 ELSE 0)
      <4>1. "refctr" \in DOMAIN ns[n] /\ ns[n].refctr \in Nat
        BY NodeFields DEF TableOK, NodeOK
      <4>2. CASE n = parent
        <5>1. hashed[n] = [ns[n] EXCEPT !.refctr = ns[n].refctr + 1]
          BY <2>7, <4>2
        <5>2. \A v : LET h == [ns[n] EXCEPT !.refctr = v] IN
                /\ DOMAIN h = DOMAIN ns[n] /\ h.name = ns[n].name /\ h.parent = ns[n].parent
                /\ h.nlookup = ns[n].nlookup /\ h.open = ns[n].open /\ h.tree = ns[n].tree /\ h.refctr = v
          BY <4>1
        <5> QED
          BY <4>2, <5>1, <5>2
      <4>3. CASE n # parent
        BY <2>7, <4>1, <4>3
      <4> QED
        BY <4>2, <4>3
    <3> QED
      BY <2>2, <2>7, <3>1, <3>2 DEF FoundNew
  <2> QED
    BY <1>4, <2>1, <2>3, <2>8 DEF Finding, old
<1> QED
  BY <1>3, <1>4

\* The parent of a node is a node, or none.
LEMMA ParentIn ==
  ASSUME NEW ns, TableOK(ns), NEW n \in DOMAIN ns
  PROVE  /\ ns[n].parent \in DOMAIN ns \cup {None}
         /\ ns[n].name = NoName => ns[n].parent = None
         /\ n # Root => ns[n].parent # n
<1>1. NodeOK(ns[n])
  BY DEF TableOK
<1>2. ns[n].parent \in DOMAIN ns \cup {None} /\ (ns[n].name = NoName => ns[n].parent = None)
  BY <1>1 DEF TableOK, NodeOK
<1>3. n # Root => ns[n].parent # n
  <2>1. SUFFICES ASSUME n # Root PROVE ns[n].parent # n
    OBVIOUS
  <2>2. \E m \in {n} : ns[m].parent \notin {n}
    BY <2>1 DEF TableOK, Rooted
  <2> QED
    BY <2>2
<1> QED
  BY <1>2, <1>3

\* A table remains one when the name of a node goes, or nodes without a name.
LEMMA CutTable ==
  ASSUME NEW ns, TableOK(ns), NEW x, x # Root, NEW ns2, DOMAIN ns2 \subseteq DOMAIN ns, Root \in DOMAIN ns2,
         \A n \in DOMAIN ns2 : NodeOK(ns2[n]),
         \A n \in DOMAIN ns2 \ {x} : ns2[n].name = ns[n].name /\ ns2[n].parent = ns[n].parent,
         x \in DOMAIN ns2 => ns2[x].name = NoName,
         \A n \in DOMAIN ns2 : ns2[n].name # NoName => ns2[n].parent \in DOMAIN ns2,
         ns2[Root].nlookup > 0, ns2[Root].tree = 0
  PROVE  TableOK(ns2)
<1>1. None \notin DOMAIN ns
  BY NotAborted
<1>2. x \in DOMAIN ns2 => ns2[x].parent = None
  BY DEF NodeOK
<1>3. Rooted(ns2)
  <2>1. SUFFICES ASSUME NEW S \in SUBSET (DOMAIN ns2 \ {Root}), S # {}
                 PROVE  \E n \in S : ns2[n].parent \notin S
    BY DEF Rooted
  <2>2. CASE x \in S
    BY <1>1, <1>2, <2>2
  <2>3. CASE x \notin S
    <3>1. PICK n \in S : ns[n].parent \notin S
      BY <2>1 DEF TableOK, Rooted
    <3> QED
      BY <2>3, <3>1
  <2> QED
    BY <2>2, <2>3
<1>4. \A m, n \in DOMAIN ns2 : ns2[m].name # NoName /\ ns2[m].name = ns2[n].name /\ ns2[m].parent = ns2[n].parent => m = n
  BY DEF TableOK
<1> QED
  BY <1>3, <1>4 DEF TableOK

\* A table remains one when a node gets a child that is new.
LEMMA LeafTable ==
  ASSUME NEW ns, TableOK(ns), NEW x \in Ids \ DOMAIN ns, NEW p \in DOMAIN ns, NEW name, name # NoName,
         \A n \in DOMAIN ns : ~(ns[n].name = name /\ ns[n].parent = p),
         NEW ns2, DOMAIN ns2 = DOMAIN ns \cup {x},
         \A n \in DOMAIN ns2 : NodeOK(ns2[n]),
         \A n \in DOMAIN ns : ns2[n].name = ns[n].name /\ ns2[n].parent = ns[n].parent,
         ns2[x].name = name, ns2[x].parent = p, ns2[Root].nlookup > 0, ns2[Root].tree = 0
  PROVE  TableOK(ns2)
<1>1. None \notin DOMAIN ns
  BY NotAborted
<1>2. \A n \in DOMAIN ns : ns[n].parent # x
  BY <1>1, ParentIn DEF Ids, None
<1>3. Rooted(ns2)
  <2>1. SUFFICES ASSUME NEW S \in SUBSET (DOMAIN ns2 \ {Root}), S # {}
                 PROVE  \E n \in S : ns2[n].parent \notin S
    BY DEF Rooted
  <2>2. CASE S \ {x} = {}
    BY <2>1, <2>2
  <2>3. CASE S \ {x} # {}
    <3>1. S \ {x} \in SUBSET (DOMAIN ns \ {Root})
      BY <2>1
    <3>2. PICK n \in S \ {x} : ns[n].parent \notin S \ {x}
      BY <2>3, <3>1 DEF TableOK, Rooted
    <3>3. n \in DOMAIN ns
      BY <3>1
    <3> QED
      BY <1>2, <3>2, <3>3
  <2> QED
    BY <2>2, <2>3
<1>4. \A m, n \in DOMAIN ns2 : ns2[m].name # NoName /\ ns2[m].name = ns2[n].name /\ ns2[m].parent = ns2[n].parent => m = n
  BY DEF TableOK
<1>5. DOMAIN ns2 \subseteq Ids /\ Root \in DOMAIN ns2 /\ ns2[Root].name = NoName
  BY DEF TableOK
<1>6. \A id \in DOMAIN ns2 : ns2[id].name # NoName => ns2[id].parent \in DOMAIN ns2
  BY DEF TableOK
<1> QED
  BY <1>3, <1>4, <1>5, <1>6 DEF TableOK

\* A table remains one when a node gets another name, in a directory that is not below it.
LEMMA HangTable ==
  ASSUME NEW ns, TableOK(ns), NEW x \in DOMAIN ns \ {Root}, NEW p \in DOMAIN ns, x \notin Above(ns, p), NEW name, name # NoName,
         \A n \in DOMAIN ns : ~(ns[n].name = name /\ ns[n].parent = p),
         NEW ns2, DOMAIN ns2 = DOMAIN ns,
         \A n \in DOMAIN ns2 : NodeOK(ns2[n]),
         \A n \in DOMAIN ns \ {x} : ns2[n].name = ns[n].name /\ ns2[n].parent = ns[n].parent,
         ns2[x].name = name, ns2[x].parent = p, ns2[Root].nlookup > 0, ns2[Root].tree = 0
  PROVE  TableOK(ns2)
<1>1. None \notin DOMAIN ns
  BY NotAborted
<1>2. /\ p # Root => p \in Above(ns, p)
      /\ Above(ns, p) \subseteq DOMAIN ns \ {Root}
      /\ \A y \in Above(ns, p) : ns[y].parent \in Above(ns, p) \cup {Root, None}
  BY <1>1, ChainFacts
<1>3. Rooted(ns2)
  <2>1. SUFFICES ASSUME NEW S \in SUBSET (DOMAIN ns2 \ {Root}), S # {}
                 PROVE  \E n \in S : ns2[n].parent \notin S
    BY DEF Rooted
  <2>2. CASE x \notin S
    <3>1. PICK n \in S : ns[n].parent \notin S
      BY <2>1 DEF TableOK, Rooted
    <3> QED
      BY <2>1, <2>2, <3>1
  <2>3. CASE x \in S /\ S \cap Above(ns, p) = {}
    BY <1>2, <2>1, <2>3
  <2>4. CASE S \cap Above(ns, p) # {}
    <3> DEFINE T == S \cap Above(ns, p)
    <3>1. T \in SUBSET (DOMAIN ns \ {Root}) /\ T # {}
      BY <2>4, <1>2
    <3>2. PICK n \in T : ns[n].parent \notin T
      BY <3>1 DEF TableOK, Rooted
    <3>3. ns[n].parent \notin S
      BY <1>1, <1>2, <2>1, <3>2
    <3>4. n \in DOMAIN ns \ {x}
      BY <3>1
    <3> QED
      BY <3>2, <3>3, <3>4
  <2> QED
    BY <2>2, <2>3, <2>4
<1>4. \A m, n \in DOMAIN ns2 : ns2[m].name # NoName /\ ns2[m].name = ns2[n].name /\ ns2[m].parent = ns2[n].parent => m = n
  BY DEF TableOK
<1>5. DOMAIN ns2 \subseteq Ids /\ Root \in DOMAIN ns2 /\ ns2[Root].name = NoName
  BY DEF TableOK
<1>6. \A id \in DOMAIN ns2 : ns2[id].name # NoName => ns2[id].parent \in DOMAIN ns2
  BY DEF TableOK
<1> QED
  BY <1>3, <1>4, <1>5, <1>6 DEF TableOK

\* Chains away from what changed stay.
LEMMA FarStays ==
  ASSUME NEW ns, TableOK(ns), NEW ns2, DOMAIN ns2 \subseteq Ids, NEW X,
         \A n \in DOMAIN ns \ X : n \in DOMAIN ns2 /\ ns2[n].name = ns[n].name /\ ns2[n].parent = ns[n].parent,
         NEW id \in DOMAIN ns \cup {None}, Above(ns, id) \cap X = {}
  PROVE  Chain(ns2, id) = Chain(ns, id) /\ Above(ns2, id) = Above(ns, id) /\ PathOf(ns2, id) = PathOf(ns, id)
<1>1. Above(ns, id) \subseteq DOMAIN ns
  BY ChainFacts
<1>2. \A x \in Above(ns, id) : x \in DOMAIN ns2 /\ ns2[x].parent = ns[x].parent /\ ns2[x].name = ns[x].name
  BY <1>1
<1> QED
  BY <1>2, ChainStays

\* The fields of a node, by name.
NodeFieldNames == {"name", "parent", "nlookup", "refctr", "open", "hidden", "tree", "ticket", "locks"}

\* Field by field, what an update of a node leaves alone.
LEMMA FieldUpdates ==
  ASSUME NEW m, DOMAIN m = NodeFieldNames, NEW v, NEW u
  PROVE  /\ LET h == [m EXCEPT !.refctr = v] IN
              /\ DOMAIN h = NodeFieldNames /\ h.refctr = v /\ h.name = m.name /\ h.parent = m.parent
              /\ h.nlookup = m.nlookup /\ h.open = m.open /\ h.tree = m.tree
         /\ LET h == [m EXCEPT !.nlookup = v] IN
              /\ DOMAIN h = NodeFieldNames /\ h.nlookup = v /\ h.name = m.name /\ h.parent = m.parent
              /\ h.refctr = m.refctr /\ h.open = m.open /\ h.tree = m.tree
         /\ LET h == [m EXCEPT !.name = v, !.parent = u] IN
              /\ DOMAIN h = NodeFieldNames /\ h.name = v /\ h.parent = u
              /\ h.nlookup = m.nlookup /\ h.refctr = m.refctr /\ h.open = m.open /\ h.tree = m.tree
         /\ LET h == [m EXCEPT !.open = v] IN
              /\ DOMAIN h = NodeFieldNames /\ h.open = v /\ h.name = m.name /\ h.parent = m.parent
              /\ h.nlookup = m.nlookup /\ h.refctr = m.refctr /\ h.tree = m.tree
         /\ LET h == [m EXCEPT !.open = v, !.hidden = u] IN
              /\ DOMAIN h = NodeFieldNames /\ h.open = v /\ h.name = m.name /\ h.parent = m.parent
              /\ h.nlookup = m.nlookup /\ h.refctr = m.refctr /\ h.tree = m.tree
         /\ LET h == [m EXCEPT !.hidden = v] IN Body(h, m) /\ h.tree = m.tree
         /\ LET h == [m EXCEPT !.locks = v] IN Body(h, m) /\ h.tree = m.tree
BY DEF NodeFieldNames, Body

\* The update of one node.
LEMMA OneUpdate ==
  ASSUME NEW ns, NEW x \in DOMAIN ns, NEW v
  PROVE  LET ns2 == [ns EXCEPT ![x] = v] IN
         /\ DOMAIN ns2 = DOMAIN ns /\ ns2[x] = v /\ \A n \in DOMAIN ns \ {x} : ns2[n] = ns[n]
OBVIOUS

\* The counters of a table's nodes are numbers.
Sized(ns) == \A n \in DOMAIN ns : DOMAIN ns[n] = NodeFieldNames /\ ns[n].refctr \in Nat /\ ns[n].nlookup \in Nat

\* Those of a tree are.
LEMMA TableSized ==
  ASSUME NEW ns, TableOK(ns)
  PROVE  Sized(ns)
BY NodeFields DEF TableOK, NodeOK, Sized, NodeFieldNames

\* The fields of two nodes that agree, but for some.
But(m, n, name, parent, nlookup, refctr) ==
  /\ DOMAIN m = NodeFieldNames /\ m.open = n.open /\ m.tree = n.tree
  /\ m.name = name /\ m.parent = parent /\ m.nlookup = nlookup /\ m.refctr = refctr

\* unref_node takes one reference to p away, and the node with the last.
Unreffed(ns, ns2, p) ==
  /\ DOMAIN ns2 = IF ns[p].refctr = 1 THEN DOMAIN ns \ {p} ELSE DOMAIN ns
  /\ \A n \in DOMAIN ns2 :
       But(ns2[n], ns[n], ns[n].name, ns[n].parent, ns[n].nlookup, ns[n].refctr - (IF n = p THEN 1 ELSE 0))

\* unref_node does, if the last reference goes with lock and name gone.
LEMMA UnrefFacts ==
  ASSUME NEW ns, Sized(ns), NEW p \in DOMAIN ns, ns[p].refctr > 0,
         ns[p].refctr = 1 => ns[p].tree = 0 /\ ns[p].name = NoName,
         NEW ns2, ns2 = unref_node(ns, p)
  PROVE  Unreffed(ns, ns2, p)
<1>1. \A n \in DOMAIN ns : But(ns[n], ns[n], ns[n].name, ns[n].parent, ns[n].nlookup, ns[n].refctr - 0)
  BY DEF But, Sized
<1>2. CASE ns[p].refctr = 1
  <2>1. ns2 = [n \in DOMAIN ns \ {p} |-> ns[n]]
    BY <1>2 DEF unref_node, delete_node
  <2> QED
    BY <1>1, <1>2, <2>1 DEF Unreffed
<1>3. CASE ns[p].refctr # 1
  <2> DEFINE v == [ns[p] EXCEPT !.refctr = ns[p].refctr - 1]
  <2>1. ns[p].refctr # 0
    BY DEF Sized
  <2>2. ns2 = [ns EXCEPT ![p] = v]
    BY <1>3, <2>1 DEF unref_node
  <2>3. But(v, ns[p], ns[p].name, ns[p].parent, ns[p].nlookup, ns[p].refctr - 1)
    BY FieldUpdates DEF But, Sized
  <2> HIDE DEF v
  <2>4. DOMAIN ns2 = DOMAIN ns /\ ns2[p] = v /\ \A n \in DOMAIN ns \ {p} : ns2[n] = ns[n]
    BY <2>2, OneUpdate
  <2> QED
    BY <1>1, <1>3, <2>3, <2>4 DEF Unreffed
<1> QED
  BY <1>2, <1>3

\* A node without its name.
Bare(ns, ns2, x) ==
  /\ DOMAIN ns2 = DOMAIN ns
  /\ \A n \in DOMAIN ns2 : But(ns2[n], ns[n], IF n = x THEN NoName ELSE ns[n].name, IF n = x THEN None ELSE ns[n].parent,
                              ns[n].nlookup, ns[n].refctr)

\* Taking the name and the parent away does only that.
LEMMA BareFacts ==
  ASSUME NEW ns, Sized(ns), NEW x \in DOMAIN ns, NEW ns2,
         ns2 = [ns EXCEPT ![x].name = NoName, ![x].parent = None]
  PROVE  Bare(ns, ns2, x) /\ Sized(ns2)
<1> DEFINE v == [ns[x] EXCEPT !.name = NoName, !.parent = None]
<1>1. ns2 = [ns EXCEPT ![x] = v]
  OBVIOUS
<1>2. But(v, ns[x], NoName, None, ns[x].nlookup, ns[x].refctr)
  BY FieldUpdates DEF But, Sized
<1> HIDE DEF v
<1>3. DOMAIN ns2 = DOMAIN ns /\ ns2[x] = v /\ \A n \in DOMAIN ns \ {x} : ns2[n] = ns[n]
  BY <1>1, OneUpdate
<1> QED
  BY <1>2, <1>3 DEF Bare, But, Sized

\* unhash_name takes the name, and the reference of the parent.
Unhung(ns, ns2, x, k) ==
  /\ DOMAIN ns2 = DOMAIN ns
  /\ \A n \in DOMAIN ns2 :
       But(ns2[n], ns[n], IF n = x THEN NoName ELSE ns[n].name, IF n = x THEN None ELSE ns[n].parent,
           ns[n].nlookup - (IF n = x THEN k ELSE 0), ns[n].refctr - (IF n = ns[x].parent THEN 1 ELSE 0))

\* unhash_name takes the name away, then the reference to the parent.
LEMMA UnhashFacts ==
  ASSUME NEW ns, Sized(ns), NEW x \in DOMAIN ns, ns[x].name # NoName, ns[x].parent \in DOMAIN ns \ {x},
         ns[ns[x].parent].refctr > 0,
         ns[ns[x].parent].refctr = 1 => ns[ns[x].parent].tree = 0 /\ ns[ns[x].parent].name = NoName,
         NEW ns2, ns2 = unhash_name(ns, x)
  PROVE  \E bare : Bare(ns, bare, x) /\ Sized(bare) /\ Unreffed(bare, ns2, ns[x].parent)
<1> DEFINE bare == [ns EXCEPT ![x].name = NoName, ![x].parent = None]
<1>1. ns2 = unref_node(bare, ns[x].parent)
  BY DEF unhash_name
<1>2. Bare(ns, bare, x) /\ Sized(bare)
  <2> HIDE DEF bare
  <2> QED
    BY BareFacts DEF bare
<1> HIDE DEF bare
<1>3. ns[x].parent \in DOMAIN bare /\ bare[ns[x].parent].refctr = ns[ns[x].parent].refctr
      /\ bare[ns[x].parent].tree = ns[ns[x].parent].tree /\ bare[ns[x].parent].name = ns[ns[x].parent].name
  BY <1>2 DEF Bare, But
<1>4. Unreffed(bare, ns2, ns[x].parent)
  BY <1>1, <1>2, <1>3, UnrefFacts
<1> QED
  BY <1>2, <1>4

\* unlink_node takes the name of x away, and the lookup a kept node has of its own.
LEMMA UnlinkFacts ==
  ASSUME NEW ns, TableOK(ns), NEW x \in DOMAIN ns \ {Root}, ns[x].name # NoName,
         ns[ns[x].parent].refctr > 1, NEW noforget \in BOOLEAN, noforget => ns[x].nlookup > 1,
         NEW ns2, ns2 = unlink_node(ns, x, noforget)
  PROVE  Unhung(ns, ns2, x, IF noforget THEN 1 ELSE 0)
<1> DEFINE k == IF noforget THEN 1 ELSE 0
           p == ns[x].parent
           v == [ns[x] EXCEPT !.nlookup = ns[x].nlookup - 1]
           less == IF noforget THEN [ns EXCEPT ![x] = v] ELSE ns
<1>1. Sized(ns) /\ p \in DOMAIN ns \ {x} /\ ns[x].nlookup \in Nat /\ ns[x].refctr \in Nat
  BY TableSized, ParentIn DEF TableOK, Sized
<1>2. ns2 = unhash_name(less, x)
  <2>1. ~(noforget /\ ns[x].nlookup <= 1)
    BY <1>1
  <2> QED
    BY <2>1 DEF unlink_node
<1>3. /\ DOMAIN less = DOMAIN ns
      /\ \A n \in DOMAIN ns : But(less[n], ns[n], ns[n].name, ns[n].parent,
                                  ns[n].nlookup - (IF n = x THEN k ELSE 0), ns[n].refctr)
  <2>1. CASE noforget
    <3>1. But(v, ns[x], ns[x].name, ns[x].parent, ns[x].nlookup - 1, ns[x].refctr)
      BY <1>1, FieldUpdates DEF But, Sized
    <3> HIDE DEF v
    <3>2. DOMAIN less = DOMAIN ns /\ less[x] = v /\ \A n \in DOMAIN ns \ {x} : less[n] = ns[n]
      BY <2>1, OneUpdate
    <3> HIDE DEF less
    <3> QED
      BY <1>1, <2>1, <3>1, <3>2 DEF But, Sized
  <2>2. CASE ~noforget
    <3>1. less = ns
      BY <2>2
    <3> HIDE DEF less
    <3> QED
      BY <1>1, <2>2, <3>1 DEF But, Sized
  <2> QED
    BY <2>1, <2>2
<1> HIDE DEF less
<1>4. Sized(less)
  <2>1. \A n \in DOMAIN ns : ns[n].refctr \in Nat /\ ns[n].nlookup \in Nat
    BY <1>1 DEF Sized
  <2>2. \A n \in DOMAIN ns : ns[n].nlookup - (IF n = x THEN k ELSE 0) \in Nat
    BY <1>1, <2>1
  <2> QED
    BY <1>3, <2>1, <2>2 DEF Sized, But
<1>5. less[x].name = ns[x].name /\ less[x].parent = p /\ less[p].refctr = ns[p].refctr
  BY <1>1, <1>3 DEF But
<1>6. ns[p].refctr \in Nat /\ ns[p].refctr > 1
  BY <1>1 DEF Sized
<1>7. \E bare : Bare(less, bare, x) /\ Sized(bare) /\ Unreffed(bare, ns2, p)
  BY <1>1, <1>2, <1>3, <1>4, <1>5, <1>6, UnhashFacts
<1> HIDE DEF k, p
<1>8. PICK bare : Bare(less, bare, x) /\ Sized(bare) /\ Unreffed(bare, ns2, p)
  BY <1>7
<1>9. DOMAIN bare = DOMAIN ns /\ bare[p].refctr = ns[p].refctr
  BY <1>1, <1>3, <1>5, <1>8 DEF Bare, But
<1>10. DOMAIN ns2 = DOMAIN ns
  BY <1>6, <1>8, <1>9 DEF Unreffed
<1> QED
  BY <1>3, <1>8, <1>9, <1>10 DEF Unhung, Bare, Unreffed, But, k, p

\* What a node's last FORGET does: its name goes, its parent loses a reference, and
\* whichever of the two is then without references is deleted.
RefsLeft(ns, x, n) == ns[n].refctr - (IF n = x THEN 1 ELSE 0) - (IF n = ns[x].parent THEN 1 ELSE 0)
\* forget_node takes x, and its parent if that was the last reference to it.
Forgotten(ns, ns2, x) ==
  /\ DOMAIN ns2 = {n \in DOMAIN ns : n \in {x, ns[x].parent} => RefsLeft(ns, x, n) # 0}
  /\ \A n \in DOMAIN ns2 :
       But(ns2[n], ns[n], IF n = x THEN NoName ELSE ns[n].name, IF n = x THEN None ELSE ns[n].parent,
           IF n = x THEN 0 ELSE ns[n].nlookup, RefsLeft(ns, x, n))
\* x has k lookups fewer.
Lessened(ns, ns2, x, k) ==
  /\ DOMAIN ns2 = DOMAIN ns
  /\ \A n \in DOMAIN ns2 :
       But(ns2[n], ns[n], ns[n].name, ns[n].parent, ns[n].nlookup - (IF n = x THEN k ELSE 0), ns[n].refctr)

\* Taking k lookups away does only that.
LEMMA LessFacts ==
  ASSUME NEW ns, Sized(ns), NEW x \in DOMAIN ns, NEW k \in Nat, k <= ns[x].nlookup, NEW ns2,
         ns2 = [ns EXCEPT ![x].nlookup = @ - k]
  PROVE  Lessened(ns, ns2, x, k) /\ Sized(ns2)
<1> DEFINE v == [ns[x] EXCEPT !.nlookup = ns[x].nlookup - k]
<1>1. ns2 = [ns EXCEPT ![x] = v]
  OBVIOUS
<1>2. But(v, ns[x], ns[x].name, ns[x].parent, ns[x].nlookup - k, ns[x].refctr) /\ ns[x].nlookup - k \in Nat
  BY FieldUpdates DEF But, Sized
<1> HIDE DEF v
<1>3. DOMAIN ns2 = DOMAIN ns /\ ns2[x] = v /\ \A n \in DOMAIN ns \ {x} : ns2[n] = ns[n]
  BY <1>1, OneUpdate
<1> QED
  BY <1>2, <1>3 DEF Lessened, But, Sized

\* forget_node takes lookups away, or, with the last of them, the node.
LEMMA ForgetFacts ==
  ASSUME NEW ns, TableOK(ns), NEW x \in DOMAIN ns \ {Root}, NEW k \in Nat \ {0}, k <= ns[x].nlookup,
         k = ns[x].nlookup => ns[x].tree = 0, ns[x].refctr > 0,
         ns[x].name # NoName =>
           /\ ns[ns[x].parent].refctr > 0
           /\ ns[ns[x].parent].refctr = 1 => ns[ns[x].parent].tree = 0 /\ ns[ns[x].parent].name = NoName,
         NEW ns2, ns2 = forget_node(ns, x, k)
  PROVE  IF k < ns[x].nlookup THEN Lessened(ns, ns2, x, k) ELSE Forgotten(ns, ns2, x)
<1> DEFINE less == [ns EXCEPT ![x].nlookup = @ - k]
           p == ns[x].parent
<1>1. Sized(ns) /\ ns[x].nlookup \in Nat /\ ns[x].refctr \in Nat /\ None \notin DOMAIN ns
  BY TableSized, NotAborted DEF Sized
<1>2. ns2 = IF less[x].nlookup > 0 THEN less ELSE unref_node(unhash_name(less, x), x)
  BY <1>1 DEF forget_node
<1>3. Lessened(ns, less, x, k) /\ Sized(less)
  <2> HIDE DEF less
  <2> QED
    BY <1>1, LessFacts DEF less
<1> HIDE DEF less
<1>4. DOMAIN less = DOMAIN ns /\ less[x].nlookup = ns[x].nlookup - k
      /\ \A n \in DOMAIN ns : /\ less[n].refctr = ns[n].refctr /\ less[n].name = ns[n].name /\ less[n].tree = ns[n].tree
                              /\ less[n].parent = ns[n].parent /\ (n # x => less[n].nlookup = ns[n].nlookup)
                              /\ less[n].open = ns[n].open
  BY <1>1, <1>3 DEF Lessened, But, Sized
<1>5. CASE k < ns[x].nlookup
  <2>1. ns2 = less
    BY <1>1, <1>2, <1>4, <1>5
  <2> QED
    BY <1>3, <1>5, <2>1
<1>6. CASE k = ns[x].nlookup
  <2>1. ns2 = unref_node(unhash_name(less, x), x) /\ less[x].nlookup = 0
    BY <1>1, <1>2, <1>4, <1>6
  <2> DEFINE mid == unhash_name(less, x)
  <2>2. CASE ns[x].name = NoName
    <3>1. mid = less /\ p = None
      BY <1>4, <2>2, ParentIn DEF unhash_name
    <3>2. ns2 = unref_node(less, x)
      BY <2>1, <3>1
    <3>3. Unreffed(less, ns2, x)
      <4>1. x \in DOMAIN less /\ less[x].refctr > 0
            /\ less[x].tree = 0 /\ less[x].name = NoName
        BY <1>4, <1>6, <2>2
      <4> HIDE DEF mid
      <4> QED
        BY <1>3, <3>2, <4>1, UnrefFacts
    <3>4. DOMAIN ns2 = {n \in DOMAIN ns : n \in {x, p} => RefsLeft(ns, x, n) # 0}
      <4>1. RefsLeft(ns, x, x) = ns[x].refctr - 1 /\ p \notin DOMAIN ns
        BY <1>1, <3>1 DEF RefsLeft
      <4>2. DOMAIN ns2 = IF ns[x].refctr = 1 THEN DOMAIN ns \ {x} ELSE DOMAIN ns
        BY <1>4, <3>3 DEF Unreffed
      <4>3. ns[x].refctr = 1 <=> ns[x].refctr - 1 = 0
        BY <1>1
      <4> HIDE DEF p
      <4> QED
        BY <4>1, <4>2, <4>3
    <3>5. ASSUME NEW n \in DOMAIN ns2
          PROVE But(ns2[n], ns[n], IF n = x THEN NoName ELSE ns[n].name, IF n = x THEN None ELSE ns[n].parent,
                  IF n = x THEN 0 ELSE ns[n].nlookup, RefsLeft(ns, x, n))
      <4>1. n \in DOMAIN ns /\ n # p
        BY <1>1, <3>1, <3>4
      <4>2. But(ns2[n], less[n], less[n].name, less[n].parent, less[n].nlookup, less[n].refctr - (IF n = x THEN 1 ELSE 0))
        BY <3>3 DEF Unreffed
      <4>3. RefsLeft(ns, x, n) = less[n].refctr - (IF n = x THEN 1 ELSE 0)
        BY <1>1, <1>4, <4>1 DEF RefsLeft, Sized
      <4> HIDE DEF p
      <4> QED
        BY <1>4, <2>1, <2>2, <3>1, <4>1, <4>2, <4>3 DEF But, p
    <3> QED
      BY <1>6, <3>4, <3>5 DEF Forgotten, p
  <2>3. CASE ns[x].name # NoName
    <3>1. p \in DOMAIN ns \ {x}
      BY <2>3, ParentIn DEF TableOK
    <3>2. \E bare : Bare(less, bare, x) /\ Sized(bare) /\ Unreffed(bare, mid, p)
      <4>1. less[x].name # NoName /\ less[x].parent = p /\ p \in DOMAIN less \ {x} /\ less[p].refctr > 0
            /\ (less[p].refctr = 1 => less[p].tree = 0 /\ less[p].name = NoName)
        BY <1>4, <2>3, <3>1
      <4> HIDE DEF mid, p
      <4>2. x \in DOMAIN less
        BY <1>4
      <4> QED
        BY <1>3, <4>1, <4>2, UnhashFacts DEF mid
    <3>3. PICK bare : Bare(less, bare, x) /\ Sized(bare) /\ Unreffed(bare, mid, p)
      BY <3>2
    <3> HIDE DEF mid, p
    <3>4. DOMAIN bare = DOMAIN ns
          /\ \A n \in DOMAIN ns : /\ bare[n].refctr = ns[n].refctr /\ bare[n].open = ns[n].open
               /\ bare[n].tree = ns[n].tree /\ bare[n].nlookup = less[n].nlookup
               /\ (n # x => bare[n].name = ns[n].name /\ bare[n].parent = ns[n].parent)
               /\ (n = x => bare[n].name = NoName /\ bare[n].parent = None)
      BY <1>4, <3>3 DEF Bare, But
    <3>5. x \in DOMAIN mid /\ mid[x].refctr = ns[x].refctr /\ mid[x].tree = 0 /\ mid[x].name = NoName
      BY <1>1, <1>6, <3>1, <3>3, <3>4 DEF Unreffed, But
    <3>6. Sized(mid)
      <4>1. SUFFICES ASSUME NEW n \in DOMAIN mid PROVE DOMAIN mid[n] = NodeFieldNames /\ mid[n].refctr \in Nat /\ mid[n].nlookup \in Nat
        BY DEF Sized
      <4>2. n \in DOMAIN bare /\ But(mid[n], bare[n], bare[n].name, bare[n].parent, bare[n].nlookup, bare[n].refctr - (IF n = p THEN 1 ELSE 0))
        BY <3>3 DEF Unreffed
      <4>3. bare[n].refctr \in Nat /\ bare[n].nlookup \in Nat /\ (n = p => bare[n].refctr > 0)
        BY <2>3, <3>3, <3>4, <4>2 DEF Sized, p
      <4> QED
        BY <4>2, <4>3 DEF But
    <3>7. Unreffed(mid, ns2, x)
      BY <2>1, <3>5, <3>6, UnrefFacts DEF mid
    <3>8. /\ DOMAIN mid = IF ns[p].refctr = 1 THEN DOMAIN ns \ {p} ELSE DOMAIN ns
          /\ DOMAIN ns2 = IF ns[x].refctr = 1 THEN DOMAIN mid \ {x} ELSE DOMAIN mid
      BY <3>1, <3>3, <3>4, <3>5, <3>7 DEF Unreffed
    <3>9. DOMAIN ns2 = {n \in DOMAIN ns : n \in {x, p} => RefsLeft(ns, x, n) # 0}
      <4>1. RefsLeft(ns, x, x) = ns[x].refctr - 1 /\ RefsLeft(ns, x, p) = ns[p].refctr - 1
        BY <1>1, <3>1 DEF RefsLeft, Sized, p
      <4>2. (ns[x].refctr = 1 <=> ns[x].refctr - 1 = 0) /\ (ns[p].refctr = 1 <=> ns[p].refctr - 1 = 0)
        BY <1>1, <3>1 DEF Sized
      <4> QED
        BY <3>1, <3>8, <4>1, <4>2
    <3>10. ASSUME NEW n \in DOMAIN ns2
          PROVE But(ns2[n], ns[n], IF n = x THEN NoName ELSE ns[n].name, IF n = x THEN None ELSE ns[n].parent,
                  IF n = x THEN 0 ELSE ns[n].nlookup, RefsLeft(ns, x, n))
      <4>1. n \in DOMAIN ns /\ n \in DOMAIN mid
        BY <3>8
      <4>2. But(ns2[n], mid[n], mid[n].name, mid[n].parent, mid[n].nlookup, mid[n].refctr - (IF n = x THEN 1 ELSE 0))
        BY <3>7 DEF Unreffed
      <4>3. But(mid[n], bare[n], bare[n].name, bare[n].parent, bare[n].nlookup, bare[n].refctr - (IF n = p THEN 1 ELSE 0))
        BY <3>3, <4>1 DEF Unreffed
      <4>4. RefsLeft(ns, x, n) = mid[n].refctr - (IF n = x THEN 1 ELSE 0)
        BY <1>1, <3>4, <4>1, <4>3 DEF RefsLeft, Sized, p, But
      <4> QED
        BY <1>4, <2>1, <3>4, <4>1, <4>2, <4>3, <4>4 DEF But
    <3> QED
      BY <1>6, <3>9, <3>10 DEF Forgotten, p
  <2> QED
    BY <2>2, <2>3
<1> QED
  BY <1>1, <1>5, <1>6

\* hash_name gives x a name under p, and p a reference.
LEMMA HashFacts ==
  ASSUME NEW ns, Sized(ns), NEW x \in DOMAIN ns, NEW p \in DOMAIN ns \ {x}, NEW name,
         NEW ns2, ns2 = hash_name(ns, x, p, name)
  PROVE  /\ DOMAIN ns2 = DOMAIN ns
         /\ \A n \in DOMAIN ns2 :
              But(ns2[n], ns[n], IF n = x THEN name ELSE ns[n].name, IF n = x THEN p ELSE ns[n].parent,
                  ns[n].nlookup, ns[n].refctr + (IF n = p THEN 1 ELSE 0))
<1> DEFINE v == [ns[x] EXCEPT !.name = name, !.parent = p]
           u == [ns[p] EXCEPT !.refctr = ns[p].refctr + 1]
           mid == [ns EXCEPT ![x] = v]
<1>1. ns2 = [mid EXCEPT ![p] = u]
  BY DEF hash_name
<1>2. But(v, ns[x], name, p, ns[x].nlookup, ns[x].refctr + 0)
  BY FieldUpdates DEF But, Sized
<1>3. But(u, ns[p], ns[p].name, ns[p].parent, ns[p].nlookup, ns[p].refctr + 1)
  BY FieldUpdates DEF But, Sized
<1>4. \A n \in DOMAIN ns : But(ns[n], ns[n], ns[n].name, ns[n].parent, ns[n].nlookup, ns[n].refctr + 0)
  BY DEF But, Sized
<1> HIDE DEF u, v
<1>5. DOMAIN mid = DOMAIN ns /\ mid[x] = v /\ \A n \in DOMAIN ns \ {x} : mid[n] = ns[n]
  BY OneUpdate
<1> HIDE DEF mid
<1>6. DOMAIN ns2 = DOMAIN ns /\ ns2[p] = u /\ \A n \in DOMAIN ns \ {p} : ns2[n] = mid[n]
  BY <1>1, <1>5, OneUpdate
<1> QED
  BY <1>2, <1>3, <1>4, <1>5, <1>6

\* What a rename does to a node's references.
RefsMoved(ns, n, over, old, new) ==
  ns[n].refctr - (IF n = old THEN 1 ELSE 0) + (IF n = new /\ over = None THEN 1 ELSE 0)
\* rename_node hangs x under new as name, and takes the name of over away.
Renamed(ns, ns2, x, over, old, new, name, k) ==
  /\ DOMAIN ns2 = DOMAIN ns
  /\ \A n \in DOMAIN ns2 :
       But(ns2[n], ns[n], IF n = x THEN name ELSE IF n = over THEN NoName ELSE ns[n].name,
           IF n = x THEN new ELSE IF n = over THEN None ELSE ns[n].parent,
           ns[n].nlookup - (IF n = over THEN k ELSE 0), RefsMoved(ns, n, over, old, new))

\* rename_node does, and reports no error.
LEMMA RenameFacts ==
  ASSUME NEW ns, TableOK(ns), NEW old \in DOMAIN ns, NEW new \in DOMAIN ns, NEW oldname, NEW newname,
         oldname # NoName, newname # NoName, <<old, oldname>> # <<new, newname>>,
         ns[old].refctr > 1,
         NEW x, x = lookup_node(ns, old, oldname), NEW over, over = lookup_node(ns, new, newname),
         x # None, x # new, over # None => ns[new].refctr > 1, old = new /\ over # None => ns[old].refctr > 2,
         NEW noforget \in BOOLEAN, noforget /\ over # None => ns[over].nlookup > 1,
         NEW hide \in BOOLEAN, hide => over = None,
         NEW R, R = rename_node(ns, old, oldname, new, newname, hide, noforget)
  PROVE  R.err = "ok" /\ Renamed(ns, R.nodes, x, over, old, new, newname, IF noforget THEN 1 ELSE 0)
<1> DEFINE k == IF noforget THEN 1 ELSE 0
           clear == IF over = None THEN ns ELSE unlink_node(ns, over, noforget)
           bare == unhash_name(clear, x)
           moved == hash_name(bare, x, new, newname)
           hidden == [moved EXCEPT ![x].hidden = TRUE]
           ref(n) == IF over # None /\ n = new THEN 1 ELSE 0
<1>1. Sized(ns) /\ None \notin DOMAIN ns
      /\ x \in DOMAIN ns \ {Root} /\ ns[x].name = oldname /\ ns[x].parent = old
      /\ (over # None => over \in DOMAIN ns \ {Root} /\ ns[over].name = newname /\ ns[over].parent = new)
  BY TableSized, NotAborted, LookupFacts
<1>2. x # over /\ x # old
  <2>1. x # old
    BY <1>1, ParentIn
  <2> QED
    BY <1>1, <2>1
<1>3. R.err = "ok" /\ R.nodes = IF hide THEN hidden ELSE moved
  <2> DEFINE nn == IF hide THEN hidden ELSE moved
  <2>1. R = [err |-> "ok", nodes |-> nn]
    BY DEF rename_node
  <2> HIDE DEF nn
  <2> QED
    BY <2>1 DEF nn
<1> HIDE DEF hidden, moved, bare
<1>4. /\ DOMAIN clear = DOMAIN ns
      /\ \A n \in DOMAIN ns : But(clear[n], ns[n], IF n = over THEN NoName ELSE ns[n].name, IF n = over THEN None ELSE ns[n].parent,
                                  ns[n].nlookup - (IF n = over THEN k ELSE 0), ns[n].refctr - ref(n))
  <2>1. CASE over = None
    <3>1. clear = ns
      BY <2>1
    <3> HIDE DEF clear
    <3> QED
      BY <1>1, <2>1, <3>1 DEF But, Sized
  <2>2. CASE over # None
    <3>1. clear = unlink_node(ns, over, noforget)
      BY <2>2
    <3> HIDE DEF clear
    <3>2. Unhung(ns, clear, over, k)
      BY <1>1, <2>2, <3>1, UnlinkFacts
    <3> QED
      BY <1>1, <2>2, <3>2 DEF Unhung, But
  <2> QED
    BY <2>1, <2>2
<1> HIDE DEF clear
<1>5. Sized(clear)
  <2>1. SUFFICES ASSUME NEW n \in DOMAIN ns
        PROVE DOMAIN clear[n] = NodeFieldNames /\ clear[n].refctr \in Nat /\ clear[n].nlookup \in Nat
    BY <1>4 DEF Sized
  <2>2. ns[n].refctr \in Nat /\ ns[n].nlookup \in Nat
    BY <1>1 DEF Sized
  <2>3. ns[n].refctr - ref(n) \in Nat
    BY <2>2
  <2>4. ns[n].nlookup - (IF n = over THEN k ELSE 0) \in Nat
    BY <1>1, <2>2
  <2> QED
    BY <1>4, <2>3, <2>4 DEF But
<1>6. x \in DOMAIN clear /\ clear[x].name # NoName /\ clear[x].parent = old /\ old \in DOMAIN clear \ {x}
      /\ clear[old].refctr > 1
  <2>1. ns[old].refctr \in Nat /\ ns[old].refctr - ref(old) > 1
    BY <1>1 DEF Sized
  <2> QED
    BY <1>1, <1>2, <1>4, <2>1 DEF But
<1>7. \E b : Bare(clear, b, x) /\ Sized(b) /\ Unreffed(b, bare, old)
  <2>1. ns[old].refctr \in Nat /\ clear[old].refctr \in Nat
    BY <1>1, <1>5, <1>6 DEF Sized
  <2>2. clear[old].refctr > 0 /\ clear[old].refctr # 1
    BY <1>6, <2>1
  <2> QED
    BY <1>5, <1>6, <2>2, UnhashFacts DEF bare
<1>8. PICK b : Bare(clear, b, x) /\ Sized(b) /\ Unreffed(b, bare, old)
  BY <1>7
<1> DEFINE ref2(n) == IF n = old THEN 1 ELSE 0
<1>9. /\ DOMAIN bare = DOMAIN ns
      /\ \A n \in DOMAIN ns : But(bare[n], ns[n], IF n \in {x, over} THEN NoName ELSE ns[n].name,
             IF n \in {x, over} THEN None ELSE ns[n].parent,
             ns[n].nlookup - (IF n = over THEN k ELSE 0), ns[n].refctr - ref(n) - ref2(n))
  <2>1. DOMAIN b = DOMAIN ns /\ b[old].refctr = clear[old].refctr
    BY <1>4, <1>6, <1>8 DEF Bare, But
  <2>2. b[old].refctr # 1
    <3>1. clear[old].refctr \in Nat
      BY <1>5, <1>6 DEF Sized
    <3> QED
      BY <1>6, <2>1, <3>1
  <2>3. DOMAIN bare = DOMAIN ns
    BY <1>8, <2>1, <2>2 DEF Unreffed
  <2>4. ASSUME NEW n \in DOMAIN ns
        PROVE But(bare[n], ns[n], IF n \in {x, over} THEN NoName ELSE ns[n].name,
             IF n \in {x, over} THEN None ELSE ns[n].parent,
             ns[n].nlookup - (IF n = over THEN k ELSE 0), ns[n].refctr - ref(n) - ref2(n))
    <3>1. But(bare[n], b[n], b[n].name, b[n].parent, b[n].nlookup, b[n].refctr - ref2(n))
      BY <1>8, <2>3 DEF Unreffed
    <3>2. But(b[n], clear[n], IF n = x THEN NoName ELSE clear[n].name, IF n = x THEN None ELSE clear[n].parent,
                              clear[n].nlookup, clear[n].refctr)
      BY <1>8, <2>1 DEF Bare
    <3>3. But(clear[n], ns[n], IF n = over THEN NoName ELSE ns[n].name, IF n = over THEN None ELSE ns[n].parent,
                                  ns[n].nlookup - (IF n = over THEN k ELSE 0), ns[n].refctr - ref(n))
      BY <1>4
    <3> HIDE DEF ref, ref2, k
    <3> QED
      BY <3>1, <3>2, <3>3 DEF But
  <2> QED
    BY <2>3, <2>4
<1>10. Sized(bare)
  <2>1. SUFFICES ASSUME NEW n \in DOMAIN ns
        PROVE DOMAIN bare[n] = NodeFieldNames /\ bare[n].refctr \in Nat /\ bare[n].nlookup \in Nat
    BY <1>9 DEF Sized
  <2>2. ns[n].refctr \in Nat /\ ns[n].nlookup \in Nat
    BY <1>1 DEF Sized
  <2>3. ns[n].refctr - ref(n) - ref2(n) \in Nat
    BY <2>2
  <2>4. ns[n].nlookup - (IF n = over THEN k ELSE 0) \in Nat
    BY <1>1, <2>2
  <2> QED
    BY <1>9, <2>3, <2>4 DEF But
<1>11. /\ DOMAIN moved = DOMAIN ns
       /\ \A n \in DOMAIN ns :
              But(moved[n], bare[n], IF n = x THEN newname ELSE bare[n].name, IF n = x THEN new ELSE bare[n].parent,
                  bare[n].nlookup, bare[n].refctr + (IF n = new THEN 1 ELSE 0))
  <2>1. x \in DOMAIN bare /\ new \in DOMAIN bare \ {x}
    BY <1>1, <1>9
  <2> QED
    BY <1>9, <1>10, <2>1, HashFacts DEF moved
<1>12. Renamed(ns, moved, x, over, old, new, newname, k)
  <2>1. SUFFICES ASSUME NEW n \in DOMAIN ns
        PROVE But(moved[n], ns[n], IF n = x THEN newname ELSE IF n = over THEN NoName ELSE ns[n].name,
           IF n = x THEN new ELSE IF n = over THEN None ELSE ns[n].parent,
           ns[n].nlookup - (IF n = over THEN k ELSE 0), RefsMoved(ns, n, over, old, new))
    BY <1>11 DEF Renamed
  <2>2. ns[n].refctr \in Nat
    BY <1>1 DEF Sized
  <2>3. RefsMoved(ns, n, over, old, new) = ns[n].refctr - ref(n) - ref2(n) + (IF n = new THEN 1 ELSE 0)
    BY <2>2 DEF RefsMoved
  <2> HIDE DEF ref, ref2, k
  <2> QED
    BY <1>2, <1>9, <1>11, <2>1, <2>3 DEF But
<1>13. Renamed(ns, hidden, x, over, old, new, newname, k)
  <2> DEFINE v == [moved[x] EXCEPT !.hidden = TRUE]
  <2>1. hidden = [moved EXCEPT ![x] = v]
    BY DEF hidden
  <2>2. DOMAIN moved[x] = NodeFieldNames /\ x \in DOMAIN moved
    BY <1>1, <1>12 DEF Renamed, But
  <2>3. Body(v, moved[x]) /\ v.tree = moved[x].tree
    BY <2>2, FieldUpdates, ZenonT(30)
  <2> HIDE DEF v
  <2>4. DOMAIN hidden = DOMAIN moved /\ hidden[x] = v /\ \A n \in DOMAIN moved \ {x} : hidden[n] = moved[n]
    BY <2>1, <2>2, OneUpdate
  <2> HIDE DEF k
  <2> QED
    BY <1>12, <2>2, <2>3, <2>4 DEF Renamed, But, Body
<1> QED
  BY <1>3, <1>12, <1>13

(***************************************************************************)
(* What a step of one request leaves of the others.                        *)
(***************************************************************************)

\* What of the invariant concerns the requests alone.
Places == TypeOK /\ \A r \in Reqs : PlaceOK(r)

\* What the kernel sends: where a request gets its node from, and its names.
LEMMA OpFacts ==
  ASSUME TypeOK, NEW r \in Reqs
  PROVE  /\ Op(r) \in Ops /\ Req(r).op = Op(r) /\ Req(r).needs \subseteq Reqs
         /\ Req(r).n2 \in Ids \cup {None} /\ Req(r).victim \in Ids \cup {None}
         /\ Req(r).of = 0 => Req(r).n \in Ids
         /\ Req(r).of # 0 => Req(r).of \in Req(r).needs /\ Req(r).of \in Reqs /\ Op(Req(r).of) \in Finders
         /\ Op(r) \in {"rename", "link"} => Req(r).n2 \in Ids /\ Req(r).nm2 # NoName
         /\ Op(r) \in Naming => Req(r).of = 0 /\ Req(r).nm # NoName
         /\ Op(r) = "rename" => <<Req(r).n, Req(r).nm>> # <<Req(r).n2, Req(r).nm2>>
<1> DEFINE q == work.reqs[r]
<1>1. RequestOK(work.reqs, r) /\ Req(r) = q /\ Op(r) = q.op
  BY WorkOK DEF Req, Op
<1>2. \A p \in Reqs : Op(p) = work.reqs[p].op
  BY DEF Op, Req
<1>3. q.op \in Ops /\ q.needs \subseteq Reqs
  BY <1>1 DEF RequestOK, Ops, Reqs
<1>4. q.n2 \in Ids \cup {None} /\ q.victim \in Ids \cup {None} /\ (q.of = 0 => q.n \in Ids)
  BY <1>1 DEF RequestOK, Ids
<1>5. q.of # 0 => q.of \in q.needs /\ work.reqs[q.of].op \in Finders
  BY <1>1 DEF RequestOK
<1>6. /\ q.op \in Naming => q.of = 0 /\ q.nm # NoName
      /\ q.op \in {"rename", "link"} => q.n2 # None /\ q.nm2 # NoName
      /\ q.op = "rename" => <<q.n, q.nm>> # <<q.n2, q.nm2>>
  BY <1>1 DEF RequestOK
<1> HIDE DEF q
<1> QED
  BY <1>1, <1>2, <1>3, <1>4, <1>5, <1>6

\* A request that was answered has no answer ahead, and found its node.
LEMMA AnsweredFacts ==
  ASSUME Places, NEW q \in Reqs, answer[q] # "none"
  PROVE  /\ Started(q) /\ (Op(q) # "forget" => ~Replying(q))
         /\ Op(q) \in Finders => ~Ahead(q, "find")
         /\ Op(q) \in Finders /\ answer[q] = "ok" => loc[q].id \in Ids
<1>1. PlaceOK(q) /\ TypeOK
  BY DEF Places
<1>2. Started(q) /\ (Op(q) # "forget" => ~Replying(q))
  BY <1>1 DEF PlaceOK, Op
<1>3. Op(q) \in Finders => ~Ahead(q, "find")
  <2>1. SUFFICES ASSUME Op(q) \in Finders, Ahead(q, "find") PROVE FALSE
    OBVIOUS
  <2>2. Op(q) # "forget"
    BY <2>1 DEF Finders
  <2>3. Later(Op(q), pc[q], "find")
    BY <2>1, AheadLater
  <2>4. PICK k \in DOMAIN Program(q) : k >= pc[q] /\ Program(q)[k] = "find"
    BY <2>1 DEF Ahead
  <2>5. Ordered(Op(q), k, "find") /\ k \in Nat
    <3>1. Op(q) \in Ops
      BY <1>1, OpFacts
    <3>2. PICK n \in Nat \ {0} : DOMAIN Program(q) = 1 .. n
      BY <3>1, ProgramSeq, AheadLater
    <3> QED
      BY <2>4, <3>1, <3>2, OrderOf, AheadLater
  <2>6. \E t \in Replies : Later(Op(q), k + 1, t)
    <3>1. Later(Op(q), k + 1, "reply_entry") \/ Later(Op(q), k + 1, "reply_open")
      BY <2>5 DEF Ordered
    <3> QED
      BY <3>1 DEF Replies
  <2>7. \E t \in Replies : Ahead(q, t)
    <3>0. pc[q] \in Nat
      BY <1>1 DEF TypeOK
    <3>1. PICK n \in Nat \ {0} : DOMAIN Program(q) = 1 .. n
      BY <1>1, OpFacts, ProgramSeq, AheadLater
    <3>2. \A j \in DOMAIN Program(q) : j >= k + 1 => j >= pc[q]
      BY <2>4, <2>5, <3>0, <3>1
    <3> QED
      BY <2>6, <3>2, AheadLater DEF Later, Ahead
  <2> QED
    BY <1>2, <2>2, <2>7 DEF Replying
<1>4. Op(q) \in Finders /\ answer[q] = "ok" => loc[q].id \in Ids
  <2>1. SUFFICES ASSUME Op(q) \in Finders, answer[q] = "ok" PROVE loc[q].id \in Ids
    OBVIOUS
  <2>2. loc[q].err = "ok" /\ loc[q].id \in Ids \cup {None}
    BY <1>1, <1>2, <2>1 DEF PlaceOK, LocOK
  <2>3. loc[q].id # None
    BY <1>1, <1>2, <1>3, <2>1, <2>2 DEF PlaceOK, Op
  <2> QED
    BY <2>2, <2>3
<1> QED
  BY <1>2, <1>3, <1>4

\* A request for the node another found comes after the answer to that one.
LEMMA OfFacts ==
  ASSUME Places, NEW q \in Reqs, Started(q)
  PROVE  /\ NodeOf(q) \in Ids
         /\ Req(q).of # 0 => /\ Req(q).of \in Reqs /\ answer[Req(q).of] = "ok" /\ Started(Req(q).of)
                             /\ Op(Req(q).of) \in Finders /\ NodeOf(q) = loc[Req(q).of].id
                             /\ ~Ahead(Req(q).of, "find") /\ ~Replying(Req(q).of)
<1>1. CASE Req(q).of = 0
  BY <1>1, OpFacts DEF NodeOf, Places
<1>2. CASE Req(q).of # 0
  <2> DEFINE p == Req(q).of
  <2>1. p \in Req(q).needs /\ p \in Reqs /\ Op(p) \in Finders
    BY <1>2, OpFacts DEF Places
  <2>2. answer[p] = "ok"
    BY <2>1 DEF Places, PlaceOK
  <2>3. Started(p) /\ (Op(p) # "forget" => ~Replying(p)) /\ ~Ahead(p, "find") /\ loc[p].id \in Ids
    BY <2>1, <2>2, AnsweredFacts
  <2>4. Op(p) # "forget"
    BY <2>1 DEF Finders
  <2> QED
    BY <1>2, <2>1, <2>2, <2>3, <2>4 DEF NodeOf
<1> QED
  BY <1>1, <1>2

\* Locals that a step may leave behind.
Fits(r, l) ==
  LET s == Step(r) IN
  /\ LocOK(l)
  /\ s # "find" => l.id = loc[r].id
  /\ s = "find" => l.id # None
  /\ s \notin Gets => l.w = loc[r].w /\ l.w2 = loc[r].w2 /\ l.path = loc[r].path /\ l.path2 = loc[r].path2
  /\ s \notin Gets \cup {"free"} => l.locked = loc[r].locked
  /\ s = "free" => ~l.locked
  /\ s \in Gets => (l.err = "ok" => l.locked \/ s = "getany")
  /\ l.err # loc[r].err => s \in Spoils
  /\ l.err = "ok" => loc[r].err = "ok"
  /\ l.n = loc[r].n /\ l.victim = loc[r].victim
  /\ l.intr = loc[r].intr \/ (s \in {"reply_open", "reply_entry"} /\ l.intr /\ l.err = "ok")
  /\ s \notin {"pin", "unpin"} => l.pinned = loc[r].pinned
  /\ s = "pin" => (l.err = "ok" => l.pinned)
  /\ s = "unpin" => ~l.pinned
  /\ s \notin {"is_open", "list_conflict"} => l.hide = loc[r].hide
  /\ s # "hide_name" => l.hname = loc[r].hname
  /\ s = "hide_name" /\ l.err = "ok" => l.hname # NoName
  /\ l.w # None /\ l.w # loc[r].w => Op(r) \in {"unlink", "rmdir", "rename"}
  /\ l.w2 # None /\ l.w2 # loc[r].w2 => Op(r) = "rename"
  /\ Op(r) \in {"unlink", "rmdir"} /\ s \in Gets /\ l.locked => l.w = l.victim

\* A request is answered once, and by its reply step only.
Answers(r, l) ==
  \/ Step(r) \notin Replies /\ answer' = answer /\ l.intr = loc[r].intr
  \/ /\ Step(r) \in Replies /\ l.err = loc[r].err
     /\ \/ l.intr = loc[r].intr /\ answer' = [answer EXCEPT ![r] = IF l.err = "ok" THEN "ok" ELSE "err"]
        \/ l.intr /\ l.err = "ok" /\ answer' = [answer EXCEPT ![r] = "intr"]

\* r takes a step of its program.
Moves(r, l) ==
  /\ r \in Reqs /\ Running(r) /\ Advance(r, l) /\ work' = work
  /\ Fits(r, l) /\ Answers(r, l)

\* A step of r answers r or nobody.
LEMMA MoveAnswers ==
  ASSUME Places, NEW r, NEW l, Moves(r, l)
  PROVE  /\ DOMAIN answer' = Reqs /\ \A q \in Reqs \ {r} : answer'[q] = answer[q]
         /\ \A q \in Reqs : answer[q] # "none" => answer'[q] = answer[q]
         /\ answer' \in [Reqs -> {"none", "ok", "err", "intr"}]
         /\ Step(r) \in Replies => answer[r] = "none" /\ Op(r) # "forget" /\ answer'[r] # "none"
<1>1. TypeOK /\ PlaceOK(r) /\ r \in Reqs /\ Running(r) /\ Answers(r, l)
  BY DEF Moves, Places
<1>2. answer \in [Reqs -> {"none", "ok", "err", "intr"}]
  BY <1>1 DEF TypeOK
<1>3. Started(r) /\ Ahead(r, Step(r)) /\ Ordered(Op(r), pc[r], Step(r))
  BY <1>1, RunningOrder
<1>4. Step(r) \in Replies => Op(r) # "forget"
  <2>1. Step(r) \in Replies => Step(r) # "forget"
    BY DEF Replies
  <2> QED
    BY <1>3, <2>1 DEF Ordered
<1>5. Step(r) \in Replies => answer[r] = "none"
  BY <1>1, <1>3, <1>4 DEF PlaceOK, Replying, Op
<1> QED
  BY <1>1, <1>2, <1>4, <1>5 DEF Answers

\* The node of a request stays what it is.
LEMMA MoveNodes ==
  ASSUME Places, NEW r, NEW l, Moves(r, l)
  PROVE  /\ \A q \in Reqs : answer[q] = "ok" => loc'[q].id = loc[q].id
         /\ \A q \in Reqs : Started(q) => NodeOf(q)' = NodeOf(q)
<1>1. TypeOK /\ r \in Reqs /\ Running(r) /\ Advance(r, l) /\ work' = work /\ Fits(r, l)
  BY DEF Moves, Places
<1>2. loc'[r] = l /\ (\A q \in Reqs \ {r} : Same(q)) /\ Ordered(Op(r), pc[r], Step(r))
  BY <1>1, AdvanceFacts
<1>3. answer[r] = "ok" => Step(r) # "find"
  <2>1. SUFFICES ASSUME answer[r] = "ok", Step(r) = "find" PROVE FALSE
    OBVIOUS
  <2>2. Op(r) \in Finders
    BY <1>2, <2>1 DEF Ordered
  <2>3. Ahead(r, "find")
    BY <1>1, <2>1, RunningOrder
  <2> QED
    BY <1>1, <2>1, <2>2, <2>3, AnsweredFacts
<1>4. \A q \in Reqs : answer[q] = "ok" => loc'[q].id = loc[q].id
  BY <1>1, <1>2, <1>3 DEF Fits, Same
<1>5. ASSUME NEW q \in Reqs, Started(q) PROVE NodeOf(q)' = NodeOf(q)
  <2>1. Req(q)' = Req(q)
    BY <1>1 DEF Req
  <2>2. CASE Req(q).of = 0
    BY <2>1, <2>2 DEF NodeOf
  <2>3. CASE Req(q).of # 0
    <3>1. Req(q).of \in Reqs /\ answer[Req(q).of] = "ok"
      BY <1>5, <2>3, OfFacts
    <3> QED
      BY <1>4, <2>1, <2>3, <3>1 DEF NodeOf
  <2> QED
    BY <2>2, <2>3
<1> QED
  BY <1>4, <1>5

\* The others stay in place.
LEMMA PlaceSame ==
  ASSUME NEW q \in Reqs, PlaceOK(q), work' = work, Same(q), answer'[q] = answer[q],
         \A p \in Reqs : answer[p] = "ok" => answer'[p] = "ok",
         Req(q).needs \subseteq Reqs, Started(q) => NodeOf(q)' = NodeOf(q)
  PROVE  PlaceOK(q)'
<1>1. \A t : Applies(q, t, loc[q])' = Applies(q, t, loc[q])
  BY DEF Applies, Same
<1>2. Applies(q, Step(q), loc[q])' = Applies(q, Step(q), loc[q])
  BY DEF Applies, Same
<1>3. Getting(q)' = Getting(q) /\ Replying(q)' = Replying(q)
  BY DEF Same, Getting, Replying
<1>4. Started(q)' = Started(q) /\ Running(q)' = Running(q) /\ loc'[q] = loc[q] /\ Req(q)' = Req(q)
      /\ \A t : Ahead(q, t)' = Ahead(q, t)
  BY DEF Same
<1>5. LocOK(loc[q])'
  BY <1>4 DEF PlaceOK, LocOK
<1>6. Started(q)' => \A p \in Req(q)'.needs : answer'[p] = "ok"
  BY <1>4 DEF PlaceOK
<1> QED
  BY <1>2, <1>3, <1>4, <1>5, <1>6 DEF PlaceOK

\* A step leaves its request in place.
LEMMA PlaceMoved ==
  ASSUME Places, NEW r, NEW l, Moves(r, l)
  PROVE  PlaceOK(r)'
<1>1. TypeOK /\ PlaceOK(r) /\ r \in Reqs /\ Running(r) /\ Advance(r, l) /\ work' = work /\ Fits(r, l) /\ Answers(r, l)
  BY DEF Moves, Places
<1> DEFINE s == Step(r)
           now == loc[r]
<1>2. /\ loc'[r] = l
      /\ Req(r)' = Req(r) /\ Op(r)' = Op(r) /\ Started(r)' /\ Started(r)
      /\ \A t : Ahead(r, t)' => Ahead(r, t) /\ Later(Op(r), pc[r] + 1, t)
      /\ \A t : Ahead(r, t) /\ t # s /\ Applies(r, t, l) => Ahead(r, t)'
      /\ \A t : Later(Op(r), pc[r] + 1, t) /\ Applies(r, t, l) => Ahead(r, t)'
      /\ \A t : t = s /\ t # "touch" => ~Ahead(r, t)'
      /\ Running(r)' => Applies(r, Step(r)', l)
      /\ Ordered(Op(r), pc[r], s)
  BY <1>1, AdvanceFacts
<1>3. /\ Req(r).op = Op(r) /\ Ahead(r, s) /\ Applies(r, s, now) /\ pc[r] \in Nat
  BY <1>1, <1>2, RunningOrder DEF PlaceOK, Op
<1>4. /\ DOMAIN answer' = Reqs /\ \A q \in Reqs : answer[q] # "none" => answer'[q] = answer[q]
      /\ s \in Replies => answer[r] = "none" /\ Op(r) # "forget" /\ answer'[r] # "none"
  BY MoveAnswers
<1>5. NodeOf(r)' = NodeOf(r)
  BY <1>1, <1>2, MoveNodes
<1>6. s \notin Special \/ s = "fs_unlock" => now.err = "ok"
  BY <1>3, AppliesIs
<1>7. \A t : Ahead(r, t) <=> Later(Op(r), pc[r], t)
  BY AheadLater
<1> HIDE DEF s, now
<1>8. Getting(r)' => Getting(r)
  BY <1>2 DEF Getting
<1>9. /\ Applies(r, "free", l) = l.locked
      /\ \A t \in Replies : Applies(r, t, l) = TRUE
      /\ Applies(r, "pin", l) = (Op(r) = "dot")
      /\ Applies(r, "unpin", l) = l.pinned
      /\ \A t \in {"getany", "getname", "getw", "get2", "get2w", "find"} : Applies(r, t, l) = (l.err = "ok")
  <2>1. \A t \in {"getany", "getname", "getw", "get2", "get2w", "find"} : t \notin Special
    BY DEF Special, Replies
  <2> QED
    BY <2>1, AppliesIs, ZenonT(40)
\* The replies to come.
<1>10. Op(r) # "forget" => (answer'[r] = "none" <=> Replying(r)')
  <2>1. SUFFICES ASSUME Op(r) # "forget" PROVE answer'[r] = "none" <=> Replying(r)'
    OBVIOUS
  <2>2. CASE s \in Replies
    <3>1. \A t : Later(Op(r), pc[r] + 1, t) => t \in Ends
      BY <1>2, <2>2 DEF Ordered
    <3>2. ~Replying(r)'
      BY <1>2, <3>1 DEF Replying, Ends, Replies
    <3> QED
      BY <1>4, <2>2, <3>2
  <2>3. CASE s \notin Replies
    <3>1. answer' = answer
      BY <1>1, <2>3 DEF Answers, s
    <3>2. Replying(r)' <=> Replying(r)
      BY <1>2, <1>9, <2>3 DEF Replying
    <3> QED
      BY <1>1, <1>2, <2>1, <3>1, <3>2 DEF PlaceOK, Op
  <2> QED
    BY <2>2, <2>3
<1>11. Op(r) = "forget" => answer'[r] = "ok"
  BY <1>1, <1>2, <1>4 DEF PlaceOK, Op
\* An answer is never followed by an error.
<1>12. answer[r] # "none" /\ now.err = "ok" => l.err = "ok"
  <2>1. SUFFICES ASSUME answer[r] # "none", now.err = "ok", l.err # "ok" PROVE FALSE
    OBVIOUS
  <2>2. s \in Spoils
    BY <1>1, <2>1 DEF Fits, s, now
  <2>3. \E t \in Replies : Later(Op(r), pc[r] + 1, t)
    <3>1. \E u \in Spoils : Later(Op(r), pc[r], u)
      BY <1>3, <1>7, <2>2
    <3>2. (\E u \in Spoils : Later(Op(r), pc[r], u)) => (\E t \in Replies : Later(Op(r), pc[r] + 1, t))
      BY <1>2 DEF Ordered
    <3> QED
      BY <3>1, <3>2
  <2>4. \E t \in Replies : Ahead(r, t)
    BY <1>2, <1>9, <2>3
  <2>5. Op(r) # "forget"
    <3>1. Op(r) = "forget" => s = "forget"
      BY <1>2 DEF Ordered
    <3> QED
      BY <2>2, <3>1 DEF Spoils, Gets
  <2> QED
    BY <1>1, <1>2, <2>1, <2>4, <2>5 DEF PlaceOK, Replying, Op
<1>13. answer'[r] = "ok" => l.err = "ok"
  <2>1. CASE s \in Replies
    BY <1>1, <1>4, <2>1 DEF Answers, s, now, TypeOK
  <2>2. CASE s \notin Replies
    <3>1. answer' = answer
      BY <1>1, <2>2 DEF Answers, s
    <3> QED
      BY <1>1, <1>2, <1>12, <3>1 DEF PlaceOK, now
  <2> QED
    BY <2>1, <2>2
<1>132. answer'[r] = "err" => l.err # "ok"
  <2>1. CASE s \in Replies
    BY <1>1, <1>4, <2>1 DEF Answers, s, now, TypeOK
  <2>2. CASE s \notin Replies
    <3>1. answer' = answer
      BY <1>1, <2>2 DEF Answers, s
    <3> QED
      BY <1>1, <1>2, <3>1 DEF PlaceOK, Fits
  <2> QED
    BY <2>1, <2>2
<1>14. l.intr <=> answer'[r] = "intr"
  <2>1. CASE s \in Replies
    <3>1. ~now.intr
      BY <1>1, <1>2, <1>4, <2>1 DEF PlaceOK, now
    <3> QED
      BY <1>1, <2>1, <3>1 DEF Answers, s, now, TypeOK
  <2>2. CASE s \notin Replies
    BY <1>1, <1>2, <2>2 DEF Answers, s, now, PlaceOK
  <2> QED
    BY <2>1, <2>2
<1>15. l.intr => l.err = "ok"
  <2>1. SUFFICES ASSUME l.intr PROVE l.err = "ok"
    OBVIOUS
  <2>2. CASE s \in Replies
    BY <1>1, <1>2, <1>4, <2>1, <2>2 DEF Answers, s, now, PlaceOK
  <2>3. CASE s \notin Replies
    <3>1. now.intr
      BY <1>1, <2>1, <2>3 DEF Answers, s, now
    <3>2. answer[r] # "none" /\ now.err = "ok"
      BY <1>1, <1>2, <3>1 DEF PlaceOK, now
    <3> QED
      BY <1>12, <3>2
  <2> QED
    BY <2>2, <2>3
\* The path.
<1>16. l.locked => Ahead(r, "free")' /\ ~Getting(r)'
  <2>1. SUFFICES ASSUME l.locked PROVE Ahead(r, "free")' /\ ~Getting(r)'
    OBVIOUS
  <2>2. s # "free"
    BY <1>1, <2>1 DEF Fits, s
  <2>3. CASE s \in Gets
    <3>1. Later(Op(r), pc[r] + 1, "free") /\ \A g \in Gets : ~Later(Op(r), pc[r] + 1, g)
      <4>1. s \in Gets => \A g \in Gets : ~Later(Op(r), pc[r] + 1, g)
        BY <1>2 DEF Ordered
      <4>2. (\E g \in Gets : Later(Op(r), pc[r], g)) => Later(Op(r), pc[r] + 1, "free")
        BY <1>2 DEF Ordered
      <4> QED
        BY <1>3, <1>7, <2>3, <4>1, <4>2
    <3> QED
      BY <1>2, <1>9, <2>1, <3>1 DEF Getting
  <2>4. CASE s \notin Gets
    <3>1. now.locked
      BY <1>1, <2>1, <2>2, <2>4 DEF Fits, s, now
    <3>2. Ahead(r, "free") /\ ~Getting(r)
      BY <1>1, <1>2, <3>1 DEF PlaceOK, now
    <3> QED
      BY <1>2, <1>8, <1>9, <2>1, <2>2, <3>2
  <2> QED
    BY <2>3, <2>4
<1>17. l.err = "ok" /\ Ahead(r, "free")' /\ ~Getting(r)' =>
         l.locked \/ Op(r) \in {"release", "releasedir", "flush", "getlk"}
  <2>1. SUFFICES ASSUME l.err = "ok", Ahead(r, "free")', ~Getting(r)', Op(r) \notin {"release", "releasedir", "flush", "getlk"}
        PROVE l.locked
    OBVIOUS
  <2>2. CASE s \in Gets
    <3>1. s = "getany" => Op(r) \in {"release", "releasedir", "flush"}
      BY <1>2 DEF Ordered
    <3> QED
      BY <1>1, <2>1, <2>2, <3>1 DEF Fits, s
  <2>3. CASE s \notin Gets
    <3>1. ~Getting(r)
      <4>1. SUFFICES ASSUME NEW g \in Gets, Ahead(r, g) PROVE FALSE
        BY DEF Getting
      <4>2. CASE g = "get"
        <5>1. PICK k \in DOMAIN Program(r) : k >= pc[r] /\ Program(r)[k] = "get"
          BY <4>1, <4>2 DEF Ahead
        <5>2. k # pc[r]
          BY <2>3, <5>1, AheadLater, <1>1 DEF s, Gets
        <5>3. PICK n \in Nat \ {0} : DOMAIN Program(r) = 1 .. n
          BY <1>1, OpFacts, ProgramSeq, AheadLater
        <5>4. k >= pc[r] + 1
          BY <1>3, <5>1, <5>2, <5>3
        <5>5. Later(Op(r), pc[r] + 1, "get")
          BY <5>1, <5>4, AheadLater DEF Later
        <5>6. Op(r) = "getlk"
          BY <1>2, <5>5 DEF Ordered
        <5> QED
          BY <2>1, <5>6
      <4>3. CASE g # "get"
        <5>1. Applies(r, g, l)
          BY <1>9, <2>1, <4>3 DEF Gets
        <5> QED
          BY <1>2, <2>1, <2>3, <4>1, <5>1 DEF Getting
      <4> QED
        BY <4>2, <4>3
    <3>2. s # "free"
      BY <1>2, <2>1
    <3>3. now.err = "ok" /\ l.locked = now.locked
      BY <1>1, <2>1, <2>3, <3>2 DEF Fits, s, now
    <3> QED
      BY <1>1, <1>2, <2>1, <3>1, <3>3 DEF PlaceOK, Op, now
  <2> QED
    BY <2>2, <2>3
\* The node.
<1>18. l.id # None => Op(r) \in Finders /\ ~Ahead(r, "find")' /\ l.err = "ok"
  <2>1. SUFFICES ASSUME l.id # None PROVE Op(r) \in Finders /\ ~Ahead(r, "find")' /\ l.err = "ok"
    OBVIOUS
  <2>2. CASE s = "find"
    <3>1. Op(r) \in Finders /\ s \notin Spoils /\ now.err = "ok"
      BY <1>2, <1>6, <2>2 DEF Ordered, Spoils, Gets, Special, Replies
    <3>2. l.err = "ok"
      BY <1>1, <3>1 DEF Fits, s, now
    <3> QED
      BY <1>2, <2>2, <3>1, <3>2
  <2>3. CASE s # "find"
    <3>1. now.id # None
      BY <1>1, <2>1, <2>3 DEF Fits, s, now
    <3>2. Op(r) \in Finders /\ ~Ahead(r, "find") /\ now.err = "ok"
      BY <1>1, <1>2, <3>1 DEF PlaceOK, now, Op
    <3>3. s \notin Spoils
      <4>1. SUFFICES ASSUME s \in Spoils PROVE FALSE
        OBVIOUS
      <4>2. \E u \in Spoils : Later(Op(r), pc[r], u)
        BY <1>3, <1>7, <4>1
      <4>3. (\E u \in Spoils : Later(Op(r), pc[r], u)) => (Op(r) \in Finders => Later(Op(r), pc[r] + 1, "find"))
        BY <1>2 DEF Ordered
      <4>4. Later(Op(r), pc[r] + 1, "find")
        BY <3>2, <4>2, <4>3
      <4>5. Ahead(r, "find")
        <5>1. PICK k \in DOMAIN Program(r) : k >= pc[r] + 1 /\ Program(r)[k] = "find"
          BY <4>4, AheadLater DEF Later
        <5>2. PICK n \in Nat \ {0} : DOMAIN Program(r) = 1 .. n
          BY <1>1, OpFacts, ProgramSeq, AheadLater
        <5>3. k >= pc[r]
          BY <1>3, <5>1, <5>2
        <5> QED
          BY <5>1, <5>3 DEF Ahead
      <4> QED
        BY <3>2, <4>5
    <3>4. l.err = "ok"
      BY <1>1, <3>2, <3>3 DEF Fits, s, now
    <3> QED
      BY <1>2, <3>2, <3>4
  <2> QED
    BY <2>2, <2>3
<1>19. Op(r) \in Finders /\ ~Ahead(r, "find")' /\ l.err = "ok" => l.id # None
  <2>1. SUFFICES ASSUME Op(r) \in Finders, ~Ahead(r, "find")', l.err = "ok", s # "find" PROVE l.id # None
    BY <1>1 DEF Fits, s
  <2>2. ~Ahead(r, "find")
    BY <1>2, <1>9, <2>1
  <2>3. now.err = "ok" /\ l.id = now.id
    BY <1>1, <2>1 DEF Fits, s, now
  <2> QED
    BY <1>1, <1>2, <2>1, <2>2, <2>3 DEF PlaceOK, Op, now
\* The pin.
<1>20. l.pinned => Ahead(r, "unpin")' /\ ~Ahead(r, "pin")' /\ Op(r) = "dot"
  <2>1. SUFFICES ASSUME l.pinned PROVE Ahead(r, "unpin")' /\ ~Ahead(r, "pin")' /\ Op(r) = "dot"
    OBVIOUS
  <2>2. s # "unpin"
    BY <1>1, <2>1 DEF Fits, s
  <2>3. CASE s = "pin"
    <3>1. Op(r) = "dot"
      BY <1>3, <2>3, AppliesIs
    <3>2. Later(Op(r), pc[r] + 1, "unpin")
      BY <1>2, <2>3 DEF Ordered
    <3> QED
      BY <1>2, <1>9, <2>1, <2>3, <3>1, <3>2
  <2>4. CASE s # "pin"
    <3>1. now.pinned
      BY <1>1, <2>1, <2>2, <2>4 DEF Fits, s, now
    <3>2. Ahead(r, "unpin") /\ ~Ahead(r, "pin") /\ Op(r) = "dot"
      BY <1>1, <1>2, <3>1 DEF PlaceOK, now, Op
    <3> QED
      BY <1>2, <1>9, <2>1, <2>2, <3>2
  <2> QED
    BY <2>3, <2>4
<1>21. Op(r) = "dot" /\ l.err = "ok" /\ ~Ahead(r, "pin")' /\ Ahead(r, "unpin")' => l.pinned
  <2>1. SUFFICES ASSUME Op(r) = "dot", l.err = "ok", ~Ahead(r, "pin")', Ahead(r, "unpin")', s # "pin" PROVE l.pinned
    BY <1>1 DEF Fits, s
  <2>2. ~Ahead(r, "pin") /\ Ahead(r, "unpin") /\ s # "unpin"
    BY <1>2, <1>9, <2>1
  <2>3. now.err = "ok" /\ l.pinned = now.pinned
    BY <1>1, <2>1, <2>2 DEF Fits, s, now
  <2> QED
    BY <1>1, <1>2, <2>1, <2>2, <2>3 DEF PlaceOK, Op, now
\* The rest.
<1>22. /\ l.w # None => Op(r) \in {"unlink", "rmdir", "rename"}
       /\ l.w2 # None => Op(r) = "rename"
  BY <1>1, <1>2 DEF Fits, PlaceOK, Op
<1>23. /\ Op(r) = "forget" => l.n > 0 \/ NodeOf(r) = Root
       /\ Op(r) \in {"unlink", "rmdir"} => l.victim # None
       /\ Op(r) = "revalidate" => l.victim = Req(r).victim
       /\ \A q \in Req(r).needs : answer[q] = "ok"
  BY <1>1, <1>2 DEF Fits, PlaceOK, Op
<1>24. Op(r) \in {"unlink", "rmdir"} /\ l.locked => l.w = l.victim
  <2>1. SUFFICES ASSUME Op(r) \in {"unlink", "rmdir"}, l.locked, s \notin Gets PROVE l.w = l.victim
    BY <1>1 DEF Fits, s
  <2>2. s # "free"
    BY <1>1, <2>1 DEF Fits, s
  <2> QED
    BY <1>1, <1>2, <2>1, <2>2 DEF Fits, PlaceOK, Op, s
<1>25. l.hide => Op(r) \in {"unlink", "rename", "getlk"}
  <2>1. s \in {"is_open", "list_conflict"} => Op(r) \in {"unlink", "rename", "getlk"}
    BY <1>2 DEF Ordered
  <2> QED
    BY <1>1, <1>2, <2>1 DEF Fits, PlaceOK, Op, s
<1>255. l.hide /\ l.err = "ok" /\ Op(r) # "getlk" /\ ~Ahead(r, "hide_name")' => l.hname # NoName
  <2>1. SUFFICES ASSUME l.hide, l.err = "ok", Op(r) # "getlk", ~Ahead(r, "hide_name")', s # "hide_name" PROVE l.hname # NoName
    BY <1>1 DEF Fits, s
  <2>2. Applies(r, "hide_name", l)
    BY <2>1, AppliesIs
  <2>3. ~Ahead(r, "hide_name")
    BY <1>2, <2>1, <2>2
  <2>4. s \notin {"is_open", "list_conflict"}
    <3>1. s = "is_open" => Later(Op(r), pc[r] + 1, "hide_name")
      BY <1>2 DEF Ordered
    <3>2. s = "list_conflict" => Op(r) = "getlk"
      BY <1>2 DEF Ordered
    <3> QED
      BY <1>2, <2>1, <2>2, <3>1, <3>2
  <2>5. now.hide /\ now.err = "ok" /\ l.hname = now.hname
    BY <1>1, <2>1, <2>4 DEF Fits, s, now
  <2> QED
    BY <1>1, <1>2, <2>1, <2>3, <2>5 DEF PlaceOK, Op, now
<1>26. LocOK(l)
  BY <1>1 DEF Fits
<1>27. Applies(r, Step(r), loc[r])' = Applies(r, Step(r)', l)
  BY <1>2 DEF Applies
<1>28. \A q \in Req(r)'.needs : answer'[q] = "ok"
  <2>1. Req(r).needs \subseteq Reqs
    BY <1>1, OpFacts
  <2> QED
    BY <1>2, <1>4, <1>23, <2>1
<1>29. LocOK(loc[r])'
  BY <1>2, <1>26 DEF LocOK
<1>30. Started(r)' /\ (Running(r)' => Applies(r, Step(r), loc[r])')
  BY <1>2, <1>27
<1>31. Req(r)'.op = Op(r) /\ Req(r)' = Req(r) /\ loc'[r] = l /\ NodeOf(r)' = NodeOf(r)
  BY <1>2, <1>3, <1>5
<1> QED
  BY <1>10, <1>11, <1>13, <1>132, <1>14, <1>15, <1>16, <1>17, <1>18, <1>19, <1>20, <1>21, <1>22, <1>23, <1>24, <1>25, <1>255,
     <1>28, <1>29, <1>30, <1>31 DEF PlaceOK

\* All requests stay in place.
LEMMA PlacesMoved ==
  ASSUME Places, NEW r, NEW l, Moves(r, l)
  PROVE  /\ \A q \in Reqs : PlaceOK(q)'
         /\ Reqs' = Reqs /\ DOMAIN pc' = Reqs /\ DOMAIN loc' = Reqs /\ \A q \in Reqs : pc'[q] \in Nat
<1>1. TypeOK /\ r \in Reqs /\ Running(r) /\ Advance(r, l) /\ work' = work
  BY DEF Moves, Places
<1>2. PlaceOK(r)'
  BY PlaceMoved
<1>3. DOMAIN pc' = Reqs /\ DOMAIN loc' = Reqs /\ pc'[r] \in Nat /\ (\A q \in Reqs \ {r} : Same(q))
  BY <1>1, AdvanceFacts
<1>4. ASSUME NEW q \in Reqs \ {r} PROVE PlaceOK(q)'
  <2>1. answer'[q] = answer[q] /\ \A p \in Reqs : answer[p] = "ok" => answer'[p] = "ok"
    BY MoveAnswers
  <2>2. Started(q) => NodeOf(q)' = NodeOf(q)
    BY MoveNodes
  <2>3. Req(q).needs \subseteq Reqs
    BY <1>1, OpFacts
  <2>4. PlaceOK(q)
    BY DEF Places
  <2> QED
    BY <1>1, <1>3, <2>1, <2>2, <2>3, <2>4, PlaceSame
<1>5. \A q \in Reqs : pc'[q] \in Nat
  BY <1>1, <1>3 DEF TypeOK, Same
<1>6. Reqs' = Reqs
  BY <1>1 DEF Reqs
<1> QED
  BY <1>2, <1>3, <1>4, <1>5, <1>6

\* A request with a step ahead runs, and is in order.
LEMMA AheadRuns ==
  ASSUME Places, NEW q \in Reqs, Started(q), NEW t, Ahead(q, t)
  PROVE  Running(q) /\ Ordered(Op(q), pc[q], Step(q)) /\ Later(Op(q), pc[q], t) /\ pc[q] \in Nat
<1>1. TypeOK /\ pc[q] \in Nat /\ pc[q] > 0
  BY DEF Places, TypeOK, Started
<1>2. PICK k \in DOMAIN Program(q) : k >= pc[q] /\ Program(q)[k] = t
  BY DEF Ahead
<1>3. PICK n \in Nat \ {0} : DOMAIN Program(q) = 1 .. n
  BY <1>1, OpFacts, ProgramSeq, AheadLater
<1>4. Running(q)
  BY <1>1, <1>2, <1>3 DEF Running
<1> QED
  BY <1>1, <1>4, RunningOrder, AheadLater

\* A handler's reply is ahead as long as it may fail.
LEMMA SpoilsFirst ==
  ASSUME Places, NEW q \in Reqs, Started(q), NEW t, Ahead(q, t), t \in Spoils \cup {"find", "count"}
  PROVE  Replying(q) /\ answer[q] = "none" /\ Op(q) # "forget" /\ ~loc[q].intr /\ q \in Unanswered
<1>1. Running(q) /\ Ordered(Op(q), pc[q], Step(q)) /\ Later(Op(q), pc[q], t) /\ pc[q] \in Nat /\ TypeOK /\ PlaceOK(q)
  BY AheadRuns DEF Places
<1>2. \E u \in Replies : Ahead(q, u)
  <2>0. \A u : Later(Op(q), pc[q] + 1, u) => Ahead(q, u)
    <3>1. PICK n \in Nat \ {0} : DOMAIN Program(q) = 1 .. n
      BY <1>1, OpFacts, ProgramSeq, AheadLater
    <3> QED
      BY <1>1, <3>1, AheadLater DEF Later, Ahead
  <2>1. CASE t \in Spoils
    <3>1. (\E u \in Spoils : Later(Op(q), pc[q], u)) => (\E u \in Replies : Later(Op(q), pc[q] + 1, u))
      BY <1>1 DEF Ordered
    <3> QED
      BY <1>1, <2>0, <2>1, <3>1
  <2>2. CASE t = "find"
    <3>1. Later(Op(q), pc[q], "find") => \E u \in Replies : Later(Op(q), pc[q], u)
      BY <1>1 DEF Ordered
    <3> QED
      BY <1>1, <2>2, <3>1, AheadLater
  <2>3. CASE t = "count"
    <3>1. Later(Op(q), pc[q], "count") => Later(Op(q), pc[q], "reply_open")
      BY <1>1 DEF Ordered
    <3> QED
      BY <1>1, <2>3, <3>1, AheadLater DEF Replies
  <2> QED
    BY <2>1, <2>2, <2>3
<1>3. Op(q) # "forget"
  <2>1. SUFFICES ASSUME Op(q) = "forget" PROVE FALSE
    OBVIOUS
  <2>2. Program(q) = <<"forget">>
    <3>1. Op(q) \in Ops
      BY <1>1, OpFacts
    <3> QED
      BY <2>1, <3>1, Programs, AheadLater DEF PathOps
  <2>3. PICK k \in DOMAIN Program(q) : Program(q)[k] = t
    BY DEF Ahead
  <2>4. t = "forget"
    BY <2>2, <2>3
  <2> QED
    BY <2>4 DEF Spoils, Gets
<1> QED
  BY <1>1, <1>2, <1>3 DEF PlaceOK, Replying, Op, Unanswered

\* The unanswered requests, and what they speak of.
LEMMA MoveUnanswered ==
  ASSUME Places, NEW r, NEW l, Moves(r, l)
  PROVE  /\ \A q \in Reqs : Started(q)' = Started(q) /\ Req(q)' = Req(q) /\ Op(q)' = Op(q)
         /\ \A q \in Reqs : Started(q) => Victim(q)' = Victim(q) /\ Mentions(q)' = Mentions(q) /\ Mutexes(q)' = Mutexes(q)
         /\ Unanswered' = IF Step(r) \in Replies THEN Unanswered \ {r} ELSE Unanswered
<1>1. TypeOK /\ r \in Reqs /\ Running(r) /\ Advance(r, l) /\ work' = work /\ Fits(r, l)
  BY DEF Moves, Places
<1>2. loc'[r] = l /\ (\A q \in Reqs \ {r} : Same(q)) /\ Started(r) /\ Started(r)' /\ Reqs' = Reqs
  BY <1>1, AdvanceFacts DEF Reqs
<1>3. \A q \in Reqs : Req(q)' = Req(q) /\ Op(q)' = Op(q) /\ Started(q)' = Started(q)
  BY <1>1, <1>2 DEF Req, Op, Same, Started
<1>4. \A q \in Reqs : loc'[q].victim = loc[q].victim
  BY <1>1, <1>2 DEF Fits, Same
<1>5. ASSUME NEW q \in Reqs, Started(q) PROVE Victim(q)' = Victim(q) /\ Mentions(q)' = Mentions(q) /\ Mutexes(q)' = Mutexes(q)
  <2>1. Victim(q)' = Victim(q)
    BY <1>3, <1>4, <1>5 DEF Victim
  <2>2. NodeOf(q)' = NodeOf(q)
    BY <1>5, MoveNodes
  <2> QED
    BY <1>3, <2>1, <2>2 DEF Mentions, Mutexes
<1>6. Unanswered' = IF Step(r) \in Replies THEN Unanswered \ {r} ELSE Unanswered
  <2>1. \A q \in Reqs \ {r} : answer'[q] = answer[q]
    BY MoveAnswers
  <2>2. CASE Step(r) \in Replies
    <3>1. answer'[r] # "none"
      BY <2>2, MoveAnswers
    <3> QED
      BY <1>2, <1>3, <2>1, <2>2, <3>1 DEF Unanswered
  <2>3. CASE Step(r) \notin Replies
    <3>1. answer' = answer
      BY <2>3 DEF Moves, Answers
    <3> QED
      BY <1>2, <1>3, <2>3, <3>1 DEF Unanswered
  <2> QED
    BY <2>2, <2>3
<1> QED
  BY <1>3, <1>5, <1>6

\* No step lets two requests hold the mutex of one directory.
LEMMA MutexMoved ==
  ASSUME Places, MutexOK, NEW r, NEW l, Moves(r, l)
  PROVE  MutexOK'
<1>1. \A q \in Unanswered' : q \in Unanswered /\ Mutexes(q)' = Mutexes(q)
  BY MoveUnanswered DEF Unanswered
<1> QED
  BY <1>1 DEF MutexOK

\* No known reference is lost by a step.
MoreKnown == known' \in [1 .. MaxId -> Nat] /\ \A id \in 1 .. MaxId : known'[id] >= known[id]

\* The kernel keeps what its requests are about, if nothing is forgotten.
LEMMA HeldMoved ==
  ASSUME Places, HeldOK, NEW r, NEW l, Moves(r, l), MoreKnown,
         Op(r) \in {"open", "create"} /\ Step(r) \in Replies /\ answer'[r] = "ok" => Holds(Opened(r))'
  PROVE  HeldOK'
<1>1. TypeOK /\ r \in Reqs /\ work' = work /\ Reqs' = Reqs
  BY DEF Moves, Places, Reqs
<1>2. \A id \in Ids : Holds(id) => Holds(id)'
  <2>1. \A id \in Ids : known[id] \in Nat /\ known'[id] \in Nat /\ known'[id] >= known[id]
    BY <1>1, MaxIdAssumption DEF MoreKnown, TypeOK, Ids
  <2> QED
    BY <2>1 DEF Holds
<1>3. ASSUME NEW q \in Unanswered', Req(q)'.op # "dot", NEW id \in Mentions(q)' PROVE Holds(id)'
  <2>1. q \in Unanswered /\ Req(q).op # "dot" /\ id \in Mentions(q) /\ q \in Reqs /\ Started(q)
    BY <1>3, MoveUnanswered DEF Unanswered
  <2>2. id \in Ids
    <3>1. NodeOf(q) \in Ids
      BY <2>1, OfFacts
    <3>2. Victim(q) \in Ids \cup {None}
      <4>1. loc[q].victim \in Ids \cup {None}
        BY <2>1 DEF Places, PlaceOK, LocOK
      <4>2. Req(q).victim \in Ids \cup {None}
        BY <1>1, <2>1, OpFacts
      <4> QED
        BY <2>1, <4>1, <4>2 DEF Victim
    <3>3. Req(q).n2 \in Ids \cup {None}
      BY <1>1, <2>1, OpFacts
    <3> QED
      BY <2>1, <3>1, <3>2, <3>3 DEF Mentions
  <2> QED
    BY <1>2, <2>1, <2>2 DEF HeldOK
<1>4. ASSUME NEW q \in Reqs, Req(q)'.op \in {"open", "create"}, answer'[q] = "ok",
             \A p \in Reqs : Req(p)'.op = "release" /\ Req(p)'.handle = q => ~Started(p)'
      PROVE  Holds(Opened(q))'
  <2>0. \A p \in Reqs : Req(p)' = Req(p) /\ Op(p)' = Op(p) /\ Started(p)' = Started(p)
    BY MoveUnanswered
  <2>1. CASE answer[q] = "ok"
    <3>1. Holds(Opened(q))
      BY <1>4, <2>0, <2>1 DEF HeldOK
    <3>2. Started(q) /\ loc'[q].id = loc[q].id /\ NodeOf(q)' = NodeOf(q)
      BY <2>1, MoveNodes, AnsweredFacts
    <3>3. Opened(q)' = Opened(q)
      BY <2>0, <3>2 DEF Opened
    <3>4. Opened(q) \in Ids
      <4>1. CASE Op(q) = "create"
        BY <2>1, <4>1, AnsweredFacts DEF Opened, Op, Finders
      <4>2. CASE Op(q) # "create"
        BY <3>2, <4>2, OfFacts DEF Opened, Op
      <4> QED
        BY <4>1, <4>2
    <3> QED
      BY <1>2, <3>1, <3>3, <3>4 DEF Holds
  <2>2. CASE answer[q] # "ok"
    <3>1. q = r /\ Step(r) \in Replies
      <4>1. q = r
        BY <1>4, <2>2, MoveAnswers
      <4>2. Step(r) \in Replies
        BY <1>4, <2>2, <4>1 DEF Moves, Answers
      <4> QED
        BY <4>1, <4>2
    <3> QED
      BY <1>4, <2>0, <3>1 DEF Op
  <2> QED
    BY <2>1, <2>2
<1> QED
  BY <1>1, <1>3, <1>4 DEF HeldOK

(***************************************************************************)
(* What a step does to what is counted, locked and named.                  *)
(***************************************************************************)

\* What a step does to the sets that the counts of a node are about.
LEMMA PinnersMoved ==
  ASSUME Places, NEW r, NEW l, Moves(r, l)
  PROVE  \A id : Pinners(id)' = IF l.pinned /\ NodeOf(r) = id THEN Pinners(id) \cup {r} ELSE Pinners(id) \ {r}
<1>1. TypeOK /\ r \in Reqs /\ Running(r) /\ Advance(r, l) /\ work' = work /\ Reqs' = Reqs
  BY DEF Moves, Places, Reqs
<1>2. loc'[r] = l /\ (\A q \in Reqs \ {r} : Same(q)) /\ Started(r)
  BY <1>1, AdvanceFacts
<1>3. \A q \in Reqs \ {r} : loc[q].pinned => Started(q)
  <2>1. SUFFICES ASSUME NEW q \in Reqs \ {r}, ~Started(q) PROVE ~loc[q].pinned
    OBVIOUS
  <2>2. loc[q] = NoLoc
    BY <2>1 DEF Places, PlaceOK
  <2> QED
    BY <2>2 DEF NoLoc
<1>4. \A q \in Reqs : Started(q) => NodeOf(q)' = NodeOf(q)
  BY MoveNodes
<1>5. \A q \in Reqs \ {r} : loc'[q].pinned = loc[q].pinned /\ (loc[q].pinned => NodeOf(q)' = NodeOf(q))
  BY <1>2, <1>3, <1>4 DEF Same
<1> QED
  BY <1>1, <1>2, <1>4, <1>5 DEF Pinners

\* The steps that do not lock or unlock a path.
LocksKept ==
  /\ Reqs' = Reqs
  /\ \A q \in Reqs : loc'[q].locked = loc[q].locked
  /\ \A q \in Reqs : loc[q].locked =>
       /\ loc'[q].w = loc[q].w /\ loc'[q].w2 = loc[q].w2 /\ loc'[q].path = loc[q].path /\ loc'[q].path2 = loc[q].path2
       /\ NodeOf(q)' = NodeOf(q) /\ Req(q)' = Req(q)
\* A step that neither gets nor frees a path keeps all locks.
LEMMA LocksMoved ==
  ASSUME Places, NEW r, NEW l, Moves(r, l), Step(r) \notin Gets \cup {"free"}
  PROVE  LocksKept
<1>1. TypeOK /\ r \in Reqs /\ Running(r) /\ Advance(r, l) /\ work' = work /\ Reqs' = Reqs /\ Fits(r, l)
  BY DEF Moves, Places, Reqs
<1>2. loc'[r] = l /\ (\A q \in Reqs \ {r} : Same(q)) /\ Started(r) /\ Req(r)' = Req(r)
  BY <1>1, AdvanceFacts
<1>3. \A q \in Reqs : Started(q) => NodeOf(q)' = NodeOf(q)
  BY MoveNodes
<1>4. \A q \in Reqs : loc[q].locked => Started(q)
  <2>1. SUFFICES ASSUME NEW q \in Reqs, ~Started(q) PROVE ~loc[q].locked
    OBVIOUS
  <2>2. loc[q] = NoLoc
    BY <2>1 DEF Places, PlaceOK
  <2> QED
    BY <2>2 DEF NoLoc
<1> QED
  BY <1>1, <1>2, <1>3, <1>4 DEF LocksKept, Fits, Same

\* Lookups the kernel gave back are off its list when forget takes them.
LEMMA ReturningMoved ==
  ASSUME Places, NEW r, NEW l, Moves(r, l)
  PROVE  \A id : Returning(id)' = Returning(id) \ (IF Step(r) = "forget" /\ NodeOf(r) = id
                                                    THEN {r} \X (1 .. loc[r].n) ELSE {})
<1>1. TypeOK /\ r \in Reqs /\ Running(r) /\ Advance(r, l) /\ work' = work /\ Reqs' = Reqs
  BY DEF Moves, Places, Reqs
<1>2. /\ loc'[r] = l /\ (\A q \in Reqs \ {r} : Same(q)) /\ Started(r) /\ Ordered(Op(r), pc[r], Step(r))
      /\ \A t : Ahead(r, t)' => Ahead(r, t) /\ Later(Op(r), pc[r] + 1, t)
      /\ \A t : t = Step(r) /\ t # "touch" => ~Ahead(r, t)'
      /\ pc'[r] \in Nat
  BY <1>1, AdvanceFacts
<1>3. \A q \in Reqs : Step(q) = "forget" => Started(q)
  <2>1. SUFFICES ASSUME NEW q \in Reqs, Step(q) = "forget" PROVE Started(q)
    OBVIOUS
  <2>2. Running(q)
    BY <2>1 DEF Step
  <2> QED
    BY <1>1, <2>2, RunningOrder
<1>4. \A q \in Reqs : Started(q) => NodeOf(q)' = NodeOf(q)
  BY MoveNodes
<1>5. Step(r)' # "forget"
  <2>1. SUFFICES ASSUME Step(r)' = "forget" PROVE FALSE
    OBVIOUS
  <2>2. Ahead(r, "forget")'
    <3>1. pc'[r] \in DOMAIN Program(r)' /\ Program(r)'[pc'[r]] = "forget"
      BY <2>1 DEF Step, Running
    <3> QED
      BY <1>2, <3>1 DEF Ahead
  <2>3. Ahead(r, "forget")
    BY <1>2, <2>2
  <2>4. Op(r) = "forget"
    <3>1. PICK k \in DOMAIN Program(r) : Program(r)[k] = "forget"
      BY <2>3 DEF Ahead
    <3>2. Ordered(Op(r), k, "forget")
      BY <1>1, <3>1, OpFacts, OrderOf, AheadLater
    <3> QED
      BY <3>2 DEF Ordered
  <2>5. Step(r) = "forget"
    BY <1>2, <2>4 DEF Ordered
  <2> QED
    BY <1>2, <2>2, <2>5
<1> DEFINE R == {q \in Reqs : Step(q) = "forget"}
<1>6. \A q \in Reqs : q \in R' <=> q \in R \ {r}
  BY <1>1, <1>2, <1>5 DEF Same
<1>7. \A q \in R \ {r} : loc'[q] = loc[q] /\ NodeOf(q)' = NodeOf(q)
  BY <1>2, <1>3, <1>4 DEF Same
<1>8. \A id : Returning(id) = UNION {{q} \X (1 .. loc[q].n) : q \in {q \in R : NodeOf(q) = id}}
  BY DEF Returning
<1>9. \A id : Returning(id)' = UNION {{q} \X (1 .. loc'[q].n) : q \in {q \in R' : NodeOf(q)' = id}}
  BY DEF Returning
<1>10. R' = R \ {r} /\ (r \in R <=> Step(r) = "forget")
  BY <1>1, <1>6
<1> HIDE DEF R
<1>11. \A id : Returning(id)' = UNION {{q} \X (1 .. loc[q].n) : q \in {q \in R \ {r} : NodeOf(q) = id}}
  BY <1>7, <1>9, <1>10
<1>12. SUFFICES ASSUME NEW id PROVE Returning(id)' = Returning(id) \ (IF Step(r) = "forget" /\ NodeOf(r) = id
                                                    THEN {r} \X (1 .. loc[r].n) ELSE {})
  OBVIOUS
<1>13. \A x : x \in Returning(id) <=> \E q \in R : NodeOf(q) = id /\ x \in {q} \X (1 .. loc[q].n)
  BY <1>8
<1>14. \A x : x \in Returning(id)' <=> \E q \in R \ {r} : NodeOf(q) = id /\ x \in {q} \X (1 .. loc[q].n)
  BY <1>11
<1>15. \A x, q, n : x \in {q} \X (1 .. n) => x[1] = q
  OBVIOUS
<1>16. \A x : x \in Returning(id)' <=> x \in Returning(id) /\ ~(r \in R /\ NodeOf(r) = id /\ x \in {r} \X (1 .. loc[r].n))
  BY <1>13, <1>14, <1>15
<1> QED
  BY <1>10, <1>16

\* A lookup is in flight from find to the answer, or to its undoing.
LEMMA InFlightMoved ==
  ASSUME Places, NEW r, NEW l, Moves(r, l)
  PROVE  \A id \in Ids :
           /\ InFlight(id) \ {r} = InFlight(id)' \ {r}
           /\ Step(r) \notin Replies \cup {"find", "undo"} => InFlight(id)' = InFlight(id)
           /\ Step(r) = "find" => r \notin InFlight(id) /\ (r \in InFlight(id)' <=> l.id = id)
           /\ Step(r) = "undo" => r \notin InFlight(id)' /\ (r \in InFlight(id) <=> loc[r].id = id)
           /\ Step(r) \in Replies => (r \in InFlight(id) <=> loc[r].id = id)
<1>1. TypeOK /\ r \in Reqs /\ Running(r) /\ Advance(r, l) /\ work' = work /\ Reqs' = Reqs /\ Fits(r, l) /\ PlaceOK(r) /\ Answers(r, l)
  BY DEF Moves, Places, Reqs
<1>2. /\ loc'[r] = l /\ (\A q \in Reqs \ {r} : Same(q)) /\ Started(r) /\ Ordered(Op(r), pc[r], Step(r))
      /\ \A t : Ahead(r, t)' => Ahead(r, t)
      /\ \A t : Ahead(r, t) /\ t # Step(r) /\ Applies(r, t, l) => Ahead(r, t)'
      /\ \A t : t = Step(r) /\ t # "touch" => ~Ahead(r, t)'
  BY <1>1, AdvanceFacts
<1>3. \A q \in Reqs : Req(q)' = Req(q) /\ Started(q)' = Started(q)
  BY MoveUnanswered
<1>4. \A q \in Reqs \ {r} : answer'[q] = answer[q]
  BY MoveAnswers
<1> DEFINE spare(q, id) == /\ Req(q).op = "revalidate" /\ answer[q] = "ok" /\ id # Req(q).victim
                           /\ \A p \in Reqs : Req(p).of = q => ~Started(p)
           in(q, id) == \/ answer[q] = "none" \/ (answer[q] = "intr" /\ Ahead(q, "undo")) \/ spare(q, id)
<1>5. \A id : InFlight(id) = {q \in Reqs : loc[q].id = id /\ in(q, id)}
  BY DEF InFlight
<1>6. \A id : InFlight(id)' = {q \in Reqs : loc'[q].id = id /\ in(q, id)'}
  BY <1>1 DEF InFlight
<1>7. ASSUME NEW q \in Reqs, answer'[q] = answer[q] PROVE \A id : spare(q, id)' = spare(q, id)
  <2>1. \A p \in Reqs : (Req(p).of = q => ~Started(p))' <=> (Req(p).of = q => ~Started(p))
    BY <1>3
  <2> QED
    BY <1>1, <1>3, <1>7, <2>1
<1> HIDE DEF spare
<1>8. \A q \in Reqs \ {r} : \A id : in(q, id)' <=> in(q, id)
  BY <1>2, <1>4, <1>7 DEF Same
<1>9. \A q \in Reqs \ {r} : loc'[q].id = loc[q].id
  BY <1>2 DEF Same
<1>10. \A id : InFlight(id) \ {r} = InFlight(id)' \ {r}
  BY <1>5, <1>6, <1>8, <1>9
<1>11. ASSUME Step(r) \notin Replies \cup {"find", "undo"} PROVE \A id : in(r, id)' = in(r, id) /\ l.id = loc[r].id
  <2>1. answer' = answer /\ l.intr = loc[r].intr /\ l.id = loc[r].id
    BY <1>1, <1>11 DEF Answers, Fits
  <2>2. answer[r] = "intr" => (Ahead(r, "undo")' <=> Ahead(r, "undo"))
    <3>1. answer[r] = "intr" => Applies(r, "undo", l)
      BY <1>1, <1>2, <2>1, AppliesIs DEF PlaceOK
    <3> QED
      BY <1>2, <1>11, <3>1
  <2> QED
    BY <1>1, <1>7, <2>1, <2>2
<1>12. ASSUME NEW id \in Ids, Step(r) = "find" PROVE r \notin InFlight(id) /\ (r \in InFlight(id)' <=> l.id = id)
  <2>1. Ahead(r, "find") /\ answer[r] = "none" /\ answer' = answer
    <3>1. Ahead(r, "find")
      BY <1>1, <1>12, RunningOrder
    <3>2. answer[r] = "none"
      BY <1>1, <1>2, <3>1, SpoilsFirst
    <3>3. Step(r) \notin Replies
      BY <1>12 DEF Replies
    <3> QED
      BY <1>1, <3>1, <3>2, <3>3 DEF Answers
  <2>2. loc[r].id = None
    BY <1>1, <1>2, <2>1 DEF PlaceOK
  <2>3. id # None
    BY DEF Ids, None
  <2> QED
    BY <1>1, <1>2, <1>5, <1>6, <2>1, <2>2, <2>3
<1>13. ASSUME NEW id \in Ids, Step(r) = "undo" PROVE r \notin InFlight(id)' /\ (r \in InFlight(id) <=> loc[r].id = id)
  <2>1. answer[r] = "intr" /\ answer' = answer /\ Ahead(r, "undo")
    <3>1. Applies(r, "undo", loc[r]) /\ Ahead(r, "undo")
      BY <1>1, <1>2, <1>13, RunningOrder DEF PlaceOK
    <3>2. Step(r) \notin Replies
      BY <1>13 DEF Replies
    <3> QED
      BY <1>1, <1>2, <3>1, <3>2, AppliesIs DEF PlaceOK, Answers
  <2>2. ~Ahead(r, "undo")'
    BY <1>2, <1>13
  <2>3. ~spare(r, id)'
    BY <2>1 DEF spare
  <2> QED
    BY <1>1, <1>2, <1>5, <1>6, <2>1, <2>2, <2>3
<1>14. Step(r) \in Replies => answer[r] = "none"
  BY MoveAnswers
<1>15. ASSUME NEW id \in Ids, Step(r) \in Replies PROVE r \in InFlight(id) <=> loc[r].id = id
  BY <1>1, <1>5, <1>14, <1>15
<1>16. ASSUME NEW id \in Ids, Step(r) \notin Replies \cup {"find", "undo"} PROVE InFlight(id)' = InFlight(id)
  <2>1. in(r, id)' = in(r, id) /\ loc'[r].id = loc[r].id
    BY <1>2, <1>11, <1>16
  <2> HIDE DEF in
  <2>2. r \in InFlight(id)' <=> r \in InFlight(id)
    BY <1>1, <1>5, <1>6, <2>1
  <2> QED
    BY <1>1, <1>10, <2>2
<1> QED
  BY <1>10, <1>12, <1>13, <1>15, <1>16

\* An open is counted at its count step.
LEMMA CountedMoved ==
  ASSUME Places, NEW r, NEW l, Moves(r, l), NEW q \in Reqs, Op(q) \in {"open", "create"}
  PROVE  Counted(q)' <=> Counted(q) \/ (q = r /\ Step(r) = "count")
<1>1. TypeOK /\ r \in Reqs /\ Running(r) /\ Advance(r, l) /\ work' = work /\ Fits(r, l) /\ PlaceOK(r)
  BY DEF Moves, Places
<1>2. /\ loc'[r] = l /\ (\A p \in Reqs \ {r} : Same(p)) /\ Started(r) /\ Started(r)' /\ Ordered(Op(r), pc[r], Step(r))
      /\ \A t : Ahead(r, t)' => Ahead(r, t)
      /\ \A t : Ahead(r, t) /\ t # Step(r) /\ Applies(r, t, l) => Ahead(r, t)'
      /\ \A t : t = Step(r) /\ t # "touch" => ~Ahead(r, t)'
      /\ Ahead(r, Step(r)) /\ Applies(r, Step(r), loc[r])
  BY <1>1, AdvanceFacts, RunningOrder DEF PlaceOK
<1>3. CASE q # r
  BY <1>2, <1>3 DEF Counted, Same
<1>4. "count" \notin Special /\ "count" \notin Spoils
  BY DEF Special, Replies, Spoils, Gets
<1>5. CASE q = r /\ Step(r) = "count"
  <2>1. loc[r].err = "ok"
    BY <1>2, <1>4, <1>5, AppliesIs
  <2>2. l.err = "ok"
    BY <1>1, <1>4, <1>5, <2>1 DEF Fits
  <2> QED
    BY <1>2, <1>5, <2>2 DEF Counted
<1>6. CASE q = r /\ Step(r) # "count"
  <2>1. Counted(r)' => Counted(r)
    <3>1. SUFFICES ASSUME l.err = "ok", ~Ahead(r, "count")' PROVE loc[r].err = "ok" /\ ~Ahead(r, "count")
      BY <1>2 DEF Counted
    <3>2. Applies(r, "count", l)
      BY <1>4, <3>1, AppliesIs
    <3> QED
      BY <1>1, <1>2, <1>6, <3>1, <3>2 DEF Fits
  <2>2. Counted(r) => Counted(r)'
    <3>1. SUFFICES ASSUME loc[r].err = "ok", ~Ahead(r, "count") PROVE l.err = "ok"
      BY <1>2 DEF Counted
    <3>2. SUFFICES ASSUME Step(r) \in Spoils PROVE FALSE
      BY <1>1, <3>1 DEF Fits
    <3>3. \E u \in Spoils : Later(Op(r), pc[r], u)
      BY <1>2, <3>2, AheadLater
    <3>4. Op(r) \in {"open", "create"} /\ (\E u \in Spoils : Later(Op(r), pc[r], u)) => Later(Op(r), pc[r] + 1, "count")
      BY <1>2 DEF Ordered
    <3>5. Later(Op(r), pc[r] + 1, "count")
      BY <1>6, <3>3, <3>4
    <3>6. Ahead(r, "count")
      <4>1. PICK n \in Nat \ {0} : DOMAIN Program(r) = 1 .. n
        BY <1>1, OpFacts, ProgramSeq, AheadLater
      <4>2. pc[r] \in Nat
        BY <1>1 DEF TypeOK
      <4> QED
        BY <3>5, <4>1, <4>2, AheadLater DEF Later, Ahead
    <3> QED
      BY <3>1, <3>6
  <2> QED
    BY <1>6, <2>1, <2>2
<1> QED
  BY <1>3, <1>5, <1>6

\* An open is closed at an uncount step.
LEMMA ClosedMoved ==
  ASSUME Places, NEW r, NEW l, Moves(r, l), NEW q \in Reqs, Op(q) \in {"open", "create"}
  PROVE  Closed(q)' <=> Closed(q) \/ (Step(r) = "uncount" /\ (q = r \/ (Op(r) = "release" /\ Req(r).handle = q)))
<1>1. TypeOK /\ r \in Reqs /\ Running(r) /\ Advance(r, l) /\ work' = work /\ Fits(r, l) /\ PlaceOK(r) /\ Reqs' = Reqs
  BY DEF Moves, Places, Reqs
<1>2. /\ loc'[r] = l /\ (\A p \in Reqs \ {r} : Same(p)) /\ Started(r) /\ Started(r)' /\ Ordered(Op(r), pc[r], Step(r))
      /\ \A t : Ahead(r, t)' => Ahead(r, t)
      /\ \A t : Ahead(r, t) /\ t # Step(r) /\ Applies(r, t, l) => Ahead(r, t)'
      /\ \A t : t = Step(r) /\ t # "touch" => ~Ahead(r, t)'
      /\ Applies(r, Step(r), loc[r])
      /\ \A t : Later(Op(r), pc[r] + 1, t) /\ Applies(r, t, l) => Ahead(r, t)'
  BY <1>1, AdvanceFacts, RunningOrder DEF PlaceOK
<1>3. \A p \in Reqs : Req(p)' = Req(p) /\ Op(p)' = Op(p) /\ Started(p)' = Started(p) /\ Req(p).op = Op(p)
  BY MoveUnanswered DEF Op
<1> DEFINE inA(p) == loc[p].intr /\ ~Ahead(p, "uncount")
           inB(p) == Op(p) = "release" /\ Req(p).handle = q /\ Started(p) /\ ~Ahead(p, "uncount")
<1>4. Closed(q) <=> inA(q) \/ \E p \in Reqs : inB(p)
  BY <1>3 DEF Closed
<1>5. Closed(q)' <=> inA(q)' \/ \E p \in Reqs : inB(p)'
  BY <1>1, <1>3 DEF Closed
<1>6. \A p \in Reqs \ {r} : (inA(p)' <=> inA(p)) /\ (inB(p)' <=> inB(p))
  BY <1>2 DEF Same
<1>7. \A t : Applies(r, "uncount", l) <=> Op(r) = "release" \/ l.intr
  BY AppliesIs
<1>8. q = r => (inA(r)' <=> inA(r) \/ Step(r) = "uncount")
  <2>1. SUFFICES ASSUME q = r PROVE inA(r)' <=> inA(r) \/ Step(r) = "uncount"
    OBVIOUS
  <2>2. CASE Step(r) = "uncount"
    <3>1. loc[r].intr
      BY <1>2, <2>1, <2>2, AppliesIs
    <3>2. l.intr
      BY <1>1, <3>1 DEF Fits
    <3> QED
      BY <1>2, <2>2, <3>2
  <2>3. CASE Step(r) # "uncount"
    <3>1. inA(r) => inA(r)'
      BY <1>1, <1>2 DEF Fits
    <3>2. ASSUME inA(r)' PROVE inA(r)
      <4>1. l.intr /\ ~Ahead(r, "uncount")'
        BY <1>2, <3>2
      <4>2. ~Ahead(r, "uncount")
        BY <1>2, <1>7, <2>3, <4>1
      <4>3. loc[r].intr
        <5>1. SUFFICES ASSUME ~loc[r].intr PROVE FALSE
          OBVIOUS
        <5>2. Step(r) \in {"reply_open", "reply_entry"}
          BY <1>1, <4>1, <5>1 DEF Fits
        <5>3. Step(r) = "reply_open"
          <6>1. Step(r) = "reply_entry" => Op(r) \notin {"open", "create"}
            BY <1>2 DEF Ordered
          <6> QED
            BY <2>1, <5>2, <6>1
        <5>4. Later(Op(r), pc[r] + 1, "uncount")
          BY <1>2, <5>3 DEF Ordered
        <5> QED
          BY <1>2, <1>7, <4>1, <5>4
      <4> QED
        BY <4>2, <4>3
    <3> QED
      BY <2>3, <3>1, <3>2
  <2> QED
    BY <2>2, <2>3
<1>9. inB(r)' <=> inB(r) \/ (Step(r) = "uncount" /\ Op(r) = "release" /\ Req(r).handle = q)
  <2>1. CASE Step(r) = "uncount"
    BY <1>1, <1>2, <1>3, <2>1
  <2>2. CASE Step(r) # "uncount"
    BY <1>1, <1>2, <1>3, <1>7, <2>2
  <2> QED
    BY <2>1, <2>2
<1> HIDE DEF inA, inB
<1>10. (\E p \in Reqs : inB(p)') <=> (\E p \in Reqs : inB(p)) \/ (Step(r) = "uncount" /\ Op(r) = "release" /\ Req(r).handle = q)
  BY <1>1, <1>6, <1>9
<1>11. inA(q)' <=> inA(q) \/ (q = r /\ Step(r) = "uncount")
  BY <1>6, <1>8
<1> QED
  BY <1>4, <1>5, <1>10, <1>11

\* A counted open's node stays the same.
LEMMA OpenedSame ==
  ASSUME Places, NEW r, NEW l, Moves(r, l), NEW q \in Reqs, Op(q) \in {"open", "create"}, Counted(q) \/ Counted(q)'
  PROVE  Opened(q)' = Opened(q)
<1>1. TypeOK /\ r \in Reqs /\ Running(r) /\ Advance(r, l) /\ work' = work /\ Fits(r, l) /\ PlaceOK(r)
  BY DEF Moves, Places
<1>2. /\ loc'[r] = l /\ (\A p \in Reqs \ {r} : Same(p)) /\ Ordered(Op(r), pc[r], Step(r))
      /\ Ahead(r, Step(r))
      /\ \A t : Later(Op(r), pc[r] + 1, t) /\ Applies(r, t, l) => Ahead(r, t)'
  BY <1>1, AdvanceFacts, RunningOrder
<1>3. Req(q)' = Req(q) /\ Started(q)' = Started(q) /\ Req(q).op = Op(q)
  BY MoveUnanswered DEF Op
<1>4. Started(q)
  BY <1>3 DEF Counted
<1>5. NodeOf(q)' = NodeOf(q)
  BY <1>4, MoveNodes
<1>6. q = r /\ Op(r) = "create" => Step(r) # "find"
  <2>1. SUFFICES ASSUME q = r, Op(r) = "create", Step(r) = "find" PROVE FALSE
    OBVIOUS
  <2>2. Counted(r)
    BY <2>1, CountedMoved
  <2>3. Later(Op(r), pc[r] + 1, "count")
    <3>1. Later(Op(r), pc[r], "find")
      BY <1>2, <2>1, AheadLater
    <3>2. Op(r) = "create" /\ Later(Op(r), pc[r], "find") => Later(Op(r), pc[r] + 1, "count")
      BY <1>2 DEF Ordered
    <3> QED
      BY <2>1, <3>1, <3>2
  <2>4. Ahead(r, "count")
    <3>1. PICK n \in Nat \ {0} : DOMAIN Program(r) = 1 .. n
      BY <1>1, OpFacts, ProgramSeq, AheadLater
    <3>2. pc[r] \in Nat
      BY <1>1 DEF TypeOK
    <3> QED
      BY <2>3, <3>1, <3>2, AheadLater DEF Later, Ahead
  <2> QED
    BY <2>2, <2>4 DEF Counted
<1>7. Op(q) = "create" => loc'[q].id = loc[q].id
  BY <1>1, <1>2, <1>6 DEF Fits, Same
<1> QED
  BY <1>3, <1>5, <1>7 DEF Opened

\* Who has a node open changes by one, at count and uncount.
LEMMA OpenByMoved ==
  ASSUME Places, NEW r, NEW l, Moves(r, l)
  PROVE  /\ Step(r) \notin {"count", "uncount"} => \A id : OpenBy(id)' = OpenBy(id)
         /\ Step(r) = "count" => \A id : /\ r \notin OpenBy(id)
                                         /\ OpenBy(id)' = IF Opened(r) = id THEN OpenBy(id) \cup {r} ELSE OpenBy(id)
         /\ Step(r) = "uncount" =>
              \E q \in OpenBy(Opened(r)) : \A id : OpenBy(id)' = OpenBy(id) \ {q} /\ (q \in OpenBy(id) => id = Opened(r))
<1>1. TypeOK /\ r \in Reqs /\ Running(r) /\ work' = work /\ Reqs' = Reqs /\ PlaceOK(r)
  BY DEF Moves, Places, Reqs
<1>2. \A q \in Reqs : Req(q)' = Req(q) /\ Op(q)' = Op(q) /\ Req(q).op = Op(q)
  BY MoveUnanswered DEF Op
<1> DEFINE o(q) == Op(q) \in {"open", "create"} /\ Counted(q) /\ ~Closed(q)
<1>3. \A id : OpenBy(id) = {q \in Reqs : o(q) /\ Opened(q) = id}
  BY <1>2 DEF OpenBy
<1>4. \A id : OpenBy(id)' = {q \in Reqs : o(q)' /\ Opened(q)' = id}
  BY <1>1, <1>2 DEF OpenBy
<1>5. \A q \in Reqs : o(q) \/ o(q)' => Opened(q)' = Opened(q)
  BY <1>2, OpenedSame
<1>6. ASSUME NEW q \in Reqs, Op(q) \in {"open", "create"}
      PROVE  /\ Counted(q)' <=> Counted(q) \/ (q = r /\ Step(r) = "count")
             /\ Closed(q)' <=> Closed(q) \/ (Step(r) = "uncount" /\ (q = r \/ (Op(r) = "release" /\ Req(r).handle = q)))
  BY <1>6, CountedMoved, ClosedMoved
<1>7. Step(r) \notin {"count", "uncount"} => \A id : OpenBy(id)' = OpenBy(id)
  <2>1. SUFFICES ASSUME Step(r) \notin {"count", "uncount"} PROVE \A q \in Reqs : o(q)' <=> o(q)
    BY <1>3, <1>4, <1>5
  <2> QED
    BY <1>2, <1>6, <2>1
<1>8. Step(r) = "count" => \A id : /\ r \notin OpenBy(id)
                                   /\ OpenBy(id)' = IF Opened(r) = id THEN OpenBy(id) \cup {r} ELSE OpenBy(id)
  <2>1. SUFFICES ASSUME Step(r) = "count" PROVE ~o(r) /\ o(r)' /\ \A q \in Reqs \ {r} : o(q)' <=> o(q)
    BY <1>1, <1>3, <1>4, <1>5
  <2>2. Started(r) /\ Ahead(r, "count") /\ Ordered(Op(r), pc[r], "count")
    BY <1>1, <2>1, RunningOrder
  <2>3. Op(r) \in {"open", "create"}
    BY <2>2 DEF Ordered
  <2>4. answer[r] = "none" /\ ~loc[r].intr
    BY <1>1, <2>2, SpoilsFirst
  <2>5. ~Closed(r)
    <3>1. \A p \in Reqs : Req(p).op = "release" /\ Req(p).handle = r => ~Started(p)
      <4>1. SUFFICES ASSUME NEW p \in Reqs, Req(p).op = "release", Req(p).handle = r, Started(p) PROVE FALSE
        OBVIOUS
      <4>2. r \in Req(p).needs
        <5>1. RequestOK(work.reqs, p)
          BY <1>1, WorkOK
        <5> QED
          BY <4>1, <5>1 DEF RequestOK, Req
      <4>3. answer[r] = "ok"
        BY <4>1, <4>2 DEF Places, PlaceOK
      <4> QED
        BY <2>4, <4>3
    <3> QED
      BY <2>4, <3>1 DEF Closed
  <2> QED
    BY <1>1, <1>2, <1>6, <2>1, <2>2, <2>3, <2>5 DEF Counted
<1>9. Step(r) = "uncount" =>
              \E q \in OpenBy(Opened(r)) : \A id : OpenBy(id)' = OpenBy(id) \ {q} /\ (q \in OpenBy(id) => id = Opened(r))
  <2>1. SUFFICES ASSUME Step(r) = "uncount"
                 PROVE \E q \in Reqs : /\ o(q) /\ ~o(q)' /\ Opened(q) = Opened(r)
                                       /\ \A p \in Reqs \ {q} : o(p)' <=> o(p)
    <3> HIDE DEF o
    <3> QED
      BY <1>3, <1>4, <1>5, <2>1
  <2>2. Started(r) /\ Ahead(r, "uncount") /\ Ordered(Op(r), pc[r], "uncount") /\ Applies(r, "uncount", loc[r])
    BY <1>1, <2>1, RunningOrder DEF PlaceOK
  <2>3. Op(r) \in {"open", "create", "release"} /\ ~Ahead(r, "count")
    BY <2>2, AheadLater DEF Ordered
  <2>4. CASE Op(r) # "release"
    <3>1. loc[r].intr /\ answer[r] = "intr" /\ loc[r].err = "ok"
      BY <1>1, <2>2, <2>4, AppliesIs DEF PlaceOK
    <3>2. \A p \in Reqs : Req(p).op = "release" /\ Req(p).handle = r => ~Started(p)
      <4>1. SUFFICES ASSUME NEW p \in Reqs, Req(p).op = "release", Req(p).handle = r, Started(p) PROVE FALSE
        OBVIOUS
      <4>2. r \in Req(p).needs
        <5>1. RequestOK(work.reqs, p)
          BY <1>1, WorkOK
        <5> QED
          BY <4>1, <5>1 DEF RequestOK, Req
      <4>3. answer[r] = "ok"
        BY <4>1, <4>2 DEF Places, PlaceOK
      <4> QED
        BY <3>1, <4>3
    <3>3. o(r)
      BY <2>2, <2>3, <2>4, <3>1, <3>2 DEF Counted, Closed
    <3>4. ~o(r)'
      BY <1>1, <1>2, <1>6, <2>1, <2>3, <2>4
    <3>5. \A p \in Reqs \ {r} : o(p)' <=> o(p)
      BY <1>2, <1>6, <2>1, <2>4
    <3> QED
      BY <1>1, <3>3, <3>4, <3>5
  <2>5. CASE Op(r) = "release"
    <3>0. PICK q : q = Req(r).handle
      OBVIOUS
    <3>1. /\ q \in Req(r).needs /\ q \in Reqs
          /\ Op(q) \in {"open", "create"}
          /\ Opened(q) = Opened(r)
          /\ \A p \in Reqs \ {r} : Op(p) = "release" => Req(p).handle # q
      <4>1. RequestOK(work.reqs, r)
        BY <1>1, WorkOK
      <4>2. /\ Req(r).op = "release" /\ Req(r) = work.reqs[r] /\ Req(q) = work.reqs[q]
            /\ \A p \in Reqs : Req(p) = work.reqs[p] /\ Op(p) = work.reqs[p].op
        BY <2>5, <3>0 DEF Op, Req
      <4>3. /\ q \in Req(r).needs
            /\ \/ Req(q).op = "create" /\ Req(r).of = q
               \/ Req(q).op = "open" /\ Req(r).of = Req(q).of /\ Req(r).n = Req(q).n
            /\ \A p \in Reqs \ {r} : Req(p).op = "release" => Req(p).handle # q
        <5> QED
          BY <3>0, <4>1, <4>2 DEF RequestOK, Reqs
      <4>4. q \in Reqs /\ q # 0
        BY <1>1, <4>3, OpFacts, WorkOK
      <4>5. Opened(q) = Opened(r)
        BY <4>2, <4>3, <4>4 DEF Opened, NodeOf
      <4> QED
        BY <4>2, <4>3, <4>4, <4>5 DEF Op
    <3>2. answer[q] = "ok" /\ Started(q) /\ PlaceOK(q)
      <4>1. answer[q] = "ok"
        BY <1>1, <2>2, <3>1 DEF PlaceOK
      <4> QED
        BY <3>1, <4>1, AnsweredFacts DEF Places
    <3>3. Counted(q)
      <4>1. ~Ahead(q, "count")
        <5>1. Ahead(q, "count") => answer[q] = "none"
          BY <3>1, <3>2, SpoilsFirst
        <5> QED
          BY <3>2, <5>1
      <4> QED
        BY <3>2, <4>1 DEF Counted, PlaceOK
    <3>4. ~Closed(q)
      <4>1. ~loc[q].intr
        BY <3>2 DEF PlaceOK
      <4>2. ASSUME NEW p \in Reqs, Req(p).op = "release", Req(p).handle = q, ~Ahead(p, "uncount") PROVE FALSE
        <5>1. p = r
          BY <1>2, <3>1, <4>2
        <5> QED
          BY <2>2, <4>2, <5>1
      <4> QED
        BY <4>1, <4>2 DEF Closed
    <3>5. o(q) /\ ~o(q)'
      BY <1>2, <1>6, <2>1, <2>5, <3>0, <3>1, <3>3, <3>4
    <3>6. \A p \in Reqs \ {q} : o(p)' <=> o(p)
      BY <1>2, <1>6, <2>1, <2>5, <3>0
    <3> QED
      BY <3>1, <3>5, <3>6
  <2> QED
    BY <2>3, <2>4, <2>5
<1> QED
  BY <1>7, <1>8, <1>9

\* All that is counted is finite.
LEMMA Finite ==
  ASSUME Places, NEW id
  PROVE  /\ IsFiniteSet(InFlight(id)) /\ IsFiniteSet(Returning(id)) /\ IsFiniteSet(Readers(id))
         /\ IsFiniteSet(Pinners(id)) /\ IsFiniteSet(OpenBy(id)) /\ IsFiniteSet(Children(id))
         /\ IsFiniteSet(Paths)
<1>1. IsFiniteSet(Reqs) /\ TypeOK
  BY WorkOK DEF Places
<1>2. InFlight(id) \subseteq Reqs /\ Pinners(id) \subseteq Reqs /\ OpenBy(id) \subseteq Reqs
  BY DEF InFlight, Pinners, OpenBy
<1>3. IsFiniteSet(InFlight(id)) /\ IsFiniteSet(Pinners(id)) /\ IsFiniteSet(OpenBy(id))
  BY <1>1, <1>2, FS_Subset
<1>4. IsFiniteSet(Paths)
  <2>1. IsFiniteSet({1, 2})
    <3>1. IsFiniteSet(1 .. 2)
      <4>1. 1 \in Int /\ 2 \in Int
        OBVIOUS
      <4> QED
        BY ONLY <4>1, FS_Interval
    <3>2. 1 .. 2 = {1, 2}
      OBVIOUS
    <3> QED
      BY <3>1, <3>2
  <2>2. IsFiniteSet(Reqs \X {1, 2})
    BY <1>1, <2>1, FS_Product
  <2>3. Paths \subseteq Reqs \X {1, 2}
    BY DEF Paths
  <2> QED
    BY <2>2, <2>3, FS_Subset
<1>5. IsFiniteSet(Readers(id))
  <2>1. Readers(id) \subseteq Paths
    BY DEF Readers
  <2> QED
    BY <1>4, <2>1, FS_Subset
<1>6. IsFiniteSet(Children(id))
  <2>1. Children(id) \subseteq 1 .. MaxId - 1
    BY <1>1 DEF Children, ChildrenIn, TypeOK, TableOK, Ids
  <2>2. IsFiniteSet(1 .. MaxId - 1)
    BY MaxIdAssumption, FS_Interval
  <2> QED
    BY <2>1, <2>2, FS_Subset
<1>7. IsFiniteSet(Returning(id))
  <2> DEFINE S == {q \in Reqs : Step(q) = "forget" /\ NodeOf(q) = id}
             part(q) == {q} \X (1 .. loc[q].n)
             T == {part(q) : q \in S}
  <2>1. IsFiniteSet(S)
    BY <1>1, FS_Subset
  <2>2. \A q \in S : IsFiniteSet(part(q))
    <3>1. SUFFICES ASSUME NEW q \in S PROVE IsFiniteSet(part(q))
      OBVIOUS
    <3>2. loc[q].n \in Nat
      BY DEF Places, PlaceOK, LocOK
    <3>3. IsFiniteSet({q}) /\ IsFiniteSet(1 .. loc[q].n)
      <4>1. 1 \in Int /\ loc[q].n \in Int
        BY <3>2
      <4>2. IsFiniteSet(1 .. loc[q].n)
        BY ONLY <4>1, FS_Interval
      <4> QED
        BY <4>2, FS_Singleton
    <3>4. IsFiniteSet({q} \X (1 .. loc[q].n))
      BY <3>3, FS_Product
    <3> QED
      BY <3>4
  <2> HIDE DEF part, S
  <2>3. IsFiniteSet(T)
    <3> DEFINE f == [q \in S |-> part(q)]
    <3>1. f \in Surjection(S, T)
      BY DEF Surjection, T
    <3> QED
      BY <2>1, <3>1, FS_Surjection
  <2>4. \A x \in T : IsFiniteSet(x)
    BY <2>2
  <2> HIDE DEF T
  <2>5. IsFiniteSet(UNION T)
    BY <2>3, <2>4, FS_UNION
  <2> QED
    BY <2>5 DEF Returning, T, S, part
<1> QED
  BY <1>3, <1>4, <1>5, <1>6, <1>7

\* A set is empty when it counts for nothing.
LEMMA NoneOf ==
  ASSUME NEW S, IsFiniteSet(S)
  PROVE  Cardinality(S) \in Nat /\ (Cardinality(S) = 0 <=> S = {})
BY FS_CardinalityType, FS_EmptySet

\* The lookups of a node that somebody answers for.
Weight(ns, id, kept) ==
  IF id \in DOMAIN ns THEN ns[id].nlookup - (IF ns[id].name # NoName THEN kept ELSE 0) ELSE 0
\* The lookups of a node: the kernel's, those in flight, those coming back, and its own.
Tallies(ns, id, kept, k, F, R) ==
  IF id \in DOMAIN ns
  THEN ns[id].nlookup = k + Cardinality(F) + Cardinality(R) + (IF ns[id].name # NoName THEN kept ELSE 0)
  ELSE k = 0 /\ F = {} /\ R = {}

\* The same, as one equation for nodes that are there and ids that are free.
LEMMA TalliesIs ==
  ASSUME NEW ns, NEW id, id \in DOMAIN ns => ns[id].nlookup \in Nat, NEW kept \in Nat, NEW k \in Nat,
         NEW F, IsFiniteSet(F), NEW R, IsFiniteSet(R)
  PROVE  Tallies(ns, id, kept, k, F, R) <=> Weight(ns, id, kept) = k + Cardinality(F) + Cardinality(R)
<1>1. Cardinality(F) \in Nat /\ (Cardinality(F) = 0 <=> F = {}) /\ Cardinality(R) \in Nat /\ (Cardinality(R) = 0 <=> R = {})
  BY NoneOf
<1> DEFINE f == Cardinality(F)
           g == Cardinality(R)
<1>2. f \in Nat /\ g \in Nat /\ (f = 0 <=> F = {}) /\ (g = 0 <=> R = {})
  BY <1>1
<1>3. Tallies(ns, id, kept, k, F, R) <=>
        IF id \in DOMAIN ns THEN ns[id].nlookup = k + f + g + (IF ns[id].name # NoName THEN kept ELSE 0)
        ELSE k = 0 /\ F = {} /\ R = {}
  BY DEF Tallies
<1> HIDE DEF f, g
<1>4. CASE id \in DOMAIN ns
  <2>1. CASE ns[id].name # NoName
    BY <1>2, <1>3, <1>4, <2>1 DEF Weight, f, g
  <2>2. CASE ns[id].name = NoName
    BY <1>2, <1>3, <1>4, <2>2 DEF Weight, f, g
  <2> QED
    BY <2>1, <2>2
<1>5. CASE id \notin DOMAIN ns
  <2>1. Weight(ns, id, kept) = 0
    BY <1>5 DEF Weight
  <2>2. 0 = k + f + g <=> k = 0 /\ f = 0 /\ g = 0
    BY <1>2
  <2>3. Tallies(ns, id, kept, k, F, R) <=> k = 0 /\ F = {} /\ R = {}
    BY <1>3, <1>5
  <2>4. Tallies(ns, id, kept, k, F, R) <=> Weight(ns, id, kept) = k + f + g
    BY <1>2, <2>1, <2>2, <2>3
  <2> QED
    BY <2>4 DEF f, g
<1> QED
  BY <1>4, <1>5

\* The same, of the state.
LEMMA LookupsIs ==
  ASSUME Places, NEW id \in Ids \ {Root}
  PROVE  /\ Tallies(nodes, id, Kept, known[id], InFlight(id), Returning(id))
              <=> Weight(nodes, id, Kept) = known[id] + Cardinality(InFlight(id)) + Cardinality(Returning(id))
         /\ LookupsOK => Tallies(nodes, id, Kept, known[id], InFlight(id), Returning(id))
         /\ known[id] \in Nat /\ Kept \in {0, 1}
<1>1. TypeOK /\ work.noforget \in BOOLEAN /\ TableOK(nodes)
  BY WorkOK DEF Places, TypeOK
<1>2. known[id] \in Nat /\ Kept \in {0, 1}
  BY <1>1, MaxIdAssumption DEF TypeOK, Ids, Kept
<1>3. id \in DOMAIN nodes => nodes[id].nlookup \in Nat
  BY <1>1 DEF TableOK, NodeOK
<1>4. LookupsOK => Tallies(nodes, id, Kept, known[id], InFlight(id), Returning(id))
  BY DEF LookupsOK, Tallies
<1>5. IsFiniteSet(InFlight(id)) /\ IsFiniteSet(Returning(id)) /\ Kept \in Nat
  BY <1>2, Finite
<1>6. Tallies(nodes, id, Kept, known[id], InFlight(id), Returning(id))
              <=> Weight(nodes, id, Kept) = known[id] + Cardinality(InFlight(id)) + Cardinality(Returning(id))
  BY <1>2, <1>3, <1>5, TalliesIs
<1> QED
  BY <1>2, <1>4, <1>6

\* The kernel's references, those of the requests and those that come back.
LEMMA LookupsMoved ==
  ASSUME Places, LookupsOK, TableOK(nodes'), work' = work, known' \in [1 .. MaxId -> Nat],
         \A id \in Ids \ {Root} :
           /\ IsFiniteSet(InFlight(id)') /\ IsFiniteSet(Returning(id)')
           /\ Weight(nodes', id, Kept) - known'[id] - Cardinality(InFlight(id)') - Cardinality(Returning(id)')
              = Weight(nodes, id, Kept) - known[id] - Cardinality(InFlight(id)) - Cardinality(Returning(id))
  PROVE  LookupsOK'
<1>1. Kept' = Kept
  BY DEF Kept
<1>2. SUFFICES ASSUME NEW id \in Ids \ {Root}
               PROVE  Tallies(nodes', id, Kept, known'[id], InFlight(id)', Returning(id)')
  BY <1>1 DEF LookupsOK, Tallies
<1>3. Weight(nodes, id, Kept) = known[id] + Cardinality(InFlight(id)) + Cardinality(Returning(id)) /\ known[id] \in Nat /\ Kept \in {0, 1}
  BY LookupsIs
<1>4. Cardinality(InFlight(id)) \in Nat /\ Cardinality(Returning(id)) \in Nat
      /\ Cardinality(InFlight(id)') \in Nat /\ Cardinality(Returning(id)') \in Nat /\ known'[id] \in Nat
  BY Finite, NoneOf, MaxIdAssumption DEF Ids
<1>5. id \in DOMAIN nodes' => nodes'[id].nlookup \in Nat
  BY DEF TableOK, NodeOK
<1>6. Weight(nodes', id, Kept) \in Int
  <2>1. CASE id \in DOMAIN nodes'
    BY <1>3, <1>5, <2>1 DEF Weight
  <2>2. CASE id \notin DOMAIN nodes'
    BY <2>2 DEF Weight
  <2> QED
    BY <2>1, <2>2
<1>7. Weight(nodes', id, Kept) = known'[id] + Cardinality(InFlight(id)') + Cardinality(Returning(id)')
  <2> DEFINE w == Weight(nodes', id, Kept)  v == Weight(nodes, id, Kept)
             k2 == known'[id]  k1 == known[id]  f2 == Cardinality(InFlight(id)')  f1 == Cardinality(InFlight(id))
             g2 == Cardinality(Returning(id)')  g1 == Cardinality(Returning(id))
  <2>1. w - k2 - f2 - g2 = v - k1 - f1 - g1
    OBVIOUS
  <2>2. v = k1 + f1 + g1 /\ w \in Int /\ k1 \in Nat /\ k2 \in Nat /\ f1 \in Nat /\ f2 \in Nat /\ g1 \in Nat /\ g2 \in Nat
    BY <1>3, <1>4, <1>6
  <2> HIDE DEF w, v, k1, k2, f1, f2, g1, g2
  <2>3. w = k2 + f2 + g2
    BY <2>1, <2>2
  <2> QED
    BY <2>3 DEF w, k2, f2, g2
<1> QED
  BY <1>3, <1>4, <1>5, <1>7, TalliesIs, ZenonT(30)

\* Whoever the kernel or a request refers to is in the table.
LEMMA KnownIn ==
  ASSUME Places, LookupsOK, NEW id \in Ids
  PROVE  /\ Holds(id) => id \in DOMAIN nodes /\ nodes[id].nlookup > 0
         /\ InFlight(id) # {} => id \in DOMAIN nodes /\ nodes[id].nlookup > 0
         /\ id # Root /\ id \in DOMAIN nodes => /\ nodes[id].nlookup >= known[id] + Cardinality(InFlight(id)) + Cardinality(Returning(id))
                                                /\ nodes[id].name # NoName => nodes[id].nlookup >= known[id] + Kept
<1>1. CASE id = Root
  BY <1>1 DEF Places, TypeOK, TableOK, InFlight
<1>2. CASE id # Root
  <2>1. Tallies(nodes, id, Kept, known[id], InFlight(id), Returning(id)) /\ known[id] \in Nat /\ Kept \in {0, 1}
    BY <1>2, LookupsIs
  <2>2. /\ Cardinality(InFlight(id)) \in Nat /\ Cardinality(Returning(id)) \in Nat
        /\ InFlight(id) # {} => Cardinality(InFlight(id)) # 0
    BY Finite, NoneOf
  <2> QED
    BY <1>2, <2>1, <2>2 DEF Tallies, Holds
<1> QED
  BY <1>1, <1>2

\* Every locked path starts at a node, and so does its lock.
LEMMA PathsIn ==
  ASSUME Places, TreesOK, NEW p \in Paths
  PROVE  /\ p[1] \in Reqs /\ loc[p[1]].locked /\ p = <<p[1], p[2]>> /\ p[2] \in {1, 2} /\ Base(p) \in DOMAIN nodes
         /\ p[2] = 2 => TwoPaths(p[1])
         /\ p \in Readers(Base(p)) \/ Base(p) = Root
         /\ \A id : p \in Readers(id) <=> id \in Above(nodes, Base(p))
         /\ \A x \in Above(nodes, Base(p)) : nodes[x].name # NoName
<1>1. p[1] \in Reqs /\ p[2] \in {1, 2} /\ p = <<p[1], p[2]>> /\ loc[p[1]].locked /\ (p[2] = 2 => TwoPaths(p[1]))
  BY DEF Paths, TwoPaths
<1>2. Base(p) \in DOMAIN nodes /\ TableOK(nodes)
      /\ \A k \in DOMAIN Chain(nodes, Base(p)) : nodes[Chain(nodes, Base(p))[k]].name # NoName
  BY <1>1 DEF TreesOK, Base, Places, TypeOK
<1>3. /\ \A x : Contains(Chain(nodes, Base(p)), x) <=> x \in Above(nodes, Base(p))
      /\ Base(p) \notin {Root, None} => Base(p) \in Above(nodes, Base(p))
  BY <1>2, ChainFacts
<1>4. None \notin DOMAIN nodes
  BY <1>2, NotAborted
<1>5. \A x \in Above(nodes, Base(p)) : nodes[x].name # NoName
  BY <1>2 DEF Above
<1>6. \A id : p \in Readers(id) <=> id \in Above(nodes, Base(p))
  BY <1>3 DEF Readers
<1> QED
  BY <1>1, <1>2, <1>3, <1>4, <1>5, <1>6

\* Whoever writes a node is alone there.
LEMMA WriterIn ==
  ASSUME Places, TreesOK, NEW id, NEW r \in Writers(id), id # None
  PROVE  id \in DOMAIN nodes \ {Root} /\ Readers(id) = {} /\ Writers(id) = {r} /\ nodes[id].tree = -1
<1>1. r \in Reqs /\ loc[r].locked /\ id \in {loc[r].w, loc[r].w2}
  BY DEF Writers
<1>2. id \in DOMAIN nodes \ {Root}
  BY <1>1 DEF TreesOK
<1> QED
  BY <1>2 DEF TreesOK

\* A change away from all locked paths keeps the counts of locks, and the paths.
LEMMA TreesKept ==
  ASSUME Places, TreesOK, PathStable, LocksKept, nodes # Abort, TableOK(nodes'), NEW X,
         \A n \in DOMAIN nodes \ X : n \in DOMAIN nodes' /\ nodes'[n].name = nodes[n].name /\ nodes'[n].parent = nodes[n].parent,
         \A p \in Paths : Above(nodes, Base(p)) \cap X = {},
         \A n \in DOMAIN nodes' : nodes'[n].tree = IF n \in DOMAIN nodes THEN nodes[n].tree ELSE 0,
         \A q \in Reqs : loc[q].locked => {loc[q].w, loc[q].w2} \subseteq DOMAIN nodes' \cup {None}
  PROVE  TreesOK' /\ PathStable'
<1>1. TableOK(nodes) /\ DOMAIN nodes' \subseteq Ids
  BY DEF Places, TypeOK, TableOK
<1>2. Paths' = Paths /\ \A p \in Paths : Base(p)' = Base(p)
  <2>1. \A q \in Reqs : loc[q].locked => Req(q)' = Req(q)
    BY DEF LocksKept
  <2>2. ASSUME NEW p PROVE p \in Paths' <=> p \in Paths
    BY <2>1 DEF Paths, LocksKept
  <2>3. \A p \in Paths : Base(p)' = Base(p)
    BY <2>1 DEF Paths, LocksKept, Base
  <2> QED
    BY <2>2, <2>3
<1>3. ASSUME NEW p \in Paths
      PROVE /\ Chain(nodes', Base(p)) = Chain(nodes, Base(p)) /\ Above(nodes', Base(p)) = Above(nodes, Base(p))
            /\ PathOf(nodes', Base(p)) = PathOf(nodes, Base(p)) /\ Base(p) \in DOMAIN nodes'
            /\ \A x \in Above(nodes, Base(p)) : x \in DOMAIN nodes' /\ nodes'[x].name # NoName
  <2>1. Base(p) \in DOMAIN nodes /\ (\A x \in Above(nodes, Base(p)) : nodes[x].name # NoName)
        /\ Above(nodes, Base(p)) \subseteq DOMAIN nodes \ {Root}
        /\ (Base(p) # Root => Base(p) \in Above(nodes, Base(p)))
    BY <1>1, PathsIn, ChainFacts, NotAborted
  <2>2. \A x \in Above(nodes, Base(p)) : x \in DOMAIN nodes' /\ nodes'[x].name = nodes[x].name
    BY <2>1
  <2>3. Base(p) \in DOMAIN nodes'
    BY <2>1, <2>2 DEF TableOK
  <2>4. Above(nodes, Base(p)) \cap X = {}
    OBVIOUS
  <2> QED
    BY <1>1, <2>1, <2>2, <2>3, <2>4, FarStays, SMTT(30)
<1>4. \A id : Readers(id)' = Readers(id)
  BY <1>2, <1>3 DEF Readers
<1>5. \A id : Writers(id)' = Writers(id)
  BY DEF Writers, LocksKept
<1>6. ASSUME NEW id \in DOMAIN nodes' \ {Root}
      PROVE /\ nodes'[id].tree = IF Writers(id) # {} THEN -1 ELSE Cardinality(Readers(id))
            /\ Writers(id) # {} => Readers(id) = {}
            /\ \A q, r \in Writers(id) : q = r
  <2>1. CASE id \in DOMAIN nodes
    BY <2>1 DEF TreesOK
  <2>2. CASE id \notin DOMAIN nodes
    <3>1. Readers(id) = {}
      <4>1. SUFFICES ASSUME NEW p \in Readers(id) PROVE FALSE
        OBVIOUS
      <4>2. p \in Paths /\ id \in Above(nodes, Base(p)) /\ Base(p) \in DOMAIN nodes
        BY PathsIn DEF Readers
      <4> QED
        BY <1>1, <2>2, <4>2, ChainFacts
    <3>2. id # None
      BY <1>1 DEF Ids, None
    <3>3. Writers(id) = {}
      BY <2>2, <3>2, WriterIn
    <3> QED
      BY <2>2, <3>1, <3>3, FS_EmptySet
  <2> QED
    BY <2>1, <2>2
<1>7. ASSUME NEW q \in Reqs, loc'[q].locked
      PROVE  /\ loc[q].locked /\ Req(q)' = Req(q) /\ NodeOf(q)' = NodeOf(q) /\ loc'[q].w = loc[q].w /\ loc'[q].w2 = loc[q].w2
             /\ loc'[q].path = loc[q].path /\ loc'[q].path2 = loc[q].path2
             /\ <<q, 1>> \in Paths /\ Base(<<q, 1>>) = NodeOf(q)
             /\ TwoPaths(q) => <<q, 2>> \in Paths /\ Base(<<q, 2>>) = Req(q).n2
  <2>1. loc[q].locked
    BY <1>7 DEF LocksKept
  <2>2. <<q, 1>> \in Paths /\ (TwoPaths(q) => <<q, 2>> \in Paths)
    BY <2>1 DEF Paths, TwoPaths
  <2> QED
    BY <2>1, <2>2 DEF LocksKept, Base
<1>8. TreesOK'
  <2>1. \A id \in DOMAIN nodes' \ {Root} :
       /\ nodes'[id].tree = IF Writers(id)' # {} THEN -1 ELSE Cardinality(Readers(id)')
       /\ Writers(id)' # {} => Readers(id)' = {}
       /\ \A q, r \in Writers(id)' : q = r
    BY <1>4, <1>5, <1>6
  <2>2. ASSUME NEW q \in Reqs, loc'[q].locked
        PROVE  /\ NodeOf(q)' \in DOMAIN nodes' /\ \A k \in DOMAIN Chain(nodes', NodeOf(q)') : nodes'[Chain(nodes', NodeOf(q)')[k]].name # NoName
               /\ TwoPaths(q)' => Req(q)'.n2 \in DOMAIN nodes' /\ \A k \in DOMAIN Chain(nodes', Req(q)'.n2) : nodes'[Chain(nodes', Req(q)'.n2)[k]].name # NoName
               /\ loc'[q].w \in DOMAIN nodes' \cup {None} /\ loc'[q].w2 \in DOMAIN nodes' \cup {None}
               /\ loc'[q].w # Root /\ loc'[q].w2 # Root
               /\ loc'[q].w = loc'[q].w2 => loc'[q].w = None
    <3>1. \A p \in Paths : \A k \in DOMAIN Chain(nodes', Base(p)) : nodes'[Chain(nodes', Base(p))[k]].name # NoName
      BY <1>3 DEF Above
    <3>2. TwoPaths(q)' = TwoPaths(q)
      BY <1>7, <2>2 DEF TwoPaths
    <3>3. /\ NodeOf(q) \in DOMAIN nodes' /\ \A k \in DOMAIN Chain(nodes', NodeOf(q)) : nodes'[Chain(nodes', NodeOf(q))[k]].name # NoName
          /\ TwoPaths(q) => Req(q).n2 \in DOMAIN nodes' /\ \A k \in DOMAIN Chain(nodes', Req(q).n2) : nodes'[Chain(nodes', Req(q).n2)[k]].name # NoName
      <4>1. \A p \in Paths : \A b : b = Base(p) => b \in DOMAIN nodes' /\ \A k \in DOMAIN Chain(nodes', b) : nodes'[Chain(nodes', b)[k]].name # NoName
        BY <1>3, <3>1
      <4>2. \E p \in Paths : NodeOf(q) = Base(p)
        BY <1>7, <2>2
      <4>3. TwoPaths(q) => \E p \in Paths : Req(q).n2 = Base(p)
        BY <1>7, <2>2
      <4>4. NodeOf(q) \in DOMAIN nodes' /\ \A k \in DOMAIN Chain(nodes', NodeOf(q)) : nodes'[Chain(nodes', NodeOf(q))[k]].name # NoName
        BY <4>1, <4>2
      <4>5. TwoPaths(q) => Req(q).n2 \in DOMAIN nodes' /\ \A k \in DOMAIN Chain(nodes', Req(q).n2) : nodes'[Chain(nodes', Req(q).n2)[k]].name # NoName
        <5>1. SUFFICES ASSUME TwoPaths(q) PROVE Req(q).n2 \in DOMAIN nodes' /\ \A k \in DOMAIN Chain(nodes', Req(q).n2) : nodes'[Chain(nodes', Req(q).n2)[k]].name # NoName
          OBVIOUS
        <5> QED
          BY <4>1, <4>3, <5>1
      <4> QED
        BY <4>4, <4>5
    <3>4. /\ loc[q].w \in DOMAIN nodes' \cup {None} /\ loc[q].w2 \in DOMAIN nodes' \cup {None}
          /\ loc[q].w # Root /\ loc[q].w2 # Root
          /\ loc[q].w = loc[q].w2 => loc[q].w = None
      BY <1>7, <2>2 DEF TreesOK
    <3> QED
      BY <1>7, <2>2, <3>2, <3>3, <3>4
  <2>3. Reqs' = Reqs
    BY DEF LocksKept
  <2> QED
    BY <2>1, <2>2, <2>3 DEF TreesOK
<1>9. PathStable'
  <2> DEFINE true(path, now) == path = now \/ (path # <<>> /\ path = Append(now, Last(path)))
  <2>1. ASSUME NEW q \in Reqs, loc'[q].locked
        PROVE  /\ true(loc'[q].path, PathOf(nodes', NodeOf(q)'))
               /\ Req(q)'.op \in {"rename", "link"} => true(loc'[q].path2, PathOf(nodes', Req(q)'.n2))
    <3>1. /\ true(loc[q].path, PathOf(nodes, NodeOf(q)))
          /\ Req(q).op \in {"rename", "link"} => true(loc[q].path2, PathOf(nodes, Req(q).n2))
      BY <1>7, <2>1 DEF PathStable
    <3>2. PathOf(nodes', NodeOf(q)) = PathOf(nodes, NodeOf(q)) /\ (TwoPaths(q) => PathOf(nodes', Req(q).n2) = PathOf(nodes, Req(q).n2))
      BY <1>3, <1>7, <2>1
    <3> HIDE DEF true
    <3> QED
      BY <1>7, <2>1, <3>1, <3>2 DEF TwoPaths
  <2>2. Reqs' = Reqs
    BY DEF LocksKept
  <2> QED
    BY <2>1, <2>2 DEF PathStable
<1> QED
  BY <1>8, <1>9

\* path is what leads to a node now, or to a name in it.
TruePath(path, now) == path = now \/ (path # <<>> /\ path = Append(now, Last(path)))

\* The path get_path returns is true at that moment.
LEMMA NamedTrue ==
  ASSUME NEW ns, TableOK(ns), NEW id \in DOMAIN ns, NEW name, NEW path, path = Named(PathOf(ns, id), name),
         \A x \in Above(ns, id) : ns[x].name # NoName
  PROVE  TruePath(path, PathOf(ns, id))
<1>1. \A k \in DOMAIN Chain(ns, id) : ns[Chain(ns, id)[k]].name # NoName
  BY DEF Above
<1> DEFINE s == PathOf(ns, id)
           c == Chain(ns, id)
<1>2. s = [k \in DOMAIN c |-> ns[c[Len(c) + 1 - k]].name]
  BY <1>1, PathIs
<1>3. c \in Seq(DOMAIN ns \ {Root})
  BY ChainFacts
<1> HIDE DEF c
<1>4. PICK n \in Nat : DOMAIN c = 1 .. n
  BY <1>3
<1> DEFINE S == {s[k] : k \in 1 .. n} \cup {name}
<1>5. s \in [1 .. n -> S] /\ name \in S
  BY <1>2, <1>4
<1> HIDE DEF S, s
<1>6. s \in Seq(S) /\ Len(s) = n
  BY <1>5
<1>7. CASE name = NoName
  BY <1>7 DEF TruePath, Named, s
<1>8. CASE name # NoName
  <2>1. path = Append(s, name)
    BY <1>8 DEF Named, s
  <2>2. path \in Seq(S) /\ Len(path) = n + 1 /\ path[n + 1] = name
    BY <1>5, <1>6, <2>1
  <2>3. path # <<>> /\ Last(path) = name
    BY <2>2 DEF Last
  <2> QED
    BY <2>1, <2>3 DEF TruePath, s
<1> QED
  BY <1>7, <1>8

\* A path is locked.
LEMMA TreesGot ==
  ASSUME Places, TreesOK, PathStable, nodes # Abort, NEW r, NEW l, Moves(r, l), Step(r) \in Gets, l.locked,
         TableOK(nodes'), SameShape(nodes, nodes'), NodeOf(r) \in DOMAIN nodes,
         TwoPaths(r) => Req(r).n2 \in DOMAIN nodes,
         GotPaths(nodes, nodes', Above(nodes, NodeOf(r)), IF TwoPaths(r) THEN Above(nodes, Req(r).n2) ELSE {}, l.w, l.w2),
         \E name : l.path = Named(PathOf(nodes, NodeOf(r)), name),
         TwoPaths(r) => \E name : l.path2 = Named(PathOf(nodes, Req(r).n2), name)
  PROVE  TreesOK' /\ PathStable'
<1> DEFINE a1 == Above(nodes, NodeOf(r))
           a2 == IF TwoPaths(r) THEN Above(nodes, Req(r).n2) ELSE {}
<1>1. TypeOK /\ TableOK(nodes) /\ PlaceOK(r) /\ r \in Reqs /\ Running(r) /\ Advance(r, l) /\ work' = work /\ Reqs' = Reqs
  BY DEF Moves, Places, TypeOK, Reqs
<1>2. loc'[r] = l /\ (\A q \in Reqs \ {r} : Same(q)) /\ Started(r)
      /\ Ahead(r, Step(r)) /\ DOMAIN nodes' = DOMAIN nodes
  BY <1>1, AdvanceFacts, RunningOrder DEF SameShape
<1>3. /\ \A q \in Reqs : Started(q)' = Started(q) /\ Req(q)' = Req(q)
      /\ \A q \in Reqs : Started(q) => NodeOf(q)' = NodeOf(q)
      /\ \A q \in Reqs : loc[q].locked => Started(q)
  <2>1. \A q \in Reqs : loc[q].locked => Started(q)
    BY DEF Places, PlaceOK, NoLoc
  <2> QED
    BY <2>1, MoveUnanswered, MoveNodes
<1>4. ~loc[r].locked
  BY <1>1, <1>2 DEF PlaceOK, Getting
<1>5. \A q \in Reqs \ {r} : loc'[q] = loc[q]
  BY <1>2 DEF Same
<1>6. Paths' = Paths \cup {<<r, 1>>} \cup (IF TwoPaths(r) THEN {<<r, 2>>} ELSE {}) /\ <<r, 1>> \notin Paths /\ <<r, 2>> \notin Paths
  <2>1. ASSUME NEW p PROVE p \in Paths' <=> p \in Paths \cup {<<r, 1>>} \cup (IF TwoPaths(r) THEN {<<r, 2>>} ELSE {})
    <3>1. p \in Paths' <=> p \in Reqs \X {1, 2} /\ loc'[p[1]].locked /\ (p[2] = 2 => Req(p[1])'.op \in {"rename", "link"})
      BY <1>1 DEF Paths
    <3>2. CASE p \in Reqs \X {1, 2} /\ p[1] = r
      BY <1>1, <1>2, <1>3, <1>4, <3>1, <3>2 DEF Paths, TwoPaths
    <3>3. CASE p \in Reqs \X {1, 2} /\ p[1] # r
      BY <1>1, <1>3, <1>5, <3>1, <3>3 DEF Paths, TwoPaths
    <3>4. CASE p \notin Reqs \X {1, 2}
      BY <1>1, <3>1, <3>4 DEF Paths, TwoPaths
    <3> QED
      BY <3>2, <3>3, <3>4
  <2>2. <<r, 1>> \notin Paths /\ <<r, 2>> \notin Paths
    BY <1>4 DEF Paths
  <2> QED
    BY <2>1, <2>2
<1>7. /\ \A p \in Paths : Base(p)' = Base(p) /\ Base(p) \in DOMAIN nodes
      /\ Base(<<r, 1>>)' = NodeOf(r) /\ Base(<<r, 2>>)' = Req(r).n2
  <2>1. \A p \in Paths : Base(p) \in DOMAIN nodes /\ p[1] \in Reqs /\ loc[p[1]].locked
    BY PathsIn
  <2> QED
    BY <1>1, <1>2, <1>3, <2>1 DEF Base
<1>8. \A b \in DOMAIN nodes : /\ Chain(nodes', b) = Chain(nodes, b) /\ Above(nodes', b) = Above(nodes, b)
                              /\ PathOf(nodes', b) = PathOf(nodes, b)
                              /\ \A x : Contains(Chain(nodes, b), x) <=> x \in Above(nodes, b)
                              /\ Above(nodes, b) \subseteq DOMAIN nodes \ {Root}
  BY <1>1, ChainFacts DEF SameShape
<1>9. ASSUME NEW id
      PROVE Readers(id)' = Readers(id) \cup (IF id \in a1 THEN {<<r, 1>>} ELSE {}) \cup (IF id \in a2 THEN {<<r, 2>>} ELSE {})
  <2>1. Readers(id)' = {p \in Paths' : Contains(Chain(nodes', Base(p)'), id)}
    BY DEF Readers
  <2>2. \A p \in Paths : Contains(Chain(nodes', Base(p)'), id) <=> p \in Readers(id)
    BY <1>7, <1>8 DEF Readers
  <2>3. Contains(Chain(nodes', Base(<<r, 1>>)'), id) <=> id \in a1
    BY <1>7, <1>8
  <2>4. TwoPaths(r) => (Contains(Chain(nodes', Base(<<r, 2>>)'), id) <=> id \in a2)
    BY <1>7, <1>8
  <2>5. Readers(id) \subseteq Paths
    BY DEF Readers
  <2> HIDE DEF a1
  <2> QED
    BY <1>6, <2>1, <2>2, <2>3, <2>4, <2>5
<1>10. \A id : Writers(id)' = Writers(id) \cup (IF id \in {l.w, l.w2} THEN {r} ELSE {})
  BY <1>1, <1>2, <1>4, <1>5 DEF Writers
<1>11. \A x \in a1 \cup a2 : nodes[x].name # NoName /\ nodes[x].tree # -1
  BY DEF GotPaths
<1>12. \A x \in {l.w, l.w2} \ {None} : x \in DOMAIN nodes \ {Root} /\ nodes[x].tree = 0 /\ x \notin a1 \cup a2
  BY DEF GotPaths
<1>13. \A n \in DOMAIN nodes :
       nodes'[n].name = nodes[n].name /\
       nodes'[n].tree = IF n \in {l.w, l.w2} THEN -1
                     ELSE nodes[n].tree + (IF n \in a1 THEN 1 ELSE 0) + (IF n \in a2 THEN 1 ELSE 0)
  BY DEF GotPaths, Body
<1>14. l.w = l.w2 => l.w = None
  BY DEF GotPaths
<1> HIDE DEF a1, a2
<1>15. ASSUME NEW id \in DOMAIN nodes \ {Root}
       PROVE  /\ nodes'[id].tree = IF Writers(id)' # {} THEN -1 ELSE Cardinality(Readers(id)')
              /\ Writers(id)' # {} => Readers(id)' = {}
              /\ \A p, q \in Writers(id)' : p = q
  <2>1. /\ nodes[id].tree = IF Writers(id) # {} THEN -1 ELSE Cardinality(Readers(id))
        /\ Writers(id) # {} => Readers(id) = {}
        /\ \A p, q \in Writers(id) : p = q
        /\ id # None
    BY <1>1, NotAborted DEF TreesOK
  <2>2. IsFiniteSet(Readers(id)) /\ Cardinality(Readers(id)) \in Nat /\ (Cardinality(Readers(id)) = 0 <=> Readers(id) = {})
    BY Finite, NoneOf
  <2>3. CASE id \in {l.w, l.w2}
    <3>1. nodes[id].tree = 0 /\ id \notin a1 \cup a2
      BY <1>12, <2>1, <2>3
    <3>2. Writers(id) = {} /\ Readers(id) = {}
      BY <2>1, <2>2, <3>1
    <3> QED
      BY <1>9, <1>10, <1>13, <2>3, <3>1, <3>2
  <2>4. CASE id \notin {l.w, l.w2} /\ id \in a1 \cup a2
    <3>1. Writers(id) = {} /\ Writers(id)' = {}
      BY <1>10, <1>11, <2>1, <2>4
    <3>2. <<r, 1>> \notin Readers(id) /\ <<r, 2>> \notin Readers(id) /\ <<r, 1>> # <<r, 2>>
      BY <1>6 DEF Readers
    <3> DEFINE R == Readers(id)
               R1 == R \cup (IF id \in a1 THEN {<<r, 1>>} ELSE {})
               R2 == R1 \cup (IF id \in a2 THEN {<<r, 2>>} ELSE {})
    <3>3. IsFiniteSet(R1) /\ Cardinality(R1) = Cardinality(R) + (IF id \in a1 THEN 1 ELSE 0)
      <4>1. CASE id \in a1
        BY <2>2, <3>2, <4>1, FS_AddElement
      <4>2. CASE id \notin a1
        <5>1. R1 = R
          BY <4>2
        <5> QED
          BY <2>2, <4>2, <5>1
      <4> QED
        BY <4>1, <4>2
    <3>4. <<r, 2>> \notin R1
      BY <3>2
    <3> HIDE DEF R1
    <3>5. Cardinality(R2) = Cardinality(R1) + (IF id \in a2 THEN 1 ELSE 0)
      <4>1. CASE id \in a2
        BY <3>3, <3>4, <4>1, FS_AddElement
      <4>2. CASE id \notin a2
        <5>1. R2 = R1
          BY <4>2
        <5> QED
          BY <2>2, <3>3, <4>2, <5>1
      <4> QED
        BY <4>1, <4>2
    <3>6. Readers(id)' = R2
      BY <1>9 DEF R1
    <3> HIDE DEF R2
    <3> QED
      BY <1>13, <2>1, <2>2, <2>4, <3>1, <3>3, <3>5, <3>6
  <2>5. CASE id \notin {l.w, l.w2} /\ id \notin a1 \cup a2
    <3>1. Writers(id)' = Writers(id) /\ Readers(id)' = Readers(id)
      BY <1>9, <1>10, <2>5
    <3>2. nodes'[id].tree = nodes[id].tree
      BY <1>13, <2>1, <2>2, <2>5
    <3> QED
      BY <2>1, <3>1, <3>2
  <2> QED
    BY <2>3, <2>4, <2>5
\* The requests that hold paths.
<1> DEFINE fine(ns, b) == b \in DOMAIN ns /\ \A k \in DOMAIN Chain(ns, b) : ns[Chain(ns, b)[k]].name # NoName
<1>16. \A b : fine(nodes, b) => fine(nodes', b)
  <2>1. SUFFICES ASSUME NEW b \in DOMAIN nodes, NEW k \in DOMAIN Chain(nodes, b), nodes[Chain(nodes, b)[k]].name # NoName
                 PROVE  nodes'[Chain(nodes, b)[k]].name # NoName
    BY <1>2, <1>8
  <2>2. Chain(nodes, b)[k] \in DOMAIN nodes
    BY <1>8 DEF Above
  <2> QED
    BY <1>13, <2>1, <2>2
<1>17. fine(nodes, NodeOf(r)) /\ (TwoPaths(r) => fine(nodes, Req(r).n2))
  BY <1>11 DEF a1, a2, Above
<1> HIDE DEF fine
<1> DEFINE good(q) == /\ fine(nodes', NodeOf(q)')
                      /\ TwoPaths(q)' => fine(nodes', Req(q)'.n2)
                      /\ loc'[q].w \in DOMAIN nodes' \cup {None} /\ loc'[q].w2 \in DOMAIN nodes' \cup {None}
                      /\ loc'[q].w # Root /\ loc'[q].w2 # Root
                      /\ loc'[q].w = loc'[q].w2 => loc'[q].w = None
<1>18. ASSUME NEW q \in Reqs, loc'[q].locked PROVE good(q)
  <2>1. CASE q = r
    <3>1. l.w \in DOMAIN nodes' \cup {None} /\ l.w2 \in DOMAIN nodes' \cup {None} /\ l.w # Root /\ l.w2 # Root
      BY <1>2, <1>12 DEF Root, None
    <3>2. TwoPaths(r)' = TwoPaths(r)
      BY <1>1, <1>3 DEF TwoPaths
    <3> QED
      BY <1>1, <1>2, <1>3, <1>14, <1>16, <1>17, <2>1, <3>1, <3>2
  <2>2. CASE q # r
    <3>1. loc'[q] = loc[q] /\ Req(q)' = Req(q) /\ NodeOf(q)' = NodeOf(q) /\ TwoPaths(q)' = TwoPaths(q) /\ loc[q].locked
      BY <1>3, <1>5, <1>18, <2>2 DEF TwoPaths
    <3>2. /\ fine(nodes, NodeOf(q)) /\ (TwoPaths(q) => fine(nodes, Req(q).n2))
          /\ loc[q].w \in DOMAIN nodes \cup {None} /\ loc[q].w2 \in DOMAIN nodes \cup {None}
          /\ loc[q].w # Root /\ loc[q].w2 # Root
          /\ loc[q].w = loc[q].w2 => loc[q].w = None
      BY <3>1 DEF TreesOK, fine
    <3> QED
      BY <1>2, <1>16, <3>1, <3>2
  <2> QED
    BY <2>1, <2>2
<1>19. TreesOK'
  BY <1>1, <1>2, <1>15, <1>18 DEF TreesOK, fine
<1>20. PathStable'
  <2>1. ASSUME NEW q \in Reqs, loc'[q].locked
        PROVE  /\ TruePath(loc'[q].path, PathOf(nodes', NodeOf(q)'))
               /\ Req(q)'.op \in {"rename", "link"} => TruePath(loc'[q].path2, PathOf(nodes', Req(q)'.n2))
    <3>1. CASE q = r
      <4>1. TruePath(l.path, PathOf(nodes, NodeOf(r)))
        BY <1>1, <1>11, NamedTrue DEF a1
      <4>2. TwoPaths(r) => TruePath(l.path2, PathOf(nodes, Req(r).n2))
        <5>1. SUFFICES ASSUME TwoPaths(r) PROVE TruePath(l.path2, PathOf(nodes, Req(r).n2))
          OBVIOUS
        <5>2. a2 = Above(nodes, Req(r).n2) /\ Req(r).n2 \in DOMAIN nodes
          BY <5>1 DEF a2
        <5>3. \A x \in Above(nodes, Req(r).n2) : nodes[x].name # NoName
          BY <1>11, <5>2
        <5> QED
          BY <1>1, <5>1, <5>2, <5>3, NamedTrue
      <4> QED
        BY <1>1, <1>2, <1>3, <1>8, <3>1, <4>1, <4>2 DEF TwoPaths
    <3>2. CASE q # r
      <4>1. loc'[q] = loc[q] /\ Req(q)' = Req(q) /\ NodeOf(q)' = NodeOf(q) /\ loc[q].locked
        BY <1>3, <1>5, <2>1, <3>2
      <4>2. TruePath(loc[q].path, PathOf(nodes, NodeOf(q))) /\ (Req(q).op \in {"rename", "link"} => TruePath(loc[q].path2, PathOf(nodes, Req(q).n2)))
        BY <4>1 DEF PathStable, TruePath
      <4>3. NodeOf(q) \in DOMAIN nodes /\ (Req(q).op \in {"rename", "link"} => Req(q).n2 \in DOMAIN nodes)
        BY <4>1 DEF TreesOK, TwoPaths
      <4> QED
        BY <1>8, <4>1, <4>2, <4>3
    <3> QED
      BY <3>1, <3>2
  <2> QED
    BY <1>1, <2>1 DEF PathStable, TruePath
<1> QED
  BY <1>19, <1>20

\* Two locked paths are given back.
Freed(ns, ns2, a1, a2, w1, w2) ==
  /\ DOMAIN ns2 = DOMAIN ns /\ \A n \in DOMAIN ns : Body(ns2[n], ns[n])
  /\ \A n \in DOMAIN ns :
       ns2[n].tree = IF n \in {w1, w2} THEN 0
                     ELSE ns[n].tree - (IF n \in a1 THEN 1 ELSE 0) - (IF n \in a2 THEN 1 ELSE 0)

\* A path is unlocked.
LEMMA TreesFreed ==
  ASSUME Places, TreesOK, PathStable, nodes # Abort, NEW r, NEW l, Moves(r, l), Step(r) = "free", loc[r].locked,
         TableOK(nodes'), SameShape(nodes, nodes'),
         Freed(nodes, nodes', Above(nodes, NodeOf(r)), IF TwoPaths(r) THEN Above(nodes, Req(r).n2) ELSE {}, loc[r].w, loc[r].w2)
  PROVE  TreesOK' /\ PathStable'
<1> DEFINE a1 == Above(nodes, NodeOf(r))
           a2 == IF TwoPaths(r) THEN Above(nodes, Req(r).n2) ELSE {}
<1>1. TypeOK /\ TableOK(nodes) /\ PlaceOK(r) /\ r \in Reqs /\ Running(r) /\ Advance(r, l) /\ work' = work /\ Reqs' = Reqs
  BY DEF Moves, Places, TypeOK, Reqs
<1>2. loc'[r] = l /\ (\A q \in Reqs \ {r} : Same(q)) /\ Started(r) /\ ~l.locked /\ DOMAIN nodes' = DOMAIN nodes
  BY <1>1, AdvanceFacts, RunningOrder DEF Moves, Fits, SameShape
<1>3. /\ \A q \in Reqs : Started(q)' = Started(q) /\ Req(q)' = Req(q)
      /\ \A q \in Reqs : Started(q) => NodeOf(q)' = NodeOf(q)
      /\ \A q \in Reqs : loc[q].locked => Started(q)
  <2>1. \A q \in Reqs : loc[q].locked => Started(q)
    BY DEF Places, PlaceOK, NoLoc
  <2> QED
    BY <2>1, MoveUnanswered, MoveNodes
<1>5. \A q \in Reqs \ {r} : loc'[q] = loc[q]
  BY <1>2 DEF Same
<1>6. /\ Paths' = Paths \ {<<r, 1>>, <<r, 2>>} /\ <<r, 1>> \in Paths
      /\ <<r, 2>> \in Paths <=> TwoPaths(r)
  <2>1. ASSUME NEW p PROVE p \in Paths' <=> p \in Paths \ {<<r, 1>>, <<r, 2>>}
    <3>1. p \in Paths' <=> p \in Reqs \X {1, 2} /\ loc'[p[1]].locked /\ (p[2] = 2 => Req(p[1])'.op \in {"rename", "link"})
      BY <1>1 DEF Paths
    <3>2. CASE p \in Reqs \X {1, 2} /\ p[1] = r
      BY <1>1, <1>2, <1>3, <3>1, <3>2 DEF Paths
    <3>3. CASE p \in Reqs \X {1, 2} /\ p[1] # r
      BY <1>1, <1>3, <1>5, <3>1, <3>3 DEF Paths
    <3>4. CASE p \notin Reqs \X {1, 2}
      BY <1>1, <3>1, <3>4 DEF Paths
    <3> QED
      BY <3>2, <3>3, <3>4
  <2>2. <<r, 1>> \in Paths /\ (<<r, 2>> \in Paths <=> TwoPaths(r))
    BY <1>1 DEF Paths, TwoPaths
  <2> QED
    BY <2>1, <2>2
<1>7. /\ \A p \in Paths : Base(p)' = Base(p) /\ Base(p) \in DOMAIN nodes
      /\ Base(<<r, 1>>) = NodeOf(r) /\ Base(<<r, 2>>) = Req(r).n2
  <2>1. \A p \in Paths : Base(p) \in DOMAIN nodes /\ p[1] \in Reqs /\ loc[p[1]].locked
    BY PathsIn
  <2> QED
    BY <1>1, <1>2, <1>3, <2>1 DEF Base
<1>8. \A b \in DOMAIN nodes : /\ Chain(nodes', b) = Chain(nodes, b) /\ Above(nodes', b) = Above(nodes, b)
                              /\ PathOf(nodes', b) = PathOf(nodes, b)
                              /\ \A x : Contains(Chain(nodes, b), x) <=> x \in Above(nodes, b)
                              /\ Above(nodes, b) \subseteq DOMAIN nodes \ {Root}
  BY <1>1, ChainFacts DEF SameShape
<1>9. \A id : Readers(id)' = Readers(id) \ {<<r, 1>>, <<r, 2>>}
  BY <1>6, <1>7, <1>8 DEF Readers
<1>91. \A id : (<<r, 1>> \in Readers(id) <=> id \in a1) /\ (<<r, 2>> \in Readers(id) <=> id \in a2)
  <2>1. \A id : <<r, 1>> \in Readers(id) <=> id \in a1
    BY <1>6, <1>7, PathsIn
  <2>2. \A id : <<r, 2>> \in Readers(id) => <<r, 2>> \in Paths
    BY DEF Readers
  <2>3. <<r, 2>> \in Paths => \A id : <<r, 2>> \in Readers(id) <=> id \in Above(nodes, Req(r).n2)
    BY <1>7, PathsIn
  <2> QED
    BY <1>6, <2>1, <2>2, <2>3
<1>10. \A id : Writers(id)' = Writers(id) \ {r} /\ (r \in Writers(id) <=> id \in {loc[r].w, loc[r].w2})
  BY <1>1, <1>2, <1>5 DEF Writers
<1>13. \A n \in DOMAIN nodes :
       nodes'[n].name = nodes[n].name /\
       nodes'[n].tree = IF n \in {loc[r].w, loc[r].w2} THEN 0
                     ELSE nodes[n].tree - (IF n \in a1 THEN 1 ELSE 0) - (IF n \in a2 THEN 1 ELSE 0)
  BY DEF Freed, Body
<1> HIDE DEF a1, a2
<1>15. ASSUME NEW id \in DOMAIN nodes \ {Root}
       PROVE  /\ nodes'[id].tree = IF Writers(id)' # {} THEN -1 ELSE Cardinality(Readers(id)')
              /\ Writers(id)' # {} => Readers(id)' = {}
              /\ \A p, q \in Writers(id)' : p = q
  <2>1. /\ nodes[id].tree = IF Writers(id) # {} THEN -1 ELSE Cardinality(Readers(id))
        /\ Writers(id) # {} => Readers(id) = {}
        /\ \A p, q \in Writers(id) : p = q
        /\ id # None
    BY <1>1, NotAborted DEF TreesOK
  <2>2. IsFiniteSet(Readers(id)) /\ Cardinality(Readers(id)) \in Nat /\ (Cardinality(Readers(id)) = 0 <=> Readers(id) = {})
    BY Finite, NoneOf
  <2>3. CASE id \in {loc[r].w, loc[r].w2}
    <3>1. Writers(id) = {r} /\ Readers(id) = {}
      BY <1>10, <2>1, <2>3
    <3>2. Writers(id)' = {} /\ Readers(id)' = {}
      BY <1>9, <1>10, <3>1
    <3> QED
      BY <1>13, <2>3, <3>2, FS_EmptySet
  <2>4. CASE id \notin {loc[r].w, loc[r].w2} /\ id \in a1 \cup a2
    <3>1. Writers(id) = {} /\ Writers(id)' = {}
      BY <1>10, <1>91, <2>1, <2>4
    <3> DEFINE R == Readers(id)
               R1 == R \ {<<r, 1>>}
               R2 == R1 \ {<<r, 2>>}
    <3>3. IsFiniteSet(R1) /\ Cardinality(R1) = Cardinality(R) - (IF id \in a1 THEN 1 ELSE 0)
      <4>1. IsFiniteSet(R1) /\ Cardinality(R1) = IF <<r, 1>> \in R THEN Cardinality(R) - 1 ELSE Cardinality(R)
        BY <2>2, FS_RemoveElement
      <4> QED
        BY <1>91, <2>2, <4>1
    <3>4. <<r, 2>> \in R1 <=> id \in a2
      BY <1>91
    <3> HIDE DEF R1
    <3>5. Cardinality(R2) = Cardinality(R1) - (IF id \in a2 THEN 1 ELSE 0) /\ Cardinality(R1) \in Nat
      BY <3>3, <3>4, FS_RemoveElement, NoneOf
    <3>6. Readers(id)' = R2
      BY <1>9 DEF R1
    <3> HIDE DEF R2
    <3> QED
      BY <1>13, <2>1, <2>2, <2>4, <3>1, <3>3, <3>5, <3>6
  <2>5. CASE id \notin {loc[r].w, loc[r].w2} /\ id \notin a1 \cup a2
    <3>1. Writers(id)' = Writers(id) /\ Readers(id)' = Readers(id)
      BY <1>9, <1>91, <1>10, <2>5
    <3>2. nodes'[id].tree = nodes[id].tree
      BY <1>13, <2>1, <2>2, <2>5
    <3> QED
      BY <2>1, <3>1, <3>2
  <2> QED
    BY <2>3, <2>4, <2>5
<1> DEFINE fine(ns, b) == b \in DOMAIN ns /\ \A k \in DOMAIN Chain(ns, b) : ns[Chain(ns, b)[k]].name # NoName
<1>16. \A b : fine(nodes, b) => fine(nodes', b)
  <2>1. SUFFICES ASSUME NEW b \in DOMAIN nodes, NEW k \in DOMAIN Chain(nodes, b), nodes[Chain(nodes, b)[k]].name # NoName
                 PROVE  nodes'[Chain(nodes, b)[k]].name # NoName
    BY <1>2, <1>8
  <2>2. Chain(nodes, b)[k] \in DOMAIN nodes
    BY <1>8 DEF Above
  <2> QED
    BY <1>13, <2>1, <2>2
<1> HIDE DEF fine
<1> DEFINE good(q) == /\ fine(nodes', NodeOf(q)')
                      /\ TwoPaths(q)' => fine(nodes', Req(q)'.n2)
                      /\ loc'[q].w \in DOMAIN nodes' \cup {None} /\ loc'[q].w2 \in DOMAIN nodes' \cup {None}
                      /\ loc'[q].w # Root /\ loc'[q].w2 # Root
                      /\ loc'[q].w = loc'[q].w2 => loc'[q].w = None
<1>17. ASSUME NEW q \in Reqs, loc'[q].locked
       PROVE  q # r /\ loc'[q] = loc[q] /\ Req(q)' = Req(q) /\ NodeOf(q)' = NodeOf(q) /\ TwoPaths(q)' = TwoPaths(q) /\ loc[q].locked
  <2>1. q # r
    BY <1>2, <1>17
  <2> QED
    BY <1>3, <1>5, <1>17, <2>1 DEF TwoPaths
<1>18. ASSUME NEW q \in Reqs, loc'[q].locked PROVE good(q)
  <2>2. /\ fine(nodes, NodeOf(q)) /\ (TwoPaths(q) => fine(nodes, Req(q).n2))
        /\ loc[q].w \in DOMAIN nodes \cup {None} /\ loc[q].w2 \in DOMAIN nodes \cup {None}
        /\ loc[q].w # Root /\ loc[q].w2 # Root
        /\ loc[q].w = loc[q].w2 => loc[q].w = None
    BY <1>17, <1>18 DEF TreesOK, fine
  <2> QED
    BY <1>2, <1>16, <1>17, <1>18, <2>2
<1>19. TreesOK'
  BY <1>1, <1>2, <1>15, <1>18 DEF TreesOK, fine
<1>20. PathStable'
  <2>1. ASSUME NEW q \in Reqs, loc'[q].locked
        PROVE  /\ TruePath(loc'[q].path, PathOf(nodes', NodeOf(q)'))
               /\ Req(q)'.op \in {"rename", "link"} => TruePath(loc'[q].path2, PathOf(nodes', Req(q)'.n2))
    <3>2. TruePath(loc[q].path, PathOf(nodes, NodeOf(q))) /\ (Req(q).op \in {"rename", "link"} => TruePath(loc[q].path2, PathOf(nodes, Req(q).n2)))
      BY <1>17, <2>1 DEF PathStable, TruePath
    <3>3. NodeOf(q) \in DOMAIN nodes /\ (Req(q).op \in {"rename", "link"} => Req(q).n2 \in DOMAIN nodes)
      BY <1>17, <2>1 DEF TreesOK, TwoPaths
    <3> QED
      BY <1>8, <1>17, <2>1, <3>2, <3>3
  <2> QED
    BY <1>1, <2>1 DEF PathStable, TruePath
<1> QED
  BY <1>19, <1>20

\* Two changes that keep the paths keep them.
LEMMA ShapeTwice ==
  ASSUME NEW a, NEW b, NEW c, SameShape(a, b), SameShape(b, c)
  PROVE  SameShape(a, c)
BY DEF SameShape

\* What free_path and free_path2 do to the table.
LEMMA FreeFacts ==
  ASSUME Places, TreesOK, NEW r \in Reqs, loc[r].locked, NEW one, NEW two,
         one = unlock_path(nodes, NodeOf(r), loc[r].w, 0),
         two = IF TwoPaths(r) THEN unlock_path(one, Req(r).n2, loc[r].w2, 0) ELSE one
  PROVE  /\ TableOK(two) /\ SameShape(nodes, two)
         /\ Freed(nodes, two, Above(nodes, NodeOf(r)), IF TwoPaths(r) THEN Above(nodes, Req(r).n2) ELSE {}, loc[r].w, loc[r].w2)
<1> DEFINE a1 == Above(nodes, NodeOf(r))
           a2 == IF TwoPaths(r) THEN Above(nodes, Req(r).n2) ELSE {}
<1>1. TableOK(nodes) /\ NodeOf(r) \in DOMAIN nodes /\ (TwoPaths(r) => Req(r).n2 \in DOMAIN nodes) /\ None \notin DOMAIN nodes
      /\ loc[r].w \in DOMAIN nodes \cup {None} /\ loc[r].w2 \in DOMAIN nodes \cup {None} /\ (loc[r].w = loc[r].w2 => loc[r].w = None)
      /\ (~TwoPaths(r) => loc[r].w2 = None)
  <2>1. ~TwoPaths(r) => loc[r].w2 = None
    BY DEF TwoPaths, Places, PlaceOK, NoLoc
  <2> QED
    BY <2>1, NotAborted DEF Places, TypeOK, TreesOK
<1>2. <<r, 1>> \in Paths /\ Base(<<r, 1>>) = NodeOf(r) /\ (TwoPaths(r) => <<r, 2>> \in Paths /\ Base(<<r, 2>>) = Req(r).n2)
  BY DEF Paths, Base, TwoPaths
<1>3. \A x : x \in a1 => <<r, 1>> \in Readers(x) /\ x \in DOMAIN nodes \ {Root}
  BY <1>1, <1>2, PathsIn, ChainFacts
<1>4. \A x : x \in a2 => <<r, 2>> \in Readers(x) /\ x \in DOMAIN nodes \ {Root}
  <2>1. TwoPaths(r) => \A x : x \in Above(nodes, Req(r).n2) => <<r, 2>> \in Readers(x) /\ x \in DOMAIN nodes \ {Root}
    BY <1>1, <1>2, PathsIn, ChainFacts, ZenonT(30)
  <2> QED
    BY <2>1
<1>5. \A w \in {loc[r].w, loc[r].w2} : w # None => nodes[w].tree = -1 /\ w \notin a1 \cup a2
  <2>1. \A w \in {loc[r].w, loc[r].w2} : r \in Writers(w)
    BY DEF Writers
  <2> QED
    BY <1>3, <1>4, <2>1, WriterIn
<1> HIDE DEF a1, a2
<1>6. \A x \in a1 \cup a2 : /\ nodes[x].tree \in Nat \ {0}
                            /\ x \in a1 /\ x \in a2 => nodes[x].tree > 1
  <2>1. SUFFICES ASSUME NEW x \in a1 \cup a2
                 PROVE nodes[x].tree \in Nat \ {0} /\ (x \in a1 /\ x \in a2 => nodes[x].tree > 1)
    OBVIOUS
  <2>2. x \in DOMAIN nodes \ {Root} /\ Readers(x) # {}
    BY <1>3, <1>4
  <2>3. nodes[x].tree = Cardinality(Readers(x))
    BY <2>2 DEF TreesOK
  <2>4. IsFiniteSet(Readers(x)) /\ Cardinality(Readers(x)) \in Nat /\ Cardinality(Readers(x)) # 0
    BY <2>2, Finite, NoneOf
  <2>5. x \in a1 /\ x \in a2 => Cardinality(Readers(x)) # 1
    <3>1. SUFFICES ASSUME x \in a1, x \in a2, Cardinality(Readers(x)) = 1 PROVE FALSE
      OBVIOUS
    <3>2. PICK y : Readers(x) = {y}
      BY <2>4, <3>1, FS_Singleton
    <3>3. <<r, 1>> = y /\ <<r, 2>> = y
      BY <1>3, <1>4, <3>1, <3>2
    <3> QED
      BY <3>3
  <2> QED
    BY <2>3, <2>4, <2>5
<1>7. Unlocked(nodes, one, a1, loc[r].w) /\ TableOK(one) /\ SameShape(nodes, one)
  <2>1. \A n \in Above(nodes, NodeOf(r)) : nodes[n].tree > 0
    BY <1>6 DEF a1
  <2>2. loc[r].w # None => nodes[loc[r].w].tree = -1
    BY <1>5
  <2> QED
    BY <1>1, <2>1, <2>2, UnlockFacts DEF a1
<1>8. CASE ~TwoPaths(r)
  <2>1. a2 = {} /\ two = one /\ loc[r].w2 = None
    BY <1>1, <1>8 DEF a2
  <2>2. Freed(nodes, one, a1, {}, loc[r].w, None)
    <3>1. ASSUME NEW n \in DOMAIN nodes
          PROVE one[n].tree = IF n \in {loc[r].w, None} THEN 0
                     ELSE nodes[n].tree - (IF n \in a1 THEN 1 ELSE 0) - (IF n \in {} THEN 1 ELSE 0)
      <4>1. nodes[n].tree \in Int /\ n # None
        BY <1>1 DEF TableOK, NodeOK
      <4> QED
        BY <1>7, <4>1 DEF Unlocked
    <3> QED
      BY <1>7, <3>1 DEF Freed, Unlocked
  <2> QED
    BY <1>7, <2>1, <2>2 DEF a1, a2
<1>9. CASE TwoPaths(r)
  <2>1. a2 = Above(nodes, Req(r).n2) /\ two = unlock_path(one, Req(r).n2, loc[r].w2, 0) /\ Req(r).n2 \in DOMAIN nodes
    BY <1>1, <1>9 DEF a2
  <2>2. Above(one, Req(r).n2) = a2 /\ DOMAIN one = DOMAIN nodes
    BY <1>7, <2>1 DEF SameShape
  <2>3. \A n \in DOMAIN nodes : one[n].tree = IF n = loc[r].w THEN 0 ELSE IF n \in a1 THEN nodes[n].tree - 1 ELSE nodes[n].tree
    BY <1>7 DEF Unlocked
  <2>4. \A n \in a2 : one[n].tree > 0
    <3>1. SUFFICES ASSUME NEW n \in a2 PROVE one[n].tree > 0
      OBVIOUS
    <3>2. n \in DOMAIN nodes /\ n # loc[r].w
      BY <1>1, <1>4, <1>5
    <3> QED
      BY <1>6, <2>3, <3>2
  <2>5. loc[r].w2 # None => one[loc[r].w2].tree = -1
    <3>1. SUFFICES ASSUME loc[r].w2 # None PROVE one[loc[r].w2].tree = -1
      OBVIOUS
    <3>2. loc[r].w2 \in DOMAIN nodes /\ loc[r].w2 \notin a1 /\ loc[r].w2 # loc[r].w /\ nodes[loc[r].w2].tree = -1
      BY <1>1, <1>5, <3>1
    <3> QED
      BY <2>3, <3>2
  <2>6. Unlocked(one, two, a2, loc[r].w2) /\ TableOK(two) /\ SameShape(one, two)
    <3>1. Req(r).n2 \in DOMAIN one /\ loc[r].w2 \in DOMAIN one \cup {None} /\ TableOK(one)
      BY <1>1, <1>7, <2>1, <2>2
    <3> QED
      BY <2>1, <2>2, <2>4, <2>5, <3>1, UnlockFacts
  <2>7. SameShape(nodes, two)
    BY <1>7, <2>6, ShapeTwice
  <2>8. Freed(nodes, two, a1, a2, loc[r].w, loc[r].w2)
    <3>1. ASSUME NEW n \in DOMAIN nodes
          PROVE /\ Body(two[n], nodes[n])
                /\ two[n].tree = IF n \in {loc[r].w, loc[r].w2} THEN 0
                     ELSE nodes[n].tree - (IF n \in a1 THEN 1 ELSE 0) - (IF n \in a2 THEN 1 ELSE 0)
      <4>1. nodes[n].tree \in Int /\ n # None
        BY <1>1 DEF TableOK, NodeOK
      <4>2. two[n].tree = IF n = loc[r].w2 THEN 0 ELSE IF n \in a2 THEN one[n].tree - 1 ELSE one[n].tree
        BY <2>2, <2>6 DEF Unlocked
      <4>3. Body(two[n], one[n]) /\ Body(one[n], nodes[n])
        BY <1>7, <2>2, <2>6 DEF Unlocked
      <4>4. n = loc[r].w => n \notin a2
        BY <1>5, <4>1
      <4>5. Body(two[n], nodes[n])
        BY <4>3 DEF Body
      <4> QED
        BY <2>3, <4>1, <4>2, <4>4, <4>5
    <3> QED
      BY <2>2, <2>6, <3>1 DEF Freed, Unlocked
  <2> QED
    BY <2>6, <2>7, <2>8 DEF a1, a2
<1> QED
  BY <1>8, <1>9

\* A release is about the node of its open, and about nobody else's.
LEMMA HandleFacts ==
  ASSUME Places, NEW p \in Reqs, Op(p) = "release", NEW q, q = Req(p).handle
  PROVE  /\ q \in Req(p).needs /\ q \in Reqs /\ Op(q) \in {"open", "create"} /\ Opened(q) = NodeOf(p)
         /\ Opened(p) = NodeOf(p)
<1>1. RequestOK(work.reqs, p) /\ TypeOK
  BY WorkOK DEF Places
<1>2. Req(p).op = "release" /\ Req(p) = work.reqs[p] /\ Req(q) = work.reqs[q] /\ Op(q) = Req(q).op
  BY DEF Op, Req
<1>3. /\ q \in Req(p).needs
      /\ \/ Req(q).op = "create" /\ Req(p).of = q
         \/ Req(q).op = "open" /\ Req(p).of = Req(q).of /\ Req(p).n = Req(q).n
  BY <1>1, <1>2 DEF RequestOK, Reqs
<1>4. q \in Reqs /\ q # 0
  BY <1>1, <1>3, OpFacts, WorkOK
<1>5. Opened(q) = NodeOf(p) /\ Opened(p) = NodeOf(p)
  BY <1>2, <1>3, <1>4 DEF Opened, NodeOf
<1> QED
  BY <1>2, <1>3, <1>4, <1>5

\* Whoever has a node open keeps it in the table.
LEMMA OpenHeld ==
  ASSUME Places, HeldOK, TreesOK, NEW id \in Ids \ {Root}, NEW q \in OpenBy(id)
  PROVE  known[id] > 0 \/ Readers(id) # {} \/ (q \in InFlight(id) /\ Step(q) # "undo")
<1>1. q \in Reqs /\ Op(q) \in {"open", "create"} /\ Counted(q) /\ ~Closed(q) /\ Opened(q) = id /\ Req(q).op = Op(q)
  BY DEF OpenBy, Op
<1>2. Started(q) /\ loc[q].err = "ok" /\ PlaceOK(q) /\ TypeOK /\ answer[q] \in {"none", "ok", "err", "intr"}
  BY <1>1 DEF Counted, Places, TypeOK
<1>3. \A x \in Ids \ {Root} : Holds(x) => known[x] > 0
  BY DEF Holds
<1>4. CASE answer[q] = "ok"
  <2>1. CASE \E p \in Reqs : Req(p).op = "release" /\ Req(p).handle = q /\ Started(p)
    <3>1. PICK p \in Reqs : Op(p) = "release" /\ Req(p).handle = q /\ Started(p)
      BY <2>1 DEF Op
    <3>2. Ahead(p, "uncount")
      BY <1>1, <3>1 DEF Closed, Op
    <3>3. Replying(p)
      <4>1. Ordered(Op(p), pc[p], Step(p)) /\ Later(Op(p), pc[p], "uncount")
        BY <3>1, <3>2, AheadRuns
      <4>2. \E t \in Replies : Later(Op(p), pc[p], t)
        BY <3>1, <4>1 DEF Ordered
      <4> QED
        BY <4>2, AheadLater DEF Replying
    <3>4. p \in Unanswered /\ Req(p).op # "dot"
      BY <3>1, <3>3 DEF Places, PlaceOK, Unanswered, Op
    <3>5. NodeOf(p) = id
      BY <1>1, <3>1, HandleFacts
    <3>6. id \in Mentions(p)
      BY <3>5 DEF Mentions, Ids, None
    <3> QED
      BY <1>3, <3>4, <3>6 DEF HeldOK
  <2>2. CASE ~\E p \in Reqs : Req(p).op = "release" /\ Req(p).handle = q /\ Started(p)
    <3>1. Holds(Opened(q))
      BY <1>1, <1>4, <2>2 DEF HeldOK
    <3> QED
      BY <1>1, <1>3, <3>1
  <2> QED
    BY <2>1, <2>2
<1>5. CASE answer[q] = "none"
  <2>1. CASE Op(q) = "open"
    <3>1. q \in Unanswered /\ NodeOf(q) = id /\ Req(q).op # "dot"
      BY <1>1, <1>2, <1>5, <2>1 DEF Unanswered, Opened
    <3>2. id \in Mentions(q)
      BY <3>1 DEF Mentions, Ids, None
    <3> QED
      BY <1>3, <3>1, <3>2 DEF HeldOK
  <2>2. CASE Op(q) = "create"
    <3>1. q \in InFlight(id)
      BY <1>1, <1>5, <2>2 DEF InFlight, Opened
    <3>2. Step(q) # "undo"
      <4>1. SUFFICES ASSUME Step(q) = "undo" PROVE FALSE
        OBVIOUS
      <4>2. Running(q)
        BY <4>1 DEF Step
      <4>3. loc[q].intr
        <5>1. Applies(q, Step(q), loc[q])
          BY <1>2, <4>2 DEF PlaceOK
        <5>2. Applies(q, "undo", loc[q])
          BY <4>1, <5>1
        <5> QED
          BY <5>2, AppliesIs
      <4> QED
        BY <1>2, <1>5, <4>3 DEF PlaceOK
    <3> QED
      BY <3>1, <3>2
  <2> QED
    BY <1>1, <2>1, <2>2
<1>6. CASE answer[q] = "intr"
  <2>1. loc[q].intr /\ Ahead(q, "uncount")
    BY <1>1, <1>2, <1>6 DEF PlaceOK, Closed
  <2>2. Running(q) /\ Ordered(Op(q), pc[q], Step(q)) /\ Later(Op(q), pc[q], "uncount")
    BY <1>1, <1>2, <2>1, AheadRuns
  <2>3. CASE Op(q) = "open"
    <3>1. Ahead(q, "free")
      <4>1. Later(Op(q), pc[q], "free")
        BY <2>2, <2>3 DEF Ordered
      <4> QED
        BY <4>1, AheadLater
    <3>2. ~Getting(q)
      <4>1. SUFFICES ASSUME NEW g \in Gets, Ahead(q, g) PROVE FALSE
        BY DEF Getting
      <4>2. g \in Spoils
        BY DEF Spoils
      <4> QED
        BY <1>1, <1>2, <1>6, <4>1, <4>2, SpoilsFirst
    <3>3. loc[q].locked
      BY <1>1, <1>2, <2>3, <3>1, <3>2 DEF PlaceOK
    <3>4. <<q, 1>> \in Paths /\ Base(<<q, 1>>) = id
      BY <1>1, <2>3, <3>3 DEF Paths, Base, Opened
    <3> QED
      BY <3>4, PathsIn
  <2>4. CASE Op(q) = "create"
    <3>1. Ahead(q, "undo")
      <4>1. Later(Op(q), pc[q], "undo")
        BY <2>2, <2>4 DEF Ordered
      <4> QED
        BY <4>1, AheadLater
    <3>2. q \in InFlight(id)
      BY <1>1, <1>6, <2>4, <3>1 DEF InFlight, Opened
    <3>3. Step(q) # "undo"
      BY <2>2 DEF Ordered
    <3> QED
      BY <3>2, <3>3
  <2> QED
    BY <1>1, <2>3, <2>4
<1>7. CASE answer[q] = "err"
  BY <1>2, <1>7 DEF PlaceOK
<1> QED
  BY <1>2, <1>4, <1>5, <1>6, <1>7

\* What stays true when a step leaves its part of the state alone.
LEMMA TypeMoved ==
  ASSUME Places, NEW r, NEW l, Moves(r, l), TableOK(nodes'), ctr' \in 0 .. MaxId, known' \in [1 .. MaxId -> Nat]
  PROVE  TypeOK'
<1>1. /\ DOMAIN pc' = Reqs /\ DOMAIN loc' = Reqs /\ \A q \in Reqs : pc'[q] \in Nat
      /\ DOMAIN answer' = Reqs /\ answer' \in [Reqs -> {"none", "ok", "err", "intr"}] /\ Reqs' = Reqs
      /\ work' \in Workloads
  BY PlacesMoved, MoveAnswers DEF Moves, Places, TypeOK
<1> QED
  BY <1>1 DEF TypeOK

\* A step that is not about the queue leaves it in order.
LEMMA QueueKept ==
  ASSUME Places, QueueOK, NEW r, NEW l, Moves(r, l), Step(r) \notin Gets \cup Forgets, queue' = queue,
         woken' \subseteq woken \cup {queue[k] : k \in DOMAIN queue}
  PROVE  QueueOK'
<1>1. TypeOK /\ r \in Reqs /\ Running(r) /\ Advance(r, l) /\ work' = work /\ Reqs' = Reqs
  BY DEF Moves, Places, Reqs
<1>2. \A q \in Reqs \ {r} : Step(q)' = Step(q)
  BY <1>1, AdvanceFacts DEF Same
<1>4. \A q \in woken' : Contains(queue, q)
  BY DEF QueueOK, Queued, Contains
<1>5. (\A k \in DOMAIN queue : Step(queue[k]) \in Gets \cup Forgets)'
  <2>1. SUFFICES ASSUME NEW k \in DOMAIN queue' PROVE Step(queue[k])' \in Gets \cup Forgets
    OBVIOUS
  <2>2. PICK q : q = queue[k]
    OBVIOUS
  <2>3. q \in Reqs /\ Step(q) \in Gets \cup Forgets /\ queue'[k] = q
    BY <2>1, <2>2 DEF QueueOK
  <2>4. Step(q)' \in Gets \cup Forgets
    BY <1>2, <2>3
  <2>5. Step(queue[k])' = Step(q)'
    BY <2>3 DEF Step, Running, Program, Req
  <2> QED
    BY <2>4, <2>5
<1> QED
  BY <1>1, <1>4, <1>5 DEF QueueOK, Queued

\* A step that neither counts nor uncounts keeps the counts of opens.
LEMMA OpensKept ==
  ASSUME Places, OpensOK, NEW r, NEW l, Moves(r, l), Step(r) \notin {"count", "uncount"},
         \A id \in Ids : /\ id \in DOMAIN nodes' => nodes'[id].open = IF id \in DOMAIN nodes THEN nodes[id].open ELSE 0
                         /\ id \in DOMAIN nodes \ DOMAIN nodes' => OpenBy(id) = {}
  PROVE  OpensOK'
<1>1. \A id : OpenBy(id)' = OpenBy(id)
  BY OpenByMoved
<1>2. ASSUME NEW id \in Ids
      PROVE IF id \in DOMAIN nodes' THEN nodes'[id].open = Cardinality(OpenBy(id)) ELSE OpenBy(id) = {}
  BY FS_EmptySet DEF OpensOK
<1> QED
  BY <1>1, <1>2 DEF OpensOK

\* What is called name in p, when only nodes of X change.
LEMMA LookupBut ==
  ASSUME NEW ns, TableOK(ns), NEW ns2, TableOK(ns2), NEW p, NEW name, name # NoName, NEW X,
         \A n \in DOMAIN ns \ X : n \in DOMAIN ns2 /\ ns2[n].name = ns[n].name /\ ns2[n].parent = ns[n].parent,
         DOMAIN ns2 \subseteq DOMAIN ns \cup X,
         \A x \in X : x \in DOMAIN ns2 => ~(ns2[x].name = name /\ ns2[x].parent = p)
  PROVE  lookup_node(ns2, p, name) = IF lookup_node(ns, p, name) \in X THEN None ELSE lookup_node(ns, p, name)
<1> DEFINE u == lookup_node(ns, p, name)
           v == lookup_node(ns2, p, name)
<1>1. u = None \/ (u \in DOMAIN ns \ {Root} /\ ns[u].name = name /\ ns[u].parent = p)
  BY LookupFacts
<1>2. v = None \/ (v \in DOMAIN ns2 \ {Root} /\ ns2[v].name = name /\ ns2[v].parent = p)
  BY LookupFacts
<1>3. \A x \in DOMAIN ns : ns[x].name = name /\ ns[x].parent = p => u = x
  BY LookupFacts
<1>4. \A x \in DOMAIN ns2 : ns2[x].name = name /\ ns2[x].parent = p => v = x
  BY LookupFacts
<1> HIDE DEF u, v
<1>5. v # None => v \notin X /\ v = u
  BY <1>2, <1>3
<1>6. u # None /\ u \notin X => v = u
  BY <1>1, <1>4
<1> QED
  BY <1>5, <1>6 DEF u, v

\* The directories of a request that removes or renames, and its mutexes.
LEMMA DirsHeld ==
  ASSUME Places, HeldOK, NEW q \in Reqs, Started(q), Removing(q) \/ Renaming(q)
  PROVE  /\ q \in Unanswered /\ Op(q) # "dot" /\ (Renaming(q) => Op(q) = "rename") /\ (Removing(q) => Op(q) \in {"unlink", "rmdir"})
         /\ Doomed(q)[1] \in Mutexes(q) /\ Doomed(q)[1] \in Ids /\ Holds(Doomed(q)[1]) /\ Doomed(q)[2] # NoName
         /\ Req(q).n \in Mutexes(q) /\ Req(q).n \in Ids /\ Holds(Req(q).n) /\ Req(q).nm # NoName /\ NodeOf(q) = Req(q).n
         /\ loc[q].victim # None => Holds(loc[q].victim) /\ loc[q].victim \in Ids
<1>1. TypeOK /\ PlaceOK(q) /\ Req(q).op = Op(q)
  BY OpFacts DEF Places
<1>2. (Renaming(q) => Op(q) = "rename") /\ (Removing(q) => Op(q) \in {"unlink", "rmdir"})
  BY <1>1 DEF Renaming, Removing
<1>3. Replying(q)
  <2>1. CASE Renaming(q)
    <3>1. Ordered(Op(q), pc[q], Step(q)) /\ Later(Op(q), pc[q], "rename_node")
      BY <2>1, AheadRuns DEF Renaming
    <3>2. \E t \in Replies : Later(Op(q), pc[q], t)
      BY <3>1 DEF Ordered
    <3> QED
      BY <3>2, AheadLater DEF Replying
  <2>2. CASE Removing(q)
    <3>1. Ordered(Op(q), pc[q], Step(q)) /\ Later(Op(q), pc[q], "remove")
      BY <2>2, AheadRuns DEF Removing
    <3>2. \E t \in Replies : Later(Op(q), pc[q], t)
      BY <3>1 DEF Ordered
    <3> QED
      BY <3>2, AheadLater DEF Replying
  <2> QED
    BY <2>1, <2>2
<1>4. Op(q) \in {"unlink", "rmdir", "rename"}
  BY <1>2
<1>5. q \in Unanswered /\ Op(q) # "dot" /\ Op(q) # "forget"
  BY <1>1, <1>3, <1>4 DEF PlaceOK, Unanswered
<1>6. \A id \in Mentions(q) : Holds(id)
  BY <1>1, <1>5 DEF HeldOK
<1>7. Req(q).of = 0 /\ Req(q).nm # NoName /\ NodeOf(q) = Req(q).n /\ Req(q).n \in Ids
  BY <1>1, <1>4, OpFacts DEF Naming, NodeOf
<1>8. Op(q) = "rename" => Req(q).n2 \in Ids /\ Req(q).nm2 # NoName
  BY <1>1, OpFacts
<1>9. Req(q).n \in Mutexes(q) /\ (Op(q) = "rename" => Req(q).n2 \in Mutexes(q))
  BY <1>1, <1>4 DEF Mutexes
<1>10. Doomed(q) = IF Op(q) = "rename" THEN <<Req(q).n2, Req(q).nm2>> ELSE <<Req(q).n, Req(q).nm>>
  BY <1>1, <1>7 DEF Doomed
<1>11. None \notin Ids
  BY DEF Ids, None
<1>12. Holds(Req(q).n) /\ (Op(q) = "rename" => Holds(Req(q).n2))
  BY <1>6, <1>7, <1>8, <1>11 DEF Mentions
<1>13. Victim(q) = loc[q].victim /\ loc[q].victim \in Ids \cup {None}
  BY <1>1, <1>4 DEF Victim, PlaceOK, LocOK
<1>14. loc[q].victim # None => Holds(loc[q].victim) /\ loc[q].victim \in Ids
  BY <1>6, <1>13 DEF Mentions
<1> QED
  BY <1>2, <1>5, <1>7, <1>8, <1>9, <1>10, <1>12, <1>14

\* A node that only a revalidation may answer about.
StaysStrange(x, r, l) ==
  /\ x \in DOMAIN nodes' \ {Root} /\ known'[x] = 0 /\ nodes'[x].tree = 0 /\ Children(x)' = {}
  /\ Step(r) = "find" /\ l.id = x => Op(r) = "revalidate"

\* A node nobody asks for stays so.
LEMMA StrangerStays ==
  ASSUME Places, NEW r, NEW l, Moves(r, l), NEW x, Stranger(x), StaysStrange(x, r, l)
  PROVE  Stranger(x)'
<1>1. TypeOK /\ r \in Reqs /\ Running(r) /\ Advance(r, l) /\ work' = work /\ Fits(r, l)
  BY DEF Moves, Places
<1>2. loc'[r] = l /\ (\A q \in Reqs \ {r} : Same(q))
  BY <1>1, AdvanceFacts
<1>3. Unanswered' \subseteq Unanswered /\ \A q \in Reqs : Req(q)' = Req(q)
  BY MoveUnanswered
<1>4. ASSUME NEW q \in Unanswered', loc'[q].id = x PROVE Req(q)'.op = "revalidate"
  <2>1. q \in Unanswered /\ q \in Reqs /\ Req(q)' = Req(q)
    BY <1>3, <1>4 DEF Unanswered
  <2>2. CASE q # r
    BY <1>2, <1>4, <2>1, <2>2 DEF Same, Stranger
  <2>3. CASE q = r /\ Step(r) # "find"
    BY <1>1, <1>2, <1>4, <2>1, <2>3 DEF Fits, Stranger
  <2>4. CASE q = r /\ Step(r) = "find"
    BY <1>2, <1>4, <2>1, <2>4 DEF StaysStrange, Op
  <2> QED
    BY <2>2, <2>3, <2>4
<1> QED
  BY <1>4 DEF Stranger, StaysStrange

\* A name stays what it was for its request: the same node, nobody, or a stranger's.
Settles(p, name, r, l) ==
  \A y : y = lookup_node(nodes', p, name) =>
    \/ y = None
    \/ y = lookup_node(nodes, p, name) /\ (Stranger(y) => StaysStrange(y, r, l))
    \/ Stranger(y)'

\* A step of r leaves the name another is to remove what it is.
LEMMA NamesKept ==
  ASSUME Places, NEW r, NEW l, Moves(r, l), NEW q \in Reqs \ {r}, NamesOK(q),
         Started(q) /\ (Removing(q) \/ (Renaming(q) /\ work.noforget)) =>
           lookup_node(nodes', Doomed(q)[1], Doomed(q)[2]) = Doom(q),
         loc[q].locked /\ Renaming(q) =>
           /\ Settles(Doomed(q)[1], Doomed(q)[2], r, l)
           /\ Settles(Req(q).n, Req(q).nm, r, l)
  PROVE  NamesOK(q)'
<1>1. TypeOK /\ r \in Reqs /\ Running(r) /\ Advance(r, l) /\ work' = work
  BY DEF Moves, Places
<1>2. Same(q) /\ loc'[q] = loc[q]
  BY <1>1, AdvanceFacts DEF Same
<1>0. loc[q].locked => Started(q)
  BY DEF Places, PlaceOK, NoLoc
<1>3. Req(q)' = Req(q) /\ Started(q)' = Started(q) /\ (Started(q) => NodeOf(q)' = NodeOf(q))
      /\ (loc[q].locked => Started(q))
  BY <1>0, MoveUnanswered, MoveNodes
<1>4. Started(q) => Doomed(q)' = Doomed(q)
  BY <1>3 DEF Doomed
<1>5. Removing(q)' = Removing(q) /\ Renaming(q)' = Renaming(q) /\ Ahead(q, "hide_node")' = Ahead(q, "hide_node")
  BY <1>2, <1>3 DEF Removing, Renaming, Same
<1>6. Started(q) => Doom(q)' = lookup_node(nodes', Doomed(q)[1], Doomed(q)[2])
  BY <1>4 DEF Doom
<1>7. (Started(q) /\ (Removing(q) \/ (Renaming(q) /\ work.noforget)))' =>
       IF loc'[q].hide /\ ~Ahead(q, "hide_node")' THEN work'.noforget /\ Renaming(q)' => Doom(q)' = None
       ELSE Doom(q)' = loc'[q].victim
  BY <1>1, <1>2, <1>3, <1>5, <1>6 DEF NamesOK
<1>8. ASSUME loc[q].locked, Renaming(q), NEW x \in {Doom(q)', lookup_node(nodes', Req(q).n, Req(q).nm)}
      PROVE  x \in {None, loc[q].w, loc[q].w2} \/ Stranger(x)'
  <2>1. \/ x = None
        \/ x \in {Doom(q), lookup_node(nodes, Req(q).n, Req(q).nm)} /\ (Stranger(x) => StaysStrange(x, r, l))
        \/ Stranger(x)'
    <3>0. Started(q)
      BY <1>3, <1>8
    <3>1. CASE x = Doom(q)'
      <4>1. PICK y : y = lookup_node(nodes', Doomed(q)[1], Doomed(q)[2])
        OBVIOUS
      <4>2. x = y /\ Settles(Doomed(q)[1], Doomed(q)[2], r, l)
        BY <1>6, <1>8, <3>0, <3>1, <4>1
      <4> QED
        BY <4>1, <4>2 DEF Settles, Doom
    <3>2. CASE x = lookup_node(nodes', Req(q).n, Req(q).nm)
      <4>1. Settles(Req(q).n, Req(q).nm, r, l)
        BY <1>8
      <4> QED
        BY <3>2, <4>1 DEF Settles
    <3> QED
      BY <1>8, <3>1, <3>2
  <2>2. x \in {Doom(q), lookup_node(nodes, Req(q).n, Req(q).nm)} => x \in {None, loc[q].w, loc[q].w2} \/ Stranger(x)
    BY <1>8 DEF NamesOK
  <2> QED
    BY <2>1, <2>2, StrangerStays
<1>9. (loc[q].locked /\ Renaming(q))' =>
       \A x \in {Doom(q)', lookup_node(nodes', Req(q).n, Req(q).nm)} :
         x \in {None, loc'[q].w, loc'[q].w2} \/ Stranger(x)'
  BY <1>2, <1>5, <1>8
<1>10. lookup_node(nodes, Req(q).n, Req(q).nm)' = lookup_node(nodes', Req(q).n, Req(q).nm)
  BY <1>3
<1> QED
  BY <1>7, <1>9, <1>10 DEF NamesOK

\* Nothing gets another name; what is gone had none.
NamesStay(ns, ns2) ==
  /\ DOMAIN ns2 \subseteq DOMAIN ns
  /\ \A n \in DOMAIN ns2 : ns2[n].name = ns[n].name /\ ns2[n].parent = ns[n].parent
  /\ \A n \in DOMAIN ns \ DOMAIN ns2 : ns[n].name = NoName

\* A name that stays leads to the node it led to.
LEMMA LookupStay ==
  ASSUME NEW ns, TableOK(ns), NEW ns2, TableOK(ns2), NamesStay(ns, ns2), NEW p, NEW name, name # NoName
  PROVE  lookup_node(ns2, p, name) = lookup_node(ns, p, name)
<1>1. PICK X : X = DOMAIN ns \ DOMAIN ns2
  OBVIOUS
<1>2. lookup_node(ns2, p, name) = IF lookup_node(ns, p, name) \in X THEN None ELSE lookup_node(ns, p, name)
  <2>1. \A n \in DOMAIN ns \ X : n \in DOMAIN ns2 /\ ns2[n].name = ns[n].name /\ ns2[n].parent = ns[n].parent
    BY <1>1 DEF NamesStay
  <2>2. DOMAIN ns2 \subseteq DOMAIN ns \cup X /\ \A x \in X : x \in DOMAIN ns2 => ~(ns2[x].name = name /\ ns2[x].parent = p)
    BY <1>1 DEF NamesStay
  <2> QED
    BY <2>1, <2>2, LookupBut
<1>3. lookup_node(ns, p, name) \notin X \/ lookup_node(ns, p, name) = None
  <2>1. lookup_node(ns, p, name) = None \/ ns[lookup_node(ns, p, name)].name = name
    BY LookupFacts
  <2> QED
    BY <1>1, <2>1 DEF NamesStay
<1> QED
  BY <1>2, <1>3

\* A request with no name to remove, or none any more, has none to lose.
LEMMA NamesOther ==
  ASSUME Places, NEW r, NEW l, Moves(r, l),
         Op(r) \notin {"unlink", "rmdir", "rename"} \/ Step(r) \in {"remove", "rename_node"} \/ l.err # "ok"
  PROVE  NamesOK(r)'
<1>1. TypeOK /\ r \in Reqs /\ Running(r) /\ Advance(r, l) /\ work' = work
  BY DEF Moves, Places
<1>2. loc'[r] = l /\ Req(r)' = Req(r) /\ Req(r)'.op = Op(r)
      /\ \A t : t = Step(r) /\ t # "touch" => ~Ahead(r, t)'
  BY <1>1, AdvanceFacts DEF Op
<1>3. Ordered(Op(r), pc[r], Step(r))
  BY <1>1, RunningOrder
<1>4. Step(r) = "remove" => Op(r) # "rename" /\ ~Ahead(r, "remove")'
  BY <1>2, <1>3 DEF Ordered
<1>5. Step(r) = "rename_node" => Op(r) = "rename" /\ ~Ahead(r, "rename_node")'
  BY <1>2, <1>3 DEF Ordered
<1>6. ~Removing(r)' /\ ~Renaming(r)'
  BY <1>2, <1>4, <1>5 DEF Removing, Renaming
<1> QED
  BY <1>6 DEF NamesOK

\* The nodes a rename finds at its two names.
Claims(q) == {Doom(q), lookup_node(nodes, Req(q).n, Req(q).nm)}

\* What a step leaves ahead of its own request.
LEMMA HideAhead ==
  ASSUME Places, NEW r, NEW l, Moves(r, l), Step(r) # "hide_node", l.err = "ok", Removing(r) \/ Renaming(r)
  PROVE  l.hide /\ ~Ahead(r, "hide_node")' <=> loc[r].hide /\ ~Ahead(r, "hide_node")
<1>1. TypeOK /\ r \in Reqs /\ Running(r) /\ Advance(r, l) /\ work' = work /\ Fits(r, l)
  BY DEF Moves, Places
<1>2. /\ \A t : Ahead(r, t)' => Ahead(r, t) /\ Later(Op(r), pc[r] + 1, t)
      /\ \A t : Ahead(r, t) /\ t # Step(r) /\ Applies(r, t, l) => Ahead(r, t)'
      /\ \A t : Later(Op(r), pc[r] + 1, t) /\ Applies(r, t, l) => Ahead(r, t)'
      /\ Ordered(Op(r), pc[r], Step(r))
  BY <1>1, AdvanceFacts
<1>3. l.err = "ok" /\ l.hide => Applies(r, "hide_node", l)
  BY DEF Applies
<1>4. Step(r) # "list_conflict"
  <2>1. Op(r) \in {"unlink", "rmdir", "rename"}
    BY DEF Removing, Renaming, Op
  <2>2. Step(r) = "list_conflict" => Op(r) = "getlk"
    BY <1>2 DEF Ordered
  <2> QED
    BY <2>1, <2>2
<1>5. CASE Step(r) # "is_open"
  <2>1. l.hide = loc[r].hide
    BY <1>1, <1>4, <1>5 DEF Fits
  <2> QED
    BY <1>2, <1>3, <2>1
<1>6. CASE Step(r) = "is_open"
  <2>1. Later(Op(r), pc[r] + 1, "hide_node")
    BY <1>2, <1>6 DEF Ordered
  <2>2. l.hide => Ahead(r, "hide_node")'
    BY <1>2, <1>3, <2>1
  <2>3. Ahead(r, "hide_node")
    <3>1. pc[r] \in Nat /\ (\E n \in Nat \ {0} : DOMAIN fuse_path_ops[Op(r)] = 1 .. n)
      BY <1>1, OpFacts, ProgramSeq DEF TypeOK
    <3>2. Later(Op(r), pc[r], "hide_node")
      BY <2>1, <3>1 DEF Later
    <3> QED
      BY <3>2, AheadLater
  <2> QED
    BY <2>2, <2>3
<1> QED
  BY <1>5, <1>6

\* A step of r leaves the name r is to remove what it is.
LEMMA NamesSelf ==
  ASSUME Places, NEW r, NEW l, Moves(r, l), NamesOK(r), Step(r) # "hide_node",
         Started(r) /\ (Removing(r) \/ (Renaming(r) /\ work.noforget)) =>
           lookup_node(nodes', Doomed(r)[1], Doomed(r)[2]) = Doom(r),
         loc[r].locked /\ Renaming(r) /\ Step(r) \notin Gets =>
           /\ Settles(Doomed(r)[1], Doomed(r)[2], r, l)
           /\ Settles(Req(r).n, Req(r).nm, r, l),
         l.locked /\ Renaming(r) /\ Step(r) \in Gets =>
           {lookup_node(nodes', Doomed(r)[1], Doomed(r)[2]), lookup_node(nodes', Req(r).n, Req(r).nm)} \subseteq {None, l.w, l.w2}
  PROVE  NamesOK(r)'
<1>1. TypeOK /\ r \in Reqs /\ Running(r) /\ Advance(r, l) /\ work' = work /\ Fits(r, l)
  BY DEF Moves, Places
<1>2. loc'[r] = l /\ Started(r) /\ Req(r)' = Req(r) /\ \A t : Ahead(r, t)' => Ahead(r, t)
  BY <1>1, AdvanceFacts
<1>3. NodeOf(r)' = NodeOf(r)
  BY <1>1, <1>2, MoveNodes
<1>4. Doomed(r)' = Doomed(r)
  BY <1>2, <1>3 DEF Doomed
<1>5. Doom(r)' = lookup_node(nodes', Doomed(r)[1], Doomed(r)[2])
  BY <1>4 DEF Doom
<1>6. (Removing(r)' => Removing(r)) /\ (Renaming(r)' => Renaming(r)) /\ (Removing(r)' \/ Renaming(r)' => l.err = "ok")
  BY <1>1, <1>2 DEF Removing, Renaming, Fits
<1>7. Removing(r)' \/ Renaming(r)' => (l.hide /\ ~Ahead(r, "hide_node")' <=> loc[r].hide /\ ~Ahead(r, "hide_node"))
  BY <1>6, HideAhead
<1>8. (Started(r) /\ (Removing(r) \/ (Renaming(r) /\ work.noforget)))' =>
       IF loc'[r].hide /\ ~Ahead(r, "hide_node")' THEN work'.noforget /\ Renaming(r)' => Doom(r)' = None
       ELSE Doom(r)' = loc'[r].victim
  <2>1. l.victim = loc[r].victim
    BY <1>1 DEF Fits
  <2> QED
    BY <1>1, <1>2, <1>5, <1>6, <1>7, <2>1 DEF NamesOK
<1>9. ASSUME l.locked, Renaming(r)', NEW x \in {Doom(r)', lookup_node(nodes', Req(r).n, Req(r).nm)}
      PROVE  x \in {None, l.w, l.w2} \/ Stranger(x)'
  <2>1. Renaming(r)
    BY <1>6, <1>9
  <2>2. CASE Step(r) \in Gets
    BY <1>5, <1>9, <2>1, <2>2
  <2>3. CASE Step(r) \notin Gets
    <3>1. loc[r].locked /\ l.w = loc[r].w /\ l.w2 = loc[r].w2
      BY <1>1, <1>9, <2>3 DEF Fits
    <3>2. x \in {Doom(r), lookup_node(nodes, Req(r).n, Req(r).nm)} => x \in {None, l.w, l.w2} \/ Stranger(x)
      BY <2>1, <3>1 DEF NamesOK
    <3>3. \/ x = None
          \/ x \in {Doom(r), lookup_node(nodes, Req(r).n, Req(r).nm)} /\ (Stranger(x) => StaysStrange(x, r, l))
          \/ Stranger(x)'
      <4>1. CASE x = Doom(r)'
        <5>1. Settles(Doomed(r)[1], Doomed(r)[2], r, l) /\ x = lookup_node(nodes', Doomed(r)[1], Doomed(r)[2])
          BY <1>5, <2>1, <2>3, <3>1, <4>1
        <5> QED
          BY <5>1 DEF Settles, Doom
      <4>2. CASE x = lookup_node(nodes', Req(r).n, Req(r).nm)
        <5>1. Settles(Req(r).n, Req(r).nm, r, l)
          BY <2>1, <2>3, <3>1
        <5> QED
          BY <4>2, <5>1 DEF Settles
      <4> QED
        BY <1>9, <4>1, <4>2
    <3> QED
      BY <3>2, <3>3, StrangerStays
  <2> QED
    BY <2>2, <2>3
<1>10. lookup_node(nodes, Req(r).n, Req(r).nm)' = lookup_node(nodes', Req(r).n, Req(r).nm)
  BY <1>2
<1> QED
  BY <1>2, <1>8, <1>9, <1>10 DEF NamesOK

\* When nothing gets another name, every request's names remain what they were.
LEMMA NamesQuiet ==
  ASSUME Places, HeldOK, NEW r, NEW l, Moves(r, l), \A q \in Reqs : NamesOK(q),
         TableOK(nodes'), NamesStay(nodes, nodes'), Step(r) # "hide_node" \/ l.err # "ok",
         \A q \in Reqs : loc[q].locked /\ Renaming(q) /\ (q = r => Step(r) \notin Gets) =>
           \A y \in Claims(q) : Stranger(y) => StaysStrange(y, r, l),
         Step(r) \in Gets /\ l.locked /\ Op(r) = "rename" =>
           l.w = lookup_node(nodes, Req(r).n, Req(r).nm) /\ l.w2 = lookup_node(nodes, Req(r).n2, Req(r).nm2)
  PROVE  \A q \in Reqs : NamesOK(q)'
<1>1. TypeOK /\ r \in Reqs /\ TableOK(nodes)
  BY DEF Moves, Places, TypeOK
<1>2. ASSUME NEW q \in Reqs, Started(q), Removing(q) \/ Renaming(q)
      PROVE  /\ lookup_node(nodes', Doomed(q)[1], Doomed(q)[2]) = Doom(q)
             /\ lookup_node(nodes', Req(q).n, Req(q).nm) = lookup_node(nodes, Req(q).n, Req(q).nm)
  <2>1. Doomed(q)[2] # NoName /\ Req(q).nm # NoName
    BY <1>2, DirsHeld
  <2> QED
    BY <1>1, <2>1, LookupStay DEF Doom
<1>3. \A q \in Reqs : loc[q].locked => Started(q)
  BY DEF Places, PlaceOK, NoLoc
<1>4. ASSUME NEW q \in Reqs, loc[q].locked, Renaming(q), q = r => Step(r) \notin Gets
      PROVE  Settles(Doomed(q)[1], Doomed(q)[2], r, l) /\ Settles(Req(q).n, Req(q).nm, r, l)
  <2>1. \A y \in Claims(q) : Stranger(y) => StaysStrange(y, r, l)
    BY <1>4
  <2>2. Doom(q) \in Claims(q) /\ lookup_node(nodes, Req(q).n, Req(q).nm) \in Claims(q)
    BY DEF Claims
  <2>3. lookup_node(nodes', Doomed(q)[1], Doomed(q)[2]) = Doom(q)
        /\ lookup_node(nodes', Req(q).n, Req(q).nm) = lookup_node(nodes, Req(q).n, Req(q).nm)
    BY <1>2, <1>3, <1>4
  <2>4. Doom(q) = lookup_node(nodes, Doomed(q)[1], Doomed(q)[2])
    BY DEF Doom
  <2>5. Settles(Doomed(q)[1], Doomed(q)[2], r, l)
    BY <2>1, <2>2, <2>3, <2>4 DEF Settles
  <2>6. Settles(Req(q).n, Req(q).nm, r, l)
    BY <2>1, <2>2, <2>3 DEF Settles
  <2> QED
    BY <2>5, <2>6
<1>5. ASSUME NEW q \in Reqs \ {r} PROVE NamesOK(q)'
  <2>1. NamesOK(q) /\ q \in Reqs
    BY <1>5
  <2>2. Started(q) /\ (Removing(q) \/ (Renaming(q) /\ work.noforget)) => lookup_node(nodes', Doomed(q)[1], Doomed(q)[2]) = Doom(q)
    BY <1>2, <2>1
  <2>3. loc[q].locked /\ Renaming(q) => Settles(Doomed(q)[1], Doomed(q)[2], r, l) /\ Settles(Req(q).n, Req(q).nm, r, l)
    BY <1>4, <2>1
  <2> QED
    BY <2>1, <2>2, <2>3, NamesKept
<1>6. CASE l.err # "ok"
  <2>1. NamesOK(r)'
    BY <1>1, <1>6, NamesOther
  <2> QED
    BY <1>5, <2>1
<1>7. CASE Step(r) # "hide_node"
  <2>1. Started(r) /\ (Removing(r) \/ (Renaming(r) /\ work.noforget)) => lookup_node(nodes', Doomed(r)[1], Doomed(r)[2]) = Doom(r)
    BY <1>1, <1>2
  <2>2. loc[r].locked /\ Renaming(r) /\ Step(r) \notin Gets => Settles(Doomed(r)[1], Doomed(r)[2], r, l) /\ Settles(Req(r).n, Req(r).nm, r, l)
    BY <1>1, <1>4
  <2>3. ASSUME l.locked, Renaming(r), Step(r) \in Gets
        PROVE  {lookup_node(nodes', Doomed(r)[1], Doomed(r)[2]), lookup_node(nodes', Req(r).n, Req(r).nm)} \subseteq {None, l.w, l.w2}
    <3>1. Op(r) = "rename" /\ Doomed(r) = <<Req(r).n2, Req(r).nm2>>
      BY <2>3 DEF Renaming, Op, Doomed
    <3>2. Started(r)
      BY <1>1, RunningOrder DEF Moves
    <3>3. lookup_node(nodes', Doomed(r)[1], Doomed(r)[2]) = Doom(r)
          /\ lookup_node(nodes', Req(r).n, Req(r).nm) = lookup_node(nodes, Req(r).n, Req(r).nm)
      BY <1>1, <1>2, <2>3, <3>2
    <3>4. Doom(r) = lookup_node(nodes, Req(r).n2, Req(r).nm2)
      BY <3>1 DEF Doom
    <3> QED
      BY <2>3, <3>1, <3>3, <3>4
  <2>4. NamesOK(r)'
    BY <1>1, <1>7, <2>1, <2>2, <2>3, NamesSelf
  <2> QED
    BY <1>5, <2>4
<1> QED
  BY <1>6, <1>7

(***************************************************************************)
(* References to nodes.                                                    *)
(***************************************************************************)

\* The references to a node, but for the lookups that pin it.
Refs(ns, id) == Cardinality(ChildrenIn(ns, id)) + (IF ns[id].nlookup > 0 THEN 1 ELSE 0)

\* A change of the table counts every reference that it gives and takes.
Balanced(ns, ns2) ==
  \A id \in DOMAIN ns2 :
    IF id \in DOMAIN ns THEN ns2[id].refctr - Refs(ns2, id) = ns[id].refctr - Refs(ns, id)
    ELSE ns2[id].refctr = Refs(ns2, id)

\* A node has finitely many children.
LEMMA KidsFinite ==
  ASSUME NEW ns, TableOK(ns), NEW id
  PROVE  IsFiniteSet(ChildrenIn(ns, id)) /\ Cardinality(ChildrenIn(ns, id)) \in Nat
<1>1. ChildrenIn(ns, id) \subseteq 1 .. MaxId - 1
  BY DEF ChildrenIn, TableOK, Ids
<1>2. IsFiniteSet(1 .. MaxId - 1)
  BY MaxIdAssumption, FS_Interval
<1>3. IsFiniteSet(ChildrenIn(ns, id))
  BY <1>1, <1>2, FS_Subset
<1> QED
  BY <1>3, NoneOf

\* Balanced: where references, parents and lookups stay.
LEMMA BalancedSame ==
  ASSUME NEW ns, NEW ns2, DOMAIN ns2 = DOMAIN ns,
         \A n \in DOMAIN ns : /\ ns2[n].refctr = ns[n].refctr /\ ns2[n].parent = ns[n].parent
                              /\ ns2[n].nlookup > 0 <=> ns[n].nlookup > 0
  PROVE  Balanced(ns, ns2)
<1>1. \A id : ChildrenIn(ns2, id) = ChildrenIn(ns, id)
  BY DEF ChildrenIn
<1>2. \A id \in DOMAIN ns : Refs(ns2, id) = Refs(ns, id)
  BY <1>1 DEF Refs
<1> QED
  BY <1>2 DEF Balanced

\* Balanced: a new node, and its parent.
LEMMA BalancedNew ==
  ASSUME NEW ns, TableOK(ns), NEW x, NEW p, NEW name, NEW k \in Nat \ {0}, NEW ns2, FoundNew(ns, x, p, name, k, ns2)
  PROVE  Balanced(ns, ns2) /\ ChildrenIn(ns2, x) = {}
         /\ \A id : ChildrenIn(ns2, id) = IF id = p THEN ChildrenIn(ns, id) \cup {x} ELSE ChildrenIn(ns, id)
<1>1. x \notin DOMAIN ns /\ x # p /\ x # None /\ \A n \in DOMAIN ns : ns[n].parent # x
  <2>1. x \in Ids \ DOMAIN ns /\ p \in DOMAIN ns
    BY DEF FoundNew
  <2>2. \A n \in DOMAIN ns : ns[n].parent \in DOMAIN ns \cup {None}
    BY ParentIn
  <2> QED
    BY <2>1, <2>2 DEF Ids, None
<1>2. \A id : ChildrenIn(ns2, id) = IF id = p THEN ChildrenIn(ns, id) \cup {x} ELSE ChildrenIn(ns, id)
  BY <1>1 DEF ChildrenIn, FoundNew
<1>3. ChildrenIn(ns2, x) = {}
  BY <1>1, <1>2 DEF ChildrenIn
<1>4. ns2[x].refctr = Refs(ns2, x)
  BY <1>3, FS_EmptySet DEF Refs, FoundNew
<1>5. ASSUME NEW id \in DOMAIN ns PROVE ns2[id].refctr - Refs(ns2, id) = ns[id].refctr - Refs(ns, id)
  <2>1. x \notin ChildrenIn(ns, id)
    BY <1>1 DEF ChildrenIn
  <2>2. Cardinality(ChildrenIn(ns2, id)) = Cardinality(ChildrenIn(ns, id)) + (IF id = p THEN 1 ELSE 0)
    <3>1. IsFiniteSet(ChildrenIn(ns, id)) /\ Cardinality(ChildrenIn(ns, id)) \in Nat
      BY KidsFinite
    <3>2. Cardinality(ChildrenIn(ns, id) \cup {x}) = Cardinality(ChildrenIn(ns, id)) + 1
      BY <2>1, <3>1, FS_AddElement
    <3>3. CASE id = p
      <4>1. ChildrenIn(ns2, id) = ChildrenIn(ns, id) \cup {x}
        BY <1>2, <3>3
      <4> QED
        BY <3>2, <3>3, <4>1
    <3>4. CASE id # p
      <4>1. ChildrenIn(ns2, id) = ChildrenIn(ns, id)
        BY <1>2, <3>4
      <4> QED
        BY <3>1, <3>4, <4>1
    <3> QED
      BY <3>3, <3>4
  <2>3. ns[id].refctr \in Nat /\ Cardinality(ChildrenIn(ns, id)) \in Nat
    BY KidsFinite DEF TableOK, NodeOK
  <2>4. ns2[id].refctr = ns[id].refctr + (IF id = p THEN 1 ELSE 0) /\ ns2[id].nlookup = ns[id].nlookup
    BY DEF FoundNew
  <2> QED
    BY <2>2, <2>3, <2>4 DEF Refs
<1>6. DOMAIN ns2 = DOMAIN ns \cup {x}
  BY DEF FoundNew
<1> QED
  BY <1>2, <1>3, <1>4, <1>5, <1>6 DEF Balanced

\* Balanced: a node that loses its name, and its parent.
LEMMA BalancedUnhung ==
  ASSUME NEW ns, TableOK(ns), NEW x \in DOMAIN ns \ {Root}, ns[x].name # NoName, NEW k \in Nat, k < ns[x].nlookup,
         NEW ns2, Unhung(ns, ns2, x, k)
  PROVE  Balanced(ns, ns2) /\ \A id \in DOMAIN ns : ChildrenIn(ns2, id) = ChildrenIn(ns, id) \ {x}
<1>1. None \notin DOMAIN ns /\ ns[x].nlookup \in Nat
  BY NotAborted DEF TableOK, NodeOK
<1>2. \A n \in DOMAIN ns : ns2[n].parent = IF n = x THEN None ELSE ns[n].parent
  BY DEF Unhung, But
<1>3. \A id \in DOMAIN ns : ChildrenIn(ns2, id) = ChildrenIn(ns, id) \ {x}
  BY <1>1, <1>2 DEF ChildrenIn, Unhung
<1>4. ASSUME NEW id \in DOMAIN ns PROVE ns2[id].refctr - Refs(ns2, id) = ns[id].refctr - Refs(ns, id)
  <2>1. x \in ChildrenIn(ns, id) <=> id = ns[x].parent
    BY DEF ChildrenIn
  <2>2. IsFiniteSet(ChildrenIn(ns, id)) /\ Cardinality(ChildrenIn(ns, id)) \in Nat
    BY KidsFinite
  <2>3. Cardinality(ChildrenIn(ns2, id)) = Cardinality(ChildrenIn(ns, id)) - (IF id = ns[x].parent THEN 1 ELSE 0)
    BY <1>3, <2>1, <2>2, FS_RemoveElement
  <2>4. ns[id].refctr \in Nat /\ ns[id].nlookup \in Nat
    BY DEF TableOK, NodeOK
  <2>5. ns2[id].refctr = ns[id].refctr - (IF id = ns[x].parent THEN 1 ELSE 0)
        /\ ns2[id].nlookup = ns[id].nlookup - (IF id = x THEN k ELSE 0)
    BY DEF Unhung, But
  <2>6. ns2[id].nlookup > 0 <=> ns[id].nlookup > 0
    BY <1>1, <2>4, <2>5
  <2> QED
    BY <2>2, <2>3, <2>4, <2>5, <2>6 DEF Refs
<1> QED
  BY <1>3, <1>4 DEF Balanced, Unhung

\* Balanced: a node that moves, the one it replaces, and both parents.
LEMMA BalancedRenamed ==
  ASSUME NEW ns, TableOK(ns), NEW x \in DOMAIN ns \ {Root}, NEW over \in (DOMAIN ns \ {Root}) \cup {None},
         NEW old \in DOMAIN ns, NEW new \in DOMAIN ns, NEW name, NEW k \in Nat,
         ns[x].parent = old, x # over,
         over # None => ns[over].parent = new /\ k < ns[over].nlookup,
         NEW ns2, Renamed(ns, ns2, x, over, old, new, name, k)
  PROVE  /\ Balanced(ns, ns2)
         /\ \A id \in DOMAIN ns : ChildrenIn(ns2, id) = (ChildrenIn(ns, id) \ {x, over}) \cup (IF id = new THEN {x} ELSE {})
<1>1. None \notin DOMAIN ns
  BY NotAborted
<1>2. \A n \in DOMAIN ns : ns2[n].parent = IF n = x THEN new ELSE IF n = over THEN None ELSE ns[n].parent
  BY DEF Renamed, But
<1>3. \A id \in DOMAIN ns : ChildrenIn(ns2, id) = (ChildrenIn(ns, id) \ {x, over}) \cup (IF id = new THEN {x} ELSE {})
  BY <1>1, <1>2 DEF ChildrenIn, Renamed
<1>4. ASSUME NEW id \in DOMAIN ns PROVE ns2[id].refctr - Refs(ns2, id) = ns[id].refctr - Refs(ns, id)
  <2> DEFINE A == ChildrenIn(ns, id)
             B == A \ {x}
             C == B \ {over}
             D == ChildrenIn(ns2, id)
  <2>1. (x \in A <=> id = old) /\ (over \in A <=> over # None /\ id = new) /\ (over \in B <=> over \in A)
    BY <1>1 DEF ChildrenIn
  <2>2. IsFiniteSet(A) /\ Cardinality(A) \in Nat
    BY KidsFinite
  <2>3. D = C \cup (IF id = new THEN {x} ELSE {}) /\ x \notin C
    BY <1>3
  <2> HIDE DEF A, D
  <2>4. IsFiniteSet(B) /\ Cardinality(B) = Cardinality(A) - (IF id = old THEN 1 ELSE 0)
    BY <2>1, <2>2, FS_RemoveElement
  <2> HIDE DEF B
  <2>5. IsFiniteSet(C) /\ Cardinality(C) = Cardinality(B) - (IF over # None /\ id = new THEN 1 ELSE 0)
    BY <2>1, <2>2, <2>4, FS_RemoveElement
  <2> HIDE DEF C
  <2>6. Cardinality(D) = Cardinality(C) + (IF id = new THEN 1 ELSE 0)
    <3>1. CASE id = new
      BY <2>3, <2>5, <3>1, FS_AddElement
    <3>2. CASE id # new
      <4>1. D = C
        BY <2>3, <3>2
      <4>2. Cardinality(C) \in Nat
        BY <2>5, NoneOf
      <4> QED
        BY <3>2, <4>1, <4>2
    <3> QED
      BY <3>1, <3>2
  <2>7. Cardinality(D) = Cardinality(A) - (IF id = old THEN 1 ELSE 0) + (IF id = new /\ over = None THEN 1 ELSE 0)
    BY <2>2, <2>4, <2>5, <2>6
  <2>8. ns[id].refctr \in Nat /\ ns[id].nlookup \in Nat
    BY DEF TableOK, NodeOK
  <2>9. ns2[id].refctr = ns[id].refctr - (IF id = old THEN 1 ELSE 0) + (IF id = new /\ over = None THEN 1 ELSE 0)
        /\ ns2[id].nlookup = ns[id].nlookup - (IF id = over THEN k ELSE 0)
    BY DEF Renamed, But, RefsMoved
  <2>10. ns2[id].nlookup > 0 <=> ns[id].nlookup > 0
    BY <1>1, <2>8, <2>9
  <2>11. Refs(ns2, id) = Cardinality(D) + (IF ns2[id].nlookup > 0 THEN 1 ELSE 0)
         /\ Refs(ns, id) = Cardinality(A) + (IF ns[id].nlookup > 0 THEN 1 ELSE 0)
    BY DEF Refs, A, D
  <2> QED
    BY <2>2, <2>7, <2>8, <2>9, <2>10, <2>11
<1> QED
  BY <1>3, <1>4 DEF Balanced, Renamed

\* Balanced: a node that goes, and its parent.
LEMMA BalancedForgotten ==
  ASSUME NEW ns, TableOK(ns), NEW x \in DOMAIN ns \ {Root}, ns[x].nlookup > 0, NEW ns2, Forgotten(ns, ns2, x),
         \A n \in DOMAIN ns \ (DOMAIN ns2 \cup {x}) : ns[n].name = NoName
  PROVE  Balanced(ns, ns2) /\ \A id \in DOMAIN ns2 : ChildrenIn(ns2, id) = ChildrenIn(ns, id) \ {x}
<1>1. None \notin DOMAIN ns /\ DOMAIN ns2 \subseteq DOMAIN ns
  BY NotAborted DEF Forgotten
<1>2. \A n \in DOMAIN ns2 : ns2[n].parent = IF n = x THEN None ELSE ns[n].parent
  BY DEF Forgotten, But
<1>3. \A n \in DOMAIN ns \ (DOMAIN ns2 \cup {x}) : ns[n].parent = None
  BY DEF TableOK, NodeOK
<1>4. \A id \in DOMAIN ns2 : ChildrenIn(ns2, id) = ChildrenIn(ns, id) \ {x}
  <2>1. SUFFICES ASSUME NEW id \in DOMAIN ns2, NEW n PROVE n \in ChildrenIn(ns2, id) <=> n \in ChildrenIn(ns, id) \ {x}
    OBVIOUS
  <2>2. id # None
    BY <1>1
  <2> QED
    BY <1>1, <1>2, <1>3, <2>2 DEF ChildrenIn
<1>5. ASSUME NEW id \in DOMAIN ns2 PROVE ns2[id].refctr - Refs(ns2, id) = ns[id].refctr - Refs(ns, id)
  <2>1. x \in ChildrenIn(ns, id) <=> id = ns[x].parent
    BY DEF ChildrenIn
  <2>2. IsFiniteSet(ChildrenIn(ns, id)) /\ Cardinality(ChildrenIn(ns, id)) \in Nat
    BY KidsFinite
  <2>3. Cardinality(ChildrenIn(ns2, id)) = Cardinality(ChildrenIn(ns, id)) - (IF id = ns[x].parent THEN 1 ELSE 0)
    BY <1>4, <2>1, <2>2, FS_RemoveElement
  <2>4. ns[id].refctr \in Nat /\ ns[id].nlookup \in Nat
    BY <1>1 DEF TableOK, NodeOK
  <2>5. ns2[id].refctr = ns[id].refctr - (IF id = x THEN 1 ELSE 0) - (IF id = ns[x].parent THEN 1 ELSE 0)
        /\ ns2[id].nlookup = IF id = x THEN 0 ELSE ns[id].nlookup
    BY DEF Forgotten, But, RefsLeft
  <2> QED
    BY <2>2, <2>3, <2>4, <2>5 DEF Refs
<1> QED
  BY <1>1, <1>4, <1>5 DEF Balanced

\* References, but for the pins, are those of the table.
LEMMA RefsAre ==
  ASSUME RefsOK, NEW id \in DOMAIN nodes
  PROVE  nodes[id].refctr = Refs(nodes, id) + Cardinality(Pinners(id))
BY DEF RefsOK, Refs, Children

\* A step that pins nothing and balances its changes.
LEMMA RefsKept ==
  ASSUME Places, RefsOK, NEW r, NEW l, Moves(r, l), l.pinned = loc[r].pinned, TableOK(nodes'), Balanced(nodes, nodes'),
         \A id \in DOMAIN nodes \ DOMAIN nodes' : Pinners(id) = {}
  PROVE  RefsOK'
<1>1. TypeOK /\ r \in Reqs /\ TableOK(nodes) /\ Running(r) /\ Advance(r, l) /\ work' = work /\ LocOK(loc[r])
  BY DEF Moves, Places, TypeOK, PlaceOK
<1>2. ASSUME NEW id PROVE Pinners(id)' = Pinners(id)
  <2>1. r \in Pinners(id) <=> loc[r].pinned /\ NodeOf(r) = id
    BY <1>1 DEF Pinners
  <2>2. Pinners(id)' = IF l.pinned /\ NodeOf(r) = id THEN Pinners(id) \cup {r} ELSE Pinners(id) \ {r}
    BY PinnersMoved
  <2> QED
    BY <2>1, <2>2
<1>3. ASSUME NEW id \in DOMAIN nodes'
      PROVE  nodes'[id].refctr = Cardinality(Children(id)') + (IF nodes'[id].nlookup > 0 THEN 1 ELSE 0) + Cardinality(Pinners(id)')
  <2>1. nodes'[id].refctr = Refs(nodes', id) + Cardinality(Pinners(id))
    <3>1. CASE id \in DOMAIN nodes
      <4>1. nodes'[id].refctr - Refs(nodes', id) = nodes[id].refctr - Refs(nodes, id)
        BY <1>3, <3>1 DEF Balanced
      <4>2. nodes[id].refctr = Refs(nodes, id) + Cardinality(Pinners(id))
        BY <3>1, RefsAre
      <4>3. nodes'[id].refctr \in Nat /\ Refs(nodes', id) \in Nat /\ Refs(nodes, id) \in Nat /\ Cardinality(Pinners(id)) \in Nat
        BY <1>1, <1>3, KidsFinite, Finite, NoneOf DEF Refs, TableOK, NodeOK
      <4> QED
        BY <4>1, <4>2, <4>3
    <3>2. CASE id \notin DOMAIN nodes
      <4>1. nodes'[id].refctr = Refs(nodes', id)
        BY <1>3, <3>2 DEF Balanced
      <4>2. Pinners(id) = {}
        BY <3>2 DEF RefsOK, Pinners
      <4>3. Refs(nodes', id) \in Nat
        BY <1>3, KidsFinite DEF Refs
      <4> QED
        BY <4>1, <4>2, <4>3, FS_EmptySet
    <3> QED
      BY <3>1, <3>2
  <2>2. Pinners(id)' = Pinners(id)
    BY <1>2
  <2> QED
    BY <2>1, <2>2 DEF Refs, Children
<1>4. ASSUME NEW q \in Reqs', loc'[q].pinned PROVE NodeOf(q)' \in DOMAIN nodes'
  <2>1. PICK id : id = NodeOf(q)'
    OBVIOUS
  <2>2. q \in Pinners(id)'
    BY <1>4, <2>1 DEF Pinners
  <2>3. q \in Pinners(id)
    BY <1>2, <2>2
  <2>4. id \in DOMAIN nodes
    BY <2>3 DEF Pinners, RefsOK
  <2> QED
    BY <2>1, <2>3, <2>4
<1> QED
  BY <1>3, <1>4 DEF RefsOK

\* A pin is one reference.
LEMMA RefsPinned ==
  ASSUME Places, RefsOK, NEW r, NEW l, Moves(r, l), Step(r) = "pin", l.pinned, NEW x \in DOMAIN nodes, x = NodeOf(r),
         DOMAIN nodes' = DOMAIN nodes,
         \A n \in DOMAIN nodes : /\ nodes'[n].parent = nodes[n].parent /\ nodes'[n].nlookup = nodes[n].nlookup
                                 /\ nodes'[n].refctr = nodes[n].refctr + (IF n = x THEN 1 ELSE 0)
  PROVE  RefsOK'
<1>1. TypeOK /\ r \in Reqs /\ TableOK(nodes) /\ Running(r) /\ PlaceOK(r)
  BY DEF Moves, Places, TypeOK
<1>2. ~loc[r].pinned
  BY <1>1, RunningOrder DEF PlaceOK
<1>3. \A id : Pinners(id)' = IF x = id THEN Pinners(id) \cup {r} ELSE Pinners(id) \ {r}
  BY PinnersMoved
<1>4. \A id : r \notin Pinners(id)
  BY <1>2 DEF Pinners
<1>5. ASSUME NEW id \in DOMAIN nodes'
      PROVE  nodes'[id].refctr = Cardinality(Children(id)') + (IF nodes'[id].nlookup > 0 THEN 1 ELSE 0) + Cardinality(Pinners(id)')
  <2>1. IsFiniteSet(Pinners(id)) /\ Cardinality(Pinners(id)) \in Nat
    BY Finite, NoneOf
  <2>2. Cardinality(Pinners(id)') = Cardinality(Pinners(id)) + (IF id = x THEN 1 ELSE 0)
    <3>1. CASE id = x
      <4>1. Pinners(id)' = Pinners(id) \cup {r}
        BY <1>3, <3>1
      <4>2. r \notin Pinners(id)
        BY <1>4
      <4>3. Cardinality(Pinners(id) \cup {r}) = Cardinality(Pinners(id)) + 1
        BY <2>1, <4>2, FS_AddElement
      <4> QED
        BY <3>1, <4>1, <4>3
    <3>2. CASE id # x
      <4>1. Pinners(id)' = Pinners(id)
        BY <1>3, <1>4, <3>2
      <4> QED
        BY <2>1, <3>2, <4>1
    <3> QED
      BY <3>1, <3>2
  <2>3. Children(id)' = Children(id)
    BY DEF Children, ChildrenIn
  <2>4. nodes[id].refctr = Cardinality(Children(id)) + (IF nodes[id].nlookup > 0 THEN 1 ELSE 0) + Cardinality(Pinners(id))
    BY <1>5 DEF RefsOK
  <2>5. Cardinality(Children(id)) \in Nat
    BY <1>1, KidsFinite DEF Children
  <2>6. nodes'[id].refctr = nodes[id].refctr + (IF id = x THEN 1 ELSE 0) /\ nodes'[id].nlookup = nodes[id].nlookup
    BY <1>5
  <2> QED
    BY <2>1, <2>2, <2>3, <2>4, <2>5, <2>6
<1>6. ASSUME NEW q \in Reqs', loc'[q].pinned PROVE NodeOf(q)' \in DOMAIN nodes'
  <2>1. PICK id : id = NodeOf(q)'
    OBVIOUS
  <2>2. q \in Pinners(id)'
    BY <1>6, <2>1 DEF Pinners
  <2>3. id = x \/ q \in Pinners(id)
    BY <1>3, <2>2
  <2>4. id \in DOMAIN nodes
    BY <2>3 DEF Pinners, RefsOK
  <2> QED
    BY <2>1, <2>4
<1> QED
  BY <1>5, <1>6 DEF RefsOK

\* Unpinning takes it back, and a node nobody has goes.
LEMMA RefsUnpinned ==
  ASSUME Places, RefsOK, NEW r, NEW l, Moves(r, l), Step(r) = "unpin", NEW x, x = NodeOf(r), x \in DOMAIN nodes,
         Unreffed(nodes, nodes', x), TableOK(nodes')
  PROVE  /\ RefsOK'
         /\ x \notin DOMAIN nodes' => nodes[x].nlookup = 0 /\ Children(x) = {}
<1>1. TypeOK /\ r \in Reqs /\ TableOK(nodes) /\ Running(r) /\ PlaceOK(r) /\ Fits(r, l)
  BY DEF Moves, Places, TypeOK
<1>2. loc[r].pinned /\ r \in Pinners(x) /\ ~l.pinned
  <2>1. Applies(r, Step(r), loc[r])
    BY <1>1, RunningOrder DEF PlaceOK
  <2>2. Applies(r, "unpin", loc[r])
    BY <2>1
  <2>3. loc[r].pinned
    BY <2>2 DEF Applies
  <2> QED
    BY <1>1, <2>3 DEF Pinners, Fits
<1>3. \A id : Pinners(id)' = Pinners(id) \ {r}
  BY <1>2, PinnersMoved
<1>4. \A id : id # x => r \notin Pinners(id)
  BY DEF Pinners
<1>5. \A n \in DOMAIN nodes' : /\ n \in DOMAIN nodes /\ nodes'[n].name = nodes[n].name /\ nodes'[n].parent = nodes[n].parent
                               /\ nodes'[n].nlookup = nodes[n].nlookup
                               /\ nodes'[n].refctr = nodes[n].refctr - (IF n = x THEN 1 ELSE 0)
  BY DEF Unreffed, But
<1>6. nodes[x].refctr = Cardinality(Children(x)) + (IF nodes[x].nlookup > 0 THEN 1 ELSE 0) + Cardinality(Pinners(x))
  BY DEF RefsOK
<1>7. /\ IsFiniteSet(Children(x)) /\ Cardinality(Children(x)) \in Nat
      /\ IsFiniteSet(Pinners(x)) /\ Cardinality(Pinners(x)) \in Nat /\ Cardinality(Pinners(x)) # 0
      /\ nodes[x].nlookup \in Nat
  BY <1>1, <1>2, Finite, NoneOf DEF TableOK, NodeOK
<1>8. x \notin DOMAIN nodes' => nodes[x].nlookup = 0 /\ Cardinality(Children(x)) = 0 /\ Cardinality(Pinners(x)) = 1
  <2>1. x \notin DOMAIN nodes' => nodes[x].refctr = 1
    BY DEF Unreffed
  <2> QED
    BY <1>6, <1>7, <2>1
<1>9. x \notin DOMAIN nodes' => Children(x) = {} /\ nodes[x].nlookup = 0
  BY <1>7, <1>8, NoneOf
<1>10. DOMAIN nodes \ DOMAIN nodes' \subseteq {x}
  BY DEF Unreffed
<1>11. ASSUME NEW id \in DOMAIN nodes'
      PROVE  nodes'[id].refctr = Cardinality(Children(id)') + (IF nodes'[id].nlookup > 0 THEN 1 ELSE 0) + Cardinality(Pinners(id)')
  <2>1. IsFiniteSet(Pinners(id)) /\ Cardinality(Pinners(id)) \in Nat
    BY Finite, NoneOf
  <2>2. Cardinality(Pinners(id)') = Cardinality(Pinners(id)) - (IF id = x THEN 1 ELSE 0)
    <3>1. CASE id = x
      BY <1>2, <1>3, <2>1, <3>1, FS_RemoveElement
    <3>2. CASE id # x
      <4>1. Pinners(id)' = Pinners(id)
        BY <1>3, <1>4, <3>2
      <4> QED
        BY <2>1, <3>2, <4>1
    <3> QED
      BY <3>1, <3>2
  <2>3. Children(id)' = Children(id)
    <3>1. x \notin DOMAIN nodes' => nodes[x].parent # id
      <4>1. x \notin DOMAIN nodes' => nodes[x].name = NoName /\ nodes[x].parent = None
        BY <1>1, <1>9 DEF TableOK, NodeOK
      <4>2. id # None
        BY <1>11, NotAborted
      <4> QED
        BY <4>1, <4>2
    <3> QED
      BY <1>5, <1>10, <3>1 DEF Children, ChildrenIn
  <2>4. nodes[id].refctr = Cardinality(Children(id)) + (IF nodes[id].nlookup > 0 THEN 1 ELSE 0) + Cardinality(Pinners(id))
    BY <1>5, <1>11 DEF RefsOK
  <2>5. Cardinality(Children(id)) \in Nat
    BY <1>1, KidsFinite DEF Children
  <2>6. nodes'[id].refctr = nodes[id].refctr - (IF id = x THEN 1 ELSE 0) /\ nodes'[id].nlookup = nodes[id].nlookup
    BY <1>5, <1>11
  <2> QED
    BY <2>1, <2>2, <2>3, <2>4, <2>5, <2>6
<1>12. ASSUME NEW q \in Reqs', loc'[q].pinned PROVE NodeOf(q)' \in DOMAIN nodes'
  <2>1. PICK id : id = NodeOf(q)'
    OBVIOUS
  <2>2. q \in Pinners(id)'
    BY <1>12, <2>1 DEF Pinners
  <2>3. q \in Pinners(id) /\ q # r
    BY <1>3, <2>2
  <2>4. id \in DOMAIN nodes
    BY <2>3 DEF Pinners, RefsOK
  <2>5. id = x => x \in DOMAIN nodes'
    <3>1. SUFFICES ASSUME id = x, x \notin DOMAIN nodes' PROVE FALSE
      OBVIOUS
    <3>2. Cardinality(Pinners(x)) = 1
      BY <1>8, <3>1
    <3>3. Cardinality(Pinners(x) \ {r}) = 0 /\ IsFiniteSet(Pinners(x) \ {r})
      BY <1>2, <1>7, <3>2, FS_RemoveElement
    <3>4. Pinners(x) \ {r} = {}
      BY <3>3, NoneOf
    <3> QED
      BY <2>3, <3>1, <3>4
  <2> QED
    BY <1>10, <2>1, <2>4, <2>5
<1> QED
  BY <1>9, <1>11, <1>12 DEF RefsOK

(***************************************************************************)
(* Steps that keep the paths: the file system, marks, opens, pins.         *)
(***************************************************************************)

\* The rest of the invariant after a step of r's program.
LEMMA MoveInv ==
  ASSUME IInv, NEW r, NEW l, Moves(r, l), TableOK(nodes'), ctr' \in 0 .. MaxId, known' \in [1 .. MaxId -> Nat],
         QueueOK', LookupsOK', RefsOK', TreesOK', PathStable', HeldOK', OpensOK', \A q \in Reqs : NamesOK(q)'
  PROVE  IInv'
<1>1. Places /\ MutexOK
  BY DEF IInv, Places
<1>2. TypeOK' /\ MutexOK' /\ Reqs' = Reqs /\ \A q \in Reqs : PlaceOK(q)'
  BY <1>1, TypeMoved, MutexMoved, PlacesMoved
<1>3. nodes' # Abort
  BY NotAborted
<1>4. (\A q \in Reqs : PlaceOK(q))' /\ (\A q \in Reqs : NamesOK(q))'
  BY <1>2
<1> QED
  BY <1>2, <1>3, <1>4 DEF IInv

\* The parts of the invariant, at hand.
LEMMA InvIs ==
  ASSUME IInv
  PROVE  /\ Places /\ TypeOK /\ QueueOK /\ LookupsOK /\ RefsOK /\ TreesOK /\ HeldOK /\ OpensOK /\ MutexOK /\ PathStable
         /\ nodes # Abort /\ TableOK(nodes) /\ \A q \in Reqs : NamesOK(q) /\ PlaceOK(q)
         /\ known \in [1 .. MaxId -> Nat] /\ ctr \in 0 .. MaxId
BY DEF IInv, Places, TypeOK

\* Neither names, nor counts of references, nor locks are changed.
Nearly(ns, ns2) ==
  /\ DOMAIN ns2 = DOMAIN ns
  /\ \A n \in DOMAIN ns : /\ DOMAIN ns2[n] = DOMAIN ns[n]
                          /\ ns2[n].name = ns[n].name /\ ns2[n].parent = ns[n].parent
                          /\ ns2[n].nlookup = ns[n].nlookup /\ ns2[n].refctr = ns[n].refctr
                          /\ ns2[n].tree = ns[n].tree /\ ns2[n].open \in Nat

\* A step that changes counters of opens and marks keeps paths, locks and references.
LEMMA NearMoves ==
  ASSUME IInv, NEW r, NEW l, Moves(r, l), Nearly(nodes, nodes'), LocksKept, l.pinned = loc[r].pinned
  PROVE  /\ TableOK(nodes') /\ SameShape(nodes, nodes') /\ NamesStay(nodes, nodes')
         /\ RefsOK' /\ TreesOK' /\ PathStable'
<1>1. Places /\ TreesOK /\ PathStable /\ nodes # Abort /\ RefsOK /\ TableOK(nodes)
  BY InvIs
<1>2. TableOK(nodes') /\ SameShape(nodes, nodes')
  <2>1. \A id \in DOMAIN nodes : nodes'[id].name = nodes[id].name /\ nodes'[id].parent = nodes[id].parent /\ NodeOK(nodes'[id])
    <3>1. \A id \in DOMAIN nodes : NodeOK(nodes[id])
      BY <1>1 DEF TableOK
    <3> QED
      BY <3>1 DEF Nearly, NodeOK
  <2>2. DOMAIN nodes' = DOMAIN nodes /\ nodes'[Root].nlookup > 0 /\ nodes'[Root].tree = 0
    BY <1>1 DEF Nearly, TableOK
  <2>3. TableOK(nodes')
    BY <1>1, <2>1, <2>2, LikeTable
  <2>4. SameShape(nodes, nodes')
    BY <1>1, <2>1, <2>2, LikeTable DEF SameShape
  <2> QED
    BY <2>3, <2>4
<1>3. DOMAIN nodes' = DOMAIN nodes
      /\ \A n \in DOMAIN nodes : /\ nodes'[n].name = nodes[n].name /\ nodes'[n].parent = nodes[n].parent
                                 /\ nodes'[n].nlookup = nodes[n].nlookup /\ nodes'[n].refctr = nodes[n].refctr
                                 /\ nodes'[n].tree = nodes[n].tree
  BY DEF Nearly
<1>4. NamesStay(nodes, nodes')
  BY <1>3 DEF NamesStay
<1>5. RefsOK'
  <2>1. Balanced(nodes, nodes')
    BY <1>3, BalancedSame
  <2> QED
    BY <1>1, <1>2, <1>3, <2>1, RefsKept
<1>6. TreesOK' /\ PathStable'
  <2>1. \A q \in Reqs : loc[q].locked => {loc[q].w, loc[q].w2} \subseteq DOMAIN nodes' \cup {None}
    BY <1>1, <1>3 DEF TreesOK
  <2>2. PICK X : X = {}
    OBVIOUS
  <2>3. \A n \in DOMAIN nodes \ X : n \in DOMAIN nodes' /\ nodes'[n].name = nodes[n].name /\ nodes'[n].parent = nodes[n].parent
    BY <1>3
  <2>4. \A p \in Paths : Above(nodes, Base(p)) \cap X = {}
    BY <2>2
  <2> QED
    BY <1>1, <1>2, <1>3, <2>1, <2>3, <2>4, TreesKept
<1> QED
  BY <1>2, <1>4, <1>5, <1>6

\* What the kernel knows and the table counts stays.
LEMMA LookupsQuiet ==
  ASSUME IInv, NEW r, NEW l, Moves(r, l), TableOK(nodes'), known' = known,
         Step(r) \notin Replies \cup {"find", "undo", "forget"},
         \A id \in Ids \ {Root} : Weight(nodes', id, Kept) = Weight(nodes, id, Kept)
  PROVE  LookupsOK'
<1>1. Places /\ LookupsOK /\ known \in [1 .. MaxId -> Nat] /\ work' = work
  BY InvIs DEF Moves
<1>2. ASSUME NEW id \in Ids \ {Root}
      PROVE  InFlight(id)' = InFlight(id) /\ Returning(id)' = Returning(id)
  <2>1. InFlight(id)' = InFlight(id)
    BY <1>1, InFlightMoved
  <2>2. Returning(id)' = Returning(id)
    <3>1. Returning(id)' = Returning(id) \ (IF Step(r) = "forget" /\ NodeOf(r) = id THEN {r} \X (1 .. loc[r].n) ELSE {})
      BY <1>1, ReturningMoved
    <3> QED
      BY <3>1
  <2> QED
    BY <2>1, <2>2
<1>3. \A id \in Ids \ {Root} : IsFiniteSet(InFlight(id)) /\ IsFiniteSet(Returning(id))
  BY <1>1, Finite
<1> QED
  BY <1>1, <1>2, <1>3, LookupsMoved

\* A stranger stays one unless something is done to it.
LEMMA StrangerQuiet ==
  ASSUME NEW r, NEW l, Step(r) # "find", known' = known, NEW y, Stranger(y), y \in DOMAIN nodes', nodes'[y].tree = nodes[y].tree,
         \A id : ChildrenIn(nodes', id) = ChildrenIn(nodes, id)
  PROVE  StaysStrange(y, r, l)
BY DEF Stranger, StaysStrange, Children

\* A step that changes only r's place, and what no other part of the invariant speaks of.
LEMMA NearStep ==
  ASSUME IInv, NEW r, NEW l, Moves(r, l), Nearly(nodes, nodes'), OpensOK', LocksKept, l.pinned = loc[r].pinned, QueueOK',
         known' = known, ctr' = ctr,
         Step(r) \notin Replies \cup {"find", "undo", "forget"},
         Step(r) # "hide_node" \/ l.err # "ok", Step(r) \in Gets => ~l.locked
  PROVE  IInv'
<1>1. /\ Places /\ TypeOK /\ HeldOK /\ \A q \in Reqs : NamesOK(q)
      /\ known \in [1 .. MaxId -> Nat] /\ ctr \in 0 .. MaxId /\ TableOK(nodes)
  BY InvIs
<1>2. TableOK(nodes') /\ SameShape(nodes, nodes') /\ NamesStay(nodes, nodes') /\ RefsOK' /\ TreesOK' /\ PathStable'
  BY NearMoves
<1>3. LookupsOK'
  <2>1. \A id \in Ids \ {Root} : Weight(nodes', id, Kept) = Weight(nodes, id, Kept)
    BY DEF Weight, Nearly
  <2> QED
    BY <1>2, <2>1, LookupsQuiet
<1>4. HeldOK'
  <2>1. MoreKnown
    <3>1. \A id \in 1 .. MaxId : known[id] \in Nat
      BY <1>1
    <3>2. \A id \in 1 .. MaxId : known'[id] >= known[id]
      BY <3>1
    <3> QED
      BY <1>1, <3>2 DEF MoreKnown
  <2> QED
    BY <1>1, <2>1, HeldMoved
<1>5. \A q \in Reqs : NamesOK(q)'
  <2>1. \A y : Stranger(y) => StaysStrange(y, r, l)
    <3>1. \A y : Stranger(y) => y \in DOMAIN nodes' /\ nodes'[y].tree = nodes[y].tree
      BY DEF Stranger, Nearly
    <3>2. \A id : ChildrenIn(nodes', id) = ChildrenIn(nodes, id)
      BY <1>2 DEF SameShape
    <3> QED
      BY <3>1, <3>2, StrangerQuiet
  <2> QED
    BY <1>1, <1>2, <2>1, NamesQuiet
<1> QED
  BY <1>1, <1>2, <1>3, <1>4, <1>5, MoveInv

\* A step that changes marks only keeps the invariant.
LEMMA QuietStep ==
  ASSUME IInv, NEW r, NEW l, Moves(r, l), Alike(nodes, nodes'), LocksKept, l.pinned = loc[r].pinned, QueueOK',
         known' = known, ctr' = ctr,
         Step(r) \notin Replies \cup {"count", "uncount", "find", "undo", "forget"},
         Step(r) # "hide_node" \/ l.err # "ok", Step(r) \in Gets => ~l.locked
  PROVE  IInv'
<1>1. Places /\ OpensOK /\ TableOK(nodes)
  BY InvIs
<1>2. OpensOK'
  BY <1>1, OpensKept DEF Alike, Body
<1>3. Nearly(nodes, nodes')
  BY <1>1 DEF Nearly, Alike, Body, TableOK, NodeOK
<1> QED
  BY <1>2, <1>3, NearStep

\* The locals of a request.
LEMMA LocFields ==
  DOMAIN NoLoc = {"err", "locked", "path", "path2", "w", "w2", "id", "file", "hide", "hname", "unhide", "intr",
                  "pinned", "n", "late", "victim"}
BY DEF NoLoc

\* The locals differ at most in F.
Like(l, m, F) == DOMAIN l = DOMAIN m /\ \A f \in DOMAIN m \ F : l[f] = m[f]

\* An update of a local changes that local.
LEMMA LikeUpdates ==
  ASSUME NEW m, DOMAIN m = DOMAIN NoLoc, NEW v, NEW u
  PROVE  /\ \A F : Like(m, m, F)
         /\ \A f \in DOMAIN NoLoc : \A F : f \in F => Like([m EXCEPT ![f] = v], m, F) /\ [m EXCEPT ![f] = v][f] = v
         /\ \A F : {"unhide", "late"} \subseteq F => Like([m EXCEPT !.unhide = v, !.late = u], m, F)
BY LocFields DEF Like

\* Steps that leave the table's names, counts and locks alone.
Calm == {"touch", "stat", "stat2", "openfs", "make", "link", "unlink", "rmdir", "rename", "unlink_hidden", "hide_rename",
         "hide_name", "hide_node", "fs_lock", "fs_unlock", "fs_getlk", "is_open", "cache", "list_lock", "list_conflict", "pin"}
\* The locals no part of the invariant ties down, but for err and hide.
Loose == {"err", "file", "hname", "hide", "unhide", "late"}

\* A request that changes only those is in place after its step.
LEMMA FitsLike ==
  ASSUME Places, NEW r \in Reqs, Step(r) \in Calm \cup {"count", "uncount", "remove", "rename_node", "undo", "forget"}, NEW l, Like(l, loc[r], Loose),
         l.err = loc[r].err \/ (Step(r) \in Spoils /\ (l.err = "ok" => loc[r].err = "ok")),
         l.hide = loc[r].hide \/ (Step(r) \in {"is_open", "list_conflict"} /\ l.hide \in BOOLEAN),
         l.hname = loc[r].hname \/ Step(r) = "hide_name",
         Step(r) = "hide_name" /\ l.err = "ok" => l.hname # NoName,
         Step(r) = "pin" => l.err # "ok"
  PROVE  Fits(r, l) /\ l.pinned = loc[r].pinned /\ l.intr = loc[r].intr /\ l.locked = loc[r].locked
<1>1. LocOK(loc[r])
  BY DEF Places, PlaceOK
<1>2. /\ l.locked = loc[r].locked /\ l.path = loc[r].path /\ l.path2 = loc[r].path2 /\ l.w = loc[r].w /\ l.w2 = loc[r].w2
      /\ l.id = loc[r].id /\ l.intr = loc[r].intr /\ l.pinned = loc[r].pinned /\ l.n = loc[r].n /\ l.victim = loc[r].victim
  BY <1>1, LocFields DEF LocOK, Like, Loose
<1>3. LocOK(l)
  BY <1>1, <1>2 DEF LocOK, Like
<1>4. Step(r) \notin {"find", "free", "unpin"} \cup Gets \cup Replies
  BY DEF Calm, Gets, Replies
<1> QED
  BY <1>2, <1>3, <1>4 DEF Fits, Replies

\* A step of these that changes only those keeps the invariant.
LEMMA QuietRun ==
  ASSUME IInv, NEW r \in Reqs, Step(r) \in Calm, NEW l, Advance(r, l), Like(l, loc[r], Loose),
         l.err = loc[r].err \/ (Step(r) \in Spoils /\ (l.err = "ok" => loc[r].err = "ok")),
         l.hide = loc[r].hide \/ (Step(r) \in {"is_open", "list_conflict"} /\ l.hide \in BOOLEAN),
         l.hname = loc[r].hname \/ Step(r) = "hide_name",
         Step(r) = "hide_name" /\ l.err = "ok" => l.hname # NoName,
         Step(r) \in {"pin", "hide_node"} => l.err # "ok",
         work' = work, queue' = queue, woken' = woken, ctr' = ctr, known' = known, answer' = answer, Alike(nodes, nodes')
  PROVE  IInv'
<1>1. Places /\ QueueOK
  BY InvIs
<1>2. Fits(r, l) /\ l.pinned = loc[r].pinned /\ l.intr = loc[r].intr
  BY <1>1, FitsLike
<1>3. Step(r) \notin Replies \cup {"count", "uncount", "find", "undo", "forget", "free", "out"} \cup Gets \cup Forgets
  BY DEF Calm, Replies, Gets, Forgets
<1>4. Running(r)
  BY <1>3 DEF Step
<1>5. Moves(r, l)
  BY <1>2, <1>3, <1>4 DEF Moves, Answers
<1>6. LocksKept
  BY <1>1, <1>3, <1>5, LocksMoved
<1>7. QueueOK'
  BY <1>1, <1>3, <1>5, QueueKept
<1> QED
  BY <1>2, <1>3, <1>5, <1>6, <1>7, QuietStep

\* A step that may go wrong is taken only without an error.
LEMMA StepOK ==
  ASSUME Places, NEW r \in Reqs, Step(r) \in (Spoils \ {"pin"}) \cup {"remove", "find", "count", "is_open", "list_conflict"}
  PROVE  loc[r].err = "ok" /\ Running(r) /\ Started(r)
<1>1. Step(r) # "out"
  BY DEF Spoils, Gets
<1>2. Running(r) /\ TypeOK
  BY <1>1 DEF Step, Places
<1>3. Started(r)
  BY <1>2, RunningOrder
<1>4. Applies(r, Step(r), loc[r])
  BY <1>2, <1>3 DEF Places, PlaceOK
<1>5. \A s \in (Spoils \ {"pin"}) \cup {"remove", "find", "count", "is_open", "list_conflict"} : Applies(r, s, loc[r]) => loc[r].err = "ok"
  <2>1. TAKE s \in (Spoils \ {"pin"}) \cup {"remove", "find", "count", "is_open", "list_conflict"}
  <2>2. CASE s \in {"hide_name", "hide_rename", "hide_node", "unlink", "remove", "get", "fs_getlk", "fs_unlock"}
    BY <2>2 DEF Applies
  <2>3. CASE s \notin {"hide_name", "hide_rename", "hide_node", "unlink", "remove", "get", "fs_getlk", "fs_unlock"}
    <3>1. s \notin Special
      BY <2>3 DEF Special, Spoils, Gets, Replies
    <3> QED
      BY <3>1, AppliesIs
  <2> QED
    BY <2>2, <2>3
<1> QED
  BY <1>2, <1>3, <1>4, <1>5
=============================================================================
