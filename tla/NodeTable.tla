------------------------------ MODULE NodeTable ------------------------------
(***************************************************************************)
(* The table of nodes that libfuse's high-level library keeps between the  *)
(* kernel's inode numbers and the paths of the user's file system, and the *)
(* locks on paths.  Every operator maps a table to a table; the functions  *)
(* of fuse.c that they translate run under fuse.lock.                      *)
(*                                                                         *)
(* A table is a function from node ids to records:                         *)
(*   name, parent  NoName and None once the node is unhashed               *)
(*   nlookup       references the kernel holds                             *)
(*   refctr        1 for nlookup > 0, plus 1 for every child, plus pins    *)
(*   open, hidden  open_count and is_hidden                                *)
(*   tree          treelock: readers below, or -1 for a writer             *)
(*   ticket        the waiting request the node is reserved for, 0 if none *)
(*   locks         the POSIX locks of the file                             *)
(***************************************************************************)
EXTENDS Naturals, Integers, Sequences, SequencesExt, FiniteSets

CONSTANT MaxId    \* node ids are below MaxId, FUSE_UNKNOWN_INO is MaxId itself

ASSUME MaxIdAssumption == MaxId \in Nat /\ MaxId > 1

Root == 1
None == 0
NoName == <<>>
NoPath == << <<"-">> >>      \* what release passes to the file system for a NULL path

Node(name, parent, nlookup, refctr) ==
  [name |-> name, parent |-> parent, nlookup |-> nlookup, refctr |-> refctr, open |-> 0,
   hidden |-> FALSE, tree |-> 0, ticket |-> 0, locks |-> <<>>]

\* An assertion failed or get_node found nothing: the process is gone.
Abort == [id \in {Root} |-> Node(NoName, None, 0, 0)]

ChildrenIn(nodes, id) == {n \in DOMAIN nodes : nodes[n].parent = id}

\* A table of nodes that the kernel refers to, and nobody else: a tree of names below
\* the root, whose counts say so.  kept is the lookup that noforget adds.
Settled(nodes, kept) ==
  /\ Root \in DOMAIN nodes /\ DOMAIN nodes \subseteq 1 .. MaxId - 1
  /\ \A id \in DOMAIN nodes :
       LET n == nodes[id] IN
       /\ n = Node(n.name, n.parent, n.nlookup, n.refctr)
       /\ n.nlookup \in Nat /\ n.nlookup > (IF id = Root THEN 0 ELSE kept)
       /\ n.refctr = Cardinality(ChildrenIn(nodes, id)) + 1
       /\ IF id = Root THEN n.name = NoName /\ n.parent = None
          ELSE n.name # NoName /\ n.parent \in DOMAIN nodes
  /\ \A m, n \in DOMAIN nodes \ {Root} :
       nodes[m].parent = nodes[n].parent /\ nodes[m].name = nodes[n].name => m = n
  /\ \A S \in SUBSET (DOMAIN nodes \ {Root}) : S # {} => \E n \in S : nodes[n].parent \notin S

lookup_node(nodes, parent, name) ==
  LET found == {id \in DOMAIN nodes : nodes[id].name = name /\ nodes[id].parent = parent}
  IN IF found = {} THEN None ELSE CHOOSE id \in found : TRUE

\* MaxId bounds the table: next_id looks for a free id until it finds one.
IdLeft(nodes) == \E id \in 1 .. MaxId - 1 : id \notin DOMAIN nodes

next_id(nodes, ctr) ==
  LET free(k) == (ctr + k) % (MaxId + 1)
      usable == {k \in 1 .. MaxId + 1 : free(k) \notin DOMAIN nodes \cup {0, MaxId}}
  IN free(CHOOSE k \in usable : \A j \in usable : k <= j)

delete_node(nodes, id) ==
  IF nodes[id].tree = 0 /\ nodes[id].name = NoName
  THEN [n \in DOMAIN nodes \ {id} |-> nodes[n]] ELSE Abort

unref_node(nodes, id) ==
  IF id \notin DOMAIN nodes \/ nodes[id].refctr = 0 THEN Abort
  ELSE IF nodes[id].refctr = 1 THEN delete_node(nodes, id)
       ELSE [nodes EXCEPT ![id].refctr = @ - 1]

unhash_name(nodes, id) ==
  IF id \notin DOMAIN nodes THEN Abort
  ELSE IF nodes[id].name = NoName THEN nodes
  ELSE unref_node([nodes EXCEPT ![id].name = NoName, ![id].parent = None], nodes[id].parent)

hash_name(nodes, id, parent, name) ==
  IF ~({id, parent} \subseteq DOMAIN nodes) THEN Abort
  ELSE [nodes EXCEPT ![id].name = name, ![id].parent = parent, ![parent].refctr = @ + 1]

\* The node called name in parent, or parent itself for a NULL name; it gets a
\* lookup more, and is made if need be.  noforget keeps one lookup for ever.
find_node(nodes, parent, name, ctr, noforget) ==
  LET old == IF name = NoName THEN parent ELSE lookup_node(nodes, parent, name)
      new == next_id(nodes, ctr)
      with == [n \in DOMAIN nodes \cup {new} |->
                 IF n = new THEN Node(NoName, None, IF noforget THEN 2 ELSE 1, 1) ELSE nodes[n]]
  IN IF old # None
     THEN IF old \in DOMAIN nodes
          THEN [id |-> old, nodes |-> [nodes EXCEPT ![old].nlookup = @ + 1], ctr |-> ctr]
          ELSE [id |-> old, nodes |-> Abort, ctr |-> ctr]
     ELSE [id |-> new, nodes |-> hash_name(with, new, parent, name), ctr |-> new]

\* Mutant: forget_node does not decrement the reference it takes away.
ForgetLeaky(nodes, id, n) ==
  IF id = Root THEN nodes
  ELSE IF id \notin DOMAIN nodes \/ nodes[id].nlookup < n THEN Abort
  ELSE LET less == [nodes EXCEPT ![id].nlookup = @ - n]
       IN IF less[id].nlookup > 0 THEN less ELSE unhash_name(less, id)

\* What forget_node does once it need not wait.
forget_node(nodes, id, n) ==
  IF id = Root THEN nodes
  ELSE IF id \notin DOMAIN nodes \/ nodes[id].nlookup < n THEN Abort
  ELSE LET less == [nodes EXCEPT ![id].nlookup = @ - n]
       IN IF less[id].nlookup > 0 THEN less ELSE unref_node(unhash_name(less, id), id)

unlink_node(nodes, id, noforget) ==
  IF noforget /\ nodes[id].nlookup <= 1 THEN Abort
  ELSE unhash_name(IF noforget THEN [nodes EXCEPT ![id].nlookup = @ - 1] ELSE nodes, id)

remove_node(nodes, dir, name, noforget) ==
  LET id == lookup_node(nodes, dir, name)
  IN IF id = None THEN nodes ELSE unlink_node(nodes, id, noforget)

rename_node(nodes, olddir, oldname, newdir, newname, hide, noforget) ==
  LET id == lookup_node(nodes, olddir, oldname)
      over == lookup_node(nodes, newdir, newname)
      clear == IF over = None THEN nodes ELSE unlink_node(nodes, over, noforget)
      moved == hash_name(unhash_name(clear, id), id, newdir, newname)
  IN IF id = None THEN [err |-> "ok", nodes |-> nodes]
     ELSE IF over # None /\ hide THEN [err |-> "EBUSY", nodes |-> nodes]
     ELSE [err |-> "ok", nodes |-> IF hide THEN [moved EXCEPT ![id].hidden = TRUE] ELSE moved]
-----------------------------------------------------------------------------
(* Paths, and the locks on them *)

\* From a node to its parent, and on; past the root or an unhashed node comes None.
Up(nodes, id) ==
  LET up[k \in Nat] == IF k = 0 THEN id
                       ELSE IF up[k - 1] \in {Root, None} THEN None ELSE nodes[up[k - 1]].parent
  IN up

\* The ids from a node up to, and without, the root; it stops at an unhashed one.
Chain(nodes, id) ==
  LET up == Up(nodes, id)
      len == CHOOSE k \in 0 .. MaxId : up[k] \in {Root, None} /\ \A j \in 0 .. k - 1 : up[j] \notin {Root, None}
  IN [k \in 1 .. len |-> up[k - 1]]

Named(path, name) == IF name = NoName THEN path ELSE Append(path, name)

PathOf(nodes, id) ==
  LET chain == Chain(nodes, id)
  IN IF \E k \in DOMAIN chain : nodes[chain[k]].name = NoName THEN NoPath
     ELSE [k \in DOMAIN chain |-> nodes[chain[Len(chain) + 1 - k]].name]

\* Reserve every node of ids for ticket t, unless another holds a reservation.
Reserve(nodes, ids, t) ==
  [n \in DOMAIN nodes |-> IF n \in ids /\ nodes[n].ticket = 0
                          THEN [nodes[n] EXCEPT !.ticket = t] ELSE nodes[n]]

\* Mutant: a path is computed and not locked.
LockBarging(nodes, chain, w, name, t) ==
  [err |-> "ok", w |-> w, nodes |-> nodes,
   path |-> Named([k \in DOMAIN chain |-> nodes[chain[Len(chain) + 1 - k]].name], name)]

\* A reader locks every node of chain, a writer w, unless something stops it: a lock, or
\* the reservation of another, with EAGAIN, an unhashed node with ENOENT.  What was
\* locked so far is then undone and reserved for ticket t.
LockChain(nodes, chain, w, name, t) ==
  LET foreign(n) == nodes[n].ticket \notin {0, t}
      gone(n) == nodes[n].name = NoName
      stop == Min({k \in DOMAIN chain : gone(chain[k]) \/ nodes[chain[k]].tree = -1 \/ foreign(chain[k])}
                  \cup {Len(chain) + 1})
      passed == {chain[k] : k \in 1 .. stop - 1}
      fail(err, ids) == [err |-> err, path |-> NoPath, w |-> None, nodes |-> Reserve(nodes, ids \ {None}, t)]
  IN IF w # None /\ (nodes[w].tree # 0 \/ foreign(w)) THEN fail("EAGAIN", {w})
     ELSE IF stop <= Len(chain)
     THEN fail(IF gone(chain[stop]) THEN "ENOENT" ELSE "EAGAIN", passed \cup {w})
     ELSE [err |-> "ok", path |-> Named([k \in DOMAIN chain |-> nodes[chain[Len(chain) + 1 - k]].name], name),
           w |-> w, nodes |->
             [n \in DOMAIN nodes |->
                IF n = w THEN [nodes[n] EXCEPT !.tree = -1, !.ticket = 0]
                ELSE IF n \in passed THEN [nodes[n] EXCEPT !.tree = @ + 1, !.ticket = 0]
                ELSE nodes[n]]]

try_get_path(nodes, id, name, wr, t) ==
  IF id \notin DOMAIN nodes THEN [err |-> "abort", path |-> NoPath, w |-> None, nodes |-> Abort]
  ELSE LockChain(nodes, Chain(nodes, id), IF wr THEN lookup_node(nodes, id, name) ELSE None, name, t)

UnlockChain(nodes, chain, w, t) ==
  IF \/ ~ (chain \subseteq DOMAIN nodes)
     \/ (w # None /\ (w \notin DOMAIN nodes \/ nodes[w].tree # -1))
     \/ \E n \in chain : nodes[n].tree <= 0
  THEN Abort
  ELSE Reserve([n \in DOMAIN nodes |->
                  IF n = w THEN [nodes[n] EXCEPT !.tree = 0]
                  ELSE IF n \in chain THEN [nodes[n] EXCEPT !.tree = @ - 1] ELSE nodes[n]],
               chain \cup ({w} \ {None}), t)

unlock_path(nodes, id, w, t) ==
  UnlockChain(nodes, IF id \in DOMAIN nodes THEN ToSet(Chain(nodes, id)) ELSE {None}, w, t)

\* Two paths; if the second is not to be had, the first is given back.
BothPaths(one, two, id1, t) ==
  IF {one.err, two.err} = {"ok"}
  THEN [err |-> "ok", nodes |-> two.nodes, path |-> one.path, w |-> one.w, path2 |-> two.path, w2 |-> two.w]
  ELSE [err |-> IF one.err # "ok" THEN one.err ELSE two.err, path |-> NoPath, w |-> None,
        path2 |-> NoPath, w2 |-> None,
        nodes |-> IF one.err # "ok" THEN one.nodes ELSE unlock_path(two.nodes, id1, one.w, t)]

SecondPath(one, id1, id2, name2, wr, t) ==
  BothPaths(one, IF one.err = "ok" THEN try_get_path(one.nodes, id2, name2, wr, t) ELSE one, id1, t)

try_get_path2(nodes, id1, name1, id2, name2, wr, t) ==
  SecondPath(try_get_path(nodes, id1, name1, wr, t), id1, id2, name2, wr, t)
=============================================================================
