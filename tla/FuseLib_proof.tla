------------------------------ MODULE FuseLib_proof -------------------------
(***************************************************************************)
(* Proofs about the nodes of libfuse, second part: every step of a         *)
(* handler and of the kernel keeps the invariant of FuseNodes_proof. So no *)
(* assertion in fuse.c fails, the counts of every node are what the kernel *)
(* and the handlers hold, and a path stays what it was while it is locked, *)
(* for any number of requests and ids.                                     *)
(***************************************************************************)
EXTENDS FuseNodes_proof

\* A request with its reply ahead is not answered.
LEMMA ReplyAhead ==
  ASSUME Places, NEW r \in Reqs, Running(r), Op(r) # "forget", \E t \in Replies : Later(Op(r), pc[r] + 1, t) \/ Later(Op(r), pc[r], t)
  PROVE  r \in Unanswered
<1>1. TypeOK /\ PlaceOK(r) /\ pc[r] \in Nat
  BY DEF Places, TypeOK
<1>2. Started(r)
  BY <1>1, RunningOrder
<1>3. PICK t \in Replies : Later(Op(r), pc[r] + 1, t) \/ Later(Op(r), pc[r], t)
  OBVIOUS
<1>4. Later(Op(r), pc[r], t)
  <2>1. \E n \in Nat \ {0} : DOMAIN fuse_path_ops[Op(r)] = 1 .. n
    BY <1>1, OpFacts, ProgramSeq
  <2> QED
    BY <1>1, <1>3, <2>1 DEF Later
<1>5. Replying(r)
  BY <1>3, <1>4, AheadLater DEF Replying
<1> QED
  BY <1>1, <1>2, <1>5 DEF PlaceOK, Unanswered, Op

\* The nodes that an unanswered request speaks of are in the table.
LEMMA MentionsIn ==
  ASSUME IInv, NEW r \in Unanswered, Op(r) # "dot"
  PROVE  /\ NodeOf(r) \in Ids /\ Holds(NodeOf(r)) /\ NodeOf(r) \in DOMAIN nodes /\ nodes[NodeOf(r)].nlookup > 0
         /\ Req(r).n2 # None => Req(r).n2 \in Ids /\ Holds(Req(r).n2) /\ Req(r).n2 \in DOMAIN nodes /\ nodes[Req(r).n2].nlookup > 0
         /\ \A id \in Mentions(r) : Holds(id)
<1>1. Places /\ LookupsOK /\ HeldOK /\ TypeOK
  BY InvIs
<1>2. r \in Reqs /\ Started(r) /\ NodeOf(r) \in Ids
  BY <1>1, OfFacts DEF Unanswered
<1>3. \A id \in Mentions(r) : Holds(id)
  BY <1>1 DEF HeldOK, Op
<1>4. NodeOf(r) \in Mentions(r) /\ (Req(r).n2 # None => Req(r).n2 \in Mentions(r))
  BY <1>2 DEF Mentions, Ids, None
<1>5. Req(r).n2 \in Ids \cup {None}
  BY <1>1, <1>2, OpFacts
<1> QED
  BY <1>1, <1>2, <1>3, <1>4, <1>5, KnownIn

\* Calling the file system keeps the invariant, whatever it returns.
LEMMA FileSystemInv ==
  ASSUME IInv, NEW r \in Reqs, FileSystem(r)
  PROVE  IInv'
<1>1. Places /\ LocOK(loc[r])
  BY InvIs DEF PlaceOK
<1>2. DOMAIN loc[r] = DOMAIN NoLoc
  BY <1>1 DEF LocOK
<1>3. DOMAIN NoLoc = {"err", "locked", "path", "path2", "w", "w2", "id", "file", "hide", "hname", "unhide", "intr",
                  "pinned", "n", "late", "victim"}
  BY LocFields
<1>4. ASSUME NEW l, Step(r) \in Calm \ {"pin", "hide_node", "hide_name", "is_open", "list_conflict"},
             Advance(r, l), Like(l, loc[r], {"file", "err"}), l.err = loc[r].err \/ (Step(r) \in Spoils /\ loc[r].err = "ok"),
             UNCHANGED <<work, queue, woken, ctr, known, answer, nodes>>
      PROVE  IInv'
  <2>1. l.hide = loc[r].hide /\ l.hname = loc[r].hname /\ Like(l, loc[r], Loose)
    BY <1>2, <1>3, <1>4 DEF Like, Loose
  <2>2. Alike(nodes, nodes')
    BY <1>4 DEF Alike, Body
  <2>3. work' = work /\ queue' = queue /\ woken' = woken /\ ctr' = ctr /\ known' = known /\ answer' = answer
    BY <1>4
  <2> QED
    BY <1>4, <2>1, <2>2, <2>3, QuietRun
<1>5. \A e : Like([loc[r] EXCEPT !.err = e], loc[r], {"file", "err"}) /\ Like([loc[r] EXCEPT !.file = e], loc[r], {"file", "err"})
             /\ [loc[r] EXCEPT !.file = e].err = loc[r].err
             /\ Like(loc[r], loc[r], {"file", "err"})
  BY <1>2, <1>3 DEF Like
<1>6. \A ok, err, fs2, l : Call(r, ok, err, fs2, l) =>
        /\ UNCHANGED <<work, queue, woken, ctr, known, answer, nodes>>
        /\ Advance(r, l) \/ Advance(r, [loc[r] EXCEPT !.err = err])
  BY DEF Call, table
<1>7. CASE FsLooks(r)
  <2>1. Step(r) \in {"touch", "stat", "stat2", "openfs"}
    BY <1>7 DEF FsLooks
  <2>2. Step(r) \in Spoils /\ Step(r) \in Calm \ {"pin", "hide_node", "hide_name", "is_open", "list_conflict"}
    BY <2>1 DEF Spoils, Calm
  <2>3. loc[r].err = "ok"
    BY <1>1, <2>1, <2>2, StepOK
  <2>4. \E f, e : Advance(r, [loc[r] EXCEPT !.file = f]) \/ Advance(r, [loc[r] EXCEPT !.err = e])
    BY <1>6, <1>7 DEF FsLooks
  <2>5. UNCHANGED <<work, queue, woken, ctr, known, answer, nodes>>
    BY <1>6, <1>7 DEF FsLooks
  <2> QED
    BY <1>4, <1>5, <2>2, <2>3, <2>4, <2>5
<1>8. CASE FsMakes(r) \/ FsLinks(r) \/ FsRenames(r) \/ FsRemoves(r) \/ FsGetLock(r)
  <2>1. Step(r) \in {"make", "link", "unlink", "rmdir", "rename", "hide_rename"} \/ Step(r) \in {"unlink_hidden", "fs_getlk"}
    BY <1>8 DEF FsMakes, FsLinks, FsRenames, FsRemoves, FsGetLock
  <2>2. Step(r) \in Calm \ {"pin", "hide_node", "hide_name", "is_open", "list_conflict"}
    BY <2>1 DEF Calm
  <2>3. Step(r) \notin {"unlink_hidden", "fs_getlk"} => Step(r) \in Spoils /\ loc[r].err = "ok"
    <3>1. Step(r) \notin {"unlink_hidden", "fs_getlk"} => Step(r) \in Spoils \ {"pin"}
      BY <2>1 DEF Spoils
    <3> QED
      BY <1>1, <3>1, StepOK
  <2>4. UNCHANGED <<work, queue, woken, ctr, known, answer, nodes>>
    BY <1>6, <1>8 DEF FsMakes, FsLinks, FsRenames, FsRemoves, FsGetLock
  <2>5. Advance(r, loc[r]) \/ (Step(r) \notin {"unlink_hidden", "fs_getlk"} /\ \E e : Advance(r, [loc[r] EXCEPT !.err = e]))
    BY <1>8 DEF FsMakes, FsLinks, FsRenames, FsRemoves, FsGetLock, Call
  <2> QED
    BY <1>4, <1>5, <2>2, <2>3, <2>4, <2>5
<1>9. CASE FsHiddenName(r)
  <2>1. Step(r) = "hide_name" /\ UNCHANGED <<work, queue, woken, ctr, known, answer, nodes>>
    BY <1>6, <1>9 DEF FsHiddenName
  <2>2. Step(r) \in Calm /\ Step(r) \in Spoils \ {"pin"} /\ Step(r) \notin {"pin", "hide_node"}
    BY <2>1 DEF Calm, Spoils
  <2>3. loc[r].err = "ok"
    BY <1>1, <2>2, StepOK
  <2>4. PICK id, l : /\ Advance(r, l)
                     /\ l = [loc[r] EXCEPT !.hname = <<"hidden", id>>] \/ l = [loc[r] EXCEPT !.err = "EBUSY"]
    BY <1>9 DEF FsHiddenName, Call
  <2>5. Like(l, loc[r], Loose) /\ l.hide = loc[r].hide
    BY <1>2, <1>3, <2>4 DEF Like, Loose
  <2>6. l.err = "ok" => l.hname # NoName
    <3>1. <<"hidden", id>> # NoName
      BY DEF NoName
    <3> QED
      BY <1>2, <1>3, <2>4, <3>1
  <2>7. Alike(nodes, nodes')
    BY <2>1 DEF Alike, Body
  <2>8. Step(r) \in Spoils /\ Step(r) = "hide_name" /\ Advance(r, l)
        /\ work' = work /\ queue' = queue /\ woken' = woken /\ ctr' = ctr /\ known' = known /\ answer' = answer
    BY <2>1, <2>2, <2>4
  <2> QED
    BY <2>2, <2>3, <2>5, <2>6, <2>7, <2>8, QuietRun
<1>10. CASE FsLock(r)
  <2>1. Step(r) \in {"fs_lock", "fs_unlock"} /\ UNCHANGED <<work, queue, woken, ctr, known, answer, nodes>>
    BY <1>10 DEF FsLock, table
  <2>2. Step(r) \in Spoils \ {"pin"} /\ Step(r) \in Calm \ {"pin", "hide_node", "hide_name", "is_open", "list_conflict"}
    BY <2>1 DEF Spoils, Calm
  <2>3. loc[r].err = "ok"
    BY <1>1, <2>2, StepOK
  <2>4. Advance(r, loc[r]) \/ Advance(r, [loc[r] EXCEPT !.err = "EAGAIN"])
    BY <1>10 DEF FsLock
  <2> QED
    BY <1>4, <1>5, <2>1, <2>2, <2>3, <2>4
<1>11. CASE FsFails(r)
  <2>1. /\ Step(r) \in {"touch", "stat", "stat2", "openfs", "make", "link", "unlink", "rmdir", "rename", "hide_rename"}
        /\ UNCHANGED <<work, queue, woken, ctr, known, answer, nodes>> /\ Advance(r, [loc[r] EXCEPT !.err = "EIO"])
    BY <1>11 DEF FsFails, table
  <2>2. Step(r) \in Spoils \ {"pin"} /\ Step(r) \in Calm \ {"pin", "hide_node", "hide_name", "is_open", "list_conflict"}
    BY <2>1 DEF Spoils, Calm
  <2>3. loc[r].err = "ok"
    BY <1>1, <2>2, StepOK
  <2> QED
    BY <1>4, <1>5, <2>1, <2>2, <2>3
<1> QED
  BY <1>7, <1>8, <1>9, <1>10, <1>11 DEF FileSystem

\* What a step on the table leaves alone.
LEMMA TableIs ==
  ASSUME NEW r, NEW l, NEW ns, Table(r, l, ns)
  PROVE  /\ nodes' = ns /\ Advance(r, l) /\ work' = work /\ ctr' = ctr /\ queue' = queue /\ woken' = woken
         /\ known' = known /\ answer' = answer
BY DEF Table, outside

\* A step on the table that leaves marks keeps the invariant.
LEMMA CalmTable ==
  ASSUME IInv, NEW r \in Reqs, Step(r) \in {"is_open", "cache", "list_lock", "list_conflict"}, NEW l, NEW ns,
         Table(r, l, ns), l = loc[r] \/ (Step(r) \in {"is_open", "list_conflict"} /\ \E b \in BOOLEAN : l = [loc[r] EXCEPT !.hide = b]),
         Alike(nodes, ns)
  PROVE  IInv'
<1>1. LocOK(loc[r])
  BY InvIs DEF PlaceOK
<1>2. Like(l, loc[r], Loose) /\ l.err = loc[r].err /\ l.hname = loc[r].hname
      /\ (l.hide = loc[r].hide \/ (Step(r) \in {"is_open", "list_conflict"} /\ l.hide \in BOOLEAN))
  BY <1>1, LocFields DEF Like, Loose, LocOK
<1>3. /\ nodes' = ns /\ Advance(r, l) /\ work' = work /\ ctr' = ctr /\ queue' = queue /\ woken' = woken
      /\ known' = known /\ answer' = answer
  BY TableIs
<1>4. Step(r) \in Calm /\ Step(r) \notin {"pin", "hide_node", "hide_name"}
  BY DEF Calm
<1> QED
  BY <1>2, <1>3, <1>4, QuietRun

\* The sections that find the node of a request that the kernel waits for.
LEMMA NodeThere ==
  ASSUME IInv, NEW r \in Reqs, Step(r) \in {"cache", "list_lock", "list_conflict"}
  PROVE  NodeOf(r) \in DOMAIN nodes
<1>1. Places /\ Running(r) /\ TypeOK
  BY InvIs DEF Step
<1>2. Ordered(Op(r), pc[r], Step(r))
  BY <1>1, RunningOrder
<1>3. (\E t \in Replies : Later(Op(r), pc[r] + 1, t)) /\ Op(r) # "dot" /\ Op(r) # "forget"
  BY <1>2 DEF Ordered
<1>4. r \in Unanswered
  BY <1>1, <1>3, ReplyAhead
<1> QED
  BY <1>3, <1>4, MentionsIn

\* So do the four that do.
LEMMA CalmSections ==
  ASSUME IInv, NEW r \in Reqs, IsOpen(r) \/ Cache(r) \/ ListLock(r) \/ ListConflict(r)
  PROVE  IInv'
<1>1. Alike(nodes, nodes) /\ Places /\ TypeOK /\ TableOK(nodes)
  BY InvIs DEF Alike, Body
<1>2. CASE IsOpen(r)
  <2>1. is_open(r) \in BOOLEAN
    BY DEF is_open
  <2>2. Step(r) = "is_open" /\ Table(r, [loc[r] EXCEPT !.hide = is_open(r)], nodes)
    BY <1>2 DEF IsOpen
  <2> QED
    BY <1>1, <2>1, <2>2, CalmTable
<1>3. CASE Cache(r)
  <2>1. Step(r) = "cache" /\ Table(r, loc[r], nodes)
    BY <1>3, NodeThere DEF Cache, Exists
  <2> QED
    BY <1>1, <2>1, CalmTable
<1>4. CASE ListConflict(r)
  <2>1. Step(r) = "list_conflict" /\ NodeOf(r) \in DOMAIN nodes
    BY <1>4, NodeThere DEF ListConflict
  <2>2. PICK b : b = (Exists(NodeOf(r)) /\ locks_conflict(nodes[NodeOf(r)].locks, LockOf(r)))
    OBVIOUS
  <2>3. b \in BOOLEAN
    BY <2>2
  <2>4. Table(r, [loc[r] EXCEPT !.hide = b], nodes)
    BY <1>4, <2>1, <2>2 DEF ListConflict, Exists
  <2> QED
    BY <1>1, <2>1, <2>3, <2>4, CalmTable
<1>5. CASE ListLock(r)
  <2>1. Step(r) = "list_lock" /\ NodeOf(r) \in DOMAIN nodes
    BY <1>5, NodeThere DEF ListLock
  <2>2. PICK v : v = locks_insert(nodes[NodeOf(r)].locks, LockOf(r))
    OBVIOUS
  <2>3. PICK x : x = NodeOf(r)
    OBVIOUS
  <2>4. Table(r, loc[r], [nodes EXCEPT ![x] = [nodes[x] EXCEPT !.locks = v]])
    BY <1>5, <2>1, <2>2, <2>3 DEF ListLock, Exists
  <2>5. Alike(nodes, [nodes EXCEPT ![x] = [nodes[x] EXCEPT !.locks = v]])
    <3>1. DOMAIN nodes[x] = NodeFieldNames
      BY <1>1, <2>1, <2>3, TableSized DEF Sized
    <3>2. Body([nodes[x] EXCEPT !.locks = v], nodes[x]) /\ [nodes[x] EXCEPT !.locks = v].tree = nodes[x].tree
      BY <3>1, FieldUpdates
    <3> HIDE DEF NodeFieldNames
    <3>3. PICK h : h = [nodes[x] EXCEPT !.locks = v]
      OBVIOUS
    <3> QED
      BY <2>1, <2>3, <3>2, <3>3 DEF Alike, Body
  <2> QED
    BY <2>1, <2>4, <2>5, CalmTable
<1> QED
  BY <1>2, <1>3, <1>4, <1>5

\* The open count of x becomes v; it may be marked as hidden or not.
Opening(ns, ns2, x, v) ==
  \E h : /\ h = [ns[x] EXCEPT !.open = v] \/ \E u : h = [ns[x] EXCEPT !.open = v, !.hidden = u]
         /\ ns2 = [ns EXCEPT ![x] = h]

\* A node's counter of opens changes, and nothing else that counts.
LEMMA OpenUpdate ==
  ASSUME NEW ns, TableOK(ns), NEW x \in DOMAIN ns, NEW v \in Nat, NEW ns2, Opening(ns, ns2, x, v)
  PROVE  Nearly(ns, ns2) /\ \A n \in DOMAIN ns : ns2[n].open = IF n = x THEN v ELSE ns[n].open
<1>0. PICK h : /\ h = [ns[x] EXCEPT !.open = v] \/ \E u : h = [ns[x] EXCEPT !.open = v, !.hidden = u]
               /\ ns2 = [ns EXCEPT ![x] = h]
  BY DEF Opening
<1>1. DOMAIN ns[x] = NodeFieldNames
  BY TableSized DEF Sized
<1>2. /\ DOMAIN h = NodeFieldNames /\ h.open = v /\ h.name = ns[x].name /\ h.parent = ns[x].parent
      /\ h.nlookup = ns[x].nlookup /\ h.refctr = ns[x].refctr /\ h.tree = ns[x].tree
  <2>1. PICK m : m = ns[x]
    OBVIOUS
  <2>2. DOMAIN m = NodeFieldNames
    BY <1>1, <2>1
  <2> HIDE DEF NodeFieldNames
  <2>3. CASE h = [ns[x] EXCEPT !.open = v]
    <3>1. h = [m EXCEPT !.open = v]
      BY <2>1, <2>3
    <3> QED
      BY <2>1, <2>2, <3>1, FieldUpdates
  <2>4. CASE \E u : h = [ns[x] EXCEPT !.open = v, !.hidden = u]
    <3>0. PICK u : h = [ns[x] EXCEPT !.open = v, !.hidden = u]
      BY <2>4
    <3>1. h = [m EXCEPT !.open = v, !.hidden = u]
      BY <2>1, <3>0
    <3> QED
      BY <2>1, <2>2, <3>1, FieldUpdates
  <2> QED
    BY <1>0, <2>3, <2>4
<1>4. DOMAIN ns2 = DOMAIN ns /\ ns2[x] = h /\ \A n \in DOMAIN ns \ {x} : ns2[n] = ns[n]
  BY <1>0
<1>5. \A n \in DOMAIN ns : ns[n].open \in Nat
  BY DEF TableOK, NodeOK
<1> HIDE DEF NodeFieldNames
<1>6. Nearly(ns, ns2) /\ \A n \in DOMAIN ns : ns2[n].open = IF n = x THEN v ELSE ns[n].open
  BY <1>1, <1>2, <1>4, <1>5 DEF Nearly
<1> QED
  BY <1>6

\* A step that counts or uncounts keeps the invariant, if the counts of opens stay true.
LEMMA CountRun ==
  ASSUME IInv, NEW r \in Reqs, Step(r) \in {"count", "uncount"}, NEW l, NEW ns, Table(r, l, ns),
         l = loc[r] \/ \E b, L : l = [loc[r] EXCEPT !.unhide = b, !.late = L]
  PROVE  /\ Moves(r, l)
         /\ Nearly(nodes, ns) /\ OpensOK' => IInv'
<1>1. Places /\ LocOK(loc[r]) /\ QueueOK
  BY InvIs DEF PlaceOK
<1>2. Like(l, loc[r], Loose) /\ l.err = loc[r].err /\ l.hname = loc[r].hname /\ l.hide = loc[r].hide
  BY <1>1, LocFields DEF Like, Loose, LocOK
<1>3. /\ nodes' = ns /\ Advance(r, l) /\ work' = work /\ ctr' = ctr /\ queue' = queue /\ woken' = woken
      /\ known' = known /\ answer' = answer
  BY TableIs
<1>4. Step(r) \notin Replies \cup {"find", "undo", "forget", "hide_node", "pin", "free", "out", "hide_name"} \cup Gets \cup Forgets
  BY DEF Replies, Gets, Forgets
<1>5. Fits(r, l) /\ l.pinned = loc[r].pinned /\ l.intr = loc[r].intr
  BY <1>1, <1>2, <1>4, FitsLike
<1>6. Running(r)
  BY <1>4 DEF Step
<1>7. Moves(r, l)
  BY <1>3, <1>4, <1>5, <1>6 DEF Moves, Answers
<1>8. LocksKept
  BY <1>1, <1>4, <1>7, LocksMoved
<1>9. QueueOK'
  BY <1>1, <1>3, <1>4, <1>7, QueueKept
<1>10. Nearly(nodes, ns) /\ OpensOK' => IInv'
  BY <1>3, <1>4, <1>5, <1>7, <1>8, <1>9, NearStep
<1> QED
  BY <1>7, <1>10

\* Count keeps the invariant: one open more, of one request more.
LEMMA CountInv ==
  ASSUME IInv, NEW r \in Reqs, Count(r)
  PROVE  IInv'
<1>1. Places /\ TypeOK /\ TableOK(nodes) /\ OpensOK /\ LookupsOK
  BY InvIs
<1>2. Step(r) = "count"
  BY DEF Count
<1>3. Running(r) /\ Started(r) /\ loc[r].err = "ok"
  BY <1>1, <1>2, StepOK
<1>4. Op(r) \in {"open", "create"} /\ Later(Op(r), pc[r] + 1, "reply_open") /\ ~Later(Op(r), pc[r], "find")
  <2>1. Ordered(Op(r), pc[r], "count")
    BY <1>1, <1>2, <1>3, RunningOrder
  <2>2. Op(r) \in {"open", "create"}
    BY <2>1 DEF Ordered
  <2>3. Later(Op(r), pc[r] + 1, "reply_open") /\ ~Later(Op(r), pc[r], "find")
    BY <2>1 DEF Ordered
  <2> QED
    BY <2>2, <2>3
<1>5. r \in Unanswered
  BY <1>1, <1>3, <1>4, ReplyAhead DEF Replies
<1>6. PICK x : x = Opened(r)
  OBVIOUS
<1>7. x \in DOMAIN nodes /\ x \in Ids
  <2>1. CASE Op(r) = "open"
    <3>1. x = NodeOf(r)
      BY <1>6, <2>1 DEF Opened, Op
    <3> QED
      BY <1>5, <2>1, <3>1, MentionsIn
  <2>2. CASE Op(r) = "create"
    <3>1. x = loc[r].id
      BY <1>6, <2>2 DEF Opened, Op
    <3>2. ~Ahead(r, "find") /\ Req(r).op \in Finders
      BY <1>4, <2>2, AheadLater DEF Finders, Op
    <3>3. x # None /\ x \in Ids \cup {None}
      BY <1>1, <1>3, <3>1, <3>2 DEF Places, PlaceOK, LocOK
    <3>4. r \in InFlight(x)
      BY <1>5, <3>1 DEF InFlight, Unanswered
    <3> QED
      BY <1>1, <3>3, <3>4, KnownIn
  <2> QED
    BY <1>4, <2>1, <2>2
<1>8. PICK h : h = [nodes[x] EXCEPT !.open = nodes[x].open + 1]
  OBVIOUS
<1>9. PICK ns : ns = [nodes EXCEPT ![x] = h]
  OBVIOUS
<1>10. Table(r, loc[r], ns)
  BY <1>6, <1>7, <1>8, <1>9 DEF Count, Exists
<1>11. nodes[x].open \in Nat
  BY <1>1, <1>7 DEF TableOK, NodeOK
<1>12. Nearly(nodes, ns) /\ \A n \in DOMAIN nodes : ns[n].open = IF n = x THEN nodes[x].open + 1 ELSE nodes[n].open
  <2>1. PICK v \in Nat : v = nodes[x].open + 1
    BY <1>11
  <2>3. Opening(nodes, ns, x, v)
    BY <1>8, <1>9, <2>1 DEF Opening
  <2>4. Nearly(nodes, ns) /\ \A n \in DOMAIN nodes : ns[n].open = IF n = x THEN v ELSE nodes[n].open
    BY <1>1, <1>7, <2>3, OpenUpdate
  <2> QED
    BY <2>1, <2>4
<1>13. Moves(r, loc[r])
  BY <1>2, <1>10, CountRun
<1>14. \A id : r \notin OpenBy(id) /\ OpenBy(id)' = IF x = id THEN OpenBy(id) \cup {r} ELSE OpenBy(id)
  BY <1>1, <1>2, <1>6, <1>13, OpenByMoved
<1>15. nodes' = ns
  BY <1>10, TableIs
<1>16. OpensOK'
  <2>1. SUFFICES ASSUME NEW id \in Ids
                 PROVE  IF id \in DOMAIN nodes' THEN nodes'[id].open = Cardinality(OpenBy(id)') ELSE OpenBy(id)' = {}
    BY DEF OpensOK
  <2>2. IF id \in DOMAIN nodes THEN nodes[id].open = Cardinality(OpenBy(id)) ELSE OpenBy(id) = {}
    BY <1>1 DEF OpensOK
  <2>3. IsFiniteSet(OpenBy(id)) /\ Cardinality(OpenBy(id)) \in Nat
    BY <1>1, Finite, NoneOf
  <2>4. DOMAIN nodes' = DOMAIN nodes
    BY <1>12, <1>15 DEF Nearly
  <2>5. CASE id = x
    <3>1. OpenBy(id)' = OpenBy(id) \cup {r} /\ r \notin OpenBy(id)
      BY <1>14, <2>5
    <3>2. Cardinality(OpenBy(id) \cup {r}) = Cardinality(OpenBy(id)) + 1
      BY <2>3, <3>1, FS_AddElement
    <3> QED
      BY <1>7, <1>12, <1>15, <2>2, <2>4, <2>5, <3>1, <3>2
  <2>6. CASE id # x
    <3>1. OpenBy(id)' = OpenBy(id)
      BY <1>14, <2>6
    <3> QED
      BY <1>12, <1>15, <2>2, <2>4, <2>6, <3>1
  <2> QED
    BY <2>5, <2>6
<1> QED
  BY <1>2, <1>10, <1>12, <1>16, CountRun

\* What fuse_do_release makes of the table and of its locals.
Uncounting(r, x, l, ns) ==
  /\ l = loc[r] \/ \E b, L : l = [loc[r] EXCEPT !.unhide = b, !.late = L]
  /\ x \in DOMAIN nodes /\ nodes[x].open > 0 => \E b : ns = [nodes EXCEPT ![x].open = @ - 1, ![x].hidden = b]

\* Uncount keeps the invariant: one open less, of one request less.
LEMMA UncountInv ==
  ASSUME IInv, NEW r \in Reqs, Uncount(r)
  PROVE  IInv'
<1>1. Places /\ TypeOK /\ TableOK(nodes) /\ OpensOK
  BY InvIs
<1>2. Step(r) = "uncount"
  BY DEF Uncount
<1>3. PICK x : x = Opened(r)
  OBVIOUS
<1>4. PICK l, ns : Table(r, l, ns) /\ Uncounting(r, x, l, ns)
  <2>1. CASE x \in DOMAIN nodes /\ nodes[x].open > 0
    <3>1. PICK last : last = (nodes[x].hidden /\ nodes[x].open = 1)
      OBVIOUS
    <3>2. PICK b : b = (nodes[x].hidden /\ ~last)
      OBVIOUS
    <3>3. PICK ns : ns = [nodes EXCEPT ![x].open = @ - 1, ![x].hidden = b]
      OBVIOUS
    <3>4. PICK l : l = [loc[r] EXCEPT !.unhide = last, !.late = Late]
      OBVIOUS
    <3>5. Table(r, l, ns)
      BY <1>3, <2>1, <3>1, <3>2, <3>3, <3>4 DEF Uncount, Exists
    <3>6. \E c : ns = [nodes EXCEPT ![x].open = @ - 1, ![x].hidden = c]
      BY <3>3
    <3>7. \E c, L : l = [loc[r] EXCEPT !.unhide = c, !.late = L]
      BY <3>4
    <3>8. Uncounting(r, x, l, ns)
      BY <3>6, <3>7 DEF Uncounting
    <3> QED
      BY <3>5, <3>8
  <2>2. CASE ~(x \in DOMAIN nodes /\ nodes[x].open > 0)
    <3>1. Table(r, loc[r], Abort)
      BY <1>3, <2>2 DEF Uncount, Exists
    <3>2. Uncounting(r, x, loc[r], Abort)
      BY <2>2 DEF Uncounting
    <3> QED
      BY <3>1, <3>2
  <2> QED
    BY <2>1, <2>2
<1>5. Moves(r, l) /\ (Nearly(nodes, ns) /\ OpensOK' => IInv')
  BY <1>2, <1>4, CountRun DEF Uncounting
<1>6. PICK q \in OpenBy(x) : \A id : OpenBy(id)' = OpenBy(id) \ {q} /\ (q \in OpenBy(id) => id = x)
  BY <1>1, <1>2, <1>3, <1>5, OpenByMoved
<1>7. x \in Ids
  <2>1. q \in Reqs /\ Op(q) \in {"open", "create"} /\ Counted(q) /\ Opened(q) = x
    BY <1>6 DEF OpenBy, Op
  <2>2. CASE Op(q) = "open"
    <3>1. x = NodeOf(q) /\ Started(q)
      BY <2>1, <2>2 DEF Opened, Op, Counted
    <3> QED
      BY <1>1, <2>1, <3>1, OfFacts
  <2>3. CASE Op(q) = "create"
    <3>1. x = loc[q].id /\ Started(q) /\ ~Ahead(q, "count") /\ loc[q].err = "ok"
      BY <2>1, <2>3 DEF Opened, Op, Counted
    <3>2. ~Ahead(q, "find")
      <4>1. SUFFICES ASSUME Ahead(q, "find") PROVE FALSE
        OBVIOUS
      <4>2. PICK k \in DOMAIN Program(q) : k >= pc[q] /\ Program(q)[k] = "find"
        BY <4>1 DEF Ahead
      <4>3. Ordered(Op(q), k, "find") /\ k \in Nat
        <5>1. Op(q) \in Ops /\ Program(q) = fuse_path_ops[Op(q)]
          BY <1>1, <2>1, OpFacts, AheadLater
        <5>2. \E n \in Nat \ {0} : DOMAIN Program(q) = 1 .. n
          BY <5>1, ProgramSeq
        <5> QED
          BY <4>2, <5>1, <5>2, OrderOf
      <4>4. Later(Op(q), k, "find")
        <5>1. Program(q) = fuse_path_ops[Op(q)]
          BY AheadLater
        <5> QED
          BY <4>2, <4>3, <5>1 DEF Later
      <4>5. Later(Op(q), k + 1, "count")
        BY <2>3, <4>3, <4>4 DEF Ordered
      <4>6. Later(Op(q), pc[q], "count")
        <5>1. pc[q] \in Nat /\ \E n \in Nat \ {0} : DOMAIN fuse_path_ops[Op(q)] = 1 .. n
          BY <1>1, <2>1, OpFacts, ProgramSeq DEF TypeOK
        <5> QED
          BY <4>2, <4>3, <4>5, <5>1 DEF Later
      <4> QED
        BY <3>1, <4>6, AheadLater
    <3>3. Req(q).op \in Finders
      BY <2>3 DEF Op, Finders
    <3> QED
      BY <1>1, <2>1, <3>1, <3>2, <3>3 DEF Places, PlaceOK, LocOK
  <2> QED
    BY <2>1, <2>2, <2>3
<1>8. x \in DOMAIN nodes /\ nodes[x].open = Cardinality(OpenBy(x)) /\ nodes[x].open \in Nat /\ nodes[x].open > 0
  <2>1. x \in DOMAIN nodes /\ nodes[x].open = Cardinality(OpenBy(x))
    BY <1>1, <1>6, <1>7 DEF OpensOK
  <2>2. IsFiniteSet(OpenBy(x))
    BY <1>1, Finite
  <2> QED
    BY <1>6, <2>1, <2>2, NoneOf
<1>9. PICK b : ns = [nodes EXCEPT ![x].open = @ - 1, ![x].hidden = b]
  BY <1>4, <1>8 DEF Uncounting
<1>10. PICK v \in Nat : v = nodes[x].open - 1
  BY <1>8
<1>11. PICK h : h = [nodes[x] EXCEPT !.open = v, !.hidden = b]
  OBVIOUS
<1>12. ns = [nodes EXCEPT ![x] = h]
  BY <1>8, <1>9, <1>10, <1>11
<1>13. Nearly(nodes, ns) /\ \A n \in DOMAIN nodes : ns[n].open = IF n = x THEN v ELSE nodes[n].open
  <2>1. Opening(nodes, ns, x, v)
    BY <1>11, <1>12 DEF Opening
  <2> QED
    BY <1>1, <1>8, <2>1, OpenUpdate
<1>14. nodes' = ns
  BY <1>4, TableIs
<1>15. OpensOK'
  <2>1. SUFFICES ASSUME NEW id \in Ids
                 PROVE  IF id \in DOMAIN nodes' THEN nodes'[id].open = Cardinality(OpenBy(id)') ELSE OpenBy(id)' = {}
    BY DEF OpensOK
  <2>2. IF id \in DOMAIN nodes THEN nodes[id].open = Cardinality(OpenBy(id)) ELSE OpenBy(id) = {}
    BY <1>1 DEF OpensOK
  <2>3. IsFiniteSet(OpenBy(id)) /\ Cardinality(OpenBy(id)) \in Nat
    BY <1>1, Finite, NoneOf
  <2>4. DOMAIN nodes' = DOMAIN nodes
    BY <1>13, <1>14 DEF Nearly
  <2>5. CASE id = x
    <3>1. OpenBy(id)' = OpenBy(id) \ {q} /\ q \in OpenBy(id)
      BY <1>6, <2>5
    <3>2. Cardinality(OpenBy(id) \ {q}) = Cardinality(OpenBy(id)) - 1
      BY <2>3, <3>1, FS_RemoveElement
    <3> QED
      BY <1>8, <1>10, <1>13, <1>14, <2>2, <2>4, <2>5, <3>1, <3>2
  <2>6. CASE id # x
    <3>1. OpenBy(id)' = OpenBy(id)
      BY <1>6, <2>6
    <3> QED
      BY <1>13, <1>14, <2>2, <2>4, <2>6, <3>1
  <2> QED
    BY <2>5, <2>6
<1> QED
  BY <1>5, <1>13, <1>15

\* A node without lookups is nobody's.
LEMMA Nobodys ==
  ASSUME IInv, NEW id \in DOMAIN nodes, nodes[id].nlookup = 0
  PROVE  /\ id # Root /\ id \in Ids /\ nodes[id].name = NoName /\ nodes[id].tree = 0
         /\ known[id] = 0 /\ InFlight(id) = {} /\ Returning(id) = {}
         /\ Readers(id) = {} /\ Writers(id) = {} /\ OpenBy(id) = {}
         /\ \A p \in Paths : id \notin Above(nodes, Base(p))
<1>1. Places /\ TreesOK /\ LookupsOK /\ HeldOK /\ TableOK(nodes)
  BY InvIs
<1>2. id # Root /\ id \in Ids /\ nodes[id].name = NoName /\ nodes[id].tree = 0
  BY <1>1 DEF TableOK, NodeOK
<1>3. Readers(id) = {} /\ Writers(id) = {}
  <2>1. nodes[id].tree = IF Writers(id) # {} THEN -1 ELSE Cardinality(Readers(id))
    BY <1>1, <1>2 DEF TreesOK
  <2>2. IsFiniteSet(Readers(id))
    BY <1>1, Finite
  <2> QED
    BY <1>2, <2>1, <2>2, NoneOf
<1>4. known[id] = 0 /\ InFlight(id) = {} /\ Returning(id) = {}
  <2>1. ~Holds(id) /\ InFlight(id) = {}
    BY <1>1, <1>2, KnownIn
  <2>2. 0 >= known[id] + Cardinality(InFlight(id)) + Cardinality(Returning(id)) /\ known[id] \in Nat
    BY <1>1, <1>2, KnownIn, LookupsIs
  <2>3. IsFiniteSet(InFlight(id)) /\ IsFiniteSet(Returning(id))
    BY <1>1, Finite
  <2>4. Cardinality(InFlight(id)) \in Nat /\ Cardinality(Returning(id)) \in Nat
    BY <2>3, NoneOf
  <2>5. known[id] = 0 /\ Cardinality(Returning(id)) = 0
    BY <2>2, <2>4
  <2> QED
    BY <2>1, <2>3, <2>5, NoneOf
<1>5. OpenBy(id) = {}
  <2>1. SUFFICES ASSUME NEW q \in OpenBy(id) PROVE FALSE
    OBVIOUS
  <2>2. known[id] > 0 \/ Readers(id) # {} \/ q \in InFlight(id)
    BY <1>1, <1>2, OpenHeld
  <2> QED
    BY <1>3, <1>4, <2>2
<1>6. \A p \in Paths : id \notin Above(nodes, Base(p))
  BY <1>1, <1>3, PathsIn
<1> QED
  BY <1>2, <1>3, <1>4, <1>5, <1>6

\* A step that changes only references, and drops what nobody looks up.
LEMMA PinStep ==
  ASSUME IInv, NEW r, NEW l, Moves(r, l), Step(r) \in {"pin", "unpin"}, TableOK(nodes'), NamesStay(nodes, nodes'), RefsOK',
         \A n \in DOMAIN nodes' : /\ nodes'[n].nlookup = nodes[n].nlookup /\ nodes'[n].tree = nodes[n].tree
                                  /\ nodes'[n].open = nodes[n].open,
         \A n \in DOMAIN nodes \ DOMAIN nodes' : nodes[n].nlookup = 0,
         known' = known, ctr' = ctr, queue' = queue, woken' = woken
  PROVE  IInv'
<1>1. /\ Places /\ TypeOK /\ HeldOK /\ \A q \in Reqs : NamesOK(q)
      /\ known \in [1 .. MaxId -> Nat] /\ ctr \in 0 .. MaxId /\ TableOK(nodes) /\ QueueOK
      /\ TreesOK /\ PathStable /\ OpensOK /\ nodes # Abort
  BY InvIs
<1>2. Step(r) \notin Gets \cup Forgets \cup Replies \cup {"free", "find", "undo", "forget", "count", "uncount", "hide_node"}
  BY DEF Gets, Forgets, Replies
<1>3. DOMAIN nodes' \subseteq DOMAIN nodes
  BY DEF NamesStay
<1>4. PICK X : X = DOMAIN nodes \ DOMAIN nodes'
  OBVIOUS
<1>5. \A n \in X : /\ n # Root /\ nodes[n].name = NoName /\ nodes[n].tree = 0 /\ Writers(n) = {} /\ OpenBy(n) = {}
                   /\ \A p \in Paths : n \notin Above(nodes, Base(p))
  BY <1>4, Nobodys
<1>6. TreesOK' /\ PathStable'
  <2>1. LocksKept
    BY <1>1, <1>2, LocksMoved
  <2>2. \A q \in Reqs : loc[q].locked => {loc[q].w, loc[q].w2} \subseteq DOMAIN nodes' \cup {None}
    <3>1. \A q \in Reqs : loc[q].locked => {loc[q].w, loc[q].w2} \subseteq DOMAIN nodes \cup {None}
      BY <1>1 DEF TreesOK
    <3>2. \A q \in Reqs : loc[q].locked => q \in Writers(loc[q].w) /\ q \in Writers(loc[q].w2)
      BY DEF Writers
    <3> QED
      BY <1>4, <1>5, <3>1, <3>2
  <2>3. \A n \in DOMAIN nodes \ X : n \in DOMAIN nodes' /\ nodes'[n].name = nodes[n].name /\ nodes'[n].parent = nodes[n].parent
    BY <1>4 DEF NamesStay
  <2>4. \A p \in Paths : Above(nodes, Base(p)) \cap X = {}
    BY <1>5
  <2>5. \A n \in DOMAIN nodes' : nodes'[n].tree = IF n \in DOMAIN nodes THEN nodes[n].tree ELSE 0
    BY <1>3
  <2> QED
    BY <1>1, <2>1, <2>2, <2>3, <2>4, <2>5, TreesKept
<1>7. LookupsOK'
  <2>1. ASSUME NEW id \in Ids \ {Root} PROVE Weight(nodes', id, Kept) = Weight(nodes, id, Kept)
    <3>1. CASE id \in DOMAIN nodes'
      BY <1>3, <3>1 DEF Weight, NamesStay
    <3>2. CASE id \in X
      BY <1>4, <1>5, <3>2 DEF Weight
    <3>3. CASE id \notin DOMAIN nodes
      BY <1>3, <3>3 DEF Weight
    <3> QED
      BY <1>4, <3>1, <3>2, <3>3
  <2> QED
    BY <1>2, <2>1, LookupsQuiet
<1>8. HeldOK'
  <2>1. MoreKnown
    <3>1. \A id \in 1 .. MaxId : known[id] \in Nat
      BY <1>1
    <3>2. \A id \in 1 .. MaxId : known'[id] >= known[id]
      BY <3>1
    <3> QED
      BY <1>1, <3>2 DEF MoreKnown
  <2> QED
    BY <1>1, <1>2, <2>1, HeldMoved
<1>9. OpensOK'
  <2>1. \A id \in Ids : /\ id \in DOMAIN nodes' => nodes'[id].open = IF id \in DOMAIN nodes THEN nodes[id].open ELSE 0
                        /\ id \in DOMAIN nodes \ DOMAIN nodes' => OpenBy(id) = {}
    BY <1>3, <1>4, <1>5
  <2> QED
    BY <1>1, <1>2, <2>1, OpensKept
<1>10. \A q \in Reqs : NamesOK(q)'
  <2>1. ASSUME NEW q \in Reqs, loc[q].locked, Renaming(q), NEW y \in Claims(q), Stranger(y) PROVE StaysStrange(y, r, l)
    <3>1. y \in DOMAIN nodes /\ known[y] = 0 /\ nodes[y].tree = 0 /\ Children(y) = {} /\ y # Root
      BY <2>1 DEF Stranger
    <3>2. y \notin X
      <4>1. Started(q)
        BY <1>1, <2>1 DEF Places, PlaceOK, NoLoc
      <4>2. Doomed(q)[2] # NoName /\ Req(q).nm # NoName
        BY <1>1, <2>1, <4>1, DirsHeld
      <4>3. nodes[y].name \in {Doomed(q)[2], Req(q).nm}
        <5>1. y # None
          BY <1>1, <3>1, NotAborted
        <5> QED
          BY <1>1, <2>1, <4>2, <5>1, LookupFacts DEF Claims, Doom
      <4> QED
        BY <1>5, <4>2, <4>3
    <3>3. y \in DOMAIN nodes' /\ nodes'[y].tree = 0
      BY <1>4, <3>1, <3>2
    <3>4. Children(y)' = {}
      BY <1>3, <3>1 DEF Children, ChildrenIn, NamesStay
    <3> QED
      BY <1>2, <3>1, <3>3, <3>4 DEF StaysStrange
  <2> QED
    BY <1>1, <1>2, <2>1, NamesQuiet
<1>11. QueueOK'
  BY <1>1, <1>2, QueueKept
<1> QED
  BY <1>1, <1>6, <1>7, <1>8, <1>9, <1>10, <1>11, MoveInv

\* Pin keeps the invariant.
LEMMA PinInv ==
  ASSUME IInv, NEW r \in Reqs, Pin(r)
  PROVE  IInv'
<1>1. Places /\ TypeOK /\ TableOK(nodes) /\ RefsOK /\ LocOK(loc[r])
  BY InvIs DEF PlaceOK
<1>2. Step(r) = "pin" /\ Running(r)
  BY DEF Pin, Step
<1>3. DOMAIN loc[r] = DOMAIN NoLoc
  BY <1>1 DEF LocOK
<1>4. PICK x : x = NodeOf(r)
  OBVIOUS
<1>5. CASE x \notin DOMAIN nodes
  <2>1. PICK l : l = [loc[r] EXCEPT !.err = "ESTALE"]
    OBVIOUS
  <2>2. Table(r, l, nodes)
    BY <1>4, <1>5, <2>1 DEF Pin, Exists
  <2>3. Like(l, loc[r], Loose) /\ l.err = "ESTALE" /\ l.hname = loc[r].hname /\ l.hide = loc[r].hide
    BY <1>3, <2>1, LocFields DEF Like, Loose
  <2>4. /\ nodes' = nodes /\ Advance(r, l) /\ work' = work /\ ctr' = ctr /\ queue' = queue /\ woken' = woken
        /\ known' = known /\ answer' = answer
    BY <2>2, TableIs
  <2>5. Alike(nodes, nodes')
    BY <2>4 DEF Alike, Body
  <2>6. Step(r) \in Calm /\ Step(r) \in Spoils /\ Step(r) # "hide_name"
    BY <1>2 DEF Calm, Spoils
  <2>7. l.err # "ok"
    BY <2>3
  <2> QED
    BY <2>3, <2>4, <2>5, <2>6, <2>7, QuietRun
<1>6. CASE x \in DOMAIN nodes
  <2>1. PICK l : l = [loc[r] EXCEPT !.pinned = TRUE]
    OBVIOUS
  <2>2. PICK v : v = nodes[x].refctr + 1
    OBVIOUS
  <2>3. PICK h : h = [nodes[x] EXCEPT !.refctr = v]
    OBVIOUS
  <2>4. PICK ns : ns = [nodes EXCEPT ![x] = h]
    OBVIOUS
  <2>5. Table(r, l, ns)
    BY <1>4, <1>6, <2>1, <2>2, <2>3, <2>4 DEF Pin, Exists
  <2>6. /\ nodes' = ns /\ Advance(r, l) /\ work' = work /\ ctr' = ctr /\ queue' = queue /\ woken' = woken
        /\ known' = known /\ answer' = answer
    BY <2>5, TableIs
  <2>7. Like(l, loc[r], {"pinned"}) /\ l.pinned = TRUE
    BY <1>3, <2>1, LocFields DEF Like
  <2>8. /\ l.locked = loc[r].locked /\ l.path = loc[r].path /\ l.path2 = loc[r].path2 /\ l.w = loc[r].w /\ l.w2 = loc[r].w2
        /\ l.id = loc[r].id /\ l.intr = loc[r].intr /\ l.n = loc[r].n /\ l.victim = loc[r].victim
        /\ l.err = loc[r].err /\ l.hide = loc[r].hide /\ l.hname = loc[r].hname /\ DOMAIN l = DOMAIN NoLoc
    BY <1>3, <2>7, LocFields DEF Like
  <2>9. LocOK(l)
    BY <1>1, <2>7, <2>8 DEF LocOK
  <2>10. Moves(r, l)
    <3>1. "pin" \notin Gets \cup Replies \cup {"find", "free", "unpin", "hide_name"}
      BY DEF Gets, Replies
    <3>2. Fits(r, l)
      BY <1>2, <2>7, <2>8, <2>9, <3>1 DEF Fits, Replies
    <3> QED
      BY <1>2, <2>6, <2>8, <3>1, <3>2 DEF Moves, Answers
  <2>11. DOMAIN nodes[x] = NodeFieldNames
    BY <1>1, <1>6, TableSized DEF Sized
  <2>12. /\ DOMAIN h = NodeFieldNames /\ h.refctr = v /\ h.name = nodes[x].name /\ h.parent = nodes[x].parent
         /\ h.nlookup = nodes[x].nlookup /\ h.open = nodes[x].open /\ h.tree = nodes[x].tree
    <3>1. PICK m : m = nodes[x]
      OBVIOUS
    <3>2. DOMAIN m = NodeFieldNames /\ h = [m EXCEPT !.refctr = v]
      BY <2>3, <2>11, <3>1
    <3> HIDE DEF NodeFieldNames
    <3> QED
      BY <3>1, <3>2, FieldUpdates
  <2> HIDE DEF NodeFieldNames
  <2>13. /\ DOMAIN nodes' = DOMAIN nodes
         /\ \A n \in DOMAIN nodes : nodes'[n] = IF n = x THEN h ELSE nodes[n]
    BY <1>6, <2>4, <2>6
  <2>14. \A n \in DOMAIN nodes : NodeOK(nodes[n])
    BY <1>1 DEF TableOK
  <2>15. v \in Nat
    BY <1>6, <2>2, <2>14 DEF NodeOK
  <2>16. \A n \in DOMAIN nodes : /\ nodes'[n].name = nodes[n].name /\ nodes'[n].parent = nodes[n].parent
                                 /\ nodes'[n].nlookup = nodes[n].nlookup /\ nodes'[n].tree = nodes[n].tree /\ nodes'[n].open = nodes[n].open
                                 /\ nodes'[n].refctr = nodes[n].refctr + (IF n = x THEN 1 ELSE 0)
                                 /\ DOMAIN nodes'[n] = DOMAIN nodes[n]
    BY <2>2, <2>11, <2>12, <2>13, <2>14 DEF NodeOK
  <2>17. TableOK(nodes')
    <3>1. \A n \in DOMAIN nodes : NodeOK(nodes'[n])
      BY <2>14, <2>16 DEF NodeOK
    <3>2. nodes'[Root].nlookup > 0 /\ nodes'[Root].tree = 0
      BY <1>1, <2>16 DEF TableOK
    <3> QED
      BY <1>1, <2>13, <2>16, <3>1, <3>2, LikeTable
  <2>18. NamesStay(nodes, nodes')
    BY <2>13, <2>16 DEF NamesStay
  <2>19. RefsOK'
    BY <1>1, <1>2, <1>4, <1>6, <2>7, <2>10, <2>13, <2>16, RefsPinned
  <2> QED
    BY <1>2, <2>6, <2>10, <2>13, <2>16, <2>17, <2>18, <2>19, PinStep
<1> QED
  BY <1>5, <1>6

\* Unpin keeps the invariant.
LEMMA UnpinInv ==
  ASSUME IInv, NEW r \in Reqs, Unpin(r)
  PROVE  IInv'
<1>1. Places /\ TypeOK /\ TableOK(nodes) /\ RefsOK /\ PlaceOK(r) /\ LocOK(loc[r])
  BY InvIs DEF PlaceOK
<1>2. Step(r) = "unpin" /\ Running(r) /\ Started(r)
  <2>1. Step(r) = "unpin" /\ Running(r)
    BY DEF Unpin, Step
  <2> QED
    BY <1>1, <2>1, RunningOrder
<1>3. DOMAIN loc[r] = DOMAIN NoLoc
  BY <1>1 DEF LocOK
<1>4. PICK x : x = NodeOf(r)
  OBVIOUS
<1>5. PICK l : l = [loc[r] EXCEPT !.pinned = FALSE]
  OBVIOUS
<1>6. PICK ns : ns = unref_node(nodes, x)
  OBVIOUS
<1>7. /\ nodes' = ns /\ Advance(r, l) /\ work' = work /\ ctr' = ctr /\ queue' = queue /\ woken' = woken
      /\ known' = known /\ answer' = answer
  BY <1>4, <1>5, <1>6, TableIs DEF Unpin
<1>8. loc[r].pinned /\ r \in Pinners(x) /\ x \in DOMAIN nodes
  <2>1. Applies(r, "unpin", loc[r])
    BY <1>1, <1>2 DEF PlaceOK
  <2>2. loc[r].pinned
    BY <2>1 DEF Applies
  <2> QED
    BY <1>1, <1>4, <2>2 DEF RefsOK, Pinners
<1>9. Like(l, loc[r], {"pinned"}) /\ l.pinned = FALSE
  BY <1>3, <1>5, LocFields DEF Like
<1>10. /\ l.locked = loc[r].locked /\ l.path = loc[r].path /\ l.path2 = loc[r].path2 /\ l.w = loc[r].w /\ l.w2 = loc[r].w2
      /\ l.id = loc[r].id /\ l.intr = loc[r].intr /\ l.n = loc[r].n /\ l.victim = loc[r].victim
      /\ l.err = loc[r].err /\ l.hide = loc[r].hide /\ l.hname = loc[r].hname /\ DOMAIN l = DOMAIN NoLoc
  BY <1>3, <1>9, LocFields DEF Like
<1>11. LocOK(l)
  BY <1>1, <1>9, <1>10 DEF LocOK
<1>12. Moves(r, l)
  <2>1. "unpin" \notin Gets \cup Replies \cup {"find", "free", "pin", "hide_name"}
    BY DEF Gets, Replies
  <2>2. Fits(r, l)
    BY <1>2, <1>9, <1>10, <1>11, <2>1 DEF Fits, Replies
  <2> QED
    BY <1>2, <1>7, <1>10, <2>1, <2>2 DEF Moves, Answers
<1>13. nodes[x].refctr = Cardinality(Children(x)) + (IF nodes[x].nlookup > 0 THEN 1 ELSE 0) + Cardinality(Pinners(x))
  BY <1>1, <1>8 DEF RefsOK
<1>14. /\ Cardinality(Children(x)) \in Nat /\ Cardinality(Pinners(x)) \in Nat /\ Cardinality(Pinners(x)) # 0
       /\ nodes[x].nlookup \in Nat
  <2>1. IsFiniteSet(Children(x)) /\ IsFiniteSet(Pinners(x))
    BY <1>1, Finite
  <2> QED
    BY <1>1, <1>8, <2>1, NoneOf DEF TableOK, NodeOK
<1>15. nodes[x].refctr > 0 /\ (nodes[x].refctr = 1 => nodes[x].nlookup = 0)
  BY <1>13, <1>14
<1>16. nodes[x].refctr = 1 => nodes[x].tree = 0 /\ nodes[x].name = NoName /\ x # Root
  BY <1>8, <1>15, Nobodys
<1>17. Unreffed(nodes, nodes', x)
  BY <1>1, <1>6, <1>7, <1>8, <1>15, <1>16, TableSized, UnrefFacts
<1>18. /\ DOMAIN nodes' \subseteq DOMAIN nodes
       /\ DOMAIN nodes \ DOMAIN nodes' = IF nodes[x].refctr = 1 THEN {x} ELSE {}
       /\ \A n \in DOMAIN nodes' :
            /\ nodes'[n].name = nodes[n].name /\ nodes'[n].parent = nodes[n].parent
            /\ nodes'[n].nlookup = nodes[n].nlookup /\ nodes'[n].tree = nodes[n].tree /\ nodes'[n].open = nodes[n].open
            /\ nodes'[n].refctr = nodes[n].refctr - (IF n = x THEN 1 ELSE 0)
            /\ DOMAIN nodes'[n] = NodeFieldNames
  BY <1>8, <1>17 DEF Unreffed, But
<1>19. NamesStay(nodes, nodes')
  BY <1>16, <1>18 DEF NamesStay
<1>20. TableOK(nodes')
  <2>1. Root \in DOMAIN nodes' /\ nodes'[Root].nlookup > 0 /\ nodes'[Root].tree = 0
    BY <1>1, <1>16, <1>18 DEF TableOK
  <2>2. \A n \in DOMAIN nodes' : NodeOK(nodes'[n])
    <3>1. \A n \in DOMAIN nodes : NodeOK(nodes[n])
      BY <1>1 DEF TableOK
    <3>2. \A n \in DOMAIN nodes : nodes[n].refctr \in Nat
      BY <3>1 DEF NodeOK
    <3>3. \A n \in DOMAIN nodes' : nodes'[n].refctr \in Nat
      BY <1>15, <1>18, <3>2
    <3>4. DOMAIN Node(NoName, None, 0, 0) = NodeFieldNames
      BY NodeFields DEF NodeFieldNames
    <3> HIDE DEF NodeFieldNames
    <3> QED
      BY <1>18, <3>1, <3>3, <3>4 DEF NodeOK
  <2>3. CASE nodes[x].refctr = 1
    <3>1. Children(x) = {}
      <4>1. Cardinality(Children(x)) = 0
        BY <1>13, <1>14, <2>3
      <4> QED
        BY <1>1, <4>1, Finite, NoneOf
    <3>2. \A n \in DOMAIN nodes' : nodes'[n].name # NoName => nodes'[n].parent \in DOMAIN nodes'
      <4>1. \A n \in DOMAIN nodes : nodes[n].name # NoName => nodes[n].parent \in DOMAIN nodes
        BY <1>1 DEF TableOK
      <4>2. \A n \in DOMAIN nodes : nodes[n].parent # x
        BY <3>1 DEF Children, ChildrenIn
      <4> QED
        BY <1>18, <2>3, <4>1, <4>2
    <3>3. x \notin DOMAIN nodes' /\ x # Root
      BY <1>16, <1>18, <2>3
    <3> QED
      BY <1>1, <1>18, <2>1, <2>2, <3>2, <3>3, CutTable
  <2>4. CASE nodes[x].refctr # 1
    <3>1. DOMAIN nodes' = DOMAIN nodes
      BY <1>18, <2>4
    <3> QED
      BY <1>1, <1>18, <2>1, <2>2, <3>1, LikeTable
  <2> QED
    BY <2>3, <2>4
<1>21. RefsOK'
  BY <1>1, <1>2, <1>4, <1>8, <1>12, <1>17, <1>20, RefsUnpinned
<1>22. \A n \in DOMAIN nodes \ DOMAIN nodes' : nodes[n].nlookup = 0
  BY <1>15, <1>18
<1> QED
  BY <1>2, <1>7, <1>12, <1>18, <1>19, <1>20, <1>21, <1>22, PinStep

(***************************************************************************)
(* A path is given back.                                                   *)
(***************************************************************************)

\* The obvious parts of the invariant after a step that leaves the kernel's references alone.
LEMMA SameKnown ==
  ASSUME IInv, known' = known
  PROVE  MoreKnown /\ known' \in [1 .. MaxId -> Nat]
<1>1. known \in [1 .. MaxId -> Nat]
  BY InvIs
<1>2. \A id \in 1 .. MaxId : known[id] \in Nat
  BY <1>1
<1>3. \A id \in 1 .. MaxId : known'[id] >= known[id]
  BY <1>2
<1> QED
  BY <1>1, <1>3 DEF MoreKnown

\* Where a request is when it has given its path back.
LEMMA FreeMoves ==
  ASSUME IInv, NEW r \in Reqs, Free(r), NEW l, l = [loc[r] EXCEPT !.locked = FALSE]
  PROVE  /\ Moves(r, l) /\ Step(r) = "free" /\ loc[r].locked /\ l.pinned = loc[r].pinned /\ ~l.locked
         /\ l.err = loc[r].err
<1>1. Places /\ TypeOK /\ LocOK(loc[r]) /\ PlaceOK(r)
  BY InvIs DEF PlaceOK
<1>2. Step(r) = "free" /\ Running(r)
  BY DEF Free, Step
<1>3. DOMAIN loc[r] = DOMAIN NoLoc
  BY <1>1 DEF LocOK
<1>4. Started(r)
  BY <1>1, <1>2, RunningOrder
<1>5. loc[r].locked
  <2>1. Applies(r, "free", loc[r])
    BY <1>1, <1>2, <1>4 DEF PlaceOK
  <2> QED
    BY <2>1 DEF Applies
<1>6. Like(l, loc[r], {"locked"}) /\ l.locked = FALSE
  BY <1>3, LocFields DEF Like
<1>7. /\ l.path = loc[r].path /\ l.path2 = loc[r].path2 /\ l.w = loc[r].w /\ l.w2 = loc[r].w2
      /\ l.id = loc[r].id /\ l.intr = loc[r].intr /\ l.n = loc[r].n /\ l.victim = loc[r].victim /\ l.pinned = loc[r].pinned
      /\ l.err = loc[r].err /\ l.hide = loc[r].hide /\ l.hname = loc[r].hname /\ DOMAIN l = DOMAIN NoLoc
  BY <1>3, <1>6, LocFields DEF Like
<1>8. LocOK(l)
  BY <1>1, <1>6, <1>7 DEF LocOK
<1>9. "free" \notin Gets \cup Replies \cup {"find", "pin", "unpin", "hide_name"}
  BY DEF Gets, Replies
<1>10. Fits(r, l)
  BY <1>2, <1>6, <1>7, <1>8, <1>9 DEF Fits, Replies
<1>11. Advance(r, l) /\ work' = work /\ answer' = answer
  BY DEF Free, outside
<1> QED
  BY <1>2, <1>5, <1>6, <1>7, <1>9, <1>10, <1>11 DEF Moves, Answers

\* Free keeps the invariant.
LEMMA FreeInv ==
  ASSUME IInv, NEW r \in Reqs, Free(r)
  PROVE  IInv'
<1>1. /\ Places /\ QueueOK /\ RefsOK /\ TreesOK /\ HeldOK /\ OpensOK /\ PathStable /\ nodes # Abort /\ TableOK(nodes)
      /\ (\A q \in Reqs : NamesOK(q)) /\ ctr \in 0 .. MaxId
  BY InvIs
<1>2. PICK l : l = [loc[r] EXCEPT !.locked = FALSE]
  OBVIOUS
<1>3. Moves(r, l) /\ Step(r) = "free" /\ loc[r].locked /\ l.pinned = loc[r].pinned /\ ~l.locked
  BY <1>2, FreeMoves
<1>4. PICK a1 : a1 = Above(nodes, NodeOf(r))
  OBVIOUS
<1>5. PICK a2 : a2 = IF TwoPaths(r) THEN Above(nodes, Req(r).n2) ELSE {}
  OBVIOUS
<1>6. PICK w1 : w1 = loc[r].w
  OBVIOUS
<1>7. PICK w2 : w2 = loc[r].w2
  OBVIOUS
<1>8. TableOK(nodes') /\ SameShape(nodes, nodes') /\ Freed(nodes, nodes', a1, a2, w1, w2)
  <2>1. PICK one : one = unlock_path(nodes, NodeOf(r), loc[r].w, 0)
    OBVIOUS
  <2>2. PICK two : two = IF TwoPaths(r) THEN unlock_path(one, Req(r).n2, loc[r].w2, 0) ELSE one
    OBVIOUS
  <2>3. nodes' = two
    BY <2>1, <2>2 DEF Free, TwoPaths
  <2> QED
    BY <1>1, <1>3, <1>4, <1>5, <1>6, <1>7, <2>1, <2>2, <2>3, FreeFacts
<1>9. known' = known /\ ctr' = ctr /\ queue' = queue /\ woken' \subseteq woken \cup {queue[k] : k \in DOMAIN queue}
  BY DEF Free, outside
<1>10. TreesOK' /\ PathStable'
  BY <1>1, <1>3, <1>4, <1>5, <1>6, <1>7, <1>8, TreesFreed
<1>11. DOMAIN nodes' = DOMAIN nodes /\ \A n \in DOMAIN nodes : Body(nodes'[n], nodes[n])
  BY <1>8 DEF Freed
<1>12. RefsOK'
  <2>1. Balanced(nodes, nodes')
    BY <1>11, BalancedSame DEF Body
  <2> QED
    BY <1>1, <1>3, <1>8, <1>11, <2>1, RefsKept
<1>13. "free" \notin Gets \cup Forgets \cup Replies \cup {"find", "undo", "forget", "count", "uncount", "hide_node"}
  BY DEF Gets, Forgets, Replies
<1>14. OpensOK'
  BY <1>1, <1>3, <1>11, <1>13, OpensKept DEF Body
<1>15. LookupsOK'
  <2>1. \A id \in Ids \ {Root} : Weight(nodes', id, Kept) = Weight(nodes, id, Kept)
    BY <1>11 DEF Weight, Body
  <2> QED
    BY <1>3, <1>8, <1>9, <1>13, <2>1, LookupsQuiet
<1>16. HeldOK' /\ known' \in [1 .. MaxId -> Nat]
  <2>1. MoreKnown /\ known' \in [1 .. MaxId -> Nat]
    BY <1>9, SameKnown
  <2> QED
    BY <1>1, <1>3, <1>13, <2>1, HeldMoved
<1>17. QueueOK'
  BY <1>1, <1>3, <1>9, <1>13, QueueKept
<1>18. \A y : Stranger(y) => StaysStrange(y, r, l)
  <2>1. ASSUME NEW y, Stranger(y) PROVE StaysStrange(y, r, l)
    <3>1. y \in DOMAIN nodes \ {Root} /\ nodes[y].tree = 0 /\ known[y] = 0 /\ Children(y) = {}
      BY <2>1 DEF Stranger
    <3>2. Readers(y) = {}
      BY <1>1, <3>1, Finite, NoneOf DEF TreesOK
    <3>3. y \notin a1
      <4>1. PICK p : p = <<r, 1>>
        OBVIOUS
      <4>2. p \in Paths /\ Base(p) = NodeOf(r)
        BY <1>3, <4>1 DEF Paths, Base
      <4> QED
        BY <1>1, <1>4, <3>2, <4>2, PathsIn
    <3>4. y \notin a2
      <4>1. CASE TwoPaths(r)
        <5>1. PICK p : p = <<r, 2>>
          OBVIOUS
        <5>2. p \in Paths /\ Base(p) = Req(r).n2
          BY <1>3, <4>1, <5>1 DEF Paths, Base, TwoPaths
        <5> QED
          BY <1>1, <1>5, <3>2, <4>1, <5>2, PathsIn
      <4>2. CASE ~TwoPaths(r)
        BY <1>5, <4>2
      <4> QED
        BY <4>1, <4>2
    <3>5. nodes'[y].tree = 0 /\ y \in DOMAIN nodes'
      BY <1>8, <3>1, <3>3, <3>4 DEF Freed
    <3>6. Children(y)' = {}
      BY <1>8, <3>1 DEF Children, SameShape
    <3> QED
      BY <1>3, <1>9, <3>1, <3>5, <3>6 DEF StaysStrange
  <2> QED
    BY <2>1
<1>19. \A q \in Reqs : NamesOK(q)'
  <2>1. NamesStay(nodes, nodes')
    BY <1>11 DEF NamesStay, Body
  <2> QED
    BY <1>1, <1>3, <1>8, <1>13, <1>18, <2>1, NamesQuiet
<1> QED
  BY <1>1, <1>3, <1>8, <1>9, <1>10, <1>12, <1>14, <1>15, <1>16, <1>17, <1>19, MoveInv

(***************************************************************************)
(* A node is found.                                                        *)
(***************************************************************************)

\* Where lookup_path looks, and for which name.
FindDir(r) == IF Op(r) = "link" THEN Req(r).n2 ELSE NodeOf(r)
\* The name a handler finds.
FindName(r) == IF Op(r) = "link" THEN Req(r).nm2 ELSE Named1(r)

\* A later step whose turn will come is ahead.
LEMMA LaterAhead ==
  ASSUME TypeOK, NEW r \in Reqs, Running(r), NEW t, Later(Op(r), pc[r] + 1, t)
  PROVE  Ahead(r, t)
<1>1. pc[r] \in Nat /\ Op(r) \in Ops
  BY RunningOrder, OpFacts
<1>2. PICK n \in Nat \ {0} : DOMAIN fuse_path_ops[Op(r)] = 1 .. n
  BY <1>1, ProgramSeq
<1>3. PICK j \in DOMAIN fuse_path_ops[Op(r)] : j >= pc[r] + 1 /\ fuse_path_ops[Op(r)][j] = t
  BY DEF Later
<1>4. j \in Nat /\ j >= pc[r]
  BY <1>1, <1>2, <1>3
<1>5. Later(Op(r), pc[r], t)
  BY <1>3, <1>4 DEF Later
<1> QED
  BY <1>5, AheadLater

\* Whoever finds a node has its directory locked, and the kernel has it.
LEMMA FindWho ==
  ASSUME IInv, NEW r \in Reqs, Step(r) = "find"
  PROVE  /\ Op(r) \in Finders /\ r \in Unanswered /\ Running(r) /\ Started(r) /\ loc[r].locked
         /\ FindDir(r) \in DOMAIN nodes /\ nodes[FindDir(r)].nlookup > 0
         /\ Op(r) = "dot" => FindName(r) = NoName
         /\ Op(r) # "dot" => FindName(r) # NoName /\ Holds(FindDir(r))
         /\ Op(r) \notin {"dot", "revalidate"} => FindDir(r) \in Mutexes(r)
<1>1. Places /\ TypeOK /\ PlaceOK(r) /\ TreesOK /\ TableOK(nodes)
  BY InvIs
<1>2. loc[r].err = "ok" /\ Running(r) /\ Started(r)
  BY <1>1, StepOK
<1>3. Ordered(Op(r), pc[r], Step(r)) /\ Ahead(r, "find")
  BY <1>1, <1>2, RunningOrder
<1>4. r \in Unanswered
  BY <1>1, <1>2, <1>3, SpoilsFirst
<1>5. Op(r) \in Finders
  BY <1>3 DEF Ordered
<1>6. loc[r].locked
  <2>1. Later(Op(r), pc[r] + 1, "free")
    BY <1>3 DEF Ordered
  <2>2. \A g \in Gets : ~Later(Op(r), pc[r], g)
    BY <1>3 DEF Ordered
  <2>3. Ahead(r, "free")
    BY <1>1, <1>2, <2>1, LaterAhead
  <2>4. ~Getting(r)
    BY <2>2, AheadLater DEF Getting
  <2> QED
    BY <1>1, <1>2, <1>5, <2>3, <2>4 DEF PlaceOK, Op, Finders
<1>7. /\ NodeOf(r) \in DOMAIN nodes /\ \A k \in DOMAIN Chain(nodes, NodeOf(r)) : nodes[Chain(nodes, NodeOf(r))[k]].name # NoName
      /\ TwoPaths(r) => Req(r).n2 \in DOMAIN nodes
  BY <1>1, <1>6 DEF TreesOK
<1>8. Op(r) = "dot" => FindName(r) = NoName
  BY DEF FindName, Named1, Op
<1>9. /\ Op(r) \in Naming => Req(r).of = 0 /\ Req(r).nm # NoName
      /\ Op(r) = "link" => Req(r).n2 \in Ids /\ Req(r).nm2 # NoName
      /\ Req(r).op = Op(r)
  BY <1>1, OpFacts
<1>10. Op(r) \notin {"dot", "link"} => Op(r) \in Naming
  BY <1>5 DEF Finders, Naming
<1>11. Op(r) # "dot" => /\ Holds(NodeOf(r)) /\ nodes[NodeOf(r)].nlookup > 0
                        /\ Req(r).n2 # None => Holds(Req(r).n2) /\ Req(r).n2 \in DOMAIN nodes /\ nodes[Req(r).n2].nlookup > 0
  BY <1>4, MentionsIn
<1>12. CASE Op(r) = "dot"
  <2>1. FindDir(r) = NodeOf(r)
    BY <1>12 DEF FindDir
  <2>2. nodes[NodeOf(r)].nlookup > 0
    <3>1. CASE NodeOf(r) = Root
      BY <1>1, <3>1 DEF TableOK
    <3>2. CASE NodeOf(r) # Root
      <4>1. NodeOf(r) \in Above(nodes, NodeOf(r))
        <5>1. NodeOf(r) \notin {Root, None} /\ NodeOf(r) \in DOMAIN nodes \cup {None}
          BY <1>1, <1>7, <3>2, NotAborted
        <5> QED
          BY <1>1, <5>1, ChainFacts
      <4>2. nodes[NodeOf(r)].name # NoName
        BY <1>7, <4>1 DEF Above
      <4>3. NodeOK(nodes[NodeOf(r)])
        BY <1>1, <1>7 DEF TableOK
      <4> QED
        BY <4>2, <4>3 DEF NodeOK
    <3> QED
      BY <3>1, <3>2
  <2> QED
    BY <1>2, <1>4, <1>5, <1>6, <1>7, <1>8, <1>12, <2>1, <2>2
<1>13. CASE Op(r) = "link"
  <2>1. FindDir(r) = Req(r).n2 /\ FindName(r) = Req(r).nm2 /\ Mutexes(r) = {Req(r).n2}
    BY <1>9, <1>13 DEF FindDir, FindName, Mutexes
  <2>2. Req(r).n2 # None
    BY <1>9, <1>13, MaxIdAssumption DEF Ids, None
  <2> QED
    BY <1>2, <1>4, <1>5, <1>6, <1>9, <1>11, <1>13, <2>1, <2>2
<1>14. CASE Op(r) \notin {"dot", "link"}
  <2>1. FindDir(r) = NodeOf(r) /\ FindName(r) = Req(r).nm /\ NodeOf(r) = Req(r).n
    BY <1>9, <1>10, <1>14 DEF FindDir, FindName, Named1, NodeOf
  <2>2. Op(r) # "revalidate" => Mutexes(r) = {Req(r).n}
    BY <1>5, <1>9, <1>14 DEF Mutexes, Finders
  <2> QED
    BY <1>2, <1>4, <1>5, <1>6, <1>7, <1>9, <1>10, <1>11, <1>14, <2>1, <2>2
<1> QED
  BY <1>12, <1>13, <1>14

\* What Find does.
LEMMA FindStart ==
  ASSUME IInv, NEW r \in Reqs, Find(r)
  PROVE  \E l, got :
           /\ Moves(r, l) /\ Step(r) = "find" /\ l.pinned = loc[r].pinned /\ l.id = got.id
           /\ Finding(nodes, FindDir(r), FindName(r), ctr, work.noforget, got)
           /\ nodes' = got.nodes /\ ctr' = got.ctr
           /\ known' = known /\ queue' = queue /\ woken' = woken
<1>1. Places /\ TypeOK /\ PlaceOK(r) /\ LocOK(loc[r]) /\ TableOK(nodes) /\ ctr \in 0 .. MaxId
  BY InvIs DEF PlaceOK
<1>2. Step(r) = "find" /\ IdLeft(nodes)
  BY DEF Find
<1>3. Running(r) /\ FindDir(r) \in DOMAIN nodes
  BY <1>2, FindWho
<1>4. PICK got : got = find_node(nodes, FindDir(r), FindName(r), ctr, work.noforget)
  OBVIOUS
<1>5. PICK l : l = [loc[r] EXCEPT !.id = got.id]
  OBVIOUS
<1>6. nodes' = got.nodes /\ ctr' = got.ctr /\ Advance(r, l) /\ work' = work /\ known' = known /\ queue' = queue /\ woken' = woken /\ answer' = answer
  BY <1>4, <1>5 DEF Find, FindDir, FindName, Op, outside
<1>7. work.noforget \in BOOLEAN
  BY <1>1, WorkOK
<1>8. Finding(nodes, FindDir(r), FindName(r), ctr, work.noforget, got)
  BY <1>1, <1>2, <1>3, <1>4, <1>7, FindFacts
<1>9. got.id \in Ids /\ got.id # None
  <2>1. DOMAIN nodes \subseteq Ids /\ None \notin Ids
    BY <1>1, MaxIdAssumption DEF TableOK, Ids, None
  <2>2. PICK old : old = IF FindName(r) = NoName THEN FindDir(r) ELSE lookup_node(nodes, FindDir(r), FindName(r))
    OBVIOUS
  <2>3. CASE old # None
    BY <1>8, <2>1, <2>2, <2>3 DEF Finding, FoundOld
  <2>4. CASE old = None
    BY <1>8, <2>1, <2>2, <2>4 DEF Finding, FoundNew
  <2> QED
    BY <2>3, <2>4
<1>10. DOMAIN loc[r] = DOMAIN NoLoc
  BY <1>1 DEF LocOK
<1>11. Like(l, loc[r], {"id"}) /\ l.id = got.id
  BY <1>5, <1>10, LocFields DEF Like
<1>12. /\ l.path = loc[r].path /\ l.path2 = loc[r].path2 /\ l.w = loc[r].w /\ l.w2 = loc[r].w2 /\ l.locked = loc[r].locked
       /\ l.intr = loc[r].intr /\ l.n = loc[r].n /\ l.victim = loc[r].victim /\ l.pinned = loc[r].pinned
       /\ l.err = loc[r].err /\ l.hide = loc[r].hide /\ l.hname = loc[r].hname /\ DOMAIN l = DOMAIN NoLoc
  BY <1>10, <1>11, LocFields DEF Like
<1>13. LocOK(l)
  BY <1>1, <1>9, <1>11, <1>12 DEF LocOK
<1>14. "find" \notin Gets \cup Replies \cup {"free", "pin", "unpin", "hide_name"}
  BY DEF Gets, Replies
<1>15. Fits(r, l)
  BY <1>2, <1>9, <1>11, <1>12, <1>13, <1>14 DEF Fits, Replies
<1>16. Moves(r, l)
  BY <1>2, <1>3, <1>6, <1>12, <1>14, <1>15 DEF Moves, Answers
<1> QED
  BY <1>2, <1>6, <1>8, <1>11, <1>12, <1>16

\* A lookup more of one node, and one more in flight.
LEMMA FindLookups ==
  ASSUME IInv, NEW r, NEW l, Moves(r, l), Step(r) = "find", TableOK(nodes'), known' = known,
         \A id \in Ids \ {Root} : Weight(nodes', id, Kept) = Weight(nodes, id, Kept) + (IF id = l.id THEN 1 ELSE 0)
  PROVE  LookupsOK'
<1>1. Places /\ LookupsOK /\ known \in [1 .. MaxId -> Nat]
  BY InvIs
<1>2. work' = work /\ known' \in [1 .. MaxId -> Nat]
  BY <1>1 DEF Moves
<1>3. ASSUME NEW id \in Ids \ {Root}
      PROVE  /\ IsFiniteSet(InFlight(id)') /\ IsFiniteSet(Returning(id)')
             /\ Weight(nodes', id, Kept) - known'[id] - Cardinality(InFlight(id)') - Cardinality(Returning(id)')
                = Weight(nodes, id, Kept) - known[id] - Cardinality(InFlight(id)) - Cardinality(Returning(id))
  <2>1. IsFiniteSet(InFlight(id)) /\ IsFiniteSet(Returning(id))
    BY <1>1, Finite
  <2>2. Returning(id)' = Returning(id)
    BY <1>1, ReturningMoved
  <2>3. /\ InFlight(id) \ {r} = InFlight(id)' \ {r}
        /\ r \notin InFlight(id) /\ (r \in InFlight(id)' <=> l.id = id)
    BY <1>1, InFlightMoved
  <2>4. known[id] \in Nat /\ Cardinality(InFlight(id)) \in Nat /\ Cardinality(Returning(id)) \in Nat
    BY <1>1, <2>1, LookupsIs, NoneOf
  <2>5. Weight(nodes, id, Kept) \in Int
    BY <1>1, <2>4, LookupsIs DEF LookupsOK, Weight, Tallies
  <2>6. CASE l.id = id
    <3>1. InFlight(id)' = InFlight(id) \cup {r}
      BY <2>3, <2>6
    <3>2. PICK S : S = InFlight(id)
      OBVIOUS
    <3>3. IsFiniteSet(S \cup {r}) /\ Cardinality(S \cup {r}) = Cardinality(S) + 1
      BY <2>1, <2>3, <3>2, FS_AddElement
    <3>4. PICK c : c = Cardinality(InFlight(id)')
      OBVIOUS
    <3>5. c = Cardinality(InFlight(id)) + 1
      BY <3>1, <3>2, <3>3, <3>4
    <3>6. IsFiniteSet(InFlight(id)')
      BY <3>1, <3>2, <3>3
    <3> QED
      BY <2>1, <2>2, <2>4, <2>5, <2>6, <3>4, <3>5, <3>6
  <2>7. CASE l.id # id
    <3>1. InFlight(id)' = InFlight(id)
      BY <2>3, <2>7
    <3> QED
      BY <2>1, <2>2, <2>4, <2>5, <2>7, <3>1
  <2> QED
    BY <2>6, <2>7
<1> QED
  BY <1>1, <1>2, <1>3, LookupsMoved

\* An unlink that hid its file does not remove the node as well.
LEMMA RemovingHides ==
  ASSUME Places, NEW q \in Reqs, Started(q), Removing(q), loc[q].hide
  PROVE  Ahead(q, "hide_node")
<1>1. PlaceOK(q) /\ TypeOK
  BY DEF Places
<1>2. Op(q) = "unlink"
  BY <1>1 DEF PlaceOK, Removing, Op
<1>3. Ahead(q, "remove")
  BY DEF Removing
<1>4. Running(q)
  BY <1>3, AheadRuns
<1>5. Applies(q, Step(q), loc[q])
  BY <1>1, <1>4 DEF PlaceOK
<1>6. Step(q) \notin {"unlink", "remove"}
  <2>1. CASE Step(q) = "unlink"
    <3>1. Applies(q, "unlink", loc[q])
      BY <1>5, <2>1
    <3> QED
      BY <3>1 DEF Applies
  <2>2. CASE Step(q) = "remove"
    <3>1. Applies(q, "remove", loc[q])
      BY <1>5, <2>2
    <3> QED
      BY <3>1 DEF Applies
  <2> QED
    BY <2>1, <2>2
<1>7. Program(q) = <<"getw", "is_open", "hide_name", "hide_rename", "hide_node", "unlink", "remove", "free", "reply">>
  <2>1. Op(q) \in Ops
    BY <1>1, OpFacts
  <2>2. fuse_path_ops[Op(q)] = <<"getw", "is_open", "hide_name", "hide_rename", "hide_node", "unlink", "remove", "free", "reply">>
    BY <1>2, <2>1, Programs DEF PathOps
  <2> QED
    BY <2>2, AheadLater
<1>8. Step(q) = Program(q)[pc[q]] /\ pc[q] \in 1 .. 9
  BY <1>4, <1>7, AheadLater
<1>9. pc[q] <= 7
  <2>1. PICK k \in 1 .. 9 : k >= pc[q] /\ Program(q)[k] = "remove"
    BY <1>3, <1>7 DEF Ahead
  <2>2. k = 7
    BY <1>7, <2>1
  <2> QED
    BY <1>8, <2>1, <2>2
<1>10. pc[q] <= 5
  BY <1>6, <1>7, <1>8, <1>9
<1> QED
  BY <1>7, <1>10 DEF Ahead

\* While r is under way, whoever removes or renames does so in other directories.
LEMMA Rivals ==
  ASSUME IInv, NEW r \in Unanswered, NEW q \in Reqs, q # r, Started(q), Removing(q) \/ Renaming(q)
  PROVE  /\ Mutexes(r) \cap {Doomed(q)[1], Req(q).n} = {}
         /\ RenamesApart /\ Renaming(q) => Op(r) # "dot" /\ (work.noforget => Op(r) # "revalidate")
         /\ Removing(q) => Doom(q) = loc[q].victim /\ Doom(q) # None
<1>1. Places /\ HeldOK /\ MutexOK /\ TypeOK /\ NamesOK(q) /\ PlaceOK(q)
  BY InvIs
<1>2. q \in Unanswered /\ Doomed(q)[1] \in Mutexes(q) /\ Req(q).n \in Mutexes(q) /\ (Renaming(q) => Op(q) = "rename")
      /\ (Removing(q) => Op(q) \in {"unlink", "rmdir"})
  BY <1>1, DirsHeld
<1>3. Mutexes(q) \cap Mutexes(r) = {}
  BY <1>1, <1>2 DEF MutexOK
<1>4. r \in Reqs
  BY DEF Unanswered
<1>5. ASSUME RenamesApart, Renaming(q) PROVE Op(r) # "dot" /\ (work.noforget => Op(r) # "revalidate")
  <2>1. work \in Workloads /\ q \in DOMAIN work.reqs /\ r \in DOMAIN work.reqs /\ work.reqs[q].op = "rename"
    BY <1>1, <1>2, <1>4, <1>5 DEF TypeOK, Reqs, Op, Req
  <2> QED
    BY <1>5, <2>1 DEF RenamesApart, Op, Req
<1>6. ASSUME Removing(q) PROVE Doom(q) = loc[q].victim /\ Doom(q) # None
  <2>1. loc[q].hide => Ahead(q, "hide_node")
    BY <1>1, <1>6, RemovingHides
  <2>2. Doom(q) = loc[q].victim
    BY <1>1, <1>6, <2>1 DEF NamesOK
  <2>3. loc[q].victim # None
    BY <1>1, <1>2, <1>6 DEF PlaceOK, Op
  <2> QED
    BY <2>2, <2>3
<1> QED
  BY <1>2, <1>3, <1>5, <1>6

\* Find keeps the invariant, if the names others remove stay.
LEMMA FindInvs ==
  ASSUME IInv, NEW r, NEW l, Moves(r, l), Step(r) = "find", l.pinned = loc[r].pinned, TableOK(nodes'), Balanced(nodes, nodes'),
         DOMAIN nodes \subseteq DOMAIN nodes',
         \A n \in DOMAIN nodes : /\ nodes'[n].name = nodes[n].name /\ nodes'[n].parent = nodes[n].parent
                                 /\ nodes'[n].open = nodes[n].open /\ nodes'[n].tree = nodes[n].tree,
         \A n \in DOMAIN nodes' \ DOMAIN nodes : nodes'[n].open = 0 /\ nodes'[n].tree = 0,
         \A id \in Ids \ {Root} : Weight(nodes', id, Kept) = Weight(nodes, id, Kept) + (IF id = l.id THEN 1 ELSE 0),
         known' = known, ctr' \in 0 .. MaxId, queue' = queue, woken' = woken, \A q \in Reqs : NamesOK(q)'
  PROVE  IInv'
<1>1. Places /\ QueueOK /\ RefsOK /\ TreesOK /\ HeldOK /\ OpensOK /\ PathStable /\ nodes # Abort /\ r \in Reqs
  BY InvIs DEF Moves
<1>2. "find" \notin Gets \cup Forgets \cup Replies \cup {"free", "count", "uncount"}
  BY DEF Gets, Forgets, Replies
<1>3. TreesOK' /\ PathStable'
  <2>1. LocksKept
    BY <1>1, <1>2, LocksMoved
  <2>2. \A q \in Reqs : loc[q].locked => {loc[q].w, loc[q].w2} \subseteq DOMAIN nodes' \cup {None}
    BY <1>1 DEF TreesOK
  <2>3. \A n \in DOMAIN nodes' : nodes'[n].tree = IF n \in DOMAIN nodes THEN nodes[n].tree ELSE 0
    OBVIOUS
  <2>4. PICK X : X = {}
    OBVIOUS
  <2>5. \A n \in DOMAIN nodes \ X : n \in DOMAIN nodes' /\ nodes'[n].name = nodes[n].name /\ nodes'[n].parent = nodes[n].parent
    BY <2>4
  <2>6. \A p \in Paths : Above(nodes, Base(p)) \cap X = {}
    BY <2>4
  <2> QED
    BY <1>1, <2>1, <2>2, <2>3, <2>5, <2>6, TreesKept
<1>4. RefsOK'
  BY <1>1, RefsKept
<1>5. LookupsOK'
  BY FindLookups
<1>6. MoreKnown /\ known' \in [1 .. MaxId -> Nat]
  BY SameKnown
<1>7. HeldOK'
  BY <1>1, <1>2, <1>6, HeldMoved
<1>8. OpensOK'
  <2>1. \A id \in Ids : /\ id \in DOMAIN nodes' => nodes'[id].open = IF id \in DOMAIN nodes THEN nodes[id].open ELSE 0
                        /\ id \in DOMAIN nodes \ DOMAIN nodes' => OpenBy(id) = {}
    OBVIOUS
  <2> QED
    BY <1>1, <1>2, <2>1, OpensKept
<1>9. QueueOK'
  BY <1>1, <1>2, QueueKept
<1> QED
  BY <1>3, <1>4, <1>5, <1>6, <1>7, <1>8, <1>9, MoveInv

\* Find keeps it where the node was there.
LEMMA FindOldInv ==
  ASSUME IInv, RenamesApart, NEW r \in Reqs, NEW l, Moves(r, l), Step(r) = "find", l.pinned = loc[r].pinned,
         NEW x, x = l.id, FoundOld(nodes, x, nodes'),
         IF FindName(r) = NoName THEN x = FindDir(r) ELSE x = lookup_node(nodes, FindDir(r), FindName(r)) /\ x # None,
         known' = known, ctr' = ctr, queue' = queue, woken' = woken
  PROVE  IInv'
<1>1. Places /\ TableOK(nodes) /\ HeldOK /\ ctr \in 0 .. MaxId /\ TypeOK
  BY InvIs
<1>2. /\ x \in DOMAIN nodes /\ DOMAIN nodes' = DOMAIN nodes
      /\ \A n \in DOMAIN nodes :
       /\ DOMAIN nodes'[n] = DOMAIN nodes[n] /\ nodes'[n].name = nodes[n].name /\ nodes'[n].parent = nodes[n].parent
       /\ nodes'[n].refctr = nodes[n].refctr /\ nodes'[n].open = nodes[n].open /\ nodes'[n].tree = nodes[n].tree
       /\ nodes'[n].nlookup = nodes[n].nlookup + (IF n = x THEN 1 ELSE 0)
  BY DEF FoundOld
<1>3. \A n \in DOMAIN nodes : NodeOK(nodes[n])
  BY <1>1 DEF TableOK
<1>4. nodes[x].nlookup > 0
  <2>1. CASE FindName(r) = NoName
    BY <2>1, FindWho
  <2>2. CASE FindName(r) # NoName
    <3>1. nodes[x].name # NoName
      BY <1>1, <2>2, LookupFacts
    <3> QED
      BY <1>2, <1>3, <3>1 DEF NodeOK
  <2> QED
    BY <2>1, <2>2
<1>5. \A n \in DOMAIN nodes : NodeOK(nodes'[n]) /\ (nodes'[n].nlookup > 0 <=> nodes[n].nlookup > 0)
  <2>1. TAKE n \in DOMAIN nodes
  <2>2. nodes[n].nlookup \in Nat
    BY <1>3 DEF NodeOK
  <2>3. CASE n = x
    <3>1. nodes'[n].nlookup \in Nat /\ nodes'[n].nlookup > 0
      BY <1>2, <2>2, <2>3
    <3> QED
      BY <1>2, <1>3, <1>4, <2>3, <3>1 DEF NodeOK
  <2>4. CASE n # x
    <3>1. nodes'[n].nlookup = nodes[n].nlookup
      BY <1>2, <2>2, <2>4
    <3> QED
      BY <1>2, <1>3, <3>1 DEF NodeOK
  <2> QED
    BY <2>3, <2>4
<1>6. /\ TableOK(nodes') /\ \A p, name : lookup_node(nodes', p, name) = lookup_node(nodes, p, name)
      /\ \A id : ChildrenIn(nodes', id) = ChildrenIn(nodes, id)
  <2>1. nodes'[Root].nlookup > 0 /\ nodes'[Root].tree = 0
    BY <1>1, <1>2, <1>5 DEF TableOK
  <2> QED
    BY <1>1, <1>2, <1>5, <2>1, LikeTable
<1>7. Balanced(nodes, nodes')
  BY <1>2, <1>5, BalancedSame
<1>8. \A id \in Ids \ {Root} : Weight(nodes', id, Kept) = Weight(nodes, id, Kept) + (IF id = l.id THEN 1 ELSE 0)
  <2>1. TAKE id \in Ids \ {Root}
  <2>2. Kept \in Nat
    BY DEF Kept
  <2>3. CASE id \in DOMAIN nodes
    <3>1. nodes[id].nlookup \in Nat
      BY <1>3, <2>3 DEF NodeOK
    <3> HIDE DEF Kept
    <3> QED
      BY <1>2, <2>2, <2>3, <3>1 DEF Weight
  <2>4. CASE id \notin DOMAIN nodes
    BY <1>2, <2>4 DEF Weight
  <2> QED
    BY <2>3, <2>4
<1>9. r \in Unanswered /\ Op(r) \in Finders /\ (Op(r) = "dot" => FindName(r) = NoName) /\ (Op(r) # "dot" => FindName(r) # NoName)
      /\ (Op(r) \notin {"dot", "revalidate"} => FindDir(r) \in Mutexes(r))
  BY FindWho
<1>10. NamesOK(r)'
  <2>1. Op(r) \notin {"unlink", "rmdir", "rename"}
    BY <1>9 DEF Finders
  <2> QED
    BY <1>1, <2>1, NamesOther
<1>11. ASSUME NEW q \in Reqs, q # r PROVE NamesOK(q)'
  <2>1. NamesOK(q) /\ PlaceOK(q)
    BY InvIs
  <2>2. ASSUME loc[q].locked, Renaming(q), NEW p, NEW name, p \in {Doomed(q)[1], Req(q).n}, name # NoName PROVE Settles(p, name, r, l)
    <3>1. ASSUME NEW y, y = lookup_node(nodes, p, name), y # None, Stranger(y) PROVE StaysStrange(y, r, l)
      <4>1. y \in DOMAIN nodes \ {Root} /\ known[y] = 0 /\ nodes[y].tree = 0 /\ Children(y) = {}
        BY <3>1 DEF Stranger
      <4>2. y \in DOMAIN nodes' \ {Root} /\ known'[y] = 0 /\ nodes'[y].tree = 0 /\ Children(y)' = {}
        BY <1>2, <1>6, <4>1 DEF Children
      <4>3. l.id = y => Op(r) = "revalidate"
        <5>1. SUFFICES ASSUME x = y, Op(r) # "revalidate" PROVE FALSE
          OBVIOUS
        <5>2. Started(q)
          BY <2>1, <2>2 DEF PlaceOK, NoLoc
        <5>3. Op(r) # "dot" /\ Mutexes(r) \cap {Doomed(q)[1], Req(q).n} = {}
          BY <1>9, <1>11, <2>2, <5>2, Rivals
        <5>4. FindDir(r) \in Mutexes(r)
          BY <1>9, <5>1, <5>3
        <5>5. nodes[x].parent = FindDir(r)
          BY <1>1, <1>9, <5>3, LookupFacts
        <5>6. nodes[y].parent = p
          BY <1>1, <2>2, <3>1, LookupFacts
        <5> QED
          BY <2>2, <5>1, <5>3, <5>4, <5>5, <5>6
      <4> QED
        BY <4>2, <4>3 DEF StaysStrange
    <3>2. ASSUME NEW y, y = lookup_node(nodes', p, name)
          PROVE y = None \/ (y = lookup_node(nodes, p, name) /\ (Stranger(y) => StaysStrange(y, r, l))) \/ Stranger(y)'
      BY <1>6, <3>1, <3>2
    <3> QED
      BY <3>2 DEF Settles
  <2>3. Started(q) /\ (Removing(q) \/ (Renaming(q) /\ work.noforget)) =>
           lookup_node(nodes', Doomed(q)[1], Doomed(q)[2]) = Doom(q)
    BY <1>6 DEF Doom
  <2>4. ASSUME loc[q].locked, Renaming(q) PROVE Settles(Doomed(q)[1], Doomed(q)[2], r, l) /\ Settles(Req(q).n, Req(q).nm, r, l)
    <3>1. Started(q)
      BY <2>1, <2>4 DEF PlaceOK, NoLoc
    <3>2. Doomed(q)[2] # NoName /\ Req(q).nm # NoName
      BY <1>1, <2>4, <3>1, DirsHeld
    <3> QED
      BY <2>2, <2>4, <3>2
  <2> QED
    BY <1>1, <1>11, <2>1, <2>3, <2>4, NamesKept
<1>12. \A q \in Reqs : NamesOK(q)'
  BY <1>10, <1>11
<1>13. /\ \A n \in DOMAIN nodes' \ DOMAIN nodes : nodes'[n].open = 0 /\ nodes'[n].tree = 0
       /\ DOMAIN nodes \subseteq DOMAIN nodes' /\ ctr' \in 0 .. MaxId
  BY <1>1, <1>2
<1>14. \A n \in DOMAIN nodes : /\ nodes'[n].name = nodes[n].name /\ nodes'[n].parent = nodes[n].parent
                               /\ nodes'[n].open = nodes[n].open /\ nodes'[n].tree = nodes[n].tree
  BY <1>2
<1> QED
  BY <1>6, <1>7, <1>8, <1>12, <1>13, <1>14, FindInvs

\* What is known of an id before it is a node's.
LEMMA Unborn ==
  ASSUME IInv, NEW x \in Ids, x \notin DOMAIN nodes
  PROVE  x # Root /\ known[x] = 0 /\ InFlight(x) = {} /\ Returning(x) = {}
<1>1. LookupsOK /\ Root \in DOMAIN nodes
  BY InvIs DEF TableOK
<1> QED
  BY <1>1 DEF LookupsOK

\* Find keeps it where the node is new.
LEMMA FindNewInv ==
  ASSUME IInv, RenamesApart, NEW r \in Reqs, NEW l, Moves(r, l), Step(r) = "find", l.pinned = loc[r].pinned,
         NEW x, x = l.id, NEW p, p = FindDir(r), NEW name, name = FindName(r), name # NoName,
         lookup_node(nodes, p, name) = None,
         NEW k, k = (IF work.noforget THEN 2 ELSE 1), FoundNew(nodes, x, p, name, k, nodes'),
         known' = known, ctr' = x, queue' = queue, woken' = woken
  PROVE  IInv'
<1>1. Places /\ TableOK(nodes) /\ HeldOK /\ TypeOK
  BY InvIs
<1>2. /\ x \in Ids \ DOMAIN nodes /\ DOMAIN nodes' = DOMAIN nodes \cup {x} /\ p \in DOMAIN nodes
      /\ DOMAIN nodes'[x] = DOMAIN Node(NoName, None, 0, 0) /\ nodes'[x].name = name /\ nodes'[x].parent = p
      /\ nodes'[x].nlookup = k /\ nodes'[x].refctr = 1 /\ nodes'[x].open = 0 /\ nodes'[x].tree = 0
  BY DEF FoundNew
<1>3. \A n \in DOMAIN nodes :
       /\ DOMAIN nodes'[n] = DOMAIN nodes[n] /\ nodes'[n].name = nodes[n].name /\ nodes'[n].parent = nodes[n].parent
       /\ nodes'[n].nlookup = nodes[n].nlookup /\ nodes'[n].open = nodes[n].open /\ nodes'[n].tree = nodes[n].tree
       /\ nodes'[n].refctr = nodes[n].refctr + (IF n = p THEN 1 ELSE 0)
  BY DEF FoundNew
<1>4. x # Root /\ known[x] = 0 /\ InFlight(x) = {}
  BY <1>2, Unborn
<1>5. k \in Nat \ {0}
  OBVIOUS
<1>6. \A n \in DOMAIN nodes : NodeOK(nodes[n])
  BY <1>1 DEF TableOK
<1>7. \A n \in DOMAIN nodes' : NodeOK(nodes'[n])
  <2>1. ASSUME NEW n \in DOMAIN nodes PROVE NodeOK(nodes'[n])
    <3>1. nodes'[n].refctr \in Nat
      BY <1>3, <1>6 DEF NodeOK
    <3> QED
      BY <1>3, <1>6, <3>1 DEF NodeOK
  <2>2. NodeOK(nodes'[x])
    <3>1. p \in Ids
      BY <1>1, <1>2 DEF TableOK
    <3> QED
      BY <1>2, <1>5, <3>1 DEF NodeOK
  <2> QED
    BY <1>2, <2>1, <2>2
<1>8. TableOK(nodes')
  <2>1. \A n \in DOMAIN nodes : ~(nodes[n].name = name /\ nodes[n].parent = p)
    <3>1. \A n \in DOMAIN nodes : nodes[n].name = name /\ nodes[n].parent = p => lookup_node(nodes, p, name) = n
      BY <1>1, LookupFacts
    <3>2. None \notin DOMAIN nodes
      BY <1>1, NotAborted
    <3> QED
      BY <3>1, <3>2
  <2>2. nodes'[Root].nlookup > 0 /\ nodes'[Root].tree = 0
    BY <1>1, <1>3 DEF TableOK
  <2>3. \A n \in DOMAIN nodes : nodes'[n].name = nodes[n].name /\ nodes'[n].parent = nodes[n].parent
    BY <1>3
  <2> QED
    BY <1>1, <1>2, <1>7, <2>1, <2>2, <2>3, LeafTable, SMTT(30)
<1>9. /\ Balanced(nodes, nodes') /\ ChildrenIn(nodes', x) = {}
      /\ \A id : ChildrenIn(nodes', id) = IF id = p THEN ChildrenIn(nodes, id) \cup {x} ELSE ChildrenIn(nodes, id)
  <2>1. PICK ns2 : ns2 = nodes'
    OBVIOUS
  <2>2. FoundNew(nodes, x, p, name, k, ns2)
    BY <2>1
  <2>3. Balanced(nodes, ns2) /\ ChildrenIn(ns2, x) = {}
      /\ \A id : ChildrenIn(ns2, id) = IF id = p THEN ChildrenIn(nodes, id) \cup {x} ELSE ChildrenIn(nodes, id)
    <3>1. TableOK(nodes) /\ k \in Nat \ {0}
      BY <1>1, <1>5
    <3>2. Balanced(nodes, ns2)
      BY ONLY <2>2, <3>1, BalancedNew
    <3>3. ChildrenIn(ns2, x) = {}
      BY ONLY <2>2, <3>1, BalancedNew
    <3>4. \A id : ChildrenIn(ns2, id) = IF id = p THEN ChildrenIn(nodes, id) \cup {x} ELSE ChildrenIn(nodes, id)
      <4>1. ASSUME NEW id, id = p PROVE ChildrenIn(ns2, id) = ChildrenIn(nodes, id) \cup {x}
        BY <1>2, <1>3, <2>1, <4>1 DEF ChildrenIn
      <4>2. ASSUME NEW id, id # p PROVE ChildrenIn(ns2, id) = ChildrenIn(nodes, id)
        BY <1>2, <1>3, <2>1, <4>2 DEF ChildrenIn
      <4> QED
        BY <4>1, <4>2
    <3> QED
      BY <3>2, <3>3, <3>4
  <2> QED
    BY <2>1, <2>3
<1>10. \A id \in Ids \ {Root} : Weight(nodes', id, Kept) = Weight(nodes, id, Kept) + (IF id = l.id THEN 1 ELSE 0)
  <2>1. TAKE id \in Ids \ {Root}
  <2>2. Kept \in Nat /\ k - Kept = 1
    BY DEF Kept
  <2>3. CASE id \in DOMAIN nodes
    <3>1. nodes[id].nlookup \in Nat
      BY <1>6, <2>3 DEF NodeOK
    <3> HIDE DEF Kept
    <3> QED
      BY <1>2, <1>3, <2>2, <2>3, <3>1 DEF Weight
  <2>4. CASE id \notin DOMAIN nodes /\ id # x
    BY <1>2, <2>4 DEF Weight
  <2>5. CASE id = x
    BY <1>2, <2>2, <2>5 DEF Weight
  <2> QED
    BY <2>3, <2>4, <2>5
<1>11. /\ r \in Unanswered /\ Op(r) \in Finders /\ Op(r) # "dot" /\ Holds(p)
       /\ (Op(r) # "revalidate" => p \in Mutexes(r))
  BY FindWho
<1>12. NamesOK(r)'
  <2>1. Op(r) \notin {"unlink", "rmdir", "rename"}
    BY <1>11 DEF Finders
  <2> QED
    BY <1>1, <2>1, NamesOther
<1>13. ASSUME NEW pp, NEW nm, nm # NoName, <<pp, nm>> # <<p, name>> PROVE lookup_node(nodes', pp, nm) = lookup_node(nodes, pp, nm)
  <2>1. PICK X : X = {x}
    OBVIOUS
  <2>2. \A n \in DOMAIN nodes \ X : n \in DOMAIN nodes' /\ nodes'[n].name = nodes[n].name /\ nodes'[n].parent = nodes[n].parent
    BY <1>2, <1>3
  <2>3. DOMAIN nodes' \subseteq DOMAIN nodes \cup X /\ \A n \in X : n \in DOMAIN nodes' => ~(nodes'[n].name = nm /\ nodes'[n].parent = pp)
    BY <1>2, <1>13, <2>1
  <2>4. lookup_node(nodes', pp, nm) = IF lookup_node(nodes, pp, nm) \in X THEN None ELSE lookup_node(nodes, pp, nm)
    BY <1>1, <1>8, <1>13, <2>2, <2>3, LookupBut
  <2>5. lookup_node(nodes, pp, nm) \notin X
    <3>1. lookup_node(nodes, pp, nm) = None \/ lookup_node(nodes, pp, nm) \in DOMAIN nodes
      BY <1>1, <1>13, LookupFacts
    <3>2. None \notin Ids
      BY DEF Ids, None
    <3> QED
      BY <1>2, <2>1, <3>1, <3>2
  <2> QED
    BY <2>4, <2>5
<1>14. lookup_node(nodes', p, name) = x
  <2>1. x \in DOMAIN nodes'
    BY <1>2
  <2> QED
    BY <1>2, <1>8, <2>1, LookupFacts
<1>15. Op(r) = "revalidate" => Stranger(x)'
  <2>1. SUFFICES ASSUME Op(r) = "revalidate" PROVE Stranger(x)'
    OBVIOUS
  <2>2. Unanswered' = Unanswered /\ (\A q \in Reqs : Req(q)' = Req(q)) /\ "find" \notin Replies
    BY <1>1, MoveUnanswered DEF Replies
  <2>3. \A q \in Reqs \ {r} : loc'[q] = loc[q]
    BY <1>1, AdvanceFacts DEF Moves, Same
  <2>4. \A q \in Unanswered : loc'[q].id = x => Req(q).op = "revalidate"
    <3>1. ASSUME NEW q \in Unanswered, loc'[q].id = x, q # r PROVE FALSE
      <4>1. q \in InFlight(x)
        BY <2>3, <3>1 DEF InFlight, Unanswered
      <4> QED
        BY <1>4, <4>1
    <3> QED
      BY <2>1, <3>1 DEF Op
  <2>5. \A q \in Unanswered' : loc'[q].id = x => Req(q)'.op = "revalidate"
    BY <2>2, <2>4 DEF Unanswered
  <2> QED
    BY <1>2, <1>4, <1>9, <2>5 DEF Stranger, Children
<1>16. ASSUME NEW q \in Reqs, q # r PROVE NamesOK(q)'
  <2>1. NamesOK(q) /\ PlaceOK(q)
    BY InvIs
  <2>2. ASSUME loc[q].locked, Renaming(q), NEW pp, NEW nm, pp \in {Doomed(q)[1], Req(q).n}, nm # NoName PROVE Settles(pp, nm, r, l)
    <3>1. Started(q)
      BY <2>1, <2>2 DEF PlaceOK, NoLoc
    <3>2. Mutexes(r) \cap {Doomed(q)[1], Req(q).n} = {}
      BY <1>11, <1>16, <2>2, <3>1, Rivals
    <3>3. CASE <<pp, nm>> = <<p, name>>
      <4>1. Op(r) = "revalidate"
        BY <1>11, <2>2, <3>2, <3>3
      <4> QED
        BY <1>14, <1>15, <3>3, <4>1 DEF Settles
    <3>4. CASE <<pp, nm>> # <<p, name>>
      <4>1. lookup_node(nodes', pp, nm) = lookup_node(nodes, pp, nm)
        BY <1>13, <2>2, <3>4
      <4>2. ASSUME NEW y, Stranger(y) PROVE StaysStrange(y, r, l)
        <5>1. y \in DOMAIN nodes \ {Root} /\ known[y] = 0 /\ nodes[y].tree = 0 /\ Children(y) = {}
          BY <4>2 DEF Stranger
        <5>2. y # p
          BY <1>11, <5>1 DEF Holds
        <5>3. y # l.id
          BY <1>2, <5>1
        <5>4. y \in DOMAIN nodes' \ {Root} /\ known'[y] = 0 /\ nodes'[y].tree = 0 /\ Children(y)' = {}
          BY <1>2, <1>3, <1>9, <5>1, <5>2 DEF Children
        <5> QED
          BY <5>3, <5>4 DEF StaysStrange
      <4> QED
        BY <4>1, <4>2 DEF Settles
    <3> QED
      BY <3>3, <3>4
  <2>3. ASSUME Started(q), Removing(q) \/ (Renaming(q) /\ work.noforget)
        PROVE lookup_node(nodes', Doomed(q)[1], Doomed(q)[2]) = Doom(q)
    <3>1. Doomed(q)[2] # NoName
      BY <1>1, <2>3, DirsHeld
    <3>2. <<Doomed(q)[1], Doomed(q)[2]>> # <<p, name>>
      <4>1. CASE Removing(q)
        <5>1. Doom(q) # None
          BY <1>11, <1>16, <2>3, <4>1, Rivals
        <5> QED
          BY <5>1 DEF Doom
      <4>2. CASE Renaming(q) /\ work.noforget
        <5>1. Mutexes(r) \cap {Doomed(q)[1], Req(q).n} = {} /\ Op(r) # "revalidate"
          BY <1>11, <1>16, <2>3, <4>2, Rivals
        <5> QED
          BY <1>11, <5>1
      <4> QED
        BY <2>3, <4>1, <4>2
    <3> QED
      BY <1>13, <3>1, <3>2 DEF Doom
  <2>4. ASSUME loc[q].locked, Renaming(q) PROVE Settles(Doomed(q)[1], Doomed(q)[2], r, l) /\ Settles(Req(q).n, Req(q).nm, r, l)
    <3>1. Started(q)
      BY <2>1, <2>4 DEF PlaceOK, NoLoc
    <3>2. Doomed(q)[2] # NoName /\ Req(q).nm # NoName
      BY <1>1, <2>4, <3>1, DirsHeld
    <3> QED
      BY <2>2, <2>4, <3>2
  <2> QED
    BY <1>1, <1>16, <2>1, <2>3, <2>4, NamesKept
<1>17. \A q \in Reqs : NamesOK(q)'
  BY <1>12, <1>16
<1>18. /\ \A n \in DOMAIN nodes' \ DOMAIN nodes : nodes'[n].open = 0 /\ nodes'[n].tree = 0
       /\ DOMAIN nodes \subseteq DOMAIN nodes' /\ ctr' \in 0 .. MaxId
  BY <1>2, MaxIdAssumption DEF Ids
<1>19. \A n \in DOMAIN nodes : /\ nodes'[n].name = nodes[n].name /\ nodes'[n].parent = nodes[n].parent
                               /\ nodes'[n].open = nodes[n].open /\ nodes'[n].tree = nodes[n].tree
  BY <1>3
<1> QED
  BY <1>8, <1>9, <1>10, <1>17, <1>18, <1>19, FindInvs

\* Find keeps the invariant.
LEMMA FindInv ==
  ASSUME IInv, RenamesApart, NEW r \in Reqs, Find(r)
  PROVE  IInv'
<1>1. PICK l, got :
           /\ Moves(r, l) /\ Step(r) = "find" /\ l.pinned = loc[r].pinned /\ l.id = got.id
           /\ Finding(nodes, FindDir(r), FindName(r), ctr, work.noforget, got)
           /\ nodes' = got.nodes /\ ctr' = got.ctr
           /\ known' = known /\ queue' = queue /\ woken' = woken
  BY FindStart
<1>2. PICK old : old = IF FindName(r) = NoName THEN FindDir(r) ELSE lookup_node(nodes, FindDir(r), FindName(r))
  OBVIOUS
<1>3. CASE old # None
  <2>1. PICK x : x = l.id
    OBVIOUS
  <2>2. x = old /\ FoundOld(nodes, x, nodes') /\ ctr' = ctr
    BY <1>1, <1>2, <1>3, <2>1 DEF Finding
  <2>3. IF FindName(r) = NoName THEN x = FindDir(r) ELSE x = lookup_node(nodes, FindDir(r), FindName(r)) /\ x # None
    BY <1>2, <1>3, <2>2
  <2> QED
    BY <1>1, <2>1, <2>2, <2>3, FindOldInv
<1>4. CASE old = None
  <2>1. PICK x : x = l.id
    OBVIOUS
  <2>2. PICK p : p = FindDir(r)
    OBVIOUS
  <2>3. PICK name : name = FindName(r)
    OBVIOUS
  <2>4. PICK k : k = (IF work.noforget THEN 2 ELSE 1)
    OBVIOUS
  <2>5. name # NoName /\ FoundNew(nodes, x, p, name, k, nodes') /\ ctr' = x
    BY <1>1, <1>2, <1>4, <2>1, <2>2, <2>3, <2>4 DEF Finding
  <2>6. lookup_node(nodes, p, name) = None
    BY <1>2, <1>4, <2>2, <2>3, <2>5
  <2> QED
    BY <1>1, <2>1, <2>2, <2>3, <2>4, <2>5, <2>6, FindNewInv
<1> QED
  BY <1>3, <1>4

(***************************************************************************)
(* Names change: remove_node, rename_node and hide_node.                   *)
(***************************************************************************)

\* Handler r gave the nodes X, which no locked path goes through, other names, or none,
\* in directories whose mutexes it has.
Reshaped(r, X) ==
  /\ TableOK(nodes') /\ DOMAIN nodes' = DOMAIN nodes
  /\ \A n \in DOMAIN nodes : nodes'[n].open = nodes[n].open /\ nodes'[n].tree = nodes[n].tree
  /\ \A n \in DOMAIN nodes \ X : nodes'[n].name = nodes[n].name /\ nodes'[n].parent = nodes[n].parent
  /\ \A x \in X : /\ x \in DOMAIN nodes /\ nodes[x].parent \in Mutexes(r)
                  /\ nodes'[x].name # NoName => nodes'[x].parent \in Mutexes(r) /\ Holds(nodes'[x].parent)
  /\ \A p \in Paths : Above(nodes, Base(p)) \cap X = {}
  /\ Balanced(nodes, nodes')
  /\ \A id \in Ids \ {Root} : Weight(nodes', id, Kept) = Weight(nodes, id, Kept)

\* A change of names leaves strangers strange.
LEMMA StillStrange ==
  ASSUME IInv, NEW r, NEW X, Reshaped(r, X), known' = known, NEW l, Step(r) # "find", NEW y, Stranger(y)
  PROVE  StaysStrange(y, r, l)
<1>1. y \in DOMAIN nodes \ {Root} /\ known[y] = 0 /\ nodes[y].tree = 0 /\ Children(y) = {}
  BY DEF Stranger
<1>2. TableOK(nodes) /\ TableOK(nodes') /\ None \notin DOMAIN nodes /\ DOMAIN nodes' = DOMAIN nodes
  BY InvIs, NotAborted DEF Reshaped
<1>3. ASSUME NEW n \in DOMAIN nodes, nodes'[n].parent = y PROVE FALSE
  <2>1. CASE n \in X
    <3>1. nodes'[n].name # NoName
      <4>1. NodeOK(nodes'[n])
        BY <1>2 DEF TableOK
      <4> QED
        BY <1>1, <1>2, <1>3, <4>1 DEF NodeOK
    <3>2. Holds(y)
      BY <1>3, <2>1, <3>1 DEF Reshaped
    <3> QED
      BY <1>1, <3>2 DEF Holds
  <2>2. CASE n \notin X
    <3>1. nodes[n].parent = y
      BY <1>3, <2>2 DEF Reshaped
    <3> QED
      BY <1>1, <1>3, <3>1 DEF Children, ChildrenIn
  <2> QED
    BY <2>1, <2>2
<1>4. Children(y)' = {}
  BY <1>2, <1>3 DEF Children, ChildrenIn
<1>5. nodes'[y].tree = 0
  BY <1>1 DEF Reshaped
<1> QED
  BY <1>1, <1>2, <1>4, <1>5 DEF StaysStrange

\* and the names of directories r has no mutex of alone.
LEMMA LookupElsewhere ==
  ASSUME IInv, NEW r, NEW X, Reshaped(r, X), NEW p, p \notin Mutexes(r), NEW name, name # NoName
  PROVE  lookup_node(nodes', p, name) = lookup_node(nodes, p, name)
<1>1. TableOK(nodes) /\ TableOK(nodes') /\ DOMAIN nodes' = DOMAIN nodes
  BY InvIs DEF Reshaped
<1>2. \A n \in DOMAIN nodes \ X : n \in DOMAIN nodes' /\ nodes'[n].name = nodes[n].name /\ nodes'[n].parent = nodes[n].parent
  BY <1>1 DEF Reshaped
<1>3. DOMAIN nodes' \subseteq DOMAIN nodes \cup X
  BY <1>1
<1>4. \A x \in X : x \in DOMAIN nodes' => ~(nodes'[x].name = name /\ nodes'[x].parent = p)
  BY DEF Reshaped
<1>5. lookup_node(nodes', p, name) = IF lookup_node(nodes, p, name) \in X THEN None ELSE lookup_node(nodes, p, name)
  BY <1>1, <1>2, <1>3, <1>4, LookupBut
<1>6. lookup_node(nodes, p, name) \notin X
  <2>1. lookup_node(nodes, p, name) # None => nodes[lookup_node(nodes, p, name)].parent = p
    BY <1>1, LookupFacts
  <2>2. \A x \in X : x # None /\ nodes[x].parent # p
    BY <1>1, NotAborted DEF Reshaped
  <2> QED
    BY <2>1, <2>2
<1> QED
  BY <1>5, <1>6

\* so what others remove or rename is what it was.
LEMMA RivalNames ==
  ASSUME IInv, NEW r \in Unanswered, NEW l, Moves(r, l), Step(r) # "find", NEW X, Reshaped(r, X), known' = known
  PROVE  \A q \in Reqs \ {r} : NamesOK(q)'
<1>1. Places /\ TableOK(nodes) /\ HeldOK
  BY InvIs
<1> SUFFICES ASSUME NEW q \in Reqs \ {r} PROVE NamesOK(q)'
  OBVIOUS
<1>2. NamesOK(q) /\ PlaceOK(q)
  BY InvIs
<1>3. ASSUME Started(q), Removing(q) \/ Renaming(q), NEW p \in {Doomed(q)[1], Req(q).n}, NEW name, name # NoName
      PROVE  lookup_node(nodes', p, name) = lookup_node(nodes, p, name)
  <2>1. Mutexes(r) \cap {Doomed(q)[1], Req(q).n} = {}
    BY <1>3, Rivals
  <2>2. p \notin Mutexes(r)
    BY <1>3, <2>1
  <2> QED
    BY <1>3, <2>2, LookupElsewhere
<1>4. Started(q) /\ (Removing(q) \/ Renaming(q)) => Doomed(q)[2] # NoName /\ Req(q).nm # NoName
  BY <1>1, DirsHeld
<1>5. Started(q) /\ (Removing(q) \/ (Renaming(q) /\ work.noforget)) =>
        lookup_node(nodes', Doomed(q)[1], Doomed(q)[2]) = Doom(q)
  BY <1>3, <1>4 DEF Doom
<1>6. ASSUME loc[q].locked, Renaming(q) PROVE Settles(Doomed(q)[1], Doomed(q)[2], r, l) /\ Settles(Req(q).n, Req(q).nm, r, l)
  <2>1. Started(q)
    BY <1>2, <1>6 DEF PlaceOK, NoLoc
  <2>2. \A y : Stranger(y) => StaysStrange(y, r, l)
    BY StillStrange
  <2>3. ASSUME NEW p \in {Doomed(q)[1], Req(q).n}, NEW name, name # NoName PROVE Settles(p, name, r, l)
    <3>1. lookup_node(nodes', p, name) = lookup_node(nodes, p, name)
      BY <1>3, <1>6, <2>1, <2>3
    <3> QED
      BY <2>2, <3>1 DEF Settles
  <2> QED
    BY <1>4, <1>6, <2>1, <2>3
<1> QED
  BY <1>1, <1>2, <1>5, <1>6, NamesKept

\* A change of names below what others lock keeps the invariant.
LEMMA ReshapeInv ==
  ASSUME IInv, NEW r, NEW l, Moves(r, l), Step(r) \in {"remove", "rename_node", "hide_node"}, l.pinned = loc[r].pinned,
         NEW X, Reshaped(r, X),
         known' = known, ctr' = ctr, queue' = queue, woken' = woken, \A q \in Reqs : NamesOK(q)'
  PROVE  IInv'
<1>1. /\ Places /\ QueueOK /\ RefsOK /\ TreesOK /\ HeldOK /\ OpensOK /\ PathStable /\ nodes # Abort /\ r \in Reqs
      /\ ctr \in 0 .. MaxId
  BY InvIs DEF Moves
<1>2. "remove" \notin Gets \cup Forgets \cup Replies /\ "rename_node" \notin Gets \cup Forgets \cup Replies
      /\ "hide_node" \notin Gets \cup Forgets \cup Replies
  BY DEF Gets, Forgets, Replies
<1>3. TableOK(nodes') /\ DOMAIN nodes' = DOMAIN nodes /\ Balanced(nodes, nodes')
      /\ \A n \in DOMAIN nodes : nodes'[n].open = nodes[n].open /\ nodes'[n].tree = nodes[n].tree
  BY DEF Reshaped
<1>4. TreesOK' /\ PathStable'
  <2>1. LocksKept
    BY <1>1, <1>2, LocksMoved
  <2>2. \A q \in Reqs : loc[q].locked => {loc[q].w, loc[q].w2} \subseteq DOMAIN nodes' \cup {None}
    BY <1>1, <1>3 DEF TreesOK
  <2>3. \A n \in DOMAIN nodes' : nodes'[n].tree = IF n \in DOMAIN nodes THEN nodes[n].tree ELSE 0
    BY <1>3
  <2>4. \A n \in DOMAIN nodes \ X : n \in DOMAIN nodes' /\ nodes'[n].name = nodes[n].name /\ nodes'[n].parent = nodes[n].parent
    BY <1>3 DEF Reshaped
  <2>5. \A p \in Paths : Above(nodes, Base(p)) \cap X = {}
    BY DEF Reshaped
  <2> QED
    BY <1>1, <1>3, <2>1, <2>2, <2>3, <2>4, <2>5, TreesKept
<1>5. RefsOK'
  BY <1>1, <1>3, RefsKept
<1>6. LookupsOK'
  <2>1. \A id \in Ids \ {Root} : Weight(nodes', id, Kept) = Weight(nodes, id, Kept)
    BY DEF Reshaped
  <2>2. Step(r) \notin Replies \cup {"find", "undo", "forget"}
    BY <1>2
  <2> QED
    BY <1>3, <2>1, <2>2, LookupsQuiet
<1>7. MoreKnown /\ known' \in [1 .. MaxId -> Nat]
  BY SameKnown
<1>8. HeldOK'
  <2>1. Step(r) \notin Replies
    BY <1>2
  <2> QED
    BY <1>1, <1>7, <2>1, HeldMoved
<1>9. OpensOK'
  BY <1>1, <1>3, OpensKept
<1>10. QueueOK'
  <2>1. Step(r) \notin Gets \cup Forgets
    BY <1>2
  <2> QED
    BY <1>1, <2>1, QueueKept
<1> QED
  BY <1>1, <1>3, <1>4, <1>5, <1>6, <1>7, <1>8, <1>9, <1>10, MoveInv

\* No path goes through a node that a handler has for itself or that nobody uses.
LEMMA Unread ==
  ASSUME IInv, NEW x, x # None, (\E r \in Reqs : loc[r].locked /\ x \in {loc[r].w, loc[r].w2}) \/ Stranger(x)
  PROVE  \A p \in Paths : x \notin Above(nodes, Base(p))
<1>1. Places /\ TreesOK
  BY InvIs
<1>2. Readers(x) = {}
  <2>1. CASE \E r \in Reqs : loc[r].locked /\ x \in {loc[r].w, loc[r].w2}
    <3>1. PICK r \in Reqs : loc[r].locked /\ x \in {loc[r].w, loc[r].w2}
      BY <2>1
    <3>2. r \in Writers(x)
      BY <3>1 DEF Writers
    <3> QED
      BY <1>1, <3>2, WriterIn
  <2>2. CASE Stranger(x)
    <3>1. x \in DOMAIN nodes \ {Root} /\ nodes[x].tree = 0
      BY <2>2 DEF Stranger
    <3> QED
      BY <1>1, <3>1, Finite, NoneOf DEF TreesOK
  <2> QED
    BY <2>1, <2>2
<1> QED
  BY <1>1, <1>2, PathsIn

\* Whoever changes names has its path locked, and removes or renames.
LEMMA Namer ==
  ASSUME IInv, NEW r \in Reqs, Step(r) \in {"remove", "rename_node", "hide_node"}
  PROVE  /\ r \in Unanswered /\ Running(r) /\ Started(r) /\ loc[r].locked /\ loc[r].err = "ok"
         /\ Removing(r) \/ Renaming(r)
         /\ Step(r) = "remove" => Removing(r) /\ ~loc[r].hide
         /\ Step(r) = "rename_node" => Renaming(r)
         /\ Step(r) = "hide_node" => Ahead(r, "hide_node") /\ loc[r].hname # NoName
         /\ NodeOf(r) = Req(r).n
         /\ \A d \in {Doomed(r)[1], Req(r).n} : d \in DOMAIN nodes /\ nodes[d].nlookup > 0 /\ Holds(d) /\ d \in Mutexes(r)
         /\ Doomed(r)[2] # NoName /\ Req(r).nm # NoName
         /\ loc[r].victim # None => Holds(loc[r].victim) /\ loc[r].victim \in Ids
         /\ Removing(r) => loc[r].victim # None /\ loc[r].w = loc[r].victim /\ Op(r) \in {"unlink", "rmdir"} /\ Doomed(r) = <<NodeOf(r), Req(r).nm>>
         /\ Renaming(r) => Op(r) = "rename" /\ Doomed(r) = <<Req(r).n2, Req(r).nm2>>
<1>1. Places /\ TypeOK /\ PlaceOK(r) /\ HeldOK /\ LookupsOK /\ TableOK(nodes)
  BY InvIs
<1>2. loc[r].err = "ok" /\ Running(r) /\ Started(r)
  <2>1. Step(r) \in (Spoils \ {"pin"}) \cup {"remove", "find", "count", "is_open", "list_conflict"}
    BY DEF Spoils
  <2> QED
    BY <1>1, <2>1, StepOK
<1>3. Ordered(Op(r), pc[r], Step(r)) /\ Ahead(r, Step(r))
  BY <1>1, <1>2, RunningOrder
<1>4. ASSUME Step(r) = "remove" PROVE Removing(r) /\ ~loc[r].hide
  <2>1. Op(r) \in {"unlink", "rmdir"}
    BY <1>3, <1>4 DEF Ordered
  <2>2. Applies(r, "remove", loc[r])
    BY <1>1, <1>2, <1>4 DEF PlaceOK
  <2>3. ~loc[r].hide
    BY <2>2 DEF Applies
  <2> QED
    BY <1>2, <1>3, <1>4, <2>1, <2>3 DEF Removing, Op
<1>5. ASSUME Step(r) = "rename_node" PROVE Renaming(r)
  <2>1. Op(r) = "rename"
    BY <1>3, <1>5 DEF Ordered
  <2> QED
    BY <1>2, <1>3, <1>5, <2>1 DEF Renaming, Op
<1>6. ASSUME Step(r) = "hide_node" PROVE (Removing(r) \/ Renaming(r)) /\ Ahead(r, "hide_node") /\ loc[r].hname # NoName
  <2>1. Op(r) \in {"unlink", "rename"}
    BY <1>3, <1>6 DEF Ordered
  <2>2. IF Op(r) = "unlink" THEN Later(Op(r), pc[r] + 1, "remove") ELSE Later(Op(r), pc[r] + 1, "rename_node")
    BY <1>3, <1>6 DEF Ordered
  <2>3. IF Op(r) = "unlink" THEN Ahead(r, "remove") ELSE Ahead(r, "rename_node")
    BY <1>1, <1>2, <2>2, LaterAhead
  <2>4. Removing(r) \/ Renaming(r)
    BY <1>2, <2>1, <2>3 DEF Removing, Renaming, Op
  <2>5. ~Later(Op(r), pc[r], "hide_name")
    BY <1>3, <1>6 DEF Ordered
  <2>6. ~Ahead(r, "hide_name")
    BY <2>5, AheadLater
  <2>7. Applies(r, "hide_node", loc[r])
    BY <1>1, <1>2, <1>6 DEF PlaceOK
  <2>8. loc[r].hide
    BY <2>7 DEF Applies
  <2>9. loc[r].hname # NoName
    BY <1>1, <1>2, <2>1, <2>6, <2>8 DEF PlaceOK, Op
  <2> QED
    BY <1>3, <1>6, <2>4, <2>9
<1>7. Removing(r) \/ Renaming(r)
  BY <1>4, <1>5, <1>6
<1>8. /\ r \in Unanswered /\ Op(r) # "dot" /\ (Renaming(r) => Op(r) = "rename") /\ (Removing(r) => Op(r) \in {"unlink", "rmdir"})
      /\ Doomed(r)[1] \in Mutexes(r) /\ Doomed(r)[1] \in Ids /\ Holds(Doomed(r)[1]) /\ Doomed(r)[2] # NoName
      /\ Req(r).n \in Mutexes(r) /\ Req(r).n \in Ids /\ Holds(Req(r).n) /\ Req(r).nm # NoName /\ NodeOf(r) = Req(r).n
      /\ loc[r].victim # None => Holds(loc[r].victim) /\ loc[r].victim \in Ids
  BY <1>1, <1>2, <1>7, DirsHeld
<1>9. \A d \in {Doomed(r)[1], Req(r).n} : d \in DOMAIN nodes /\ nodes[d].nlookup > 0
  BY <1>1, <1>8, KnownIn
<1>10. loc[r].locked
  <2>1. Later(Op(r), pc[r] + 1, "free")
    BY <1>3 DEF Ordered
  <2>2. \A g \in Gets : ~Later(Op(r), pc[r], g)
    BY <1>3 DEF Ordered
  <2>3. Ahead(r, "free")
    BY <1>1, <1>2, <2>1, LaterAhead
  <2>4. ~Getting(r)
    BY <2>2, AheadLater DEF Getting
  <2> QED
    BY <1>1, <1>2, <1>7, <1>8, <2>3, <2>4 DEF PlaceOK, Op
<1>11. Removing(r) => loc[r].victim # None /\ loc[r].w = loc[r].victim /\ Doomed(r) = <<NodeOf(r), Req(r).nm>>
  BY <1>1, <1>2, <1>8, <1>10 DEF PlaceOK, Op, Doomed
<1>12. Renaming(r) => Doomed(r) = <<Req(r).n2, Req(r).nm2>>
  BY <1>8 DEF Doomed, Op
<1> QED
  BY <1>2, <1>4, <1>5, <1>6, <1>7, <1>8, <1>9, <1>10, <1>11, <1>12

\* A directory that the kernel knows is referred to by its children besides.
LEMMA RefsFor ==
  ASSUME IInv, NEW d \in DOMAIN nodes, nodes[d].nlookup > 0, NEW x \in DOMAIN nodes, nodes[x].parent = d
  PROVE  /\ nodes[d].refctr > 1
         /\ \A y \in DOMAIN nodes : nodes[y].parent = d /\ y # x => nodes[d].refctr > 2
<1>1. Places /\ RefsOK /\ TableOK(nodes)
  BY InvIs
<1>2. PICK S : S = ChildrenIn(nodes, d)
  OBVIOUS
<1>3. IsFiniteSet(S) /\ Cardinality(S) \in Nat /\ x \in S
  BY <1>1, <1>2, KidsFinite DEF ChildrenIn
<1>4. Cardinality(Pinners(d)) \in Nat
  BY <1>1, Finite, NoneOf
<1>5. nodes[d].refctr = Cardinality(S) + 1 + Cardinality(Pinners(d))
  <2>1. nodes[d].refctr = Refs(nodes, d) + Cardinality(Pinners(d))
    BY <1>1, RefsAre
  <2>2. Refs(nodes, d) = Cardinality(S) + 1
    BY <1>2 DEF Refs
  <2> QED
    BY <2>1, <2>2
<1>6. IsFiniteSet(S \ {x}) /\ Cardinality(S \ {x}) = Cardinality(S) - 1
  BY <1>3, FS_RemoveElement
<1>7. Cardinality(S \ {x}) \in Nat /\ (Cardinality(S \ {x}) = 0 <=> S \ {x} = {})
  BY <1>6, NoneOf
<1>8. nodes[d].refctr > 1
  BY <1>3, <1>4, <1>5, <1>6, <1>7
<1>9. ASSUME NEW y \in DOMAIN nodes, nodes[y].parent = d, y # x PROVE nodes[d].refctr > 2
  <2>1. y \in S \ {x}
    BY <1>2, <1>9 DEF ChildrenIn
  <2> QED
    BY <1>3, <1>4, <1>5, <1>6, <1>7, <2>1
<1> QED
  BY <1>8, <1>9

\* With noforget, a node the kernel holds has a lookup more.
LEMMA KeptTwice ==
  ASSUME IInv, NEW x \in DOMAIN nodes \ {Root}, nodes[x].name # NoName
  PROVE  /\ nodes[x].nlookup \in Nat /\ nodes[x].nlookup > 0
         /\ Holds(x) => nodes[x].nlookup > Kept
<1>1. Places /\ LookupsOK /\ TableOK(nodes) /\ x \in Ids /\ NodeOK(nodes[x])
  BY InvIs DEF TableOK
<1>2. nodes[x].nlookup \in Nat /\ nodes[x].nlookup > 0
  BY <1>1 DEF NodeOK
<1>3. Holds(x) => known[x] > 0 /\ known[x] \in Nat /\ Kept \in {0, 1} /\ nodes[x].nlookup >= known[x] + Kept
  BY <1>1, KnownIn, LookupsIs DEF Holds
<1> QED
  BY <1>2, <1>3

\* A node without a name leaves a tree.
LEMMA UnhungTable ==
  ASSUME NEW ns, TableOK(ns), NEW x \in DOMAIN ns \ {Root}, ns[x].name # NoName, ns[x].parent \in DOMAIN ns,
         ns[ns[x].parent].refctr > 1, NEW k \in Nat, k < ns[x].nlookup, NEW ns2, Unhung(ns, ns2, x, k)
  PROVE  TableOK(ns2)
<1>1. /\ DOMAIN ns2 = DOMAIN ns
      /\ \A n \in DOMAIN ns2 :
       But(ns2[n], ns[n], IF n = x THEN NoName ELSE ns[n].name, IF n = x THEN None ELSE ns[n].parent,
           ns[n].nlookup - (IF n = x THEN k ELSE 0), ns[n].refctr - (IF n = ns[x].parent THEN 1 ELSE 0))
  BY DEF Unhung
<1>2. \A n \in DOMAIN ns : NodeOK(ns[n])
  BY DEF TableOK
<1>3. \A n \in DOMAIN ns2 : NodeOK(ns2[n]) /\ (ns[n].nlookup > 0 => ns2[n].nlookup > 0)
  <2>1. TAKE n \in DOMAIN ns2
  <2>2. NodeOK(ns[n]) /\ DOMAIN ns2[n] = DOMAIN Node(NoName, None, 0, 0)
    BY <1>1, <1>2, NodeFields DEF But, NodeFieldNames
  <2>3. ns2[n].refctr \in Nat
    BY <1>1, <2>2 DEF But, NodeOK
  <2>4. ns2[n].open \in Nat /\ ns2[n].tree = ns[n].tree /\ ns2[n].tree \in Nat \cup {-1}
    BY <1>1, <2>2 DEF But, NodeOK
  <2>5. CASE n = x
    <3>1. ns2[n].name = NoName /\ ns2[n].parent = None /\ ns2[n].nlookup \in Nat /\ ns2[n].nlookup > 0
      BY <1>1, <2>2, <2>5 DEF But, NodeOK
    <3> QED
      BY <2>2, <2>3, <2>4, <3>1 DEF NodeOK
  <2>6. CASE n # x
    <3>1. ns2[n].name = ns[n].name /\ ns2[n].parent = ns[n].parent /\ ns2[n].nlookup = ns[n].nlookup
      BY <1>1, <2>2, <2>6 DEF But, NodeOK
    <3> QED
      BY <2>2, <2>3, <2>4, <3>1 DEF NodeOK
  <2> QED
    BY <2>5, <2>6
<1>4. \A n \in DOMAIN ns2 \ {x} : ns2[n].name = ns[n].name /\ ns2[n].parent = ns[n].parent
  BY <1>1 DEF But
<1>5. ns2[x].name = NoName
  BY <1>1 DEF But
<1>6. \A n \in DOMAIN ns2 : ns2[n].name # NoName => ns2[n].parent \in DOMAIN ns2
  BY <1>1, <1>4, <1>5 DEF TableOK
<1>7. ns2[Root].nlookup > 0 /\ ns2[Root].tree = 0 /\ Root \in DOMAIN ns2
  BY <1>1, <1>3 DEF TableOK, But
<1> QED
  BY <1>1, <1>3, <1>4, <1>5, <1>6, <1>7, CutTable

\* remove_node keeps the invariant.
LEMMA RemoveInv ==
  ASSUME IInv, RenamesApart, NEW r \in Reqs, RemoveNode(r)
  PROVE  IInv'
<1>1. Places /\ TypeOK /\ PlaceOK(r) /\ NamesOK(r) /\ TableOK(nodes) /\ TreesOK /\ LocOK(loc[r])
  BY InvIs DEF PlaceOK
<1>2. Step(r) = "remove"
  BY DEF RemoveNode
<1>3. /\ r \in Unanswered /\ Running(r) /\ Started(r) /\ loc[r].locked /\ loc[r].err = "ok" /\ Removing(r) /\ ~loc[r].hide
      /\ NodeOf(r) = Req(r).n
  BY <1>2, Namer
<1>4. /\ loc[r].victim # None /\ loc[r].w = loc[r].victim /\ Op(r) \in {"unlink", "rmdir"} /\ Doomed(r) = <<NodeOf(r), Req(r).nm>>
      /\ Req(r).nm # NoName /\ Holds(loc[r].victim)
      /\ NodeOf(r) \in DOMAIN nodes /\ nodes[NodeOf(r)].nlookup > 0 /\ NodeOf(r) \in Mutexes(r)
  BY <1>2, <1>3, Namer
<1>5. PICK x : x = loc[r].victim
  OBVIOUS
<1>6. PICK d : d = NodeOf(r)
  OBVIOUS
<1>7. x = lookup_node(nodes, d, Req(r).nm) /\ x # None
  BY <1>1, <1>3, <1>4, <1>5, <1>6 DEF NamesOK, Doom
<1>8. x \in DOMAIN nodes \ {Root} /\ nodes[x].name # NoName /\ nodes[x].parent = d /\ d \in DOMAIN nodes
  BY <1>1, <1>4, <1>6, <1>7, LookupFacts
<1>9. nodes[d].refctr > 1
  BY <1>4, <1>6, <1>8, RefsFor
<1>10. PICK k : k = Kept
  OBVIOUS
<1>11. k \in Nat /\ k < nodes[x].nlookup /\ nodes[x].nlookup \in Nat /\ work.noforget \in BOOLEAN /\ k = (IF work.noforget THEN 1 ELSE 0)
  BY <1>1, <1>4, <1>5, <1>8, <1>10, KeptTwice, WorkOK DEF Kept
<1>12. PICK ns : ns = unlink_node(nodes, x, work.noforget)
  OBVIOUS
<1>13. Unhung(nodes, ns, x, k)
  <2>1. work.noforget => nodes[x].nlookup > 1
    BY <1>11
  <2>2. Unhung(nodes, ns, x, IF work.noforget THEN 1 ELSE 0)
    BY <1>1, <1>8, <1>9, <1>11, <1>12, <2>1, UnlinkFacts
  <2> QED
    BY <1>11, <2>2
<1>14. PICK l : l = loc[r]
  OBVIOUS
<1>15. nodes' = ns /\ Advance(r, l) /\ work' = work /\ ctr' = ctr /\ queue' = queue /\ woken' = woken /\ known' = known /\ answer' = answer
  <2>1. Table(r, l, ns)
    <3>1. remove_node(nodes, d, Req(r).nm, work.noforget) = ns
      BY <1>7, <1>12 DEF remove_node
    <3> QED
      BY <1>6, <1>14, <3>1 DEF RemoveNode
  <2> QED
    BY <2>1, TableIs
<1>16. Moves(r, l) /\ l.pinned = loc[r].pinned
  <2>1. Like(l, loc[r], Loose)
    BY <1>1, <1>14 DEF Like, LocOK
  <2>2. Fits(r, l)
    BY <1>1, <1>2, <1>14, <2>1, FitsLike
  <2>3. "remove" \notin Replies
    BY DEF Replies
  <2> QED
    BY <1>2, <1>3, <1>14, <1>15, <2>2, <2>3 DEF Moves, Answers
<1>17. PICK X : X = {x}
  OBVIOUS
<1>18. Reshaped(r, X)
  <2>1. /\ DOMAIN nodes' = DOMAIN nodes
        /\ \A n \in DOMAIN nodes' :
             But(nodes'[n], nodes[n], IF n = x THEN NoName ELSE nodes[n].name, IF n = x THEN None ELSE nodes[n].parent,
               nodes[n].nlookup - (IF n = x THEN k ELSE 0), nodes[n].refctr - (IF n = nodes[x].parent THEN 1 ELSE 0))
    BY <1>13, <1>15 DEF Unhung
  <2>2. TableOK(nodes')
    BY <1>1, <1>8, <1>9, <1>11, <1>13, <1>15, UnhungTable
  <2>3. Balanced(nodes, nodes')
    BY <1>1, <1>8, <1>11, <1>13, <1>15, BalancedUnhung
  <2>4. \A n \in DOMAIN nodes : nodes'[n].open = nodes[n].open /\ nodes'[n].tree = nodes[n].tree
    BY <2>1 DEF But
  <2>5. \A n \in DOMAIN nodes \ X : nodes'[n].name = nodes[n].name /\ nodes'[n].parent = nodes[n].parent
    BY <1>17, <2>1 DEF But
  <2>6. \A y \in X : /\ y \in DOMAIN nodes /\ nodes[y].parent \in Mutexes(r)
                     /\ nodes'[y].name # NoName => nodes'[y].parent \in Mutexes(r) /\ Holds(nodes'[y].parent)
    BY <1>4, <1>6, <1>8, <1>17, <2>1 DEF But
  <2>7. \A p \in Paths : Above(nodes, Base(p)) \cap X = {}
    <3>1. \E q \in Reqs : loc[q].locked /\ x \in {loc[q].w, loc[q].w2}
      BY <1>3, <1>4, <1>5
    <3>2. \A p \in Paths : x \notin Above(nodes, Base(p))
      BY <1>7, <3>1, Unread
    <3> QED
      BY <1>17, <3>2
  <2>8. \A id \in Ids \ {Root} : Weight(nodes', id, Kept) = Weight(nodes, id, Kept)
    <3>1. TAKE id \in Ids \ {Root}
    <3>2. CASE id = x
      <4>1. nodes'[x].name = NoName /\ nodes'[x].nlookup = nodes[x].nlookup - k
        BY <1>8, <2>1 DEF But
      <4> HIDE DEF Kept
      <4> QED
        BY <1>8, <1>10, <1>11, <2>1, <3>2, <4>1 DEF Weight
    <3>3. CASE id # x /\ id \in DOMAIN nodes
      <4>1. nodes'[id].name = nodes[id].name /\ nodes'[id].nlookup = nodes[id].nlookup - 0
        BY <2>1, <3>3 DEF But
      <4>2. nodes[id].nlookup \in Nat
        BY <1>1, <3>3 DEF TableOK, NodeOK
      <4>3. nodes'[id].nlookup = nodes[id].nlookup
        BY <4>1, <4>2
      <4> QED
        BY <2>1, <3>3, <4>1, <4>3 DEF Weight
    <3>4. CASE id \notin DOMAIN nodes
      BY <2>1, <3>4 DEF Weight
    <3> QED
      BY <3>2, <3>3, <3>4
  <2> QED
    BY <2>1, <2>2, <2>3, <2>4, <2>5, <2>6, <2>7, <2>8 DEF Reshaped
<1>19. \A q \in Reqs : NamesOK(q)'
  <2>1. NamesOK(r)'
    BY <1>1, <1>2, <1>16, NamesOther
  <2>2. \A q \in Reqs \ {r} : NamesOK(q)'
    BY <1>2, <1>3, <1>15, <1>16, <1>18, RivalNames
  <2> QED
    BY <2>1, <2>2
<1> QED
  BY <1>2, <1>15, <1>16, <1>18, <1>19, ReshapeInv

\* What rename_node leaves of each node.
LEMMA RenamedNodes ==
  ASSUME NEW ns, TableOK(ns), NEW x \in DOMAIN ns \ {Root}, NEW over \in (DOMAIN ns \ {Root}) \cup {None}, x # over,
         NEW old \in DOMAIN ns, NEW new \in DOMAIN ns, ns[old].refctr > 1, NEW name, name # NoName, NEW k \in Nat,
         over # None => k < ns[over].nlookup, ns[x].nlookup > 0,
         NEW ns2, Renamed(ns, ns2, x, over, old, new, name, k)
  PROVE  /\ DOMAIN ns2 = DOMAIN ns /\ ns2[x].name = name /\ ns2[x].parent = new
         /\ over # None => ns2[over].name = NoName /\ ns2[over].parent = None /\ ns2[over].nlookup = ns[over].nlookup - k
         /\ \A n \in DOMAIN ns : /\ NodeOK(ns2[n]) /\ ns2[n].tree = ns[n].tree /\ ns2[n].open = ns[n].open
                                 /\ n # over => ns2[n].nlookup = ns[n].nlookup
                                 /\ n \notin {x, over} => ns2[n].name = ns[n].name /\ ns2[n].parent = ns[n].parent
<1>1. /\ DOMAIN ns2 = DOMAIN ns
      /\ \A n \in DOMAIN ns :
       But(ns2[n], ns[n], IF n = x THEN name ELSE IF n = over THEN NoName ELSE ns[n].name,
           IF n = x THEN new ELSE IF n = over THEN None ELSE ns[n].parent,
           ns[n].nlookup - (IF n = over THEN k ELSE 0), RefsMoved(ns, n, over, old, new))
  BY DEF Renamed
<1>2. \A n \in DOMAIN ns : NodeOK(ns[n])
  BY DEF TableOK
<1>3. None \notin DOMAIN ns /\ DOMAIN ns \subseteq Ids
  BY NotAborted DEF TableOK
<1>4. ns2[x].name = name /\ ns2[x].parent = new
  BY <1>1 DEF But
<1>5. over # None => ns2[over].name = NoName /\ ns2[over].parent = None /\ ns2[over].nlookup = ns[over].nlookup - k
  BY <1>1 DEF But
<1>6. \A n \in DOMAIN ns : n \notin {x, over} => ns2[n].name = ns[n].name /\ ns2[n].parent = ns[n].parent
  BY <1>1 DEF But
<1>7. ASSUME NEW n \in DOMAIN ns, n # over PROVE ns2[n].nlookup = ns[n].nlookup
  <2>1. ns2[n].nlookup = ns[n].nlookup - 0
    BY <1>1, <1>7 DEF But
  <2>2. ns[n].nlookup \in Nat
    BY <1>2 DEF NodeOK
  <2> QED
    BY <2>1, <2>2
<1>8. \A n \in DOMAIN ns : ns2[n].tree = ns[n].tree /\ ns2[n].open = ns[n].open
  BY <1>1 DEF But
<1>9. ASSUME NEW n \in DOMAIN ns PROVE NodeOK(ns2[n])
  <2>1. NodeOK(ns[n]) /\ DOMAIN ns2[n] = DOMAIN Node(NoName, None, 0, 0)
    BY <1>1, <1>2, NodeFields DEF But, NodeFieldNames
  <2>2. ns2[n].refctr \in Nat
    <3>1. ns2[n].refctr = RefsMoved(ns, n, over, old, new) /\ ns[n].refctr \in Nat
      BY <1>1, <2>1 DEF But, NodeOK
    <3>2. CASE n = old
      BY <3>1, <3>2 DEF RefsMoved
    <3>3. CASE n # old
      BY <3>1, <3>3 DEF RefsMoved
    <3> QED
      BY <3>2, <3>3
  <2>3. CASE n = over
    <3>1. ns2[n].nlookup \in Nat /\ ns2[n].nlookup > 0
      BY <1>3, <1>5, <2>1, <2>3 DEF NodeOK
    <3> QED
      BY <1>3, <1>5, <1>8, <2>1, <2>2, <2>3, <3>1 DEF NodeOK
  <2>4. CASE n = x
    <3>1. new \in Ids /\ ns2[n].nlookup = ns[n].nlookup
      BY <1>3, <1>7, <2>4
    <3> QED
      BY <1>4, <1>8, <2>1, <2>2, <2>4, <3>1 DEF NodeOK
  <2>5. CASE n \notin {x, over}
    <3>1. ns2[n].nlookup = ns[n].nlookup
      BY <1>7, <2>5
    <3> QED
      BY <1>6, <1>8, <2>1, <2>2, <2>5, <3>1 DEF NodeOK
  <2> QED
    BY <2>3, <2>4, <2>5
<1> QED
  BY <1>1, <1>4, <1>5, <1>6, <1>7, <1>8, <1>9

\* A renamed node leaves a tree: it does not hang below itself.
LEMMA RenamedTable ==
  ASSUME NEW ns, TableOK(ns), NEW x \in DOMAIN ns \ {Root}, NEW over \in (DOMAIN ns \ {Root}) \cup {None}, x # over,
         NEW old \in DOMAIN ns, NEW new \in DOMAIN ns, ns[old].refctr > 1, NEW name, name # NoName, NEW k \in Nat,
         over # None => k < ns[over].nlookup /\ over \notin Above(ns, new), ns[x].nlookup > 0,
         over = lookup_node(ns, new, name), x \notin Above(ns, new),
         NEW ns2, Renamed(ns, ns2, x, over, old, new, name, k)
  PROVE  TableOK(ns2)
<1>1. /\ DOMAIN ns2 = DOMAIN ns /\ ns2[x].name = name /\ ns2[x].parent = new
      /\ over # None => ns2[over].name = NoName /\ ns2[over].parent = None /\ ns2[over].nlookup = ns[over].nlookup - k
      /\ \A n \in DOMAIN ns : /\ NodeOK(ns2[n]) /\ ns2[n].tree = ns[n].tree /\ ns2[n].open = ns[n].open
                              /\ n # over => ns2[n].nlookup = ns[n].nlookup
                              /\ n \notin {x, over} => ns2[n].name = ns[n].name /\ ns2[n].parent = ns[n].parent
  BY RenamedNodes
<1>2. Root # over /\ Root # x /\ Root \in DOMAIN ns /\ ns[Root].nlookup > 0 /\ ns[Root].tree = 0 /\ ns[Root].name = NoName
  BY DEF TableOK, Root, None
<1>3. ns2[Root].nlookup > 0 /\ ns2[Root].tree = 0
  BY <1>1, <1>2
<1>4. \A n \in DOMAIN ns : ns[n].name = name /\ ns[n].parent = new => over = n
  BY LookupFacts
<1>5. CASE over = None
  <2>1. \A n \in DOMAIN ns : ~(ns[n].name = name /\ ns[n].parent = new)
    BY <1>4, <1>5, NotAborted
  <2>2. \A n \in DOMAIN ns \ {x} : ns2[n].name = ns[n].name /\ ns2[n].parent = ns[n].parent
    BY <1>1, <1>5, NotAborted
  <2> QED
    BY <1>1, <1>3, <2>1, <2>2, HangTable
<1>6. CASE over # None
  <2>1. over \in DOMAIN ns
    BY <1>6
  <2>2. PICK ns1 : ns1 = [n \in DOMAIN ns |-> IF n = over THEN ns2[over] ELSE ns[n]]
    OBVIOUS
  <2>3. /\ DOMAIN ns1 = DOMAIN ns /\ ns1[over] = ns2[over] /\ \A n \in DOMAIN ns \ {over} : ns1[n] = ns[n]
    BY <2>1, <2>2
  <2>4. TableOK(ns1)
    <3>1. \A n \in DOMAIN ns1 : NodeOK(ns1[n])
      BY <1>1, <2>1, <2>3 DEF TableOK
    <3>2. \A n \in DOMAIN ns1 \ {over} : ns1[n].name = ns[n].name /\ ns1[n].parent = ns[n].parent
      BY <2>3
    <3>3. ns1[over].name = NoName
      BY <1>1, <1>6, <2>3
    <3>4. \A n \in DOMAIN ns1 : ns1[n].name # NoName => ns1[n].parent \in DOMAIN ns1
      BY <2>3, <3>2, <3>3 DEF TableOK
    <3>5. ns1[Root].nlookup > 0 /\ ns1[Root].tree = 0 /\ Root \in DOMAIN ns1
      BY <1>2, <2>3
    <3> QED
      BY <1>2, <2>3, <3>1, <3>2, <3>3, <3>4, <3>5, CutTable
  <2>5. x \notin Above(ns1, new)
    <3>1. PICK X : X = {over}
      OBVIOUS
    <3>2. DOMAIN ns1 \subseteq Ids /\ \A n \in DOMAIN ns \ X : n \in DOMAIN ns1 /\ ns1[n].name = ns[n].name /\ ns1[n].parent = ns[n].parent
      BY <2>3, <3>1 DEF TableOK
    <3>3. Above(ns, new) \cap X = {} /\ new \in DOMAIN ns \cup {None}
      BY <1>6, <3>1
    <3>4. Above(ns1, new) = Above(ns, new)
      BY <3>2, <3>3, FarStays
    <3> QED
      BY <3>4
  <2>6. \A n \in DOMAIN ns1 : ~(ns1[n].name = name /\ ns1[n].parent = new)
    BY <1>1, <1>4, <1>6, <2>3
  <2>7. \A n \in DOMAIN ns1 \ {x} : ns2[n].name = ns1[n].name /\ ns2[n].parent = ns1[n].parent
    BY <1>1, <2>3
  <2>8. x \in DOMAIN ns1 \ {Root} /\ new \in DOMAIN ns1 /\ DOMAIN ns2 = DOMAIN ns1 /\ \A n \in DOMAIN ns2 : NodeOK(ns2[n])
    BY <1>1, <2>3
  <2>9. name # NoName /\ ns2[x].name = name /\ ns2[x].parent = new
    BY <1>1
  <2> QED
    BY ONLY <1>3, <2>4, <2>5, <2>6, <2>7, <2>8, <2>9, HangTable
<1> QED
  BY <1>5, <1>6

\* A rename by a handler that has the names for itself.
LEMMA RenamedShape ==
  ASSUME IInv, NEW r \in Unanswered, NEW x \in DOMAIN nodes \ {Root}, nodes[x].name # NoName, NEW over \in (DOMAIN nodes \ {Root}) \cup {None},
         x # over, NEW old \in DOMAIN nodes, NEW new \in DOMAIN nodes, nodes[x].parent = old, nodes[old].nlookup > 0,
         NEW name, name # NoName, over = lookup_node(nodes, new, name),
         over # None => Kept < nodes[over].nlookup,
         old \in Mutexes(r), new \in Mutexes(r), Holds(new),
         \A p \in Paths : x \notin Above(nodes, Base(p)) /\ over \notin Above(nodes, Base(p)),
         x \notin Above(nodes, new), over \notin Above(nodes, new),
         NEW X, X = {x, over} \ {None},
         Renamed(nodes, nodes', x, over, old, new, name, Kept)
  PROVE  Reshaped(r, X)
<1>1. TableOK(nodes) /\ None \notin DOMAIN nodes
  BY InvIs, NotAborted
<1>2. nodes[old].refctr > 1
  BY RefsFor
<1>3. nodes[x].nlookup > 0 /\ nodes[x].nlookup \in Nat
  BY KeptTwice
<1>4. Kept \in Nat
  BY DEF Kept
<1>5. PICK k : k = Kept
  OBVIOUS
<1>6. Renamed(nodes, nodes', x, over, old, new, name, k) /\ k \in Nat /\ (over # None => k < nodes[over].nlookup)
  BY <1>4, <1>5
<1>7. over # None => nodes[over].parent = new
  BY <1>1, LookupFacts
<1>8. /\ DOMAIN nodes' = DOMAIN nodes /\ nodes'[x].name = name /\ nodes'[x].parent = new
      /\ over # None => nodes'[over].name = NoName /\ nodes'[over].parent = None /\ nodes'[over].nlookup = nodes[over].nlookup - k
      /\ \A n \in DOMAIN nodes : /\ NodeOK(nodes'[n]) /\ nodes'[n].tree = nodes[n].tree /\ nodes'[n].open = nodes[n].open
                                 /\ n # over => nodes'[n].nlookup = nodes[n].nlookup
                                 /\ n \notin {x, over} => nodes'[n].name = nodes[n].name /\ nodes'[n].parent = nodes[n].parent
  BY <1>1, <1>2, <1>3, <1>6, RenamedNodes
<1>9. TableOK(nodes')
  BY <1>1, <1>2, <1>3, <1>6, RenamedTable
<1>10. Balanced(nodes, nodes')
  BY <1>1, <1>6, <1>7, BalancedRenamed
<1>11. \A n \in DOMAIN nodes \ X : nodes'[n].name = nodes[n].name /\ nodes'[n].parent = nodes[n].parent
  BY <1>1, <1>8
<1>12. \A y \in X : /\ y \in DOMAIN nodes /\ nodes[y].parent \in Mutexes(r)
                    /\ nodes'[y].name # NoName => nodes'[y].parent \in Mutexes(r) /\ Holds(nodes'[y].parent)
  <2>1. TAKE y \in X
  <2>2. CASE y = x
    BY <1>8, <2>2
  <2>3. CASE y = over /\ over # None
    BY <1>7, <1>8, <2>3
  <2> QED
    BY <2>2, <2>3
<1>13. \A p \in Paths : Above(nodes, Base(p)) \cap X = {}
  OBVIOUS
<1>14. \A id \in Ids \ {Root} : Weight(nodes', id, Kept) = Weight(nodes, id, Kept)
  <2>1. TAKE id \in Ids \ {Root}
  <2>2. CASE id \notin DOMAIN nodes
    BY <1>8, <2>2 DEF Weight
  <2>3. CASE id = over /\ over # None
    <3>1. nodes[over].name # NoName /\ over \in DOMAIN nodes /\ nodes[over].nlookup \in Nat
      BY <1>1, <2>3, LookupFacts DEF TableOK, NodeOK
    <3> HIDE DEF Kept
    <3> QED
      BY <1>4, <1>5, <1>8, <2>3, <3>1 DEF Weight
  <2>4. CASE id \in DOMAIN nodes /\ id # over
    <3>1. nodes'[id].nlookup = nodes[id].nlookup /\ (nodes'[id].name # NoName <=> nodes[id].name # NoName)
      BY <1>8, <2>4
    <3> QED
      BY <1>8, <2>4, <3>1 DEF Weight
  <2> QED
    BY <1>1, <2>2, <2>3, <2>4
<1> QED
  BY <1>8, <1>9, <1>10, <1>11, <1>12, <1>13, <1>14 DEF Reshaped

\* A naming step of a handler that leaves the table as it is.
LEMMA NothingNamed ==
  ASSUME IInv, NEW r \in Reqs, Step(r) = "rename_node", NEW l, l = [loc[r] EXCEPT !.err = "ok"], Table(r, l, nodes)
  PROVE  IInv'
<1>1. Places /\ QueueOK /\ LocOK(loc[r])
  BY InvIs DEF PlaceOK
<1>2. loc[r].err = "ok" /\ Running(r)
  BY Namer
<1>3. nodes' = nodes /\ Advance(r, l) /\ work' = work /\ ctr' = ctr /\ queue' = queue /\ woken' = woken /\ known' = known /\ answer' = answer
  BY TableIs
<1>4. Like(l, loc[r], Loose) /\ l.err = loc[r].err /\ l.hide = loc[r].hide /\ l.hname = loc[r].hname
  BY <1>1, <1>2, LocFields DEF LocOK, Like, Loose
<1>5. Fits(r, l) /\ l.pinned = loc[r].pinned /\ l.intr = loc[r].intr
  BY <1>1, <1>4, FitsLike
<1>6. "rename_node" \notin Replies \cup Gets \cup Forgets \cup {"free"}
  BY DEF Replies, Gets, Forgets
<1>7. Moves(r, l)
  BY <1>2, <1>3, <1>5, <1>6 DEF Moves, Answers
<1>8. LocksKept /\ QueueOK'
  BY <1>1, <1>3, <1>6, <1>7, LocksMoved, QueueKept
<1>9. Alike(nodes, nodes')
  BY <1>3 DEF Alike, Body
<1> QED
  BY <1>3, <1>5, <1>6, <1>7, <1>8, <1>9, QuietStep

\* rename_node keeps the invariant.
LEMMA RenameInv ==
  ASSUME IInv, RenamesApart, NEW r \in Reqs, RenameNode(r)
  PROVE  IInv'
<1>1. Places /\ TypeOK /\ PlaceOK(r) /\ NamesOK(r) /\ TableOK(nodes) /\ TreesOK /\ LocOK(loc[r]) /\ None \notin DOMAIN nodes
  BY InvIs, NotAborted DEF PlaceOK
<1>2. Step(r) = "rename_node"
  BY DEF RenameNode
<1>3. /\ r \in Unanswered /\ Running(r) /\ Started(r) /\ loc[r].locked /\ loc[r].err = "ok" /\ Renaming(r)
      /\ NodeOf(r) = Req(r).n /\ Op(r) = "rename" /\ Doomed(r) = <<Req(r).n2, Req(r).nm2>>
      /\ \A d \in {Doomed(r)[1], Req(r).n} : d \in DOMAIN nodes /\ nodes[d].nlookup > 0 /\ Holds(d) /\ d \in Mutexes(r)
      /\ Doomed(r)[2] # NoName /\ Req(r).nm # NoName
      /\ loc[r].victim # None => Holds(loc[r].victim) /\ loc[r].victim \in Ids
  BY <1>2, Namer
<1>4. PICK old : old = Req(r).n
  OBVIOUS
<1>5. PICK new : new = Req(r).n2
  OBVIOUS
<1>6. PICK oldname : oldname = Req(r).nm
  OBVIOUS
<1>7. PICK newname : newname = Req(r).nm2
  OBVIOUS
<1>8. /\ old \in DOMAIN nodes /\ nodes[old].nlookup > 0 /\ Holds(old) /\ old \in Mutexes(r) /\ oldname # NoName
      /\ new \in DOMAIN nodes /\ nodes[new].nlookup > 0 /\ Holds(new) /\ new \in Mutexes(r) /\ newname # NoName
      /\ <<old, oldname>> # <<new, newname>>
  BY <1>1, <1>3, <1>4, <1>5, <1>6, <1>7, OpFacts
<1>9. PICK x : x = lookup_node(nodes, old, oldname)
  OBVIOUS
<1>10. PICK over : over = lookup_node(nodes, new, newname)
  OBVIOUS
<1>11. PICK R : R = rename_node(nodes, old, oldname, new, newname, FALSE, work.noforget)
  OBVIOUS
<1>12. PICK l : l = [loc[r] EXCEPT !.err = R.err]
  OBVIOUS
<1>13. Table(r, l, R.nodes)
  BY <1>4, <1>5, <1>6, <1>7, <1>11, <1>12 DEF RenameNode
<1>14. CASE x = None
  <2>1. R.err = "ok" /\ R.nodes = nodes
    BY <1>9, <1>11, <1>14 DEF rename_node
  <2> QED
    BY <1>2, <1>12, <1>13, <2>1, NothingNamed
<1>15. CASE x # None
  <2>1. x \in DOMAIN nodes \ {Root} /\ nodes[x].name = oldname /\ nodes[x].parent = old
    BY <1>1, <1>8, <1>9, <1>15, LookupFacts
  <2>2. over \in (DOMAIN nodes \ {Root}) \cup {None} /\ (over # None => nodes[over].name = newname /\ nodes[over].parent = new)
    BY <1>1, <1>8, <1>10, LookupFacts
  <2>3. x # over
    BY <1>8, <1>15, <2>1, <2>2
  <2>4. \A z \in {x, over} : z \in {None, loc[r].w, loc[r].w2} \/ Stranger(z)
    BY <1>1, <1>3, <1>4, <1>5, <1>6, <1>7, <1>9, <1>10 DEF NamesOK, Doom
  <2>5. \A p \in Paths : x \notin Above(nodes, Base(p)) /\ over \notin Above(nodes, Base(p))
    <3>1. ASSUME NEW z \in {x, over}, z # None PROVE \A p \in Paths : z \notin Above(nodes, Base(p))
      <4>1. (\E q \in Reqs : loc[q].locked /\ z \in {loc[q].w, loc[q].w2}) \/ Stranger(z)
        BY <1>3, <2>4, <3>1
      <4> QED
        BY <3>1, <4>1, Unread
    <3>2. \A p \in Paths : None \notin Above(nodes, Base(p))
      <4>1. TAKE p \in Paths
      <4>2. Base(p) \in DOMAIN nodes
        BY <1>1, PathsIn
      <4> QED
        BY <1>1, <4>2, ChainFacts
    <3> QED
      BY <3>1, <3>2
  <2>6. x \notin Above(nodes, new) /\ over \notin Above(nodes, new)
    <3>1. PICK p : p = <<r, 2>>
      OBVIOUS
    <3>2. p \in Paths /\ Base(p) = new
      BY <1>3, <1>5, <3>1 DEF Paths, Base, Op
    <3> QED
      BY <2>5, <3>2
  <2>7. x # new
    <3>1. new \notin {Root, None} => new \in Above(nodes, new)
      BY <1>1, <1>8, ChainFacts
    <3> QED
      BY <1>1, <1>8, <2>1, <2>6, <3>1
  <2>8. nodes[old].refctr > 1 /\ (over # None => nodes[new].refctr > 1) /\ (old = new /\ over # None => nodes[old].refctr > 2)
    <3>1. nodes[old].refctr > 1
      BY <1>8, <2>1, RefsFor
    <3>2. over # None => nodes[new].refctr > 1
      BY <1>8, <2>2, RefsFor
    <3>3. old = new /\ over # None => nodes[old].refctr > 2
      BY <1>8, <2>1, <2>2, <2>3, RefsFor
    <3> QED
      BY <3>1, <3>2, <3>3
  <2>9. over # None => Kept < nodes[over].nlookup /\ nodes[over].nlookup \in Nat
    <3>1. SUFFICES ASSUME over # None PROVE Kept < nodes[over].nlookup /\ nodes[over].nlookup \in Nat
      OBVIOUS
    <3>2. nodes[over].nlookup \in Nat /\ nodes[over].nlookup > 0 /\ (Holds(over) => nodes[over].nlookup > Kept)
      BY <1>8, <2>2, <3>1, KeptTwice
    <3>3. CASE work.noforget
      <4>1. IF loc[r].hide /\ ~Ahead(r, "hide_node") THEN Doom(r) = None ELSE Doom(r) = loc[r].victim
        BY <1>1, <1>3, <3>3 DEF NamesOK
      <4>2. Doom(r) = over
        BY <1>3, <1>5, <1>7, <1>10 DEF Doom
      <4>3. Holds(over)
        BY <1>3, <3>1, <4>1, <4>2
      <4>4. Kept \in Nat
        BY DEF Kept
      <4> QED
        BY <3>2, <4>3, <4>4
    <3>4. CASE ~work.noforget
      BY <3>2, <3>4 DEF Kept
    <3> QED
      BY <3>3, <3>4
  <2>10. work.noforget \in BOOLEAN
    BY <1>1, WorkOK
  <2>11. R.err = "ok" /\ Renamed(nodes, R.nodes, x, over, old, new, newname, Kept)
    <3>1. work.noforget /\ over # None => nodes[over].nlookup > 1
      BY <2>9 DEF Kept
    <3>2. R.err = "ok" /\ Renamed(nodes, R.nodes, x, over, old, new, newname, IF work.noforget THEN 1 ELSE 0)
      <4>1. TableOK(nodes) /\ old \in DOMAIN nodes /\ new \in DOMAIN nodes
        BY <1>1, <1>8
      <4>2. PICK hide : hide = FALSE
        OBVIOUS
      <4>3. R = rename_node(nodes, old, oldname, new, newname, hide, work.noforget)
        BY <1>11, <4>2
      <4>4. hide \in BOOLEAN /\ (hide => over = None)
        BY <4>2
      <4> QED
        BY ONLY <1>8, <1>9, <1>10, <1>15, <2>7, <2>8, <2>10, <3>1, <4>1, <4>3, <4>4, RenameFacts
    <3> QED
      BY <3>2 DEF Kept
  <2>12. nodes' = R.nodes /\ Advance(r, l) /\ work' = work /\ ctr' = ctr /\ queue' = queue /\ woken' = woken /\ known' = known /\ answer' = answer
    BY <1>13, TableIs
  <2>13. Like(l, loc[r], Loose) /\ l.err = loc[r].err /\ l.hide = loc[r].hide /\ l.hname = loc[r].hname
    BY <1>1, <1>3, <1>12, <2>11, LocFields DEF LocOK, Like, Loose
  <2>14. Fits(r, l) /\ l.pinned = loc[r].pinned /\ l.intr = loc[r].intr
    BY <1>1, <1>2, <2>13, FitsLike
  <2>15. Moves(r, l)
    <3>1. "rename_node" \notin Replies
      BY DEF Replies
    <3> QED
      BY <1>2, <1>3, <2>12, <2>14, <3>1 DEF Moves, Answers
  <2>16. PICK X : X = {x, over} \ {None}
    OBVIOUS
  <2>17. Reshaped(r, X)
    <3>1. nodes[x].name # NoName
      BY <1>8, <2>1
    <3>2. Renamed(nodes, nodes', x, over, old, new, newname, Kept)
      BY <2>11, <2>12
    <3> QED
      BY <1>3, <1>8, <1>10, <2>1, <2>2, <2>3, <2>5, <2>6, <2>9, <2>16, <3>1, <3>2, RenamedShape
  <2>18. \A q \in Reqs : NamesOK(q)'
    <3>1. NamesOK(r)'
      BY <1>1, <1>2, <2>15, NamesOther
    <3>2. \A q \in Reqs \ {r} : NamesOK(q)'
      BY <1>2, <1>3, <2>12, <2>15, <2>17, RivalNames
    <3> QED
      BY <3>1, <3>2
  <2> QED
    BY <1>2, <2>12, <2>14, <2>15, <2>17, <2>18, ReshapeInv
<1> QED
  BY <1>14, <1>15

\* Once the file is hidden, nothing is left at its name.
LEMMA HiddenNames ==
  ASSUME IInv, NEW r \in Reqs, NEW l, Moves(r, l), Step(r) = "hide_node",
         lookup_node(nodes', Doomed(r)[1], Doomed(r)[2]) = None,
         Renaming(r) => \A y : y = lookup_node(nodes', Req(r).n, Req(r).nm) => y \in {None, loc[r].w, loc[r].w2} \/ Stranger(y)'
  PROVE  NamesOK(r)'
<1>1. TypeOK /\ Places /\ PlaceOK(r) /\ Running(r) /\ Advance(r, l) /\ work' = work /\ Fits(r, l)
  BY InvIs DEF Moves
<1>2. /\ loc'[r] = l /\ Started(r) /\ Req(r)' = Req(r) /\ (\A t : Ahead(r, t)' => Ahead(r, t))
      /\ \A t : t = Step(r) /\ t # "touch" => ~Ahead(r, t)'
  BY <1>1, AdvanceFacts
<1>3. ~Ahead(r, "hide_node")'
  BY <1>2
<1>4. l.hide
  <2>1. Applies(r, "hide_node", loc[r])
    BY <1>1, <1>2 DEF PlaceOK
  <2>2. loc[r].hide
    BY <2>1 DEF Applies
  <2> QED
    BY <1>1, <2>2 DEF Fits
<1>5. Doomed(r)' = Doomed(r)
  <2>1. NodeOf(r)' = NodeOf(r)
    BY <1>1, <1>2, MoveNodes
  <2> QED
    BY <1>2, <2>1 DEF Doomed
<1>6. Doom(r)' = None
  BY <1>5 DEF Doom
<1>7. l.w = loc[r].w /\ l.w2 = loc[r].w2
  <2>1. "hide_node" \notin Gets
    BY DEF Gets
  <2> QED
    BY <1>1, <2>1 DEF Fits
<1>8. Renaming(r)' => Renaming(r)
  BY <1>1, <1>2 DEF Renaming, Fits
<1>9. ASSUME Renaming(r)', NEW x \in {Doom(r)', lookup_node(nodes', Req(r).n, Req(r).nm)} PROVE x \in {None, l.w, l.w2} \/ Stranger(x)'
  BY <1>6, <1>7, <1>8, <1>9
<1>10. lookup_node(nodes, Req(r).n, Req(r).nm)' = lookup_node(nodes', Req(r).n, Req(r).nm)
  BY <1>2
<1> QED
  BY <1>2, <1>3, <1>4, <1>6, <1>9, <1>10 DEF NamesOK

\* There is no node to hide.
LEMMA NothingHidden ==
  ASSUME IInv, NEW r \in Reqs, Step(r) = "hide_node", Doom(r) = None, NEW l, l = [loc[r] EXCEPT !.err = "ok"], Table(r, l, nodes)
  PROVE  IInv'
<1>1. Places /\ QueueOK /\ LocOK(loc[r]) /\ TableOK(nodes) /\ NamesOK(r) /\ HeldOK
  BY InvIs DEF PlaceOK
<1>2. loc[r].err = "ok" /\ Running(r) /\ r \in Unanswered /\ loc[r].locked
  BY Namer
<1>3. nodes' = nodes /\ Advance(r, l) /\ work' = work /\ ctr' = ctr /\ queue' = queue /\ woken' = woken /\ known' = known /\ answer' = answer
  BY TableIs
<1>4. Like(l, loc[r], Loose) /\ l.err = loc[r].err /\ l.hide = loc[r].hide /\ l.hname = loc[r].hname
  BY <1>1, <1>2, LocFields DEF LocOK, Like, Loose
<1>5. Fits(r, l) /\ l.pinned = loc[r].pinned /\ l.intr = loc[r].intr
  <2>1. Step(r) \in Calm
    BY DEF Calm
  <2> QED
    BY <1>1, <1>4, <2>1, FitsLike
<1>6. "hide_node" \notin Replies \cup Gets \cup Forgets \cup {"free"}
  BY DEF Replies, Gets, Forgets
<1>7. Moves(r, l)
  BY <1>2, <1>3, <1>5, <1>6 DEF Moves, Answers
<1>8. PICK X : X = {}
  OBVIOUS
<1>9. Reshaped(r, X)
  <2>1. Balanced(nodes, nodes')
    BY <1>3, BalancedSame
  <2>2. /\ TableOK(nodes') /\ DOMAIN nodes' = DOMAIN nodes
        /\ \A n \in DOMAIN nodes : nodes'[n].open = nodes[n].open /\ nodes'[n].tree = nodes[n].tree
        /\ \A n \in DOMAIN nodes \ X : nodes'[n].name = nodes[n].name /\ nodes'[n].parent = nodes[n].parent
        /\ \A id \in Ids \ {Root} : Weight(nodes', id, Kept) = Weight(nodes, id, Kept)
    BY <1>1, <1>3
  <2> QED
    BY <1>8, <2>1, <2>2 DEF Reshaped
<1>10. NamesOK(r)'
  <2>1. lookup_node(nodes', Doomed(r)[1], Doomed(r)[2]) = None
    BY <1>3 DEF Doom
  <2>2. ASSUME Renaming(r), NEW y, y = lookup_node(nodes', Req(r).n, Req(r).nm) PROVE y \in {None, loc[r].w, loc[r].w2} \/ Stranger(y)'
    <3>1. y \in {None, loc[r].w, loc[r].w2} \/ Stranger(y)
      BY <1>1, <1>2, <1>3, <2>2 DEF NamesOK
    <3>2. Stranger(y) => Stranger(y)'
      <4>1. Stranger(y) => StaysStrange(y, r, l)
        BY <1>3, <1>9, StillStrange
      <4> QED
        BY <1>1, <1>7, <4>1, StrangerStays
    <3> QED
      BY <3>1, <3>2
  <2> QED
    BY <1>7, <2>1, <2>2, HiddenNames
<1>11. \A q \in Reqs : NamesOK(q)'
  <2>1. \A q \in Reqs \ {r} : NamesOK(q)'
    BY <1>2, <1>3, <1>7, <1>9, RivalNames
  <2> QED
    BY <1>10, <2>1
<1> QED
  BY <1>3, <1>5, <1>7, <1>9, <1>11, ReshapeInv

\* The name is taken: the handler stops there.
LEMMA HideBusy ==
  ASSUME IInv, NEW r \in Reqs, Step(r) = "hide_node", NEW l, l = [loc[r] EXCEPT !.err = "EBUSY"], Table(r, l, nodes)
  PROVE  IInv'
<1>1. LocOK(loc[r])
  BY InvIs DEF PlaceOK
<1>2. Like(l, loc[r], Loose) /\ l.err = "EBUSY" /\ l.hname = loc[r].hname /\ l.hide = loc[r].hide
  BY <1>1, LocFields DEF Like, Loose, LocOK
<1>3. /\ nodes' = nodes /\ Advance(r, l) /\ work' = work /\ ctr' = ctr /\ queue' = queue /\ woken' = woken
      /\ known' = known /\ answer' = answer
  BY TableIs
<1>4. Alike(nodes, nodes')
  BY <1>3 DEF Alike, Body
<1>5. Step(r) \in Calm /\ Step(r) \in Spoils /\ Step(r) # "hide_name"
  BY DEF Calm, Spoils
<1>6. l.err # "ok"
  BY <1>2
<1> QED
  BY <1>2, <1>3, <1>4, <1>5, <1>6, QuietRun

\* hide_node renames the node, to a hidden name.
Hide(d, nm, hname) == rename_node(nodes, d, nm, d, hname, TRUE, work.noforget)

\* The file that is to disappear gets another name in its directory.
LEMMA HiddenShape ==
  ASSUME IInv, NEW r \in Reqs, Step(r) = "hide_node", NEW d, d = Doomed(r)[1], NEW nm, nm = Doomed(r)[2],
         NEW hname, hname = loc[r].hname, NEW x, x = lookup_node(nodes, d, nm), x # None,
         lookup_node(nodes, d, hname) = None,
         NEW R, R = Hide(d, nm, hname), nodes' = R.nodes
  PROVE  /\ R.err = "ok" /\ (x \in {loc[r].w, loc[r].w2} \/ Stranger(x))
         /\ \A X : X = {x} => Reshaped(r, X)
         /\ x \in DOMAIN nodes' /\ nodes'[x].name = hname /\ nodes'[x].parent = d /\ hname # nm
<1>1. Places /\ TypeOK /\ PlaceOK(r) /\ NamesOK(r) /\ TableOK(nodes) /\ TreesOK /\ None \notin DOMAIN nodes
  BY InvIs, NotAborted
<1>2. /\ r \in Unanswered /\ Started(r) /\ loc[r].locked /\ (Removing(r) \/ Renaming(r))
      /\ Ahead(r, "hide_node") /\ hname # NoName /\ nm # NoName
      /\ d \in DOMAIN nodes /\ nodes[d].nlookup > 0 /\ Holds(d) /\ d \in Mutexes(r)
      /\ Removing(r) => loc[r].w = loc[r].victim
  BY Namer
<1>3. x \in DOMAIN nodes \ {Root} /\ nodes[x].name = nm /\ nodes[x].parent = d
  BY <1>1, <1>2, LookupFacts
<1>4. hname # nm
  OBVIOUS
<1>5. x \in {loc[r].w, loc[r].w2} \/ Stranger(x)
  <2>1. x = Doom(r)
    BY DEF Doom
  <2>2. CASE Removing(r)
    BY <1>1, <1>2, <2>1, <2>2 DEF NamesOK
  <2>3. CASE Renaming(r)
    BY <1>1, <1>2, <2>1, <2>3 DEF NamesOK
  <2> QED
    BY <1>2, <2>2, <2>3
<1>6. \A p \in Paths : x \notin Above(nodes, Base(p))
  BY <1>2, <1>5, Unread
<1>7. x \notin Above(nodes, d) /\ x # d
  BY <1>1, <1>2, <1>3, ChildBelow, ParentIn
<1>8. nodes[d].refctr > 1
  BY <1>2, <1>3, RefsFor
<1>9. PICK over : over = None
  OBVIOUS
<1>10. R.err = "ok" /\ Renamed(nodes, nodes', x, over, d, d, hname, Kept)
  <2>1. PICK new : new = d
    OBVIOUS
  <2>7. PICK hide : hide = TRUE
    OBVIOUS
  <2>2. R = rename_node(nodes, d, nm, new, hname, hide, work.noforget)
    BY <2>1, <2>7 DEF Hide
  <2>3. work.noforget \in BOOLEAN /\ hide \in BOOLEAN
    BY <1>1, <2>7, WorkOK
  <2>4. /\ TableOK(nodes) /\ d \in DOMAIN nodes /\ nm # NoName /\ hname # NoName /\ <<d, nm>> # <<new, hname>>
        /\ new \in DOMAIN nodes /\ nodes[d].refctr > 1 /\ x = lookup_node(nodes, d, nm) /\ over = lookup_node(nodes, new, hname)
        /\ x # None /\ x # new
        /\ (over # None => nodes[new].refctr > 1) /\ (d = new /\ over # None => nodes[d].refctr > 2)
        /\ (work.noforget /\ over # None => nodes[over].nlookup > 1) /\ (hide => over = None)
    BY <1>1, <1>2, <1>4, <1>7, <1>8, <1>9, <2>1
  <2>5. R.err = "ok" /\ Renamed(nodes, R.nodes, x, over, d, new, hname, IF work.noforget THEN 1 ELSE 0)
    BY ONLY <2>2, <2>3, <2>4, RenameFacts
  <2>6. R.err = "ok" /\ Renamed(nodes, R.nodes, x, over, d, new, hname, Kept)
    BY <2>5 DEF Kept
  <2> QED
    BY <2>1, <2>6
<1>11. \A X : X = {x} => Reshaped(r, X)
  <2>1. SUFFICES ASSUME NEW X, X = {x} PROVE Reshaped(r, X)
    OBVIOUS
  <2>2. X = {x, over} \ {None} /\ over \in (DOMAIN nodes \ {Root}) \cup {None} /\ x # over /\ over = lookup_node(nodes, d, hname)
    BY <1>9, <2>1
  <2>3. over \notin Above(nodes, d) /\ \A p \in Paths : over \notin Above(nodes, Base(p))
    <3>1. None \notin Above(nodes, d)
      BY <1>1, <1>2, ChainFacts
    <3>2. \A p \in Paths : None \notin Above(nodes, Base(p))
      <4>1. TAKE p \in Paths
      <4>2. Base(p) \in DOMAIN nodes
        BY <1>1, PathsIn
      <4> QED
        BY <1>1, <4>2, ChainFacts
    <3> QED
      BY <1>9, <3>1, <3>2
  <2>4. nodes[x].name # NoName /\ nodes[x].parent = d
    BY <1>2, <1>3
  <2>5. \A p \in Paths : x \notin Above(nodes, Base(p)) /\ over \notin Above(nodes, Base(p))
    BY <1>6, <2>3
  <2>6. over # None => Kept < nodes[over].nlookup
    BY <1>9
  <2> QED
    BY <1>2, <1>3, <1>7, <1>10, <2>2, <2>3, <2>4, <2>5, <2>6, RenamedShape
<1>12. x \in DOMAIN nodes' /\ nodes'[x].name = hname /\ nodes'[x].parent = d
  BY <1>3, <1>10 DEF Renamed, But
<1> QED
  BY <1>4, <1>5, <1>10, <1>11, <1>12

\* Hiding keeps the invariant where the node is there.
LEMMA HideDone ==
  ASSUME IInv, NEW r \in Reqs, Step(r) = "hide_node", NEW d, d = Doomed(r)[1], NEW nm, nm = Doomed(r)[2],
         NEW hname, hname = loc[r].hname, NEW x, x = lookup_node(nodes, d, nm), x # None,
         lookup_node(nodes, d, hname) = None,
         NEW R, R = Hide(d, nm, hname),
         NEW l, l = [loc[r] EXCEPT !.err = R.err], Table(r, l, R.nodes)
  PROVE  IInv'
<1>1. Places /\ TypeOK /\ PlaceOK(r) /\ NamesOK(r) /\ TableOK(nodes) /\ LocOK(loc[r])
  BY InvIs DEF PlaceOK
<1>2. r \in Unanswered /\ Running(r) /\ loc[r].err = "ok" /\ loc[r].locked /\ hname # NoName /\ nm # NoName /\ Req(r).nm # NoName
  BY Namer
<1>3. nodes' = R.nodes /\ Advance(r, l) /\ work' = work /\ ctr' = ctr /\ queue' = queue /\ woken' = woken /\ known' = known /\ answer' = answer
  BY TableIs
<1>4. PICK X : X = {x}
  OBVIOUS
<1>5. /\ R.err = "ok" /\ (x \in {loc[r].w, loc[r].w2} \/ Stranger(x)) /\ Reshaped(r, X)
      /\ x \in DOMAIN nodes' /\ nodes'[x].name = hname /\ nodes'[x].parent = d /\ hname # nm
  <2>1. /\ IInv /\ r \in Reqs /\ Step(r) = "hide_node" /\ d = Doomed(r)[1] /\ nm = Doomed(r)[2]
        /\ hname = loc[r].hname /\ x = lookup_node(nodes, d, nm) /\ x # None /\ lookup_node(nodes, d, hname) = None
        /\ R = Hide(d, nm, hname) /\ nodes' = R.nodes
    BY <1>3
  <2>2. /\ R.err = "ok" /\ (x \in {loc[r].w, loc[r].w2} \/ Stranger(x))
        /\ \A Y : Y = {x} => Reshaped(r, Y)
        /\ x \in DOMAIN nodes' /\ nodes'[x].name = hname /\ nodes'[x].parent = d /\ hname # nm
    BY ONLY <2>1, HiddenShape
  <2> QED
    BY <1>4, <2>2
<1>6. Like(l, loc[r], Loose) /\ l.err = loc[r].err /\ l.hide = loc[r].hide /\ l.hname = loc[r].hname
  BY <1>1, <1>2, <1>5, LocFields DEF LocOK, Like, Loose
<1>7. Fits(r, l) /\ l.pinned = loc[r].pinned /\ l.intr = loc[r].intr
  <2>1. Step(r) \in Calm
    BY DEF Calm
  <2> QED
    BY <1>1, <1>6, <2>1, FitsLike
<1>8. Moves(r, l)
  <2>1. "hide_node" \notin Replies
    BY DEF Replies
  <2> QED
    BY <1>2, <1>3, <1>7, <2>1 DEF Moves, Answers
<1>9. TableOK(nodes') /\ DOMAIN nodes' = DOMAIN nodes
      /\ \A n \in DOMAIN nodes \ X : nodes'[n].name = nodes[n].name /\ nodes'[n].parent = nodes[n].parent
  BY <1>5 DEF Reshaped
<1>10. ASSUME NEW p, NEW name, name # NoName, ~(nodes'[x].name = name /\ nodes'[x].parent = p)
       PROVE  lookup_node(nodes', p, name) = IF lookup_node(nodes, p, name) = x THEN None ELSE lookup_node(nodes, p, name)
  <2>1. \A n \in DOMAIN nodes \ X : n \in DOMAIN nodes' /\ nodes'[n].name = nodes[n].name /\ nodes'[n].parent = nodes[n].parent
    BY <1>9
  <2>2. DOMAIN nodes' \subseteq DOMAIN nodes \cup X /\ \A z \in X : z \in DOMAIN nodes' => ~(nodes'[z].name = name /\ nodes'[z].parent = p)
    BY <1>4, <1>9, <1>10
  <2>3. lookup_node(nodes', p, name) = IF lookup_node(nodes, p, name) \in X THEN None ELSE lookup_node(nodes, p, name)
    BY <1>1, <1>9, <1>10, <2>1, <2>2, LookupBut
  <2> QED
    BY <1>4, <2>3
<1>11. NamesOK(r)'
  <2>1. lookup_node(nodes', Doomed(r)[1], Doomed(r)[2]) = None
    <3>1. lookup_node(nodes', d, nm) = IF lookup_node(nodes, d, nm) = x THEN None ELSE lookup_node(nodes, d, nm)
      BY <1>2, <1>5, <1>10
    <3> QED
      BY <3>1
  <2>2. ASSUME Renaming(r), NEW y, y = lookup_node(nodes', Req(r).n, Req(r).nm) PROVE y \in {None, loc[r].w, loc[r].w2} \/ Stranger(y)'
    <3>1. ASSUME NEW z, Stranger(z) PROVE Stranger(z)'
      <4>1. StaysStrange(z, r, l)
        BY <1>3, <1>5, <3>1, StillStrange
      <4> QED
        BY <1>1, <1>8, <3>1, <4>1, StrangerStays
    <3>2. CASE nodes'[x].name = Req(r).nm /\ nodes'[x].parent = Req(r).n
      <4>1. y = x
        BY <1>2, <1>5, <1>9, <2>2, <3>2, LookupFacts
      <4> QED
        BY <1>5, <3>1, <4>1
    <3>3. CASE ~(nodes'[x].name = Req(r).nm /\ nodes'[x].parent = Req(r).n)
      <4>1. y = None \/ y = lookup_node(nodes, Req(r).n, Req(r).nm)
        BY <1>2, <1>10, <2>2, <3>3
      <4>2. lookup_node(nodes, Req(r).n, Req(r).nm) \in {None, loc[r].w, loc[r].w2} \/ Stranger(lookup_node(nodes, Req(r).n, Req(r).nm))
        BY <1>1, <1>2, <2>2 DEF NamesOK
      <4> QED
        BY <3>1, <4>1, <4>2
    <3> QED
      BY <3>2, <3>3
  <2> QED
    BY <1>8, <2>1, <2>2, HiddenNames
<1>12. \A q \in Reqs : NamesOK(q)'
  <2>1. \A q \in Reqs \ {r} : NamesOK(q)'
    BY <1>2, <1>3, <1>5, <1>8, RivalNames
  <2> QED
    BY <1>11, <2>1
<1> QED
  BY <1>3, <1>5, <1>7, <1>8, <1>12, ReshapeInv

\* hide_node's section: there is nothing to hide, or the name is taken, or it is hidden.
LEMMA HideInv ==
  ASSUME IInv, RenamesApart, NEW r \in Reqs, HideNode(r)
  PROVE  IInv'
<1>1. PICK d : d = Doomed(r)[1]
  OBVIOUS
<1>2. PICK nm : nm = Doomed(r)[2]
  OBVIOUS
<1>3. PICK hname : hname = loc[r].hname
  OBVIOUS
<1>4. PICK x : x = lookup_node(nodes, d, nm)
  OBVIOUS
<1>5. PICK R : R = Hide(d, nm, hname)
  OBVIOUS
<1>6. PICK l : l = [loc[r] EXCEPT !.err = R.err]
  OBVIOUS
<1>7. Step(r) = "hide_node" /\ Table(r, l, R.nodes)
  BY <1>1, <1>2, <1>3, <1>5, <1>6 DEF HideNode, Hide
<1>8. CASE x = None
  <2>1. R.err = "ok" /\ R.nodes = nodes
    BY <1>4, <1>5, <1>8 DEF rename_node, Hide
  <2>2. Doom(r) = None
    BY <1>1, <1>2, <1>4, <1>8 DEF Doom
  <2> QED
    BY <1>6, <1>7, <2>1, <2>2, NothingHidden
<1>9. CASE x # None /\ lookup_node(nodes, d, hname) # None
  <2>1. R.err = "EBUSY" /\ R.nodes = nodes
    BY <1>4, <1>5, <1>9 DEF rename_node, Hide
  <2> QED
    BY <1>6, <1>7, <2>1, HideBusy
<1>10. CASE x # None /\ lookup_node(nodes, d, hname) = None
  BY <1>1, <1>2, <1>3, <1>4, <1>5, <1>6, <1>7, <1>10, HideDone
<1> QED
  BY <1>8, <1>9, <1>10

\* The sections under the lock.
LEMMA SectionInv ==
  ASSUME IInv, RenamesApart, NEW r \in Reqs, Section(r)
  PROVE  IInv'
<1>1. \/ Pin(r) \/ Unpin(r) \/ Find(r) \/ Count(r) \/ Uncount(r)
      \/ (IsOpen(r) \/ Cache(r) \/ ListLock(r) \/ ListConflict(r))
      \/ RemoveNode(r) \/ HideNode(r) \/ RenameNode(r)
  BY DEF Section
<1> QED
  BY <1>1, PinInv, UnpinInv, FindInv, CountInv, UncountInv, CalmSections, RemoveInv, HideInv, RenameInv

(***************************************************************************)
(* Answers, and what only they change.                                     *)
(***************************************************************************)

\* An answer leaves the table alone; what remains is the kernel's count.
LEMMA ReplyMoves ==
  ASSUME IInv, NEW r, NEW l, Moves(r, l), Step(r) \in Replies, l.pinned = loc[r].pinned,
         nodes' = nodes, ctr' = ctr, queue' = queue, woken' = woken, MoreKnown,
         \A id \in Ids \ {Root} :
           known'[id] + Cardinality(InFlight(id)') = known[id] + Cardinality(InFlight(id)),
         \A y : Stranger(y) => known'[y] = 0,
         Op(r) \in {"open", "create"} /\ answer'[r] = "ok" => Holds(Opened(r))'
  PROVE  IInv'
<1>1. Places /\ QueueOK /\ LookupsOK /\ OpensOK /\ HeldOK /\ TableOK(nodes) /\ ctr \in 0 .. MaxId /\ (\A q \in Reqs : NamesOK(q))
      /\ known \in [1 .. MaxId -> Nat]
  BY InvIs
<1>2. Step(r) \notin Gets \cup Forgets \cup {"free", "count", "uncount", "find", "hide_node", "forget"} /\ work' = work /\ r \in Reqs
  BY DEF Replies, Gets, Forgets, Moves
<1>3. LocksKept /\ QueueOK'
  BY <1>1, <1>2, LocksMoved, QueueKept
<1>4. Nearly(nodes, nodes')
  BY <1>1 DEF Nearly, TableOK, NodeOK
<1>5. TableOK(nodes') /\ NamesStay(nodes, nodes') /\ RefsOK' /\ TreesOK' /\ PathStable'
  BY <1>3, <1>4, NearMoves
<1>6. known' \in [1 .. MaxId -> Nat]
  BY DEF MoreKnown
<1>7. OpensOK'
  BY <1>1, <1>2, OpensKept
<1>8. HeldOK'
  BY <1>1, HeldMoved
<1>9. LookupsOK'
  <2>1. ASSUME NEW id \in Ids \ {Root}
        PROVE  /\ IsFiniteSet(InFlight(id)') /\ IsFiniteSet(Returning(id)')
               /\ Weight(nodes', id, Kept) - known'[id] - Cardinality(InFlight(id)') - Cardinality(Returning(id)')
                  = Weight(nodes, id, Kept) - known[id] - Cardinality(InFlight(id)) - Cardinality(Returning(id))
    <3>1. IsFiniteSet(InFlight(id)) /\ IsFiniteSet(Returning(id))
      BY <1>1, Finite
    <3>2. Returning(id)' = Returning(id)
      BY <1>1, <1>2, ReturningMoved
    <3>3. IsFiniteSet(InFlight(id)')
      <4>1. InFlight(id) \ {r} = InFlight(id)' \ {r}
        BY <1>1, InFlightMoved
      <4>2. IsFiniteSet(InFlight(id) \ {r})
        BY <3>1, FS_RemoveElement
      <4>3. IsFiniteSet((InFlight(id) \ {r}) \cup {r})
        BY <4>2, FS_AddElement
      <4>4. InFlight(id)' \subseteq (InFlight(id) \ {r}) \cup {r}
        BY <4>1
      <4> QED
        BY <4>3, <4>4, FS_Subset
    <3>4. PICK a : a = Cardinality(InFlight(id))
      OBVIOUS
    <3>5. PICK b : b = Cardinality(InFlight(id)')
      OBVIOUS
    <3>6. PICK c : c = Cardinality(Returning(id))
      OBVIOUS
    <3>7. PICK w : w = Weight(nodes, id, Kept)
      OBVIOUS
    <3>8. a \in Nat /\ b \in Nat /\ c \in Nat
      BY <3>1, <3>3, <3>4, <3>5, <3>6, FS_CardinalityType
    <3>9. w \in Int
      BY <1>1, <3>7 DEF Weight, TableOK, NodeOK, Kept
    <3>10. id \in 1 .. MaxId
      BY MaxIdAssumption DEF Ids
    <3>11. known[id] \in Nat /\ known'[id] \in Nat
      BY <1>1, <1>6, <3>10
    <3>12. known'[id] + b = known[id] + a
      BY <3>4, <3>5
    <3>13. w - known'[id] - b - c = w - known[id] - a - c
      BY <3>8, <3>9, <3>11, <3>12
    <3>14. Weight(nodes', id, Kept) = w /\ Cardinality(Returning(id)') = c
      BY <3>2, <3>6, <3>7
    <3> QED
      BY <3>1, <3>2, <3>3, <3>4, <3>5, <3>6, <3>7, <3>13, <3>14
  <2> QED
    BY <1>1, <1>2, <1>5, <1>6, <2>1, LookupsMoved
<1>10. \A q \in Reqs : NamesOK(q)'
  <2>1. ASSUME NEW y, Stranger(y) PROVE StaysStrange(y, r, l)
    <3>1. y \in DOMAIN nodes \ {Root} /\ nodes[y].tree = 0 /\ Children(y) = {}
      BY <2>1 DEF Stranger
    <3>2. Children(y)' = Children(y)
      BY DEF Children
    <3> QED
      BY <1>2, <2>1, <3>1, <3>2 DEF StaysStrange
  <2> QED
    BY <1>1, <1>2, <1>5, <2>1, NamesQuiet
<1> QED
  BY <1>1, <1>3, <1>5, <1>6, <1>7, <1>8, <1>9, <1>10, MoveInv

\* What a handler that answers has found.
LEMMA ReplyWho ==
  ASSUME IInv, NEW r \in Reqs, Step(r) \in Replies
  PROVE  /\ Running(r) /\ Started(r) /\ answer[r] = "none" /\ r \in Unanswered /\ ~loc[r].intr
         /\ Op(r) # "forget" /\ LocOK(loc[r]) /\ loc[r].id \in Ids \cup {None}
         /\ Op(r) \in Finders /\ loc[r].err = "ok" <=> loc[r].id # None
         /\ Op(r) = "revalidate" => Holds(Req(r).victim) /\ Req(r).victim \in Ids
         /\ \A q \in Reqs : Req(q).of = r => ~Started(q)
<1>1. Places /\ PlaceOK(r) /\ TypeOK /\ HeldOK
  BY InvIs
<1>2. Running(r)
  BY DEF Step, Replies
<1>3. Ordered(Op(r), pc[r], Step(r)) /\ Ahead(r, Step(r)) /\ Started(r)
  BY <1>1, <1>2, RunningOrder
<1>4. ~Ahead(r, "find") /\ Op(r) # "forget"
  BY <1>1, <1>3, AheadLater DEF Ordered
<1>5. answer[r] = "none"
  BY <1>1, <1>3, <1>4 DEF PlaceOK, Replying, Op
<1>6. LocOK(loc[r]) /\ loc[r].id \in Ids \cup {None} /\ ~loc[r].intr /\ r \in Unanswered
  BY <1>1, <1>3, <1>5 DEF PlaceOK, LocOK, Unanswered
<1>7. Op(r) \in Finders /\ loc[r].err = "ok" <=> loc[r].id # None
  BY <1>1, <1>3, <1>4 DEF PlaceOK, Op
<1>8. Op(r) = "revalidate" => Holds(Req(r).victim) /\ Req(r).victim \in Ids
  <2>1. SUFFICES ASSUME Op(r) = "revalidate" PROVE Holds(Req(r).victim) /\ Req(r).victim \in Ids
    OBVIOUS
  <2>2. Req(r).victim # None /\ Req(r).victim \in Ids \cup {None}
    BY <1>1, <2>1, WorkOK, OpFacts DEF RequestOK, Req, Op
  <2>3. Req(r).victim \in Mentions(r)
    BY <2>1, <2>2 DEF Mentions, Victim, Op
  <2> QED
    BY <1>6, <2>1, <2>2, <2>3, MentionsIn
<1>9. ASSUME NEW q \in Reqs, Req(q).of = r PROVE ~Started(q)
  <2>1. PlaceOK(q) /\ r \in Req(q).needs
    <3>1. r # 0
      BY <1>1, WorkOK
    <3> QED
      BY <1>1, <1>9, <3>1, OpFacts DEF Places
  <2> QED
    BY <1>5, <2>1 DEF PlaceOK
<1> QED
  BY <1>2, <1>3, <1>4, <1>5, <1>6, <1>7, <1>8, <1>9

\* The kernel takes the answer, and with it the lookup.
LEMMA ReplyInv ==
  ASSUME IInv, NEW r \in Reqs, Reply(r)
  PROVE  IInv'
<1>1. Places /\ TypeOK /\ known \in [1 .. MaxId -> Nat] /\ PlaceOK(r)
  BY InvIs
<1>2. PICK l : l = loc[r]
  OBVIOUS
<1>3. Step(r) \in Replies /\ Advance(r, l) /\ work' = work /\ nodes' = nodes /\ ctr' = ctr /\ queue' = queue /\ woken' = woken
      /\ answer' = [answer EXCEPT ![r] = IF l.err = "ok" THEN "ok" ELSE "err"]
  BY <1>2 DEF Reply, Replies, table
<1> DEFINE finds == Op(r) \in Finders \ {"revalidate"} \/ (Op(r) = "revalidate" /\ l.id = Req(r).victim)
<1>4. finds <=> Op(r) \in Finders \ {"revalidate"} \/ (Op(r) = "revalidate" /\ l.id = Req(r).victim)
  OBVIOUS
<1> HIDE DEF finds
<1>5. /\ l.err = "ok" /\ finds /\ l.id # Root => known' = [known EXCEPT ![l.id] = @ + 1]
      /\ ~(l.err = "ok" /\ finds /\ l.id # Root) => known' = known
  BY <1>2, <1>4 DEF Reply, Finders, Op
<1>6. /\ Running(r) /\ Started(r) /\ answer[r] = "none" /\ r \in Unanswered /\ ~loc[r].intr
      /\ Op(r) # "forget" /\ LocOK(l) /\ l.id \in Ids \cup {None}
      /\ Op(r) \in Finders /\ l.err = "ok" <=> l.id # None
      /\ Op(r) = "revalidate" => Holds(Req(r).victim) /\ Req(r).victim \in Ids
      /\ \A q \in Reqs : Req(q).of = r => ~Started(q)
  BY <1>2, <1>3, ReplyWho
<1>7. Fits(r, l)
  BY <1>2, <1>3, <1>6 DEF Fits, Replies, Gets, Spoils
<1>8. Moves(r, l)
  BY <1>2, <1>3, <1>6, <1>7 DEF Moves, Answers
<1>9. /\ answer' \in [Reqs -> {"none", "ok", "err", "intr"}] /\ answer'[r] = (IF l.err = "ok" THEN "ok" ELSE "err")
      /\ loc'[r] = l /\ Op(r)' = Op(r) /\ Req(r)' = Req(r) /\ (\A q \in Reqs \ {r} : Same(q)) /\ Reqs' = Reqs
  BY <1>1, <1>3, <1>6, <1>8, MoveAnswers, PlacesMoved, AdvanceFacts DEF TypeOK
<1>10. ASSUME NEW id \in 1 .. MaxId
       PROVE  /\ known'[id] = known[id] + (IF l.id = id /\ l.err = "ok" /\ finds /\ l.id # Root THEN 1 ELSE 0)
              /\ known[id] \in Nat
  <2>1. known[id] \in Nat /\ DOMAIN known = 1 .. MaxId
    BY <1>1
  <2>2. CASE l.err = "ok" /\ finds /\ l.id # Root
    <3>1. known' = [known EXCEPT ![l.id] = @ + 1]
      BY <1>5, <2>2
    <3>2. known'[id] = known[id] + (IF l.id = id THEN 1 ELSE 0)
      BY <2>1, <3>1
    <3> QED
      BY <2>1, <2>2, <3>2
  <2>3. CASE ~(l.err = "ok" /\ finds /\ l.id # Root)
    <3>1. known'[id] = known[id] + 0
      BY <1>5, <2>1, <2>3
    <3> QED
      BY <2>1, <2>3, <3>1
  <2> QED
    BY <2>2, <2>3
<1>11. MoreKnown
  <2>1. known' \in [1 .. MaxId -> Nat]
    <3>1. DOMAIN known' = 1 .. MaxId /\ \A id \in 1 .. MaxId : known'[id] \in Nat
      BY <1>1, <1>5, <1>10
    <3>2. known' = [id \in DOMAIN known' |-> known'[id]]
      BY <1>1, <1>5
    <3> QED
      BY <3>1, <3>2
  <2>2. \A id \in 1 .. MaxId : known'[id] >= known[id]
    BY <1>10
  <2> QED
    BY <2>1, <2>2 DEF MoreKnown
<1>12. ASSUME NEW id \in Ids \ {Root} PROVE known'[id] + Cardinality(InFlight(id)') = known[id] + Cardinality(InFlight(id))
  <2>1. id \in 1 .. MaxId /\ id # None
    BY MaxIdAssumption DEF Ids, None
  <2>2. InFlight(id) \ {r} = InFlight(id)' \ {r} /\ (r \in InFlight(id) <=> l.id = id) /\ IsFiniteSet(InFlight(id))
    BY <1>1, <1>2, <1>3, <1>8, InFlightMoved, Finite
  <2>3. CASE l.id # id
    <3>1. r \notin InFlight(id)'
      BY <1>9, <2>3 DEF InFlight
    <3>2. InFlight(id)' = InFlight(id)
      BY <2>2, <2>3, <3>1
    <3> QED
      BY <1>10, <2>1, <2>3, <3>2
  <2>4. CASE l.id = id /\ finds
    <3>1. l.err = "ok" /\ l.id # Root /\ answer'[r] = "ok"
      BY <1>6, <1>9, <2>1, <2>4
    <3>2. r \notin InFlight(id)'
      BY <1>4, <1>9, <2>4, <3>1 DEF InFlight, Op
    <3>3. InFlight(id)' = InFlight(id) \ {r} /\ r \in InFlight(id)
      BY <2>2, <2>4, <3>2
    <3>4. Cardinality(InFlight(id)') = Cardinality(InFlight(id)) - 1
      BY <2>2, <3>3, FS_RemoveElement
    <3>5. known'[id] = known[id] + 1
      BY <1>10, <2>1, <2>4, <3>1
    <3>6. Cardinality(InFlight(id)) \in Nat /\ known[id] \in Nat
      BY <1>10, <2>1, <2>2, FS_CardinalityType
    <3> QED
      BY <3>4, <3>5, <3>6
  <2>5. CASE l.id = id /\ ~finds
    <3>1. l.err = "ok" /\ Op(r) = "revalidate" /\ id # Req(r).victim /\ answer'[r] = "ok"
      BY <1>4, <1>6, <1>9, <2>1, <2>5
    <3>2. \A q \in Reqs' : Req(q).of' = r => ~Started(q)'
      <4>1. TAKE q \in Reqs'
      <4>2. CASE q = r
        <5>1. Req(r).of # r
          BY <1>6
        <5> QED
          BY <1>9, <4>2, <5>1 DEF Req
      <4>3. CASE q # r
        BY <1>6, <1>9, <4>3 DEF Same, Req
      <4> QED
        BY <4>2, <4>3
    <3>3. r \in InFlight(id)'
      BY <1>9, <2>5, <3>1, <3>2 DEF InFlight, Op, Req
    <3>4. InFlight(id)' = InFlight(id)
      BY <2>2, <2>5, <3>3
    <3> QED
      BY <1>10, <2>1, <2>5, <3>4
  <2> QED
    BY <2>3, <2>4, <2>5
<1>13. ASSUME NEW y, Stranger(y) PROVE known'[y] = 0
  <2>1. y \in DOMAIN nodes \ {Root} /\ known[y] = 0 /\ (l.id = y => Op(r) = "revalidate")
    BY <1>2, <1>6, <1>13 DEF Stranger, Op
  <2>2. y \in 1 .. MaxId
    BY <1>1, <2>1, MaxIdAssumption DEF TypeOK, TableOK, Ids
  <2>3. ~(l.id = y /\ finds)
    BY <1>4, <1>6, <2>1 DEF Holds
  <2> QED
    BY <1>10, <2>1, <2>2, <2>3
<1>14. ASSUME Op(r) \in {"open", "create"}, answer'[r] = "ok" PROVE Holds(Opened(r))'
  <2>1. l.err = "ok"
    BY <1>9, <1>14
  <2>2. CASE Op(r) = "create"
    <3>1. l.id \in Ids /\ finds
      BY <1>4, <1>6, <2>1, <2>2 DEF Finders
    <3>2. Opened(r)' = l.id
      BY <1>9, <2>2 DEF Opened, Op, Req
    <3>3. l.id \in 1 .. MaxId
      BY <3>1, MaxIdAssumption DEF Ids
    <3>4. l.id = Root \/ known'[l.id] > 0
      BY <1>10, <2>1, <3>1, <3>3
    <3> QED
      BY <3>2, <3>4 DEF Holds
  <2>3. CASE Op(r) = "open"
    <3>1. Opened(r) = NodeOf(r) /\ Opened(r)' = NodeOf(r)'
      BY <1>9, <2>3 DEF Opened, Op, Req
    <3>2. NodeOf(r)' = NodeOf(r)
      BY <1>1, <1>6, <1>8, MoveNodes
    <3>3. Holds(NodeOf(r)) /\ NodeOf(r) \in Ids
      BY <1>6, <2>3, MentionsIn
    <3>4. NodeOf(r) = Root \/ known'[NodeOf(r)] > 0
      <4>1. NodeOf(r) \in 1 .. MaxId
        BY <3>3, MaxIdAssumption DEF Ids
      <4>2. known'[NodeOf(r)] >= known[NodeOf(r)] /\ known'[NodeOf(r)] \in Nat /\ known[NodeOf(r)] \in Nat
        BY <1>1, <1>11, <4>1 DEF MoreKnown
      <4> QED
        BY <3>3, <4>2 DEF Holds
    <3> QED
      BY <3>1, <3>2, <3>4 DEF Holds
  <2> QED
    BY <1>14, <2>2, <2>3
<1> QED
  BY <1>2, <1>3, <1>8, <1>11, <1>12, <1>13, <1>14, ReplyMoves

\* The caller was interrupted: the lookup remains the handler's, which will undo it.
LEMMA ReplyInterruptedInv ==
  ASSUME IInv, NEW r \in Reqs, ReplyInterrupted(r)
  PROVE  IInv'
<1>1. Places /\ TypeOK /\ known \in [1 .. MaxId -> Nat] /\ PlaceOK(r)
  BY InvIs
<1>2. PICK l : l = [loc[r] EXCEPT !.intr = TRUE]
  OBVIOUS
<1>3. Step(r) \in {"reply_open", "reply_entry"} /\ Advance(r, l) /\ work' = work /\ nodes' = nodes /\ ctr' = ctr /\ queue' = queue
      /\ woken' = woken /\ known' = known /\ answer' = [answer EXCEPT ![r] = "intr"] /\ loc[r].err = "ok"
  BY <1>2 DEF ReplyInterrupted, table
<1>4. Step(r) \in Replies
  BY <1>3 DEF Replies
<1>5. /\ Running(r) /\ Started(r) /\ answer[r] = "none" /\ r \in Unanswered
      /\ LocOK(loc[r]) /\ loc[r].id \in Ids \cup {None} /\ (Op(r) \in Finders /\ loc[r].err = "ok" <=> loc[r].id # None)
  BY <1>4, ReplyWho
<1>6. Like(l, loc[r], {"intr"}) /\ l.intr = TRUE
  <2>1. DOMAIN loc[r] = DOMAIN NoLoc
    BY <1>5 DEF LocOK
  <2> QED
    BY <1>2, <2>1, LocFields, LikeUpdates
<1>7. /\ DOMAIN l = DOMAIN NoLoc /\ l.err = loc[r].err /\ l.locked = loc[r].locked /\ l.path = loc[r].path /\ l.path2 = loc[r].path2
      /\ l.w = loc[r].w /\ l.w2 = loc[r].w2 /\ l.id = loc[r].id /\ l.hide = loc[r].hide /\ l.hname = loc[r].hname
      /\ l.pinned = loc[r].pinned /\ l.n = loc[r].n /\ l.victim = loc[r].victim
  BY <1>5, <1>6, LocFields DEF Like, LocOK
<1>8. Fits(r, l)
  <2>1. LocOK(l)
    BY <1>5, <1>6, <1>7 DEF LocOK
  <2> QED
    BY <1>3, <1>6, <1>7, <2>1 DEF Fits, Gets, Spoils
<1>9. Moves(r, l)
  BY <1>3, <1>4, <1>5, <1>6, <1>7, <1>8 DEF Moves, Answers
<1>10. answer'[r] = "intr" /\ loc'[r] = l /\ Op(r)' = Op(r) /\ Reqs' = Reqs
       /\ \A t : Later(Op(r), pc[r] + 1, t) /\ Applies(r, t, l) => Ahead(r, t)'
  BY <1>1, <1>3, <1>5, <1>9, PlacesMoved, AdvanceFacts DEF TypeOK
<1>11. MoreKnown
  BY <1>3, SameKnown
<1>12. ASSUME NEW id \in Ids \ {Root} PROVE InFlight(id)' = InFlight(id)
  <2>1. InFlight(id) \ {r} = InFlight(id)' \ {r} /\ (r \in InFlight(id) <=> loc[r].id = id)
    BY <1>1, <1>4, <1>9, InFlightMoved
  <2>2. loc[r].id = id => r \in InFlight(id)'
    <3>1. SUFFICES ASSUME loc[r].id = id PROVE r \in InFlight(id)'
      OBVIOUS
    <3>2. Op(r) \in Finders
      BY <1>5, <3>1 DEF Ids, None
    <3>3. Ordered(Op(r), pc[r], Step(r))
      BY <1>1, <1>5, RunningOrder
    <3>4. Step(r) = "reply_entry" => Later(Op(r), pc[r] + 1, "undo")
      BY <3>3 DEF Ordered
    <3>5. Step(r) = "reply_open" => Op(r) \in {"open", "create"} /\ (Op(r) = "create" => Later(Op(r), pc[r] + 1, "undo"))
      BY <3>3 DEF Ordered
    <3>6. Later(Op(r), pc[r] + 1, "undo")
      BY <1>3, <3>2, <3>4, <3>5 DEF Finders
    <3>7. Ahead(r, "undo")'
      BY <1>6, <1>10, <3>6, AppliesIs
    <3> QED
      BY <1>7, <1>10, <3>1, <3>7 DEF InFlight
  <2>3. r \in InFlight(id)' => loc[r].id = id
    BY <1>7, <1>10 DEF InFlight
  <2> QED
    BY <2>1, <2>2, <2>3
<1>13. \A y : Stranger(y) => known'[y] = 0
  BY <1>3 DEF Stranger
<1>14. \A id \in Ids \ {Root} : known'[id] + Cardinality(InFlight(id)') = known[id] + Cardinality(InFlight(id))
  BY <1>3, <1>12
<1> QED
  BY <1>3, <1>4, <1>7, <1>9, <1>10, <1>11, <1>13, <1>14, ReplyMoves

\* What depends on the requests' places and on the kernel's counts alone.
LEMMA StaySame ==
  ASSUME work' = work, pc' = pc, loc' = loc, answer' = answer, known' = known
  PROVE  /\ Reqs' = Reqs /\ Unanswered' = Unanswered /\ LocksKept /\ Kept' = Kept
         /\ \A q : Same(q) /\ NodeOf(q)' = NodeOf(q) /\ Opened(q)' = Opened(q)
         /\ \A q : Started(q) => Victim(q)' = Victim(q) /\ Mentions(q)' = Mentions(q) /\ Mutexes(q)' = Mutexes(q)
         /\ \A id : /\ InFlight(id)' = InFlight(id) /\ Returning(id)' = Returning(id)
                    /\ Pinners(id)' = Pinners(id) /\ OpenBy(id)' = OpenBy(id) /\ Holds(id)' = Holds(id)
<1>1. Reqs' = Reqs /\ Kept' = Kept
  BY DEF Reqs, Kept
<1>2. \A q : Same(q)
  BY OthersSame
<1>3. \A q : NodeOf(q)' = NodeOf(q) /\ Opened(q)' = Opened(q)
  BY DEF NodeOf, Opened, Req
<1>4. Unanswered' = Unanswered
  BY DEF Unanswered, Started, Reqs
<1>5. LocksKept
  BY <1>1, <1>2, <1>3 DEF LocksKept, Same
<1>6. \A q : Started(q) => Victim(q)' = Victim(q)
  BY DEF Victim, Started, Req
<1>7. \A q : Started(q) => Mentions(q)' = Mentions(q) /\ Mutexes(q)' = Mutexes(q)
  BY <1>3, <1>6 DEF Mentions, Mutexes, Req
<1>8. \A id : InFlight(id)' = InFlight(id)
  BY <1>1, <1>2 DEF InFlight, Same, Reqs, Req
<1>9. \A id : Returning(id)' = Returning(id)
  BY <1>1, <1>2, <1>3 DEF Returning, Same
<1>10. \A id : Pinners(id)' = Pinners(id)
  BY <1>1, <1>3 DEF Pinners
<1>11. \A id : OpenBy(id)' = OpenBy(id)
  <2>1. \A q : Counted(q)' = Counted(q)
    BY <1>2 DEF Counted, Same
  <2>2. \A q : Closed(q)' = Closed(q)
    BY <1>1, <1>2 DEF Closed, Same, Req
  <2> QED
    BY <1>1, <1>3, <2>1, <2>2 DEF OpenBy, Req
<1>12. \A id : Holds(id)' = Holds(id)
  BY DEF Holds
<1> QED
  BY <1>1, <1>2, <1>3, <1>4, <1>5, <1>6, <1>7, <1>8, <1>9, <1>10, <1>11, <1>12

\* No request moves, and of the table only reservations change.
LEMMA StayInv ==
  ASSUME IInv, Alike(nodes, nodes'), work' = work, pc' = pc, loc' = loc, answer' = answer, known' = known, ctr' = ctr, QueueOK'
  PROVE  IInv'
<1>1. /\ Places /\ TypeOK /\ LookupsOK /\ RefsOK /\ TreesOK /\ HeldOK /\ OpensOK /\ MutexOK /\ PathStable
      /\ nodes # Abort /\ TableOK(nodes) /\ (\A q \in Reqs : NamesOK(q) /\ PlaceOK(q))
      /\ known \in [1 .. MaxId -> Nat] /\ ctr \in 0 .. MaxId
  BY InvIs
<1>2. /\ Reqs' = Reqs /\ Unanswered' = Unanswered /\ LocksKept /\ Kept' = Kept
      /\ \A q : Same(q) /\ NodeOf(q)' = NodeOf(q) /\ Opened(q)' = Opened(q)
      /\ \A q : Started(q) => Victim(q)' = Victim(q) /\ Mentions(q)' = Mentions(q) /\ Mutexes(q)' = Mutexes(q)
      /\ \A id : /\ InFlight(id)' = InFlight(id) /\ Returning(id)' = Returning(id)
                 /\ Pinners(id)' = Pinners(id) /\ OpenBy(id)' = OpenBy(id) /\ Holds(id)' = Holds(id)
  BY StaySame
<1>3. TableOK(nodes') /\ SameShape(nodes, nodes')
  BY <1>1, AlikeTable
<1>4. nodes' # Abort
  BY <1>3, NotAborted
<1>5. /\ DOMAIN nodes' = DOMAIN nodes
      /\ \A n \in DOMAIN nodes : /\ nodes'[n].name = nodes[n].name /\ nodes'[n].parent = nodes[n].parent
                                 /\ nodes'[n].nlookup = nodes[n].nlookup /\ nodes'[n].refctr = nodes[n].refctr
                                 /\ nodes'[n].open = nodes[n].open /\ nodes'[n].tree = nodes[n].tree
  BY DEF Alike, Body
<1>6. TypeOK'
  BY <1>1, <1>2, <1>3 DEF TypeOK
<1>7. \A q \in Reqs' : PlaceOK(q)'
  <2>1. SUFFICES ASSUME NEW q \in Reqs PROVE PlaceOK(q)'
    BY <1>2
  <2>2. Req(q).needs \subseteq Reqs
    BY <1>1, OpFacts
  <2> QED
    BY <1>1, <1>2, <2>2, PlaceSame
<1>8. LookupsOK'
  <2>1. ASSUME NEW id \in Ids \ {Root}
        PROVE  /\ IsFiniteSet(InFlight(id)') /\ IsFiniteSet(Returning(id)')
               /\ Weight(nodes', id, Kept) - known'[id] - Cardinality(InFlight(id)') - Cardinality(Returning(id)')
                  = Weight(nodes, id, Kept) - known[id] - Cardinality(InFlight(id)) - Cardinality(Returning(id))
    <3>1. IsFiniteSet(InFlight(id)) /\ IsFiniteSet(Returning(id))
      BY <1>1, Finite
    <3>2. Weight(nodes', id, Kept) = Weight(nodes, id, Kept)
      BY <1>5 DEF Weight
    <3> QED
      BY <1>2, <3>1, <3>2
  <2> QED
    BY <1>1, <1>3, <2>1, LookupsMoved
<1>9. RefsOK'
  <2>1. \A id : Children(id)' = Children(id)
    BY <1>3 DEF SameShape, Children
  <2>2. \A id \in DOMAIN nodes' :
          nodes'[id].refctr = Cardinality(Children(id)') + (IF nodes'[id].nlookup > 0 THEN 1 ELSE 0) + Cardinality(Pinners(id)')
    BY <1>1, <1>2, <1>5, <2>1 DEF RefsOK
  <2>3. \A q \in Reqs' : loc'[q].pinned => NodeOf(q)' \in DOMAIN nodes'
    BY <1>1, <1>2, <1>5 DEF RefsOK
  <2> QED
    BY <2>2, <2>3 DEF RefsOK
<1>10. TreesOK' /\ PathStable'
  <2>1. PICK X : X = {}
    OBVIOUS
  <2>2. \A n \in DOMAIN nodes \ X : n \in DOMAIN nodes' /\ nodes'[n].name = nodes[n].name /\ nodes'[n].parent = nodes[n].parent
    BY <1>5
  <2>3. \A p \in Paths : Above(nodes, Base(p)) \cap X = {}
    BY <2>1
  <2>4. \A n \in DOMAIN nodes' : nodes'[n].tree = IF n \in DOMAIN nodes THEN nodes[n].tree ELSE 0
    BY <1>5
  <2>5. \A q \in Reqs : loc[q].locked => {loc[q].w, loc[q].w2} \subseteq DOMAIN nodes' \cup {None}
    BY <1>1, <1>5 DEF TreesOK
  <2> QED
    BY <1>1, <1>2, <1>3, <2>2, <2>3, <2>4, <2>5, TreesKept
<1>11. HeldOK'
  <2>1. \A q \in Unanswered' : Req(q).op' # "dot" => \A id \in Mentions(q)' : Holds(id)'
    BY <1>1, <1>2 DEF HeldOK, Unanswered, Same, Req
  <2>2. \A q \in Reqs' : Req(q).op' \in {"open", "create"} /\ answer'[q] = "ok"
          /\ (\A p \in Reqs' : Req(p).op' = "release" /\ Req(p).handle' = q => ~Started(p)') => Holds(Opened(q))'
    BY <1>1, <1>2 DEF HeldOK, Same, Req, Holds
  <2> QED
    BY <2>1, <2>2 DEF HeldOK
<1>12. OpensOK'
  BY <1>1, <1>2, <1>5 DEF OpensOK
<1>13. MutexOK'
  BY <1>1, <1>2 DEF MutexOK, Unanswered
<1>14. \A q \in Reqs' : NamesOK(q)'
  <2>1. \A p, name : lookup_node(nodes', p, name) = lookup_node(nodes, p, name)
    BY <1>3 DEF SameShape
  <2>2. ASSUME NEW x, Stranger(x) PROVE Stranger(x)'
    <3>1. Children(x)' = {}
      BY <1>3, <2>2 DEF SameShape, Children, Stranger
    <3>2. x \in DOMAIN nodes' \ {Root} /\ known'[x] = 0 /\ nodes'[x].tree = 0
      BY <1>5, <2>2 DEF Stranger
    <3>3. \A q \in Unanswered' : loc'[q].id = x => Req(q).op' = "revalidate"
      BY <1>2, <2>2 DEF Stranger, Same, Req
    <3> QED
      BY <3>1, <3>2, <3>3 DEF Stranger
  <2>3. SUFFICES ASSUME NEW q \in Reqs PROVE NamesOK(q)'
    BY <1>2
  <2>4. NamesOK(q) /\ Doomed(q)' = Doomed(q) /\ Doom(q)' = Doom(q) /\ Removing(q)' = Removing(q) /\ Renaming(q)' = Renaming(q)
    <3>1. NamesOK(q)
      BY <1>1
    <3>2. Doomed(q)' = Doomed(q)
      BY <1>2 DEF Doomed, Same, Req
    <3>3. Doom(q)' = Doom(q)
      BY <2>1, <3>2 DEF Doom
    <3>4. Removing(q)' = Removing(q) /\ Renaming(q)' = Renaming(q)
      BY <1>2 DEF Removing, Renaming, Same, Req
    <3> QED
      BY <3>1, <3>2, <3>3, <3>4
  <2>5. Started(q)' /\ (Removing(q)' \/ (Renaming(q)' /\ work'.noforget)) =>
          IF loc'[q].hide /\ ~Ahead(q, "hide_node")' THEN work'.noforget /\ Renaming(q)' => Doom(q)' = None
          ELSE Doom(q)' = loc'[q].victim
    BY <1>2, <2>4 DEF NamesOK, Same
  <2>6. loc'[q].locked /\ Renaming(q)' =>
          \A x \in {Doom(q)', lookup_node(nodes, Req(q).n, Req(q).nm)'} :
            x \in {None, loc'[q].w, loc'[q].w2} \/ Stranger(x)'
    <3>1. SUFFICES ASSUME loc'[q].locked, Renaming(q)', NEW x \in {Doom(q)', lookup_node(nodes, Req(q).n, Req(q).nm)'}
                   PROVE  x \in {None, loc'[q].w, loc'[q].w2} \/ Stranger(x)'
      OBVIOUS
    <3>2. lookup_node(nodes, Req(q).n, Req(q).nm)' = lookup_node(nodes, Req(q).n, Req(q).nm)
      BY <2>1 DEF Req
    <3>3. x \in {None, loc[q].w, loc[q].w2} \/ Stranger(x)
      BY <2>4, <3>1, <3>2 DEF NamesOK
    <3> QED
      BY <2>2, <3>3
  <2> QED
    BY <2>5, <2>6 DEF NamesOK
<1> QED
  BY <1>4, <1>6, <1>7, <1>8, <1>9, <1>10, <1>11, <1>12, <1>13, <1>14 DEF IInv

(***************************************************************************)
(* A path is got.                                                          *)
(***************************************************************************)

\* A node on the way up is where the way starts, or has a child on it.
LEMMA AboveIs ==
  ASSUME NEW ns, TableOK(ns), NEW id \in DOMAIN ns \cup {None}, NEW x \in Above(ns, id)
  PROVE  x = id \/ ChildrenIn(ns, x) # {}
<1>1. PICK c, len : IsChain(ns, id, c, len)
  BY ChainExists
<1>2. Chain(ns, id) = c
  BY <1>1, ChainIs DEF TableOK
<1>3. /\ len \in Nat /\ c \in [1 .. len -> DOMAIN ns \ {Root}] /\ (len > 0 => c[1] = id)
      /\ \A k \in 1 .. len - 1 : c[k + 1] = ns[c[k]].parent
  BY <1>1 DEF IsChain
<1>4. PICK k \in 1 .. len : x = c[k]
  BY <1>2, <1>3 DEF Above
<1>5. CASE k = 1
  BY <1>3, <1>4, <1>5
<1>6. CASE k # 1
  <2>1. k - 1 \in 1 .. len - 1 /\ k - 1 \in 1 .. len /\ (k - 1) + 1 = k
    BY <1>3, <1>4, <1>6
  <2>2. ns[c[k - 1]].parent = x /\ c[k - 1] \in DOMAIN ns
    BY <1>3, <1>4, <2>1
  <2> QED
    BY <2>2 DEF ChildrenIn
<1> QED
  BY <1>5, <1>6

\* Who waits for a path, and for which.
LEMMA Getter ==
  ASSUME IInv, NEW r \in Reqs, Step(r) \in Gets
  PROVE  /\ r \in Unanswered /\ Running(r) /\ Started(r) /\ loc[r].err = "ok" /\ ~loc[r].locked
         /\ NodeOf(r) \in DOMAIN nodes /\ (Op(r) # "dot" => Holds(NodeOf(r)))
         /\ (TwoPaths(r) => Req(r).n2 \in DOMAIN nodes /\ Holds(Req(r).n2) /\ Req(r).nm2 # NoName)
         /\ Step(r) = "getw" <=> Op(r) \in {"unlink", "rmdir"}
         /\ Step(r) = "get2" <=> Op(r) = "link"
         /\ Step(r) = "get2w" <=> Op(r) = "rename"
         /\ Op(r) \in {"unlink", "rmdir", "rename"} => Req(r).nm # NoName /\ NodeOf(r) = Req(r).n /\ Req(r).n \in Mutexes(r)
         /\ Op(r) = "rename" => Req(r).n2 \in Mutexes(r)
         /\ Op(r) \in {"unlink", "rmdir"} => lookup_node(nodes, NodeOf(r), Req(r).nm) = loc[r].victim
         /\ Op(r) # "rename" => loc[r].w2 = None
<1>1. Places /\ TypeOK /\ PlaceOK(r) /\ HeldOK /\ RefsOK /\ NamesOK(r)
  BY InvIs
<1>2. Step(r) \in (Spoils \ {"pin"}) /\ Step(r) \in Spoils
  BY DEF Spoils, Gets
<1>3. loc[r].err = "ok" /\ Running(r) /\ Started(r)
  BY <1>1, <1>2, StepOK
<1>4. Ordered(Op(r), pc[r], Step(r)) /\ Ahead(r, Step(r))
  BY <1>1, <1>3, RunningOrder
<1>5. r \in Unanswered /\ Replying(r)
  BY <1>1, <1>2, <1>3, <1>4, SpoilsFirst
<1>6. Getting(r)
  BY <1>4 DEF Getting
<1>7. ~loc[r].locked /\ (Op(r) # "rename" => loc[r].w2 = None)
  BY <1>1, <1>3, <1>6 DEF PlaceOK, Op
<1>8. Op(r) \in {"unlink", "rmdir"} => Step(r) = "getw" /\ Later(Op(r), pc[r] + 1, "remove")
  BY <1>4 DEF Ordered
<1>9. Op(r) = "rename" => Step(r) = "get2w"
  BY <1>4 DEF Ordered
<1>10. Op(r) = "link" => Step(r) = "get2"
  BY <1>4 DEF Ordered
<1>11. Op(r) \notin {"rename", "link", "unlink", "rmdir"} => Step(r) \in {"get", "getany", "getname"}
  BY <1>4 DEF Ordered
<1>12. Op(r) = "dot" => Step(r) = "getname" /\ ~Ahead(r, "pin") /\ Ahead(r, "unpin")
  <2>1. Op(r) = "dot" => Step(r) \notin {"get", "getany"}
    BY <1>4 DEF Ordered
  <2>2. Op(r) = "dot" /\ Step(r) = "getname" => Later(Op(r), pc[r] + 1, "unpin") /\ ~Later(Op(r), pc[r], "pin")
    BY <1>4 DEF Ordered
  <2> QED
    BY <1>1, <1>3, <1>11, <2>1, <2>2, LaterAhead, AheadLater
<1>13. NodeOf(r) \in DOMAIN nodes /\ (Op(r) # "dot" => Holds(NodeOf(r)))
  <2>1. CASE Op(r) = "dot"
    <3>1. loc[r].pinned
      BY <1>1, <1>3, <1>12, <2>1 DEF PlaceOK, Op
    <3> QED
      BY <1>1, <2>1, <3>1 DEF RefsOK
  <2>2. CASE Op(r) # "dot"
    BY <1>5, <2>2, MentionsIn
  <2> QED
    BY <2>1, <2>2
<1>14. TwoPaths(r) => Req(r).n2 \in DOMAIN nodes /\ Holds(Req(r).n2) /\ Req(r).nm2 # NoName
  <2>1. SUFFICES ASSUME TwoPaths(r) PROVE Req(r).n2 \in DOMAIN nodes /\ Holds(Req(r).n2) /\ Req(r).nm2 # NoName
    OBVIOUS
  <2>2. Op(r) \in {"rename", "link"} /\ Op(r) # "dot"
    BY <2>1 DEF TwoPaths, Op
  <2>3. Req(r).n2 \in Ids /\ Req(r).nm2 # NoName
    BY <1>1, <2>2, OpFacts
  <2> QED
    BY <1>5, <2>2, <2>3, MentionsIn DEF Ids, None
<1>15. Op(r) \in {"unlink", "rmdir", "rename"} => Req(r).nm # NoName /\ NodeOf(r) = Req(r).n /\ Req(r).n \in Mutexes(r)
  BY <1>1, OpFacts DEF Naming, NodeOf, Mutexes, Op
<1>16. Op(r) = "rename" => Req(r).n2 \in Mutexes(r)
  BY DEF Mutexes, Op
<1>17. Op(r) \in {"unlink", "rmdir"} => lookup_node(nodes, NodeOf(r), Req(r).nm) = loc[r].victim
  <2>1. SUFFICES ASSUME Op(r) \in {"unlink", "rmdir"} PROVE lookup_node(nodes, NodeOf(r), Req(r).nm) = loc[r].victim
    OBVIOUS
  <2>2. Removing(r)
    BY <1>1, <1>3, <1>8, <2>1, LaterAhead DEF Removing, Op
  <2>3. Doom(r) = loc[r].victim
    BY <1>1, <1>3, <2>2, RemovingHides DEF NamesOK
  <2>4. Doom(r) = lookup_node(nodes, NodeOf(r), Req(r).nm)
    BY <2>1 DEF Doom, Doomed, Op
  <2> QED
    BY <2>3, <2>4
<1>18. /\ Step(r) = "getw" <=> Op(r) \in {"unlink", "rmdir"}
       /\ Step(r) = "get2" <=> Op(r) = "link"
       /\ Step(r) = "get2w" <=> Op(r) = "rename"
  BY <1>8, <1>9, <1>10, <1>11
<1> QED
  BY <1>3, <1>5, <1>7, <1>13, <1>14, <1>15, <1>16, <1>17, <1>18

\* The second path of a rename or a link.
Above2(r) == IF TwoPaths(r) THEN Above(nodes, Req(r).n2) ELSE {}
\* and the node it replaces.
Second(r, w) == IF TwoPaths(r) THEN w ELSE None

\* What a handler that waits for its paths gets.
Tried(r, R) ==
  /\ R.err \in {"ok", "EAGAIN", "ENOENT"}
  /\ R.err # "ok" => Alike(nodes, R.nodes) /\ R.w = None /\ (TwoPaths(r) => R.w2 = None)
  /\ R.err = "ok" =>
       /\ TableOK(R.nodes) /\ SameShape(nodes, R.nodes)
       /\ \A w : w = Second(r, R.w2) => GotPaths(nodes, R.nodes, Above(nodes, NodeOf(r)), Above2(r), R.w, w)
       /\ \E name : R.path = Named(PathOf(nodes, NodeOf(r)), name)
       /\ TwoPaths(r) => \E name : R.path2 = Named(PathOf(nodes, Req(r).n2), name)
       /\ R.w = IF Op(r) \in {"unlink", "rmdir", "rename"} THEN lookup_node(nodes, NodeOf(r), Req(r).nm) ELSE None
       /\ TwoPaths(r) => R.w2 = IF Op(r) = "rename" THEN lookup_node(nodes, Req(r).n2, Req(r).nm2) ELSE None

\* Trying one path finds what the handler wants.
LEMMA TriedOne ==
  ASSUME IInv, NEW r \in Reqs, Step(r) \in Gets, ~TwoPaths(r), NEW R, NEW name, NEW wr \in BOOLEAN,
         wr <=> Op(r) \in {"unlink", "rmdir"}, wr => name = Req(r).nm,
         R = try_get_path(nodes, NodeOf(r), name, wr, r)
  PROVE  Tried(r, R)
<1>1. TableOK(nodes)
  BY InvIs
<1>2. NodeOf(r) \in DOMAIN nodes /\ (wr => name # NoName)
  BY Getter
<1>3. OnePath(nodes, NodeOf(r), name, wr, R)
  BY <1>1, <1>2, TryPathFacts
<1>4. R.err = "ok" => GotPaths(nodes, R.nodes, Above(nodes, NodeOf(r)), {}, R.w, None)
  BY <1>1, <1>2, GotOne
<1>5. Op(r) # "rename" /\ Above2(r) = {} /\ \A w : Second(r, w) = None
  BY DEF TwoPaths, Op, Above2, Second
<1>6. R.err = "ok" => R.w = IF Op(r) \in {"unlink", "rmdir", "rename"} THEN lookup_node(nodes, NodeOf(r), Req(r).nm) ELSE None
  <2>1. R.err = "ok" => R.w = Wanted(nodes, NodeOf(r), name, wr)
    BY <1>3 DEF OnePath
  <2> QED
    BY <1>5, <2>1 DEF Wanted
<1>7. R.err \in {"ok", "EAGAIN", "ENOENT"} /\ (R.err # "ok" => Alike(nodes, R.nodes) /\ R.w = None)
      /\ TableOK(R.nodes) /\ SameShape(nodes, R.nodes) /\ (R.err = "ok" => R.path = Named(PathOf(nodes, NodeOf(r)), name))
  BY <1>3 DEF OnePath
<1> QED
  BY <1>4, <1>5, <1>6, <1>7 DEF Tried

\* Trying two paths does.
LEMMA TriedTwo ==
  ASSUME IInv, NEW r \in Reqs, Step(r) \in Gets, TwoPaths(r), NEW R, NEW name1, NEW name2, NEW wr \in BOOLEAN,
         wr <=> Op(r) = "rename", wr => name1 = Req(r).nm, name2 = Req(r).nm2,
         R = try_get_path2(nodes, NodeOf(r), name1, Req(r).n2, name2, wr, r)
  PROVE  Tried(r, R)
<1>1. TableOK(nodes)
  BY InvIs
<1>2. NodeOf(r) \in DOMAIN nodes /\ Req(r).n2 \in DOMAIN nodes /\ (wr => name1 # NoName /\ name2 # NoName)
  BY Getter
<1>3. PICK id1 : id1 = NodeOf(r)
  OBVIOUS
<1>4. PICK id2 : id2 = Req(r).n2
  OBVIOUS
<1>5. /\ R.err \in {"ok", "EAGAIN", "ENOENT"} /\ TableOK(R.nodes) /\ SameShape(nodes, R.nodes)
      /\ R.err # "ok" => /\ Alike(nodes, R.nodes) /\ R.w = None /\ R.w2 = None
      /\ R.err = "ok" =>
           /\ R.w = Wanted(nodes, id1, name1, wr) /\ R.w2 = Wanted(nodes, id2, name2, wr)
           /\ R.path = Named(PathOf(nodes, id1), name1) /\ R.path2 = Named(PathOf(nodes, id2), name2)
           /\ GotPaths(nodes, R.nodes, Above(nodes, id1), Above(nodes, id2), R.w, R.w2)
  <2>1. TableOK(nodes) /\ id1 \in DOMAIN nodes /\ id2 \in DOMAIN nodes /\ (wr => name1 # NoName /\ name2 # NoName)
        /\ R = try_get_path2(nodes, id1, name1, id2, name2, wr, r)
    BY <1>1, <1>2, <1>3, <1>4
  <2>2. GotBoth(nodes, id1, name1, id2, name2, wr, R)
    BY ONLY <2>1, GotTwo
  <2> QED
    BY <2>2 DEF GotBoth
<1>6. Op(r) \in {"rename", "link"} /\ Above2(r) = Above(nodes, id2) /\ (\A w : Second(r, w) = w)
  BY <1>4 DEF TwoPaths, Op, Above2, Second
<1>7. R.err = "ok" =>
        /\ R.w = IF Op(r) \in {"unlink", "rmdir", "rename"} THEN lookup_node(nodes, NodeOf(r), Req(r).nm) ELSE None
        /\ R.w2 = IF Op(r) = "rename" THEN lookup_node(nodes, Req(r).n2, Req(r).nm2) ELSE None
  BY <1>3, <1>4, <1>5, <1>6 DEF Wanted
<1>8. R.err = "ok" => \E name : R.path2 = Named(PathOf(nodes, Req(r).n2), name)
  BY <1>4, <1>5
<1> QED
  BY <1>3, <1>5, <1>6, <1>7, <1>8 DEF Tried

\* Trying what the handler asks for does.
LEMMA GetTried ==
  ASSUME IInv, NEW r \in Reqs, Step(r) \in Gets, NEW R, R = TryGet(r)
  PROVE  Tried(r, R)
<1>1. /\ Step(r) = "getw" <=> Op(r) \in {"unlink", "rmdir"}
      /\ Step(r) = "get2" <=> Op(r) = "link"
      /\ Step(r) = "get2w" <=> Op(r) = "rename"
  BY Getter
<1>2. TwoPaths(r) <=> Op(r) \in {"rename", "link"}
  BY DEF TwoPaths, Op
<1>3. CASE Step(r) \in {"get", "getany", "getname"}
  <2>1. PICK name : name = IF Step(r) = "getname" THEN Named1(r) ELSE NoName
    OBVIOUS
  <2>2. PICK wr : wr = FALSE
    OBVIOUS
  <2>3. R = try_get_path(nodes, NodeOf(r), name, FALSE, r)
    BY <1>3, <2>1 DEF TryGet
  <2>4. R = try_get_path(nodes, NodeOf(r), name, wr, r)
    BY <2>2, <2>3
  <2>5. wr \in BOOLEAN /\ (wr <=> Op(r) \in {"unlink", "rmdir"}) /\ (wr => name = Req(r).nm) /\ ~TwoPaths(r)
    BY <1>1, <1>2, <1>3, <2>2
  <2>6. IInv /\ r \in Reqs /\ Step(r) \in Gets
    OBVIOUS
  <2> QED
    BY ONLY <2>4, <2>5, <2>6, TriedOne
<1>4. CASE Step(r) = "getw"
  <2>1. PICK name : name = Req(r).nm
    OBVIOUS
  <2>2. PICK wr : wr = TRUE
    OBVIOUS
  <2>3. R = try_get_path(nodes, NodeOf(r), name, TRUE, r)
    BY <1>4, <2>1 DEF TryGet
  <2>4. R = try_get_path(nodes, NodeOf(r), name, wr, r)
    BY <2>2, <2>3
  <2>5. wr \in BOOLEAN /\ (wr <=> Op(r) \in {"unlink", "rmdir"}) /\ (wr => name = Req(r).nm) /\ ~TwoPaths(r)
    BY <1>1, <1>2, <1>4, <2>1, <2>2
  <2>6. IInv /\ r \in Reqs /\ Step(r) \in Gets
    OBVIOUS
  <2> QED
    BY ONLY <2>4, <2>5, <2>6, TriedOne
<1>5. CASE Step(r) = "get2"
  <2>1. PICK name1 : name1 = NoName
    OBVIOUS
  <2>2. PICK name2 : name2 = Req(r).nm2
    OBVIOUS
  <2>3. PICK wr : wr = FALSE
    OBVIOUS
  <2>4. R = try_get_path2(nodes, NodeOf(r), name1, Req(r).n2, name2, FALSE, r)
    BY <1>5, <2>1, <2>2 DEF TryGet
  <2>5. R = try_get_path2(nodes, NodeOf(r), name1, Req(r).n2, name2, wr, r)
    BY <2>3, <2>4
  <2>6. wr \in BOOLEAN /\ (wr <=> Op(r) = "rename") /\ (wr => name1 = Req(r).nm) /\ name2 = Req(r).nm2 /\ TwoPaths(r)
    BY <1>1, <1>2, <1>5, <2>2, <2>3
  <2>7. IInv /\ r \in Reqs /\ Step(r) \in Gets
    OBVIOUS
  <2> QED
    BY ONLY <2>5, <2>6, <2>7, TriedTwo
<1>6. CASE Step(r) = "get2w"
  <2>1. PICK name1 : name1 = Req(r).nm
    OBVIOUS
  <2>2. PICK name2 : name2 = Req(r).nm2
    OBVIOUS
  <2>3. PICK wr : wr = TRUE
    OBVIOUS
  <2>4. R = try_get_path2(nodes, NodeOf(r), name1, Req(r).n2, name2, TRUE, r)
    BY <1>6, <2>1, <2>2 DEF TryGet
  <2>5. R = try_get_path2(nodes, NodeOf(r), name1, Req(r).n2, name2, wr, r)
    BY <2>3, <2>4
  <2>6. wr \in BOOLEAN /\ (wr <=> Op(r) = "rename") /\ (wr => name1 = Req(r).nm) /\ name2 = Req(r).nm2 /\ TwoPaths(r)
    BY <1>1, <1>2, <1>6, <2>1, <2>2, <2>3
  <2>7. IInv /\ r \in Reqs /\ Step(r) \in Gets
    OBVIOUS
  <2> QED
    BY ONLY <2>5, <2>6, <2>7, TriedTwo
<1> QED
  BY <1>3, <1>4, <1>5, <1>6 DEF Gets

\* The locals of a handler that has tried to get its paths, and does not wait.
GotLoc(r, R, l) ==
  /\ DOMAIN l = DOMAIN NoLoc
  /\ l.err = (IF Step(r) = "getany" THEN "ok" ELSE R.err)
  /\ l.locked \in BOOLEAN /\ (l.locked <=> R.err = "ok")
  /\ l.path = R.path /\ l.w = R.w
  /\ TwoPaths(r) => l.path2 = R.path2 /\ l.w2 = R.w2
  /\ ~TwoPaths(r) => l.path2 = loc[r].path2 /\ l.w2 = loc[r].w2
  /\ l.id = loc[r].id /\ l.n = loc[r].n /\ l.victim = loc[r].victim /\ l.intr = loc[r].intr
  /\ l.pinned = loc[r].pinned /\ l.hide = loc[r].hide /\ l.hname = loc[r].hname

\* What a handler knows after it tried.
LEMMA AfterGet ==
  ASSUME IInv, NEW r \in Reqs, Step(r) \in Gets, NEW R, NEW l, l = After(r, R)
  PROVE  GotLoc(r, R, l)
<1>1. DOMAIN loc[r] = DOMAIN NoLoc
  BY InvIs DEF PlaceOK, LocOK
<1>2. TwoPaths(r) <=> Step(r) \in {"get2", "get2w"}
  BY Getter DEF TwoPaths, Op
<1>3. Step(r) \notin Forgets
  BY DEF Gets, Forgets
<1>4. PICK m : m = loc[r]
  OBVIOUS
<1>5. PICK e : e = (IF Step(r) = "getany" THEN "ok" ELSE R.err)
  OBVIOUS
<1>6. PICK k \in BOOLEAN : k <=> R.err = "ok"
  OBVIOUS
<1>7. PICK h : h = [m EXCEPT !.err = e, !.locked = k, !.path = R.path, !.w = R.w]
  OBVIOUS
<1>8. l = IF TwoPaths(r) THEN [h EXCEPT !.path2 = R.path2, !.w2 = R.w2] ELSE h
  <2>1. (R.err = "ok") = k
    BY <1>6
  <2> QED
    BY <1>2, <1>3, <1>4, <1>5, <1>7, <2>1 DEF After
<1>9. /\ DOMAIN h = DOMAIN NoLoc /\ h.err = e /\ h.locked = k /\ h.path = R.path /\ h.w = R.w
      /\ h.path2 = m.path2 /\ h.w2 = m.w2 /\ h.id = m.id /\ h.n = m.n /\ h.victim = m.victim /\ h.intr = m.intr
      /\ h.pinned = m.pinned /\ h.hide = m.hide /\ h.hname = m.hname
  BY <1>1, <1>4, <1>7, LocFields
<1>10. /\ DOMAIN l = DOMAIN NoLoc /\ l.err = e /\ l.locked = k /\ l.path = R.path /\ l.w = R.w
       /\ l.id = m.id /\ l.n = m.n /\ l.victim = m.victim /\ l.intr = m.intr
       /\ l.pinned = m.pinned /\ l.hide = m.hide /\ l.hname = m.hname
       /\ IF TwoPaths(r) THEN l.path2 = R.path2 /\ l.w2 = R.w2 ELSE l.path2 = m.path2 /\ l.w2 = m.w2
  <2>1. CASE TwoPaths(r)
    BY <1>8, <1>9, <2>1, LocFields
  <2>2. CASE ~TwoPaths(r)
    BY <1>8, <1>9, <2>2
  <2> QED
    BY <2>1, <2>2
<1> QED
  BY <1>4, <1>5, <1>6, <1>10 DEF GotLoc

\* A handler that got its path, or never will, is in place.
LEMMA GetMoves ==
  ASSUME IInv, NEW r \in Reqs, Step(r) \in Gets, NEW R, Tried(r, R), R.err # "EAGAIN", NEW l, GotLoc(r, R, l),
         Advance(r, l), work' = work, answer' = answer
  PROVE  Moves(r, l)
<1>1. LocOK(loc[r]) /\ TableOK(nodes)
  BY InvIs DEF PlaceOK
<1>2. /\ r \in Unanswered /\ Running(r) /\ loc[r].err = "ok" /\ ~loc[r].locked
      /\ Op(r) \in {"unlink", "rmdir", "rename"} => Req(r).nm # NoName
      /\ TwoPaths(r) => Req(r).nm2 # NoName
      /\ Op(r) \in {"unlink", "rmdir"} => lookup_node(nodes, NodeOf(r), Req(r).nm) = loc[r].victim
      /\ Op(r) # "rename" => loc[r].w2 = None
  BY Getter
<1>3. R.err \in {"ok", "ENOENT"}
  BY DEF Tried
<1>4. /\ R.w = IF R.err = "ok" /\ Op(r) \in {"unlink", "rmdir", "rename"} THEN lookup_node(nodes, NodeOf(r), Req(r).nm) ELSE None
      /\ TwoPaths(r) => R.w2 = IF R.err = "ok" /\ Op(r) = "rename" THEN lookup_node(nodes, Req(r).n2, Req(r).nm2) ELSE None
  BY DEF Tried
<1>5. \A p, name : name # NoName => lookup_node(nodes, p, name) \in Ids \cup {None}
  <2>1. DOMAIN nodes \subseteq Ids
    BY <1>1 DEF TableOK
  <2> QED
    BY <1>1, <2>1, LookupFacts
<1>6. R.w \in Ids \cup {None} /\ (TwoPaths(r) => R.w2 \in Ids \cup {None})
  <2>1. Op(r) = "rename" => TwoPaths(r)
    BY DEF TwoPaths, Op
  <2>2. R.w \in Ids \cup {None}
    BY <1>2, <1>4, <1>5
  <2> QED
    BY <1>2, <1>4, <1>5, <2>2
<1>7. LocOK(l)
  <2>1. {loc[r].w2, loc[r].id, loc[r].victim} \subseteq Ids \cup {None} /\ loc[r].n \in Nat
        /\ {loc[r].hide, loc[r].intr, loc[r].pinned} \subseteq BOOLEAN
    BY <1>1 DEF LocOK
  <2>2. l.w = R.w /\ l.w2 \in Ids \cup {None}
    BY <1>6, <2>1 DEF GotLoc
  <2> QED
    BY <1>6, <2>1, <2>2 DEF LocOK, GotLoc
<1>8. Step(r) \notin Replies \cup {"find", "free", "pin", "unpin", "is_open", "list_conflict", "hide_name"} /\ Step(r) \in Spoils
  BY DEF Gets, Replies, Spoils
<1>9. /\ l.err = "ok" => l.locked \/ Step(r) = "getany"
      /\ l.w # None => Op(r) \in {"unlink", "rmdir", "rename"}
      /\ l.w2 # None /\ l.w2 # loc[r].w2 => Op(r) = "rename"
      /\ Op(r) \in {"unlink", "rmdir"} /\ l.locked => l.w = l.victim
  BY <1>2, <1>4 DEF GotLoc
<1>10. Fits(r, l)
  BY <1>2, <1>7, <1>8, <1>9 DEF Fits, GotLoc
<1>11. Answers(r, l)
  BY <1>8 DEF Answers, GotLoc
<1> QED
  BY <1>2, <1>10, <1>11 DEF Moves

\* Whoever has a lock has begun.
LEMMA LockedStarted ==
  ASSUME Places, NEW q \in Reqs, loc[q].locked
  PROVE  Started(q)
BY DEF Places, PlaceOK, NoLoc

\* What another handler may rename is not locked.
LEMMA GetSpares ==
  ASSUME IInv, RenamesApart, NEW r \in Reqs, Step(r) \in Gets, NEW R, Tried(r, R), R.err = "ok", NEW l, GotLoc(r, R, l),
         nodes' = R.nodes, known' = known,
         NEW q \in Reqs, q # r, loc[q].locked, Renaming(q), NEW y \in Claims(q), Stranger(y)
  PROVE  StaysStrange(y, r, l)
<1>1. Places /\ TableOK(nodes) /\ HeldOK
  BY InvIs
<1>2. /\ r \in Unanswered /\ NodeOf(r) \in DOMAIN nodes /\ (Op(r) # "dot" => Holds(NodeOf(r)))
      /\ (TwoPaths(r) => Req(r).n2 \in DOMAIN nodes /\ Holds(Req(r).n2) /\ Req(r).nm2 # NoName)
      /\ Op(r) \in {"unlink", "rmdir", "rename"} => Req(r).nm # NoName /\ NodeOf(r) = Req(r).n /\ Req(r).n \in Mutexes(r)
      /\ Op(r) = "rename" => Req(r).n2 \in Mutexes(r)
  BY Getter
<1>3. Started(q)
  BY <1>1, LockedStarted
<1>4. Mutexes(r) \cap {Doomed(q)[1], Req(q).n} = {} /\ Op(r) # "dot"
  BY <1>2, <1>3, Rivals
<1>5. Doomed(q)[2] # NoName /\ Req(q).nm # NoName
  BY <1>1, <1>3, DirsHeld
<1>6. y \in DOMAIN nodes \ {Root} /\ known[y] = 0 /\ nodes[y].tree = 0 /\ Children(y) = {} /\ y # None
  BY <1>1, NotAborted DEF Stranger
<1>7. nodes[y].parent \in {Doomed(q)[1], Req(q).n}
  <2>1. y = lookup_node(nodes, Doomed(q)[1], Doomed(q)[2]) \/ y = lookup_node(nodes, Req(q).n, Req(q).nm)
    BY DEF Claims, Doom
  <2> QED
    BY <1>1, <1>5, <1>6, <2>1, LookupFacts
<1>8. PICK w : w = Second(r, R.w2)
  OBVIOUS
<1>9. GotPaths(nodes, R.nodes, Above(nodes, NodeOf(r)), Above2(r), R.w, w) /\ SameShape(nodes, R.nodes)
  BY <1>8 DEF Tried
<1>10. y \notin {R.w, w}
  <2>1. ASSUME NEW p \in Mutexes(r), NEW name, name # NoName PROVE lookup_node(nodes, p, name) # y
    <3>1. nodes[y].parent # p
      BY <1>4, <1>7, <2>1
    <3> QED
      BY <1>1, <1>6, <2>1, <3>1, LookupFacts
  <2>2. R.w # y
    <3>1. CASE Op(r) \in {"unlink", "rmdir", "rename"}
      <4>1. R.w = lookup_node(nodes, Req(r).n, Req(r).nm)
        BY <1>2, <3>1 DEF Tried
      <4> QED
        BY <1>2, <2>1, <3>1, <4>1
    <3>2. CASE Op(r) \notin {"unlink", "rmdir", "rename"}
      BY <1>6, <3>2 DEF Tried
    <3> QED
      BY <3>1, <3>2
  <2>3. w # y
    <3>1. CASE Op(r) = "rename"
      <4>1. TwoPaths(r)
        BY <3>1 DEF TwoPaths, Op
      <4>2. w = lookup_node(nodes, Req(r).n2, Req(r).nm2)
        BY <1>8, <3>1, <4>1 DEF Tried, Second
      <4> QED
        BY <1>2, <2>1, <3>1, <4>1, <4>2
    <3>2. CASE Op(r) # "rename"
      BY <1>6, <1>8, <3>2 DEF Tried, Second
    <3> QED
      BY <3>1, <3>2
  <2> QED
    BY <2>2, <2>3
<1>11. y \notin Above(nodes, NodeOf(r)) /\ y \notin Above2(r)
  <2>1. ASSUME NEW d \in DOMAIN nodes, Holds(d) PROVE y \notin Above(nodes, d)
    <3>1. y # d
      BY <1>6, <2>1 DEF Holds
    <3>2. ChildrenIn(nodes, y) = {}
      BY <1>6 DEF Children
    <3> QED
      BY <1>1, <3>1, <3>2, AboveIs
  <2> QED
    BY <1>2, <1>4, <2>1 DEF Above2
<1>12. nodes'[y].tree = 0 /\ y \in DOMAIN nodes'
  <2>1. DOMAIN nodes' = DOMAIN nodes
    BY <1>9 DEF GotPaths
  <2>2. nodes'[y].tree = IF y \in {R.w, w} THEN -1
            ELSE nodes[y].tree + (IF y \in Above(nodes, NodeOf(r)) THEN 1 ELSE 0) + (IF y \in Above2(r) THEN 1 ELSE 0)
    BY <1>6, <1>9 DEF GotPaths
  <2> QED
    BY <1>6, <1>10, <1>11, <2>1, <2>2
<1>13. Children(y)' = {}
  BY <1>6, <1>9 DEF Children, SameShape
<1>14. Step(r) # "find"
  BY DEF Gets
<1> QED
  BY <1>6, <1>12, <1>13, <1>14 DEF StaysStrange

\* Getting a path keeps the invariant.
LEMMA GetOkInv ==
  ASSUME IInv, RenamesApart, NEW r \in Reqs, Step(r) \in Gets, NEW R, Tried(r, R), R.err = "ok", NEW l, GotLoc(r, R, l),
         Advance(r, l), work' = work, answer' = answer, known' = known, ctr' = ctr, nodes' = R.nodes, QueueOK'
  PROVE  IInv'
<1>1. Moves(r, l)
  BY GetMoves
<1>2. /\ Places /\ TypeOK /\ QueueOK /\ LookupsOK /\ RefsOK /\ TreesOK /\ HeldOK /\ OpensOK /\ MutexOK /\ PathStable
      /\ nodes # Abort /\ TableOK(nodes) /\ (\A q \in Reqs : NamesOK(q) /\ PlaceOK(q))
      /\ known \in [1 .. MaxId -> Nat] /\ ctr \in 0 .. MaxId
  BY InvIs
<1>3. l.locked /\ l.pinned = loc[r].pinned /\ l.w = R.w /\ l.w2 = Second(r, R.w2) /\ l.path = R.path
      /\ (TwoPaths(r) => l.path2 = R.path2)
  <2>1. Op(r) # "rename" => loc[r].w2 = None
    BY Getter
  <2> QED
    BY <2>1 DEF GotLoc, Second, TwoPaths, Op
<1>4. TableOK(nodes') /\ SameShape(nodes, nodes')
      /\ GotPaths(nodes, nodes', Above(nodes, NodeOf(r)), Above2(r), l.w, l.w2)
  BY <1>3 DEF Tried
<1>5. DOMAIN nodes' = DOMAIN nodes /\ \A n \in DOMAIN nodes : Body(nodes'[n], nodes[n])
  BY <1>4 DEF GotPaths
<1>6. Step(r) \notin Replies \cup {"find", "undo", "forget", "count", "uncount", "hide_node"}
  BY DEF Gets, Replies
<1>7. LookupsOK'
  <2>1. \A id \in Ids \ {Root} : Weight(nodes', id, Kept) = Weight(nodes, id, Kept)
    BY <1>5 DEF Weight, Body
  <2> QED
    BY <1>1, <1>4, <1>6, <2>1, LookupsQuiet
<1>8. RefsOK'
  <2>1. Balanced(nodes, nodes')
    BY <1>5, BalancedSame DEF Body
  <2> QED
    BY <1>1, <1>2, <1>3, <1>4, <1>5, <2>1, RefsKept
<1>9. TreesOK' /\ PathStable'
  <2>1. NodeOf(r) \in DOMAIN nodes /\ (TwoPaths(r) => Req(r).n2 \in DOMAIN nodes)
    BY Getter
  <2>2. \E name : l.path = Named(PathOf(nodes, NodeOf(r)), name)
    BY <1>3 DEF Tried
  <2>3. TwoPaths(r) => \E name : l.path2 = Named(PathOf(nodes, Req(r).n2), name)
    BY <1>3 DEF Tried
  <2>4. GotPaths(nodes, nodes', Above(nodes, NodeOf(r)), IF TwoPaths(r) THEN Above(nodes, Req(r).n2) ELSE {}, l.w, l.w2)
    BY <1>4 DEF Above2
  <2> QED
    BY <1>1, <1>2, <1>3, <1>4, <2>1, <2>2, <2>3, <2>4, TreesGot
<1>10. MoreKnown /\ known' \in [1 .. MaxId -> Nat]
  BY SameKnown
<1>11. HeldOK'
  BY <1>1, <1>2, <1>6, <1>10, HeldMoved
<1>12. OpensOK'
  BY <1>1, <1>2, <1>5, <1>6, OpensKept DEF Body
<1>13. \A q \in Reqs : NamesOK(q)'
  <2>1. NamesStay(nodes, nodes')
    BY <1>5 DEF NamesStay, Body
  <2>2. \A q \in Reqs : loc[q].locked /\ Renaming(q) /\ (q = r => Step(r) \notin Gets) =>
          \A y \in Claims(q) : Stranger(y) => StaysStrange(y, r, l)
    BY GetSpares
  <2>3. Step(r) \in Gets /\ l.locked /\ Op(r) = "rename" =>
          l.w = lookup_node(nodes, Req(r).n, Req(r).nm) /\ l.w2 = lookup_node(nodes, Req(r).n2, Req(r).nm2)
    <3>1. SUFFICES ASSUME Op(r) = "rename" PROVE l.w = lookup_node(nodes, Req(r).n, Req(r).nm) /\ l.w2 = lookup_node(nodes, Req(r).n2, Req(r).nm2)
      OBVIOUS
    <3>2. TwoPaths(r) /\ NodeOf(r) = Req(r).n
      BY <3>1, Getter DEF TwoPaths, Op
    <3> QED
      BY <1>3, <3>1, <3>2 DEF Tried, Second
  <2> QED
    BY <1>1, <1>2, <1>4, <1>6, <2>1, <2>2, <2>3, NamesQuiet
<1> QED
  BY <1>1, <1>2, <1>4, <1>7, <1>8, <1>9, <1>10, <1>11, <1>12, <1>13, MoveInv

\* A handler's try of its paths, when it is not to wait.
LEMMA GetDone ==
  ASSUME IInv, RenamesApart, NEW r \in Reqs, Step(r) \in Gets, NEW R, R = TryGet(r), R.err # "EAGAIN", NEW l, l = After(r, R),
         Advance(r, l), work' = work, answer' = answer, known' = known, ctr' = ctr, nodes' = R.nodes, QueueOK'
  PROVE  IInv'
<1>1. Tried(r, R)
  BY GetTried
<1>2. GotLoc(r, R, l)
  BY AfterGet
<1>3. CASE R.err = "ok"
  BY <1>1, <1>2, <1>3, GetOkInv
<1>4. CASE R.err # "ok"
  <2>1. Moves(r, l)
    BY <1>1, <1>2, GetMoves
  <2>2. Alike(nodes, nodes')
    BY <1>1, <1>4 DEF Tried
  <2>3. Places /\ ~loc[r].locked /\ ~l.locked /\ l.pinned = loc[r].pinned /\ LocOK(loc[r])
    BY <1>2, <1>4, InvIs, Getter DEF GotLoc, PlaceOK
  <2>4. LocksKept
    <3>1. loc'[r] = l /\ Reqs' = Reqs /\ \A q \in Reqs \ {r} : Same(q)
      BY <2>1, <2>3, AdvanceFacts, PlacesMoved DEF Moves, Places
    <3>2. loc'[r].locked = loc[r].locked
      BY <1>2, <2>3, <3>1 DEF GotLoc, LocOK
    <3>3. \A q \in Reqs : Started(q) => NodeOf(q)' = NodeOf(q)
      BY <2>1, <2>3, MoveNodes
    <3>4. \A q \in Reqs : loc[q].locked => NodeOf(q)' = NodeOf(q)
      BY <2>3, <3>3, LockedStarted
    <3> QED
      BY <2>3, <3>1, <3>2, <3>4 DEF LocksKept, Same
  <2>5. Step(r) \notin Replies \cup {"count", "uncount", "find", "undo", "forget", "hide_node"}
    BY DEF Gets, Replies
  <2> QED
    BY <2>1, <2>2, <2>3, <2>4, <2>5, QuietStep
<1> QED
  BY <1>3, <1>4

(***************************************************************************)
(* Lookups are forgotten.                                                  *)
(***************************************************************************)

\* Where a forgetting request is after that.
LEMMA ForgetMoves ==
  ASSUME IInv, NEW r \in Reqs, Step(r) \in Forgets, NEW l, l = loc[r], Advance(r, l), work' = work, answer' = answer
  PROVE  Moves(r, l) /\ l.pinned = loc[r].pinned /\ Step(r) \notin Gets \cup Replies \cup {"free", "find", "count", "uncount", "hide_node", "pin"}
<1>1. Places /\ LocOK(loc[r])
  BY InvIs DEF PlaceOK
<1>2. Step(r) \in {"undo", "forget"} /\ Step(r) \notin Gets \cup Replies \cup {"free", "find", "count", "uncount", "hide_node", "pin", "hide_name", "out"}
  BY DEF Forgets, Gets, Replies
<1>3. Like(l, loc[r], Loose)
  BY DEF Like
<1>4. Fits(r, l)
  BY <1>1, <1>2, <1>3, FitsLike
<1>5. Running(r)
  BY <1>2 DEF Step
<1> QED
  BY <1>2, <1>4, <1>5 DEF Moves, Answers

\* The lookups a forget returns are as many as it says.
LEMMA Pairs ==
  ASSUME NEW r, NEW k \in Nat
  PROVE  IsFiniteSet({r} \X (1 .. k)) /\ Cardinality({r} \X (1 .. k)) = k
<1>1. IsFiniteSet(1 .. k) /\ Cardinality(1 .. k) = k
  <2>1. 1 \in Int /\ k \in Int
    OBVIOUS
  <2>2. IsFiniteSet(1 .. k) /\ Cardinality(1 .. k) = IF 1 > k THEN 0 ELSE k - 1 + 1
    BY ONLY <2>1, FS_Interval
  <2> QED
    BY <2>2
<1>2. PICK f : f = [i \in 1 .. k |-> <<r, i>>]
  OBVIOUS
<1>3. PICK P : P = {r} \X (1 .. k)
  OBVIOUS
<1>4. f \in Bijection(1 .. k, P)
  <2>1. f \in [1 .. k -> P]
    BY <1>2, <1>3
  <2>2. \A a, b \in 1 .. k : f[a] = f[b] => a = b
    BY <1>2
  <2>3. ASSUME NEW t \in P PROVE \E i \in 1 .. k : f[i] = t
    <3>1. PICK i \in 1 .. k : t = <<r, i>>
      BY <1>3
    <3> QED
      BY <1>2, <3>1
  <2> QED
    BY <2>1, <2>2, <2>3 DEF Bijection, Injection, Surjection, IsInjective
<1>5. ExistsBijection(1 .. k, P)
  BY <1>4 DEF ExistsBijection
<1>6. IsFiniteSet(P) /\ Cardinality(P) = Cardinality(1 .. k)
  BY <1>1, <1>5, FS_Bijection
<1> QED
  BY <1>1, <1>3, <1>6

\* What a handler that forgets takes away is counted.
ForgetArgsOK(r, x, k) ==
  /\ x \in Ids /\ k \in Nat /\ (x # Root => k > 0)
  /\ IF Step(r) = "undo" THEN k = 1 /\ r \in InFlight(x) /\ x = loc[r].id
     ELSE {r} \X (1 .. k) \subseteq Returning(x) /\ x = NodeOf(r) /\ k = loc[r].n

\* Who forgets, and what: lookups given back, or one of its own.
LEMMA ForgetWho ==
  ASSUME IInv, NEW r \in Reqs, Step(r) \in Forgets, NEW x, x = ForgetArgs(r)[1], NEW k, k = ForgetArgs(r)[2]
  PROVE  /\ Running(r) /\ Started(r) /\ Op(r) \notin {"unlink", "rmdir", "rename"}
         /\ ForgetArgsOK(r, x, k)
<1>1. Places /\ TypeOK /\ PlaceOK(r) /\ LocOK(loc[r])
  BY InvIs DEF PlaceOK
<1>2. Running(r)
  BY DEF Step, Forgets
<1>3. Started(r) /\ Ordered(Op(r), pc[r], Step(r)) /\ Ahead(r, Step(r))
  BY <1>1, <1>2, RunningOrder
<1>4. CASE Step(r) = "forget"
  <2>1. Op(r) = "forget"
    BY <1>3, <1>4 DEF Ordered
  <2>2. x = NodeOf(r) /\ k = loc[r].n
    BY <1>4 DEF ForgetArgs
  <2>3. NodeOf(r) \in Ids
    BY <1>1, <1>3, OfFacts
  <2>4. loc[r].n \in Nat /\ (loc[r].n > 0 \/ NodeOf(r) = Root)
    BY <1>1, <1>3, <2>1 DEF PlaceOK, LocOK, Op
  <2>5. {r} \X (1 .. k) \subseteq Returning(x)
    BY <1>4, <2>2 DEF Returning
  <2> QED
    BY <1>2, <1>3, <1>4, <2>1, <2>2, <2>3, <2>4, <2>5 DEF ForgetArgsOK
<1>5. CASE Step(r) = "undo"
  <2>1. Op(r) \in Finders
    BY <1>3, <1>5 DEF Ordered
  <2>2. x = loc[r].id /\ k = 1
    BY <1>5 DEF ForgetArgs
  <2>3. loc[r].intr
    <3>1. Applies(r, "undo", loc[r])
      BY <1>1, <1>2, <1>3, <1>5 DEF PlaceOK
    <3> QED
      BY <3>1 DEF Applies
  <2>4. answer[r] = "intr" /\ loc[r].err = "ok"
    BY <1>1, <1>3, <2>3 DEF PlaceOK
  <2>5. ~Ahead(r, "find")
    BY <1>1, <2>1, <2>4, AnsweredFacts
  <2>6. loc[r].id \in Ids
    BY <1>1, <1>3, <2>1, <2>4, <2>5 DEF PlaceOK, LocOK, Op
  <2>7. r \in InFlight(x)
    BY <1>3, <1>5, <2>2, <2>4 DEF InFlight
  <2>8. Op(r) \notin {"unlink", "rmdir", "rename"}
    BY <2>1 DEF Finders
  <2> QED
    BY <1>2, <1>3, <1>5, <2>2, <2>6, <2>7, <2>8 DEF ForgetArgsOK
<1> QED
  BY <1>4, <1>5 DEF Forgets

\* A node has the lookups forget takes, and with the last of them nobody wants it.
LEMMA ForgetCounts ==
  ASSUME IInv, NEW r \in Reqs, Step(r) \in Forgets, NEW x, x # Root, NEW k, ForgetArgsOK(r, x, k)
  PROVE  /\ x \in DOMAIN nodes /\ k <= nodes[x].nlookup
         /\ k = nodes[x].nlookup => /\ known[x] = 0 /\ (nodes[x].name # NoName => Kept = 0)
                                    /\ \A q \in InFlight(x) : Step(q) = "undo"
<1>1. Places /\ LookupsOK
  BY InvIs
<1>2. x \in Ids \ {Root} /\ k \in Nat \ {0}
  BY DEF ForgetArgsOK
<1>3. PICK F : F = InFlight(x)
  OBVIOUS
<1>4. PICK B : B = Returning(x)
  OBVIOUS
<1>5. IsFiniteSet(F) /\ IsFiniteSet(B) /\ known[x] \in Nat /\ Kept \in {0, 1}
  BY <1>1, <1>2, <1>3, <1>4, Finite, LookupsIs
<1>6. PICK f : f = Cardinality(F)
  OBVIOUS
<1>7. PICK b : b = Cardinality(B)
  OBVIOUS
<1>8. f \in Nat /\ b \in Nat /\ (f = 0 <=> F = {}) /\ (b = 0 <=> B = {})
  BY <1>5, <1>6, <1>7, NoneOf
<1>9. CASE Step(r) = "undo"
  <2>1. k = 1 /\ r \in F
    BY <1>3, <1>9 DEF ForgetArgsOK
  <2>2. x \in DOMAIN nodes
    BY <1>1, <1>2, <1>3, <2>1 DEF LookupsOK
  <2>3. nodes[x].nlookup = known[x] + f + b + (IF nodes[x].name # NoName THEN Kept ELSE 0)
    BY <1>1, <1>2, <1>3, <1>4, <1>6, <1>7, <2>2 DEF LookupsOK
  <2>4. f >= 1
    BY <1>8, <2>1
  <2>5. f = 1 => F = {r}
    <3>1. f = 1 => \E y : F = {y}
      BY <1>5, <1>6, FS_Singleton
    <3> QED
      BY <2>1, <3>1
  <2> QED
    BY <1>3, <1>5, <1>8, <1>9, <2>1, <2>2, <2>3, <2>4, <2>5
<1>10. CASE Step(r) # "undo"
  <2>1. {r} \X (1 .. k) \subseteq B
    BY <1>4, <1>10 DEF ForgetArgsOK
  <2>2. b >= k
    <3>1. PICK P : P = {r} \X (1 .. k)
      OBVIOUS
    <3>2. Cardinality(P) = k /\ P \in SUBSET B
      BY <1>2, <2>1, <3>1, Pairs
    <3>3. Cardinality(P) <= Cardinality(B)
      BY <1>5, <3>2, FS_Subset
    <3> QED
      BY <1>7, <3>2, <3>3
  <2>3. B # {}
    BY <1>2, <1>8, <2>2
  <2>4. x \in DOMAIN nodes
    BY <1>1, <1>2, <1>4, <2>3 DEF LookupsOK
  <2>5. nodes[x].nlookup = known[x] + f + b + (IF nodes[x].name # NoName THEN Kept ELSE 0)
    BY <1>1, <1>2, <1>3, <1>4, <1>6, <1>7, <2>4 DEF LookupsOK
  <2> QED
    BY <1>2, <1>3, <1>5, <1>8, <2>2, <2>4, <2>5
<1> QED
  BY <1>9, <1>10

\* The lookups taken were on their way.
LEMMA ForgetLookups ==
  ASSUME IInv, NEW r \in Reqs, Step(r) \in Forgets, NEW x, NEW k, ForgetArgsOK(r, x, k), NEW l, l = loc[r], Moves(r, l),
         TableOK(nodes'), known' = known,
         \A id \in Ids \ {Root} : Weight(nodes', id, Kept) = Weight(nodes, id, Kept) - (IF id = x THEN k ELSE 0)
  PROVE  LookupsOK'
<1>1. Places /\ LookupsOK /\ known \in [1 .. MaxId -> Nat]
  BY InvIs
<1>2. work' = work /\ known' \in [1 .. MaxId -> Nat]
  BY <1>1 DEF Moves
<1>3. ASSUME NEW id \in Ids \ {Root}
      PROVE  /\ IsFiniteSet(InFlight(id)') /\ IsFiniteSet(Returning(id)')
             /\ Weight(nodes', id, Kept) - known'[id] - Cardinality(InFlight(id)') - Cardinality(Returning(id)')
                = Weight(nodes, id, Kept) - known[id] - Cardinality(InFlight(id)) - Cardinality(Returning(id))
  <2>1. PICK F : F = InFlight(id)
    OBVIOUS
  <2>2. PICK B : B = Returning(id)
    OBVIOUS
  <2>3. PICK F2 : F2 = InFlight(id)'
    OBVIOUS
  <2>4. PICK B2 : B2 = Returning(id)'
    OBVIOUS
  <2>5. IsFiniteSet(F) /\ IsFiniteSet(B)
    BY <1>1, <2>1, <2>2, Finite
  <2>6. known[id] \in Nat /\ Cardinality(F) \in Nat /\ Cardinality(B) \in Nat
    BY <1>1, <2>5, LookupsIs, NoneOf
  <2>7. Weight(nodes, id, Kept) \in Int
    <3>1. LookupsOK /\ Kept \in {0, 1}
      BY <1>1, LookupsIs
    <3>2. id \in DOMAIN nodes => nodes[id].nlookup = known[id] + Cardinality(F) + Cardinality(B) + (IF nodes[id].name # NoName THEN Kept ELSE 0)
      BY <1>1, <2>1, <2>2 DEF LookupsOK
    <3> QED
      BY <2>6, <3>1, <3>2 DEF Weight
  <2>8. CASE Step(r) = "undo"
    <3>1. k = 1 /\ x = loc[r].id
      BY <2>8 DEF ForgetArgsOK
    <3>2. B2 = B
      BY <1>1, <2>2, <2>4, <2>8, ReturningMoved
    <3>3. F \ {r} = F2 \ {r} /\ r \notin F2 /\ (r \in F <=> id = x)
      BY <1>1, <2>1, <2>3, <2>8, <3>1, InFlightMoved
    <3>4. F2 = F \ {r}
      BY <3>3
    <3>5. IsFiniteSet(F2) /\ Cardinality(F2) = Cardinality(F) - (IF id = x THEN 1 ELSE 0)
      BY <2>5, <2>6, <3>3, <3>4, FS_RemoveElement
    <3> QED
      BY <2>1, <2>2, <2>3, <2>4, <2>5, <2>6, <2>7, <3>1, <3>2, <3>5
  <2>9. CASE Step(r) = "forget"
    <3>1. x = NodeOf(r) /\ k = loc[r].n /\ k \in Nat /\ {r} \X (1 .. k) \subseteq Returning(x)
      BY <2>9 DEF ForgetArgsOK
    <3>2. F2 = F
      <4>1. Step(r) \notin Replies \cup {"find", "undo"}
        BY <2>9 DEF Replies
      <4> QED
        BY <1>1, <2>1, <2>3, <4>1, InFlightMoved
    <3>3. B2 = B \ (IF id = x THEN {r} \X (1 .. k) ELSE {})
      BY <1>1, <2>2, <2>4, <2>9, <3>1, ReturningMoved
    <3>4. IsFiniteSet(B2) /\ Cardinality(B2) = Cardinality(B) - (IF id = x THEN k ELSE 0)
      <4>1. CASE id # x
        BY <2>5, <2>6, <3>3, <4>1
      <4>2. CASE id = x
        <5>1. PICK P : P = {r} \X (1 .. k)
          OBVIOUS
        <5>2. IsFiniteSet(P) /\ Cardinality(P) = k /\ P \subseteq B
          BY <2>2, <3>1, <4>2, <5>1, Pairs
        <5>3. B2 = B \ P
          BY <3>3, <4>2, <5>1
        <5>4. B2 \in SUBSET B /\ B2 \cup P = B /\ B2 \cap P = {}
          BY <5>2, <5>3
        <5>5. IsFiniteSet(B2)
          BY <2>5, <5>4, FS_Subset
        <5>6. Cardinality(B2 \cup P) = Cardinality(B2) + Cardinality(P) - Cardinality(B2 \cap P)
          BY <5>2, <5>5, FS_Union
        <5>7. Cardinality(B2 \cap P) = 0 /\ Cardinality(B2) \in Nat
          BY <5>4, <5>5, FS_EmptySet, NoneOf
        <5>8. Cardinality(B) = Cardinality(B2) + k
          <6>1. Cardinality(B) = Cardinality(B2 \cup P)
            BY <5>4
          <6>2. Cardinality(B2 \cap P) = 0 /\ Cardinality(P) = k /\ k \in Nat /\ Cardinality(B2) \in Nat
            BY <3>1, <5>2, <5>7
          <6> QED
            BY <5>6, <6>1, <6>2
        <5>9. PICK c : c = Cardinality(B2)
          OBVIOUS
        <5> QED
          BY <3>1, <4>2, <5>5, <5>7, <5>8, <5>9
      <4> QED
        BY <4>1, <4>2
    <3> QED
      BY <2>1, <2>2, <2>3, <2>4, <2>5, <2>6, <2>7, <3>1, <3>2, <3>4
  <2> QED
    BY <2>8, <2>9 DEF Forgets
<1> QED
  BY <1>1, <1>2, <1>3, LookupsMoved

\* The table without the lookups that a handler forgets, and the nodes X that lose their name or go.
Shed(X, x, k) ==
  /\ TableOK(nodes') /\ DOMAIN nodes' \subseteq DOMAIN nodes
  /\ \A n \in DOMAIN nodes' : nodes'[n].open = nodes[n].open /\ nodes'[n].tree = nodes[n].tree
  /\ \A n \in DOMAIN nodes \ X : n \in DOMAIN nodes' /\ nodes'[n].name = nodes[n].name /\ nodes'[n].parent = nodes[n].parent
  /\ X \subseteq DOMAIN nodes \ {Root}
  /\ \A y \in X : /\ y \in DOMAIN nodes' => nodes'[y].name = NoName
                  /\ known[y] = 0 /\ nodes[y].tree = 0 /\ \A q \in InFlight(y) : Step(q) = "undo"
                  /\ y \notin DOMAIN nodes' => Pinners(y) = {}
  /\ Balanced(nodes, nodes')
  /\ \A id \in Ids \ {Root} : Weight(nodes', id, Kept) = Weight(nodes, id, Kept) - (IF id = x THEN k ELSE 0)

\* Nobody has a path through an unlocked node.
LEMMA Unlocked2 ==
  ASSUME IInv, NEW y \in DOMAIN nodes \ {Root}, nodes[y].tree = 0
  PROVE  Readers(y) = {} /\ Writers(y) = {} /\ \A p \in Paths : y \notin Above(nodes, Base(p))
<1>1. Places /\ TreesOK
  BY InvIs
<1>2. IsFiniteSet(Readers(y))
  BY <1>1, Finite
<1>3. PICK c : c = Cardinality(Readers(y))
  OBVIOUS
<1>4. c \in Nat /\ (c = 0 <=> Readers(y) = {})
  BY <1>2, <1>3, NoneOf
<1>5. nodes[y].tree = IF Writers(y) # {} THEN -1 ELSE c
  BY <1>1, <1>3 DEF TreesOK
<1>6. Writers(y) = {} /\ Readers(y) = {}
  BY <1>4, <1>5
<1> QED
  BY <1>1, <1>6, PathsIn

\* Lookups and nodes that go are of no name to be removed.
LEMMA ShedNames ==
  ASSUME IInv, NEW r \in Reqs, Step(r) \in Forgets, Op(r) \notin {"unlink", "rmdir", "rename"}, NEW l, l = loc[r], Moves(r, l),
         NEW X, NEW x, NEW k, Shed(X, x, k), known' = known
  PROVE  \A q \in Reqs : NamesOK(q)'
<1>1. Places /\ HeldOK /\ TableOK(nodes) /\ (\A q \in Reqs : NamesOK(q))
  BY InvIs
<1>2. TableOK(nodes') /\ DOMAIN nodes' \subseteq DOMAIN nodes /\ X \subseteq DOMAIN nodes \ {Root} /\ None \notin X
  BY <1>1, NotAborted DEF Shed
<1>3. Step(r) # "find"
  BY DEF Forgets
<1>4. ASSUME NEW p, NEW name, name # NoName
      PROVE  lookup_node(nodes', p, name) = IF lookup_node(nodes, p, name) \in X THEN None ELSE lookup_node(nodes, p, name)
  <2>1. \A n \in DOMAIN nodes \ X : n \in DOMAIN nodes' /\ nodes'[n].name = nodes[n].name /\ nodes'[n].parent = nodes[n].parent
    BY DEF Shed
  <2>2. \A y \in X : y \in DOMAIN nodes' => ~(nodes'[y].name = name /\ nodes'[y].parent = p)
    BY <1>4 DEF Shed
  <2>3. DOMAIN nodes' \subseteq DOMAIN nodes \cup X
    BY <1>2
  <2> QED
    BY <1>1, <1>2, <1>4, <2>1, <2>2, <2>3, LookupBut
<1>5. ASSUME NEW y \in DOMAIN nodes \ X, Stranger(y) PROVE StaysStrange(y, r, l)
  <2>1. y \in DOMAIN nodes' \ {Root} /\ known'[y] = 0 /\ nodes'[y].tree = 0
    BY <1>5 DEF Shed, Stranger
  <2>2. Children(y)' = {}
    <3>1. SUFFICES ASSUME NEW n \in DOMAIN nodes', nodes'[n].parent = y PROVE FALSE
      BY DEF Children, ChildrenIn
    <3>2. y # None
      BY <1>1, NotAborted
    <3>3. n \notin X
      BY <1>2, <3>1, <3>2 DEF Shed, TableOK, NodeOK
    <3>4. n \in ChildrenIn(nodes, y)
      BY <1>2, <3>1, <3>3 DEF Shed, ChildrenIn
    <3> QED
      BY <1>5, <3>4 DEF Stranger, Children
  <2> QED
    BY <1>3, <2>1, <2>2 DEF StaysStrange
<1>6. ASSUME NEW p, NEW name, name # NoName PROVE Settles(p, name, r, l)
  <2>1. SUFFICES ASSUME NEW y, y = lookup_node(nodes', p, name), y # None
                 PROVE  y = lookup_node(nodes, p, name) /\ (Stranger(y) => StaysStrange(y, r, l))
    BY DEF Settles
  <2>2. y = lookup_node(nodes, p, name) /\ y \notin X
    BY <1>4, <1>6, <2>1
  <2> QED
    BY <1>5, <2>2 DEF Stranger
<1>7. ASSUME NEW q \in Reqs \ {r} PROVE NamesOK(q)'
  <2>1. ASSUME Started(q), Removing(q) \/ (Renaming(q) /\ work.noforget)
        PROVE  lookup_node(nodes', Doomed(q)[1], Doomed(q)[2]) = Doom(q)
    <3>1. Doomed(q)[2] # NoName /\ (loc[q].victim # None => Holds(loc[q].victim))
      BY <1>1, <2>1, DirsHeld
    <3>2. Doom(q) \in {None, loc[q].victim}
      <4>1. CASE Removing(q)
        <5>1. loc[q].hide => Ahead(q, "hide_node")
          BY <1>1, <2>1, <4>1, RemovingHides
        <5> QED
          BY <1>1, <2>1, <4>1, <5>1 DEF NamesOK
      <4>2. CASE Renaming(q) /\ work.noforget
        BY <1>1, <2>1, <4>2 DEF NamesOK
      <4> QED
        BY <2>1, <4>1, <4>2
    <3>3. Doom(q) \notin X
      BY <1>2, <3>1, <3>2 DEF Shed, Holds
    <3> QED
      BY <1>4, <3>1, <3>3 DEF Doom
  <2>2. ASSUME loc[q].locked, Renaming(q)
        PROVE  Settles(Doomed(q)[1], Doomed(q)[2], r, l) /\ Settles(Req(q).n, Req(q).nm, r, l)
    <3>1. Doomed(q)[2] # NoName /\ Req(q).nm # NoName
      BY <1>1, <2>2, DirsHeld, LockedStarted
    <3> QED
      BY <1>6, <3>1
  <2> QED
    BY <1>1, <1>7, <2>1, <2>2, NamesKept
<1>8. NamesOK(r)'
  BY <1>1, NamesOther
<1> QED
  BY <1>7, <1>8

\* Shedding lookups keeps the invariant.
LEMMA ShedInv ==
  ASSUME IInv, NEW r \in Reqs, Step(r) \in Forgets, NEW x, NEW k, ForgetArgsOK(r, x, k),
         Op(r) \notin {"unlink", "rmdir", "rename"}, NEW l, l = loc[r], Moves(r, l), l.pinned = loc[r].pinned,
         Step(r) \notin Gets \cup Replies \cup {"free", "find", "count", "uncount", "hide_node", "pin"},
         NEW X, Shed(X, x, k), known' = known, ctr' = ctr, QueueOK'
  PROVE  IInv'
<1>1. /\ Places /\ TypeOK /\ QueueOK /\ LookupsOK /\ RefsOK /\ TreesOK /\ HeldOK /\ OpensOK /\ MutexOK /\ PathStable
      /\ nodes # Abort /\ TableOK(nodes) /\ (\A q \in Reqs : NamesOK(q) /\ PlaceOK(q))
      /\ known \in [1 .. MaxId -> Nat] /\ ctr \in 0 .. MaxId
  BY InvIs
<1>2. TableOK(nodes') /\ Balanced(nodes, nodes') /\ X \subseteq DOMAIN nodes \ {Root} /\ DOMAIN nodes' \subseteq DOMAIN nodes
      /\ DOMAIN nodes \ DOMAIN nodes' \subseteq X
  BY DEF Shed
<1>3. \A y \in X : Readers(y) = {} /\ Writers(y) = {} /\ \A p \in Paths : y \notin Above(nodes, Base(p))
  BY <1>2, Unlocked2 DEF Shed
<1>4. LookupsOK'
  <2>1. \A id \in Ids \ {Root} : Weight(nodes', id, Kept) = Weight(nodes, id, Kept) - (IF id = x THEN k ELSE 0)
    BY DEF Shed
  <2> QED
    BY <1>2, <2>1, ForgetLookups
<1>5. RefsOK'
  <2>1. \A id \in DOMAIN nodes \ DOMAIN nodes' : Pinners(id) = {}
    BY <1>2 DEF Shed
  <2> QED
    BY <1>1, <1>2, <2>1, RefsKept
<1>6. TreesOK' /\ PathStable'
  <2>1. LocksKept
    BY <1>1, LocksMoved
  <2>2. \A n \in DOMAIN nodes \ X : n \in DOMAIN nodes' /\ nodes'[n].name = nodes[n].name /\ nodes'[n].parent = nodes[n].parent
    BY DEF Shed
  <2>3. \A p \in Paths : Above(nodes, Base(p)) \cap X = {}
    BY <1>3
  <2>4. \A n \in DOMAIN nodes' : nodes'[n].tree = IF n \in DOMAIN nodes THEN nodes[n].tree ELSE 0
    BY <1>2 DEF Shed
  <2>5. \A q \in Reqs : loc[q].locked => {loc[q].w, loc[q].w2} \subseteq DOMAIN nodes' \cup {None}
    <3>1. SUFFICES ASSUME NEW q \in Reqs, loc[q].locked, NEW y \in {loc[q].w, loc[q].w2}
                   PROVE  y \in DOMAIN nodes' \cup {None}
      OBVIOUS
    <3>2. y \in DOMAIN nodes \cup {None} /\ q \in Writers(y)
      BY <1>1, <3>1 DEF TreesOK, Writers
    <3> QED
      BY <1>2, <1>3, <3>2
  <2> QED
    BY <1>1, <1>2, <2>1, <2>2, <2>3, <2>4, <2>5, TreesKept
<1>7. MoreKnown /\ known' \in [1 .. MaxId -> Nat]
  BY SameKnown
<1>8. HeldOK'
  BY <1>1, <1>7, HeldMoved
<1>9. OpensOK'
  <2>1. \A id \in Ids : id \in DOMAIN nodes' => nodes'[id].open = IF id \in DOMAIN nodes THEN nodes[id].open ELSE 0
    BY <1>2 DEF Shed
  <2>2. ASSUME NEW id \in Ids, id \in DOMAIN nodes \ DOMAIN nodes' PROVE OpenBy(id) = {}
    <3>1. id \in X /\ id # Root
      BY <1>2, <2>2
    <3>2. ASSUME NEW q \in OpenBy(id) PROVE FALSE
      <4>1. known[id] > 0 \/ Readers(id) # {} \/ (q \in InFlight(id) /\ Step(q) # "undo")
        BY <1>1, <2>2, <3>1, <3>2, OpenHeld
      <4>2. known[id] = 0 /\ \A p \in InFlight(id) : Step(p) = "undo"
        BY <3>1 DEF Shed
      <4> QED
        BY <1>3, <3>1, <4>1, <4>2
    <3> QED
      BY <3>2
  <2>3. Step(r) \notin {"count", "uncount"}
    OBVIOUS
  <2> QED
    BY <1>1, <2>1, <2>2, <2>3, OpensKept
<1>10. \A q \in Reqs : NamesOK(q)'
  BY ShedNames
<1> QED
  BY <1>1, <1>2, <1>4, <1>5, <1>6, <1>7, <1>8, <1>9, <1>10, MoveInv

\* A reference is a child, the lookups, or a pin.
LEMMA RefsSplit ==
  ASSUME IInv, NEW id \in DOMAIN nodes
  PROVE  \E c, p \in Nat :
           /\ nodes[id].refctr = c + (IF nodes[id].nlookup > 0 THEN 1 ELSE 0) + p
           /\ c = 0 <=> Children(id) = {}
           /\ p = 0 <=> Pinners(id) = {}
           /\ \A x, y \in Children(id) : x # y => c > 1
<1>1. Places /\ RefsOK
  BY InvIs
<1>2. PICK C : C = Children(id)
  OBVIOUS
<1>3. PICK P : P = Pinners(id)
  OBVIOUS
<1>4. IsFiniteSet(C) /\ IsFiniteSet(P)
  BY <1>1, <1>2, <1>3, Finite
<1>5. PICK c : c = Cardinality(C)
  OBVIOUS
<1>6. PICK p : p = Cardinality(P)
  OBVIOUS
<1>7. c \in Nat /\ p \in Nat /\ (c = 0 <=> C = {}) /\ (p = 0 <=> P = {})
  BY <1>4, <1>5, <1>6, NoneOf
<1>8. nodes[id].refctr = c + (IF nodes[id].nlookup > 0 THEN 1 ELSE 0) + p
  BY <1>1, <1>2, <1>3, <1>5, <1>6 DEF RefsOK
<1>9. ASSUME NEW x \in C, NEW y \in C, x # y PROVE c > 1
  <2>1. c = 1 => \E z : C = {z}
    BY <1>4, <1>5, FS_Singleton
  <2>2. c # 1 /\ c # 0
    BY <1>7, <1>9, <2>1
  <2> QED
    BY <1>7, <2>2
<1> QED
  BY <1>2, <1>3, <1>7, <1>8, <1>9

\* Fewer lookups are shed.
LEMMA LessShed ==
  ASSUME IInv, NEW x \in DOMAIN nodes \ {Root}, NEW k \in Nat \ {0}, k < nodes[x].nlookup, Lessened(nodes, nodes', x, k),
         NEW X, X = {}
  PROVE  Shed(X, x, k)
<1>1. TableOK(nodes) /\ DOMAIN nodes' = DOMAIN nodes
  BY InvIs DEF Lessened
<1>2. \A n \in DOMAIN nodes :
        /\ DOMAIN nodes'[n] = NodeFieldNames /\ nodes'[n].open = nodes[n].open /\ nodes'[n].tree = nodes[n].tree
        /\ nodes'[n].name = nodes[n].name /\ nodes'[n].parent = nodes[n].parent
        /\ nodes'[n].nlookup = nodes[n].nlookup - (IF n = x THEN k ELSE 0) /\ nodes'[n].refctr = nodes[n].refctr
  BY <1>1 DEF Lessened, But
<1>3. \A n \in DOMAIN nodes : NodeOK(nodes[n])
  BY <1>1 DEF TableOK
<1>4. DOMAIN Node(NoName, None, 0, 0) = NodeFieldNames
  BY NodeFields DEF NodeFieldNames
<1>5. \A n \in DOMAIN nodes : NodeOK(nodes'[n]) /\ (nodes'[n].nlookup > 0 <=> nodes[n].nlookup > 0)
  BY <1>2, <1>3, <1>4 DEF NodeOK
<1>6. nodes'[Root].nlookup > 0 /\ nodes'[Root].tree = 0
  <2>1. Root \in DOMAIN nodes /\ nodes[Root].nlookup > 0 /\ nodes[Root].tree = 0
    BY <1>1 DEF TableOK
  <2>2. nodes'[Root].nlookup > 0 <=> nodes[Root].nlookup > 0
    BY <1>5, <2>1
  <2> QED
    BY <1>2, <2>1, <2>2
<1>7. TableOK(nodes')
  BY <1>1, <1>2, <1>5, <1>6, LikeTable
<1>8. Balanced(nodes, nodes')
  BY <1>1, <1>2, <1>5, BalancedSame
<1>9. \A id \in Ids \ {Root} : Weight(nodes', id, Kept) = Weight(nodes, id, Kept) - (IF id = x THEN k ELSE 0)
  <2>1. Kept \in {0, 1}
    BY DEF Kept
  <2>2. PICK e : e = Kept
    OBVIOUS
  <2>3. \A n \in DOMAIN nodes : nodes[n].nlookup \in Nat
    BY <1>3 DEF NodeOK
  <2> QED
    BY <1>1, <1>2, <2>1, <2>2, <2>3 DEF Weight
<1> QED
  BY <1>1, <1>2, <1>7, <1>8, <1>9 DEF Shed

\* Nothing is, of the root.
LEMMA RootShed ==
  ASSUME IInv, nodes' = nodes, NEW x, x = Root, NEW k, NEW X, X = {}
  PROVE  Shed(X, x, k)
<1>1. TableOK(nodes)
  BY InvIs
<1>2. Balanced(nodes, nodes')
  BY BalancedSame
<1>3. ASSUME NEW id \in Ids \ {Root} PROVE Weight(nodes, id, Kept) = Weight(nodes, id, Kept) - 0
  <2>1. Kept \in {0, 1} /\ (id \in DOMAIN nodes => nodes[id].nlookup \in Nat)
    BY <1>1 DEF Kept, TableOK, NodeOK
  <2> QED
    BY <2>1 DEF Weight
<1>4. \A id \in Ids \ {Root} : Weight(nodes', id, Kept) = Weight(nodes, id, Kept) - (IF id = x THEN k ELSE 0)
  BY <1>3
<1> QED
  BY <1>1, <1>2, <1>4 DEF Shed

\* The nodes that go with the last reference: the node itself, and its parent if that was its last child.
Leaving(x) ==
  /\ DOMAIN nodes' \subseteq DOMAIN nodes /\ Root \in DOMAIN nodes'
  /\ \A n \in DOMAIN nodes \ DOMAIN nodes' :
       /\ Pinners(n) = {} /\ (n # x => nodes[n].nlookup = 0 /\ n # Root)
       /\ Children(n) \subseteq {x}
  /\ \A n \in DOMAIN nodes' :
       But(nodes'[n], nodes[n], IF n = x THEN NoName ELSE nodes[n].name, IF n = x THEN None ELSE nodes[n].parent,
           IF n = x THEN 0 ELSE nodes[n].nlookup, nodes'[n].refctr) /\ nodes'[n].refctr \in Nat

\* A forgotten node goes, its parent if nobody else has it, and no more.
LEMMA ForgottenLeaving ==
  ASSUME IInv, NEW x \in DOMAIN nodes \ {Root}, nodes[x].nlookup > 0, Forgotten(nodes, nodes', x)
  PROVE  Leaving(x)
<1>1. TableOK(nodes)
  BY InvIs
<1>2. PICK p : p = nodes[x].parent
  OBVIOUS
<1>3. p # x /\ p \in DOMAIN nodes \cup {None}
  BY <1>1, <1>2, ParentIn
<1>4. p \in DOMAIN nodes => x \in Children(p)
  BY <1>2 DEF Children, ChildrenIn
<1>5. nodes[Root].nlookup > 0 /\ Root \in DOMAIN nodes
  BY <1>1 DEF TableOK
<1>6. DOMAIN nodes' = {n \in DOMAIN nodes : n \in {x, p} => RefsLeft(nodes, x, n) # 0}
  BY <1>2 DEF Forgotten
<1>7. \A n \in {x, p} \cap DOMAIN nodes : RefsLeft(nodes, x, n) = nodes[n].refctr - 1 /\ nodes[n].refctr \in Nat \ {0}
  <2>1. SUFFICES ASSUME NEW n \in {x, p} \cap DOMAIN nodes PROVE RefsLeft(nodes, x, n) = nodes[n].refctr - 1 /\ nodes[n].refctr \in Nat \ {0}
    OBVIOUS
  <2>2. PICK c, e \in Nat : /\ nodes[n].refctr = c + (IF nodes[n].nlookup > 0 THEN 1 ELSE 0) + e
                            /\ c = 0 <=> Children(n) = {}
    BY RefsSplit
  <2>3. nodes[n].refctr \in Nat \ {0}
    BY <1>4, <2>1, <2>2
  <2> QED
    BY <1>2, <1>3, <2>1, <2>3 DEF RefsLeft
<1>8. ASSUME NEW n \in DOMAIN nodes \ DOMAIN nodes'
      PROVE  Pinners(n) = {} /\ (n # x => nodes[n].nlookup = 0 /\ n # Root) /\ Children(n) \subseteq {x}
  <2>1. n \in {x, p} /\ nodes[n].refctr = 1
    BY <1>6, <1>7
  <2>2. PICK c, e \in Nat : /\ nodes[n].refctr = c + (IF nodes[n].nlookup > 0 THEN 1 ELSE 0) + e
                            /\ c = 0 <=> Children(n) = {}
                            /\ e = 0 <=> Pinners(n) = {}
                            /\ \A y, z \in Children(n) : y # z => c > 1
    BY RefsSplit
  <2>3. CASE n = x
    BY <2>1, <2>2, <2>3
  <2>4. CASE n # x
    <3>1. x \in Children(n)
      BY <1>4, <2>1, <2>4
    <3>2. c >= 1
      BY <2>2, <3>1
    <3>3. nodes[n].nlookup \in Nat
      BY <1>1 DEF TableOK, NodeOK
    <3>4. c = 1 /\ e = 0 /\ nodes[n].nlookup = 0
      BY <2>1, <2>2, <3>2, <3>3
    <3>5. Children(n) \subseteq {x}
      BY <2>2, <3>1, <3>4
    <3> QED
      BY <1>5, <2>2, <2>4, <3>4, <3>5
  <2> QED
    BY <2>3, <2>4
<1>9. Root \in DOMAIN nodes'
  BY <1>5, <1>8
<1>10. ASSUME NEW n \in DOMAIN nodes' PROVE nodes'[n].refctr \in Nat
  <2>1. nodes'[n].refctr = RefsLeft(nodes, x, n) /\ n \in DOMAIN nodes
    BY <1>6 DEF Forgotten, But
  <2>2. nodes[n].refctr \in Nat
    BY <1>1, <2>1 DEF TableOK, NodeOK
  <2>3. CASE n \in {x, p}
    BY <1>7, <2>1, <2>3
  <2>4. CASE n \notin {x, p}
    BY <1>2, <2>1, <2>2, <2>4 DEF RefsLeft
  <2> QED
    BY <2>3, <2>4
<1> QED
  BY <1>6, <1>8, <1>9, <1>10 DEF Leaving, Forgotten, But

\* These are shed.
LEMMA LeavingShed ==
  ASSUME IInv, NEW x \in DOMAIN nodes \ {Root}, nodes[x].nlookup > 0, nodes[x].tree = 0, known[x] = 0,
         nodes[x].name # NoName => Kept = 0, \A q \in InFlight(x) : Step(q) = "undo",
         Forgotten(nodes, nodes', x), NEW k, k = nodes[x].nlookup, NEW X, X = {x} \cup (DOMAIN nodes \ DOMAIN nodes')
  PROVE  Shed(X, x, k)
<1>1. TableOK(nodes)
  BY InvIs
<1>2. Leaving(x)
  BY ForgottenLeaving
<1>3. DOMAIN nodes' \subseteq DOMAIN nodes /\ Root \in DOMAIN nodes'
  BY <1>2 DEF Leaving
<1>4. \A n \in DOMAIN nodes :
        /\ NodeOK(nodes[n]) /\ DOMAIN nodes[n] = NodeFieldNames
        /\ nodes[n].name # NoName => nodes[n].parent \in DOMAIN nodes
  BY <1>1, NodeFields DEF TableOK, NodeOK, NodeFieldNames
<1>5. \A n \in DOMAIN nodes' :
        /\ DOMAIN nodes'[n] = NodeFieldNames /\ nodes'[n].open = nodes[n].open /\ nodes'[n].tree = nodes[n].tree
        /\ nodes'[n].name = IF n = x THEN NoName ELSE nodes[n].name
        /\ nodes'[n].parent = IF n = x THEN None ELSE nodes[n].parent
        /\ nodes'[n].nlookup = IF n = x THEN 0 ELSE nodes[n].nlookup
        /\ nodes'[n].refctr \in Nat
  BY <1>2 DEF Leaving, But
<1>6. \A n \in DOMAIN nodes \ DOMAIN nodes' : n # x => /\ nodes[n].nlookup = 0 /\ nodes[n].name = NoName /\ nodes[n].tree = 0
                                                      /\ n # Root
  BY <1>2, <1>4 DEF Leaving, NodeOK
<1>7. \A n \in DOMAIN nodes' : NodeOK(nodes'[n])
  <2>1. DOMAIN Node(NoName, None, 0, 0) = NodeFieldNames
    BY NodeFields DEF NodeFieldNames
  <2> QED
    BY <1>3, <1>4, <1>5, <2>1 DEF NodeOK
<1>8. \A n \in DOMAIN nodes' : nodes'[n].name # NoName => nodes'[n].parent \in DOMAIN nodes'
  <2>1. SUFFICES ASSUME NEW n \in DOMAIN nodes', nodes'[n].name # NoName PROVE nodes'[n].parent \in DOMAIN nodes'
    OBVIOUS
  <2>2. n # x /\ n \in DOMAIN nodes /\ nodes'[n].parent = nodes[n].parent /\ nodes[n].parent \in DOMAIN nodes
    BY <1>3, <1>4, <1>5, <2>1
  <2>3. n \in Children(nodes[n].parent)
    BY <2>2 DEF Children, ChildrenIn
  <2> QED
    BY <1>2, <2>2, <2>3 DEF Leaving
<1>9. TableOK(nodes')
  <2>1. nodes'[Root].nlookup > 0 /\ nodes'[Root].tree = 0
    BY <1>1, <1>3, <1>5 DEF TableOK
  <2>2. \A n \in DOMAIN nodes' \ {x} : nodes'[n].name = nodes[n].name /\ nodes'[n].parent = nodes[n].parent
    BY <1>5
  <2>3. x \in DOMAIN nodes' => nodes'[x].name = NoName
    BY <1>5
  <2> QED
    BY <1>1, <1>3, <1>7, <1>8, <2>1, <2>2, <2>3, CutTable
<1>10. Balanced(nodes, nodes')
  BY <1>1, <1>6, BalancedForgotten
<1>11. \A y \in X : /\ y \in DOMAIN nodes' => nodes'[y].name = NoName
                    /\ known[y] = 0 /\ nodes[y].tree = 0 /\ \A q \in InFlight(y) : Step(q) = "undo"
                    /\ y \notin DOMAIN nodes' => Pinners(y) = {}
  <2>1. SUFFICES ASSUME NEW y \in X, y # x
                 PROVE  /\ y \notin DOMAIN nodes' /\ known[y] = 0 /\ nodes[y].tree = 0 /\ InFlight(y) = {}
    BY <1>2, <1>3, <1>5 DEF Leaving
  <2>2. y \in DOMAIN nodes \ DOMAIN nodes' /\ nodes[y].nlookup = 0
    BY <1>6, <2>1
  <2> QED
    BY <2>2, Nobodys
<1>12. \A id \in Ids \ {Root} : Weight(nodes', id, Kept) = Weight(nodes, id, Kept) - (IF id = x THEN k ELSE 0)
  <2>1. PICK e : e = Kept
    OBVIOUS
  <2>2. e \in {0, 1}
    BY <2>1 DEF Kept
  <2>3. \A n \in DOMAIN nodes : nodes[n].nlookup \in Nat
    BY <1>4 DEF NodeOK
  <2>4. SUFFICES ASSUME NEW id \in Ids \ {Root} PROVE Weight(nodes', id, e) = Weight(nodes, id, e) - (IF id = x THEN k ELSE 0)
    BY <2>1
  <2>5. CASE id = x
    <3>1. Weight(nodes', x, e) = 0
      BY <1>5, <2>2 DEF Weight
    <3>2. Weight(nodes, x, e) = k
      BY <2>1, <2>3 DEF Weight
    <3> QED
      BY <2>3, <2>5, <3>1, <3>2
  <2>6. CASE id # x /\ id \in DOMAIN nodes'
    <3>1. Weight(nodes', id, e) = Weight(nodes, id, e)
      BY <1>3, <1>5, <2>6 DEF Weight
    <3>2. Weight(nodes, id, e) \in Int
      BY <2>2, <2>3 DEF Weight
    <3> QED
      BY <2>6, <3>1, <3>2
  <2>7. CASE id # x /\ id \notin DOMAIN nodes'
    BY <1>6, <2>7 DEF Weight
  <2> QED
    BY <2>5, <2>6, <2>7
<1>13. X \subseteq DOMAIN nodes \ {Root}
  BY <1>6
<1> QED
  BY <1>3, <1>5, <1>9, <1>10, <1>11, <1>12, <1>13 DEF Shed

\* A handler takes its lookups away.
LEMMA ForgetDone ==
  ASSUME IInv, NEW r \in Reqs, Step(r) \in Forgets, NEW R, R = TryForget(r), R.err # "EAGAIN", NEW l, l = After(r, R),
         Advance(r, l), work' = work, answer' = answer, known' = known, ctr' = ctr, nodes' = R.nodes, QueueOK'
  PROVE  IInv'
<1>1. l = loc[r]
  BY DEF After
<1>2. /\ Moves(r, l) /\ l.pinned = loc[r].pinned
      /\ Step(r) \notin Gets \cup Replies \cup {"free", "find", "count", "uncount", "hide_node", "pin"}
  BY <1>1, ForgetMoves
<1>3. PICK x : x = ForgetArgs(r)[1]
  OBVIOUS
<1>4. PICK k : k = ForgetArgs(r)[2]
  OBVIOUS
<1>5. Op(r) \notin {"unlink", "rmdir", "rename"} /\ ForgetArgsOK(r, x, k)
  BY <1>3, <1>4, ForgetWho
<1>6. nodes' = forget_node(nodes, x, k) /\ ~MustWait(x, k)
  BY <1>3, <1>4 DEF TryForget
<1>7. \E X : Shed(X, x, k)
  <2>1. CASE x = Root
    BY <1>6, <2>1, RootShed DEF forget_node
  <2>2. CASE x # Root
    <3>1. /\ x \in DOMAIN nodes /\ k <= nodes[x].nlookup
          /\ k = nodes[x].nlookup => /\ known[x] = 0 /\ (nodes[x].name # NoName => Kept = 0)
                                     /\ \A q \in InFlight(x) : Step(q) = "undo"
      BY <1>5, <2>2, ForgetCounts
    <3>2. TableOK(nodes) /\ k \in Nat \ {0} /\ nodes[x].nlookup \in Nat
      BY <1>5, <2>2, <3>1, InvIs DEF ForgetArgsOK, TableOK, NodeOK
    <3>3. k = nodes[x].nlookup => nodes[x].tree = 0
      BY <1>6, <2>2, <3>1 DEF MustWait
    <3>4. nodes[x].refctr > 0
      <4>1. PICK c, e \in Nat : nodes[x].refctr = c + (IF nodes[x].nlookup > 0 THEN 1 ELSE 0) + e
        BY <3>1, RefsSplit
      <4> QED
        BY <3>1, <3>2, <4>1
    <3>5. nodes[x].name # NoName =>
            /\ nodes[nodes[x].parent].refctr > 0
            /\ nodes[nodes[x].parent].refctr = 1 => nodes[nodes[x].parent].tree = 0 /\ nodes[nodes[x].parent].name = NoName
      <4>1. SUFFICES ASSUME nodes[x].name # NoName, NEW p, p = nodes[x].parent
                     PROVE  nodes[p].refctr > 0 /\ (nodes[p].refctr = 1 => nodes[p].tree = 0 /\ nodes[p].name = NoName)
        OBVIOUS
      <4>2. p \in DOMAIN nodes /\ x \in Children(p)
        BY <3>1, <3>2, <4>1 DEF TableOK, Children, ChildrenIn
      <4>3. PICK c, e \in Nat : /\ nodes[p].refctr = c + (IF nodes[p].nlookup > 0 THEN 1 ELSE 0) + e
                                /\ c = 0 <=> Children(p) = {}
        BY <4>2, RefsSplit
      <4>4. NodeOK(nodes[p])
        BY <3>2, <4>2 DEF TableOK
      <4>5. nodes[p].refctr = 1 => nodes[p].nlookup = 0
        BY <4>2, <4>3, <4>4 DEF NodeOK
      <4> QED
        BY <4>2, <4>3, <4>4, <4>5 DEF NodeOK
    <3>6. PICK ns2 : ns2 = nodes'
      OBVIOUS
    <3>7. IF k < nodes[x].nlookup THEN Lessened(nodes, ns2, x, k) ELSE Forgotten(nodes, ns2, x)
      BY <1>6, <2>2, <3>1, <3>2, <3>3, <3>4, <3>5, <3>6, ForgetFacts
    <3>8. CASE k < nodes[x].nlookup
      <4>1. Lessened(nodes, nodes', x, k)
        BY <3>6, <3>7, <3>8
      <4> QED
        BY <2>2, <3>1, <3>2, <3>8, <4>1, LessShed
    <3>9. CASE k = nodes[x].nlookup
      <4>1. Forgotten(nodes, nodes', x)
        BY <3>2, <3>6, <3>7, <3>9
      <4>2. nodes[x].nlookup > 0
        BY <3>2, <3>9
      <4> QED
        BY <2>2, <3>1, <3>3, <3>9, <4>1, <4>2, LeavingShed
    <3> QED
      BY <3>1, <3>2, <3>8, <3>9
  <2> QED
    BY <2>1, <2>2
<1>8. PICK X : Shed(X, x, k)
  BY <1>7
<1> QED
  BY <1>1, <1>2, <1>5, <1>8, ShedInv

(***************************************************************************)
(* The queue.                                                              *)
(***************************************************************************)

\* A queue without one of its entries.
LEMMA RemoveAtIs ==
  ASSUME NEW S, NEW s \in Seq(S), NEW at \in DOMAIN s, NEW t, t = RemoveAt(s, at)
  PROVE  /\ t \in Seq(S) /\ Len(t) = Len(s) - 1
         /\ \A j \in DOMAIN t : t[j] = IF j < at THEN s[j] ELSE s[j + 1]
<1>1. Len(s) \in Nat /\ DOMAIN s = 1 .. Len(s) /\ at \in 1 .. Len(s) /\ \A i \in 1 .. Len(s) : s[i] \in S
  BY LenProperties, ElementOfSeq
<1>2. PICK a : a = SubSeq(s, 1, at - 1)
  OBVIOUS
<1>3. PICK b : b = SubSeq(s, at + 1, Len(s))
  OBVIOUS
<1>4. a \in Seq(S) /\ Len(a) = at - 1 /\ \A i \in 1 .. at - 1 : a[i] = s[i]
  <2>1. 1 \in Int /\ at - 1 \in Int /\ \A i \in 1 .. at - 1 : s[i] \in S
    BY <1>1
  <2>2. /\ SubSeq(s, 1, at - 1) \in Seq(S)
        /\ Len(SubSeq(s, 1, at - 1)) = IF 1 <= at - 1 THEN at - 1 - 1 + 1 ELSE 0
        /\ \A i \in 1 .. at - 1 - 1 + 1 : SubSeq(s, 1, at - 1)[i] = s[1 + i - 1]
    BY ONLY <2>1, SubSeqProperties
  <2>3. at - 1 - 1 + 1 = at - 1 /\ (IF 1 <= at - 1 THEN at - 1 - 1 + 1 ELSE 0) = at - 1 /\ \A i \in 1 .. at - 1 : 1 + i - 1 = i
    BY <1>1
  <2> QED
    BY <1>2, <2>2, <2>3
<1>5. b \in Seq(S) /\ Len(b) = Len(s) - at /\ \A i \in 1 .. Len(s) - at : b[i] = s[at + i]
  <2>1. at + 1 \in Int /\ Len(s) \in Int /\ \A i \in at + 1 .. Len(s) : s[i] \in S
    BY <1>1
  <2>2. /\ SubSeq(s, at + 1, Len(s)) \in Seq(S)
        /\ Len(SubSeq(s, at + 1, Len(s))) = IF at + 1 <= Len(s) THEN Len(s) - (at + 1) + 1 ELSE 0
        /\ \A i \in 1 .. Len(s) - (at + 1) + 1 : SubSeq(s, at + 1, Len(s))[i] = s[at + 1 + i - 1]
    BY ONLY <2>1, SubSeqProperties
  <2>3. /\ Len(s) - (at + 1) + 1 = Len(s) - at /\ (IF at + 1 <= Len(s) THEN Len(s) - (at + 1) + 1 ELSE 0) = Len(s) - at
        /\ \A i \in 1 .. Len(s) - at : at + 1 + i - 1 = at + i
    BY <1>1
  <2> QED
    BY <1>3, <2>2, <2>3
<1>6. t = a \o b
  BY <1>2, <1>3 DEF RemoveAt
<1>7. /\ t \in Seq(S) /\ Len(t) = Len(a) + Len(b)
      /\ \A i \in 1 .. Len(a) + Len(b) : t[i] = IF i <= Len(a) THEN a[i] ELSE b[i - Len(a)]
  <2>1. a \in Seq(S) /\ b \in Seq(S)
    BY <1>4, <1>5
  <2>2. /\ a \o b \in Seq(S) /\ Len(a \o b) = Len(a) + Len(b)
        /\ \A i \in 1 .. Len(a) + Len(b) : (a \o b)[i] = IF i <= Len(a) THEN a[i] ELSE b[i - Len(a)]
    BY ONLY <2>1, ConcatProperties
  <2> QED
    BY <1>6, <2>2
<1>8. Len(t) = Len(s) - 1 /\ DOMAIN t = 1 .. Len(s) - 1
  BY <1>1, <1>4, <1>5, <1>7, LenProperties
<1>9. ASSUME NEW j \in 1 .. Len(s) - 1 PROVE t[j] = IF j < at THEN s[j] ELSE s[j + 1]
  <2>1. t[j] = IF j <= at - 1 THEN a[j] ELSE b[j - (at - 1)]
    BY <1>1, <1>4, <1>5, <1>7
  <2>2. CASE j < at
    BY <1>1, <1>4, <2>1, <2>2
  <2>3. CASE j >= at
    <3>1. j - (at - 1) \in 1 .. Len(s) - at /\ at + (j - (at - 1)) = j + 1 /\ ~(j <= at - 1)
      BY <1>1, <2>3
    <3> QED
      BY <1>1, <1>5, <2>1, <2>3, <3>1
  <2> QED
    BY <1>1, <2>2, <2>3
<1> QED
  BY <1>7, <1>8, <1>9

\* A queue is in order if its entries are requests that wait, each once.
LEMMA QueueNew ==
  ASSUME Reqs' = Reqs, NEW s, s = queue', s \in Seq(Reqs), \A j, k \in DOMAIN s : s[j] = s[k] => j = k,
         \A k \in DOMAIN s : \A y : y = s[k] => Step(y)' \in Gets \cup Forgets,
         \A w \in woken' : \E k \in DOMAIN s : s[k] = w
  PROVE  QueueOK'
<1>1. (\A k \in DOMAIN queue : Step(queue[k]) \in Gets \cup Forgets)'
  <2>1. SUFFICES ASSUME NEW k \in DOMAIN queue' PROVE Step(queue[k])' \in Gets \cup Forgets
    OBVIOUS
  <2>2. PICK q : q = s[k]
    OBVIOUS
  <2>3. Step(q)' \in Gets \cup Forgets /\ queue'[k] = q
    BY <2>1, <2>2
  <2>4. Step(queue[k])' = Step(q)'
    BY <2>3 DEF Step, Running, Program, Req
  <2> QED
    BY <2>3, <2>4
<1>2. (\A q \in woken : Queued(q))'
  <2>1. DOMAIN s = 1 .. Len(s)
    BY LenProperties
  <2> QED
    BY <2>1 DEF Queued, Contains
<1> QED
  BY <1>1, <1>2 DEF QueueOK

\* A try that ends the waiting, whatever becomes of the queue.
LEMMA TryDone ==
  ASSUME IInv, RenamesApart, NEW r \in Reqs, Step(r) \in Gets \cup Forgets, NEW R, R = Try(r), R.err # "EAGAIN",
         Advance(r, After(r, R)), work' = work, answer' = answer, known' = known, ctr' = ctr, nodes' = R.nodes, QueueOK'
  PROVE  IInv'
<1>1. PICK l : l = After(r, R)
  OBVIOUS
<1>2. Advance(r, l)
  BY <1>1
<1>3. CASE Step(r) \in Gets
  BY <1>1, <1>2, <1>3, GetDone DEF Try
<1>4. CASE Step(r) \notin Gets
  BY <1>1, <1>2, <1>4, ForgetDone DEF Try
<1> QED
  BY <1>3, <1>4

\* A request that must wait keeps the invariant.
LEMMA TryAgain ==
  ASSUME IInv, NEW r \in Reqs, Step(r) \in Gets \cup Forgets, NEW R, R = Try(r), R.err = "EAGAIN",
         pc' = pc, loc' = loc, work' = work, answer' = answer, known' = known, ctr' = ctr, nodes' = R.nodes, QueueOK'
  PROVE  IInv'
<1>1. Alike(nodes, nodes')
  <2>1. CASE Step(r) \in Gets
    BY <2>1, GetTried DEF Tried, Try
  <2>2. CASE Step(r) \notin Gets
    BY <2>2 DEF Try, TryForget, Alike, Body
  <2> QED
    BY <2>1, <2>2
<1> QED
  BY <1>1, StayInv

\* Entering get_path keeps the invariant.
LEMMA EnterInv ==
  ASSUME IInv, RenamesApart, NEW r \in Reqs, Enter(r)
  PROVE  IInv'
<1>1. Places /\ TypeOK /\ QueueOK
  BY InvIs
<1>2. /\ Step(r) \in Gets \cup Forgets /\ ~Queued(r) /\ work' = work /\ ctr' = ctr /\ woken' = woken
      /\ known' = known /\ answer' = answer /\ Reqs' = Reqs
  BY DEF Enter, outside, Reqs
<1>3. PICK R : R = Try(r)
  OBVIOUS
<1>4. /\ nodes' = R.nodes
      /\ IF R.err = "EAGAIN" THEN queue' = Append(queue, r) /\ pc' = pc /\ loc' = loc
         ELSE queue' = queue /\ Advance(r, After(r, R))
  BY <1>3 DEF Enter
<1>5. /\ queue \in Seq(Reqs) /\ DOMAIN queue = 1 .. Len(queue) /\ Len(queue) \in Nat
      /\ \A j, k \in DOMAIN queue : queue[j] = queue[k] => j = k
      /\ \A k \in DOMAIN queue : queue[k] \in Reqs \ {r} /\ Step(queue[k]) \in Gets \cup Forgets
      /\ \A w \in woken : \E k \in DOMAIN queue : queue[k] = w
  <2>1. queue \in Seq(Reqs) /\ DOMAIN queue = 1 .. Len(queue) /\ Len(queue) \in Nat
    BY <1>1, LenProperties DEF QueueOK
  <2>2. \A k \in DOMAIN queue : queue[k] \in Reqs \ {r} /\ Step(queue[k]) \in Gets \cup Forgets
    BY <1>1, <1>2, <2>1, ElementOfSeq DEF QueueOK, Queued, Contains
  <2>3. \A w \in woken : \E k \in DOMAIN queue : queue[k] = w
    BY <1>1, <2>1 DEF QueueOK, Queued, Contains
  <2> QED
    BY <1>1, <2>1, <2>2, <2>3 DEF QueueOK
<1>6. CASE R.err = "EAGAIN"
  <2>1. \A y : Step(y)' = Step(y)
    BY <1>2, <1>4, <1>6, StaySame DEF Same
  <2>2. PICK s : s = Append(queue, r)
    OBVIOUS
  <2>3. s \in Seq(Reqs) /\ DOMAIN s = 1 .. Len(queue) + 1 /\ \A k \in DOMAIN s : s[k] = IF k = Len(queue) + 1 THEN r ELSE queue[k]
    BY <1>5, <2>2, AppendProperties
  <2>4. \A j, k \in DOMAIN s : s[j] = s[k] => j = k
    BY <1>5, <2>3
  <2>5. \A k \in DOMAIN s : \A y : y = s[k] => Step(y)' \in Gets \cup Forgets
    BY <1>2, <1>5, <2>1, <2>3
  <2>6. \A w \in woken' : \E k \in DOMAIN s : s[k] = w
    <3>1. SUFFICES ASSUME NEW w \in woken PROVE \E k \in DOMAIN s : s[k] = w
      BY <1>2
    <3>2. PICK k \in DOMAIN queue : queue[k] = w
      BY <1>5
    <3>3. k \in DOMAIN s /\ s[k] = w
      BY <1>5, <2>3, <3>2
    <3> QED
      BY <3>3
  <2>7. s = queue'
    BY <1>4, <1>6, <2>2
  <2>8. QueueOK'
    BY <1>2, <2>3, <2>4, <2>5, <2>6, <2>7, QueueNew
  <2> QED
    BY <1>2, <1>3, <1>4, <1>6, <2>8, TryAgain
<1>7. CASE R.err # "EAGAIN"
  <2>1. Running(r)
    BY <1>2 DEF Step, Gets, Forgets
  <2>2. \A q \in Reqs \ {r} : Step(q)' = Step(q)
    BY <1>1, <1>2, <1>4, <1>7, <2>1, AdvanceFacts DEF Same
  <2>3. PICK s : s = queue
    OBVIOUS
  <2>4. \A k \in DOMAIN s : \A y : y = s[k] => Step(y)' \in Gets \cup Forgets
    BY <1>5, <2>2, <2>3
  <2>5. s = queue'
    BY <1>4, <1>7, <2>3
  <2>6. QueueOK'
    BY <1>2, <1>5, <2>3, <2>4, <2>5, QueueNew
  <2> QED
    BY <1>2, <1>3, <1>4, <1>7, <2>6, TryDone
<1> QED
  BY <1>6, <1>7

\* Waking up in get_path keeps it.
LEMMA WakeInv ==
  ASSUME IInv, RenamesApart, NEW r \in Reqs, Wake(r)
  PROVE  IInv'
<1>1. Places /\ TypeOK /\ QueueOK
  BY InvIs
<1>2. PICK at : at = CHOOSE k \in DOMAIN queue : queue[k] = r
  OBVIOUS
<1>3. PICK next : next = IF at < Len(queue) THEN {queue[at + 1]} ELSE {}
  OBVIOUS
<1>4. /\ r \in woken /\ woken' = (woken \ {r}) \cup next /\ work' = work /\ ctr' = ctr
      /\ known' = known /\ answer' = answer /\ Reqs' = Reqs
  BY <1>2, <1>3 DEF Wake, outside, Reqs
<1>5. PICK R : R = Try(r)
  OBVIOUS
<1>6. /\ nodes' = R.nodes
      /\ IF R.err = "EAGAIN" THEN queue' = queue /\ pc' = pc /\ loc' = loc
         ELSE queue' = RemoveAt(queue, at) /\ Advance(r, After(r, R))
  BY <1>2, <1>5 DEF Wake
<1>7. /\ queue \in Seq(Reqs) /\ DOMAIN queue = 1 .. Len(queue) /\ Len(queue) \in Nat
      /\ \A j, k \in DOMAIN queue : queue[j] = queue[k] => j = k
      /\ \A k \in DOMAIN queue : queue[k] \in Reqs /\ Step(queue[k]) \in Gets \cup Forgets
      /\ \A w \in woken : \E k \in DOMAIN queue : queue[k] = w
  <2>1. queue \in Seq(Reqs) /\ DOMAIN queue = 1 .. Len(queue) /\ Len(queue) \in Nat
    BY <1>1, LenProperties DEF QueueOK
  <2>2. \A k \in DOMAIN queue : queue[k] \in Reqs /\ Step(queue[k]) \in Gets \cup Forgets
    BY <1>1, <2>1, ElementOfSeq DEF QueueOK
  <2>3. \A w \in woken : \E k \in DOMAIN queue : queue[k] = w
    BY <1>1, <2>1 DEF QueueOK, Queued, Contains
  <2> QED
    BY <1>1, <2>1, <2>2, <2>3 DEF QueueOK
<1>8. at \in DOMAIN queue /\ queue[at] = r
  BY <1>2, <1>4, <1>7
<1>9. Step(r) \in Gets \cup Forgets
  BY <1>7, <1>8
<1>10. \A w \in woken' : w # r /\ \E k \in DOMAIN queue : queue[k] = w
  <2>1. \A w \in next : w # r /\ \E k \in DOMAIN queue : queue[k] = w
    <3>1. SUFFICES ASSUME at < Len(queue) PROVE queue[at + 1] # r /\ at + 1 \in DOMAIN queue
      BY <1>3
    <3> QED
      BY <1>7, <1>8, <3>1
  <2> QED
    BY <1>4, <1>7, <2>1
<1>11. CASE R.err = "EAGAIN"
  <2>1. \A y : Step(y)' = Step(y)
    BY <1>4, <1>6, <1>11, StaySame DEF Same
  <2>2. PICK s : s = queue
    OBVIOUS
  <2>3. \A k \in DOMAIN s : \A y : y = s[k] => Step(y)' \in Gets \cup Forgets
    BY <1>7, <2>1, <2>2
  <2>4. s = queue' /\ s \in Seq(Reqs) /\ (\A j, k \in DOMAIN s : s[j] = s[k] => j = k)
        /\ \A w \in woken' : \E k \in DOMAIN s : s[k] = w
    BY <1>6, <1>7, <1>10, <1>11, <2>2
  <2>5. QueueOK'
    BY <1>4, <2>3, <2>4, QueueNew
  <2> QED
    BY <1>4, <1>5, <1>6, <1>9, <1>11, <2>5, TryAgain
<1>12. CASE R.err # "EAGAIN"
  <2>1. Running(r)
    BY <1>9 DEF Step, Gets, Forgets
  <2>2. \A q \in Reqs \ {r} : Step(q)' = Step(q)
    BY <1>1, <1>4, <1>6, <1>12, <2>1, AdvanceFacts DEF Same
  <2>3. PICK s : s = RemoveAt(queue, at)
    OBVIOUS
  <2>4. /\ s \in Seq(Reqs) /\ DOMAIN s = 1 .. Len(queue) - 1
        /\ \A j \in DOMAIN s : s[j] = IF j < at THEN queue[j] ELSE queue[j + 1]
    <3>1. /\ s \in Seq(Reqs) /\ Len(s) = Len(queue) - 1
          /\ \A j \in DOMAIN s : s[j] = IF j < at THEN queue[j] ELSE queue[j + 1]
      <4>1. PICK qs : qs = queue
        OBVIOUS
      <4>2. PICK S : S = Reqs
        OBVIOUS
      <4>3. qs \in Seq(S) /\ at \in DOMAIN qs /\ s = RemoveAt(qs, at)
        BY <1>7, <1>8, <2>3, <4>1, <4>2
      <4>4. /\ s \in Seq(S) /\ Len(s) = Len(qs) - 1
            /\ \A j \in DOMAIN s : s[j] = IF j < at THEN qs[j] ELSE qs[j + 1]
        BY ONLY <4>3, RemoveAtIs
      <4> QED
        BY <4>1, <4>2, <4>4
    <3> QED
      BY <3>1, LenProperties
  <2>5. \A j \in DOMAIN s : \E i \in DOMAIN queue : i # at /\ s[j] = queue[i] /\ i = IF j < at THEN j ELSE j + 1
    BY <1>7, <1>8, <2>4
  <2>6. \A j, k \in DOMAIN s : s[j] = s[k] => j = k
    <3>1. SUFFICES ASSUME NEW j \in DOMAIN s, NEW k \in DOMAIN s, s[j] = s[k] PROVE j = k
      OBVIOUS
    <3>2. PICK i \in DOMAIN queue : s[j] = queue[i] /\ i = IF j < at THEN j ELSE j + 1
      BY <2>5
    <3>3. PICK m \in DOMAIN queue : s[k] = queue[m] /\ m = IF k < at THEN k ELSE k + 1
      BY <2>5
    <3>4. i = m
      BY <1>7, <3>1, <3>2, <3>3
    <3> QED
      BY <1>7, <1>8, <2>4, <3>2, <3>3, <3>4
  <2>7. \A k \in DOMAIN s : \A y : y = s[k] => Step(y)' \in Gets \cup Forgets
    <3>1. SUFFICES ASSUME NEW k \in DOMAIN s, NEW y, y = s[k] PROVE Step(y)' \in Gets \cup Forgets
      OBVIOUS
    <3>2. PICK i \in DOMAIN queue : i # at /\ y = queue[i]
      BY <2>5, <3>1
    <3>3. y \in Reqs \ {r} /\ Step(y) \in Gets \cup Forgets
      BY <1>7, <1>8, <3>2
    <3> QED
      BY <2>2, <3>3
  <2>8. \A w \in woken' : \E k \in DOMAIN s : s[k] = w
    <3>1. SUFFICES ASSUME NEW w \in woken' PROVE \E k \in DOMAIN s : s[k] = w
      OBVIOUS
    <3>2. PICK i \in DOMAIN queue : queue[i] = w /\ i # at
      BY <1>8, <1>10
    <3>3. CASE i < at
      <4>1. i \in DOMAIN s /\ s[i] = w
        BY <1>7, <1>8, <2>4, <3>2, <3>3
      <4> QED
        BY <4>1
    <3>4. CASE i > at
      <4>1. i - 1 \in DOMAIN s /\ ~(i - 1 < at) /\ i - 1 + 1 = i
        BY <1>7, <1>8, <2>4, <3>2, <3>4
      <4>2. s[i - 1] = w
        BY <2>4, <3>2, <4>1
      <4> QED
        BY <4>1, <4>2
    <3> QED
      BY <1>7, <1>8, <3>2, <3>3, <3>4
  <2>9. s = queue'
    BY <1>6, <1>12, <2>3
  <2>10. QueueOK'
    BY <1>4, <2>4, <2>6, <2>7, <2>8, <2>9, QueueNew
  <2> QED
    BY <1>4, <1>5, <1>6, <1>9, <1>12, <2>10, TryDone
<1> QED
  BY <1>11, <1>12

(***************************************************************************)
(* The kernel sends a request.                                             *)
(***************************************************************************)

\* What lies before a handler that starts.
Begins(op) ==
  /\ op # "forget" => \E t \in Replies : Later(op, 1, t)
  /\ op # "forget" => \E g \in Gets : Later(op, 1, g)
  /\ op \in Finders => Later(op, 1, "find")
  /\ op = "dot" => Later(op, 1, "pin")
  /\ op \in {"open", "create"} => Later(op, 1, "count")
  /\ op = "release" => Later(op, 1, "uncount")

\* At the start, all of a handler is ahead.
LEMMA LaterOne ==
  ASSUME NEW op, NEW p, p = fuse_path_ops[op]
  PROVE  \A k \in DOMAIN p : k \in Nat \ {0} => Later(op, 1, p[k])
BY DEF Later

\* Every handler begins as it should.
LEMMA AllBegin ==
  ASSUME NEW op \in Ops
  PROVE  Begins(op)
<1>1. PICK p : p = fuse_path_ops[op]
  OBVIOUS
<1>2. \A k \in DOMAIN p : k \in Nat \ {0} => Later(op, 1, p[k])
  BY <1>1, LaterOne
<1>3. CASE op \in PathOps /\ p = <<"get", "touch", "free", "reply">>
  <2>1. Later(op, 1, "get") /\ Later(op, 1, "reply")
    BY <1>2, <1>3
  <2> QED
    BY <1>3, <2>1 DEF Begins, PathOps, Finders, Gets, Replies
<1>4. CASE op = "getattr" /\ p = <<"get", "touch", "free", "cache", "reply">>
  <2>1. Later(op, 1, "get") /\ Later(op, 1, "reply")
    BY <1>2, <1>4
  <2> QED
    BY <1>4, <2>1 DEF Begins, Finders, Gets, Replies
<1>5. CASE op = "setattr" /\ p = <<"get", "touch", "touch", "free", "cache", "reply">>
  <2>1. Later(op, 1, "get") /\ Later(op, 1, "reply")
    BY <1>2, <1>5
  <2> QED
    BY <1>5, <2>1 DEF Begins, Finders, Gets, Replies
<1>6. CASE op = "opendir" /\ p = <<"get", "touch", "reply", "free">>
  <2>1. Later(op, 1, "get") /\ Later(op, 1, "reply")
    BY <1>2, <1>6
  <2> QED
    BY <1>6, <2>1 DEF Begins, Finders, Gets, Replies
<1>7. CASE op = "releasedir" /\ p = <<"getany", "touch", "free", "reply">>
  <2>1. Later(op, 1, "getany") /\ Later(op, 1, "reply")
    BY <1>2, <1>7
  <2> QED
    BY <1>7, <2>1 DEF Begins, Finders, Gets, Replies
<1>8. CASE op = "release" /\ p = <<"getany", "fs_unlock", "list_lock", "uncount", "unlink_hidden", "free", "reply">>
  <2>1. Later(op, 1, "getany") /\ Later(op, 1, "reply") /\ Later(op, 1, "uncount")
    BY <1>2, <1>8
  <2> QED
    BY <1>8, <2>1 DEF Begins, Finders, Gets, Replies
<1>9. CASE op = "open" /\ p = <<"get", "openfs", "count", "reply_open", "uncount", "unlink_hidden", "free">>
  <2>1. Later(op, 1, "get") /\ Later(op, 1, "reply_open") /\ Later(op, 1, "count")
    BY <1>2, <1>9
  <2> QED
    BY <1>9, <2>1 DEF Begins, Finders, Gets, Replies
<1>10. CASE op = "create" /\ p = <<"getname", "make", "stat", "find", "count", "reply_open", "uncount", "unlink_hidden", "undo", "free">>
  <2>1. Later(op, 1, "getname") /\ Later(op, 1, "reply_open") /\ Later(op, 1, "count") /\ Later(op, 1, "find")
    BY <1>2, <1>10
  <2> QED
    BY <1>10, <2>1 DEF Begins, Finders, Gets, Replies
<1>11. CASE op \in {"lookup", "revalidate", "dot"} /\ p = <<"pin", "getname", "stat", "find", "free", "unpin", "reply_entry", "undo">>
  <2>1. Later(op, 1, "getname") /\ Later(op, 1, "reply_entry") /\ Later(op, 1, "pin") /\ Later(op, 1, "find")
    BY <1>2, <1>11
  <2> QED
    BY <1>11, <2>1 DEF Begins, Finders, Gets, Replies
<1>12. CASE op \in {"mknod", "mkdir", "symlink"} /\ p = <<"getname", "make", "stat", "find", "free", "reply_entry", "undo">>
  <2>1. Later(op, 1, "getname") /\ Later(op, 1, "reply_entry") /\ Later(op, 1, "find")
    BY <1>2, <1>12
  <2> QED
    BY <1>12, <2>1 DEF Begins, Finders, Gets, Replies
<1>13. CASE op = "link" /\ p = <<"get2", "link", "stat2", "find", "free", "reply_entry", "undo">>
  <2>1. Later(op, 1, "get2") /\ Later(op, 1, "reply_entry") /\ Later(op, 1, "find")
    BY <1>2, <1>13
  <2> QED
    BY <1>13, <2>1 DEF Begins, Finders, Gets, Replies
<1>14. CASE op = "unlink" /\ p = <<"getw", "is_open", "hide_name", "hide_rename", "hide_node", "unlink", "remove", "free", "reply">>
  <2>1. Later(op, 1, "getw") /\ Later(op, 1, "reply")
    BY <1>2, <1>14
  <2> QED
    BY <1>14, <2>1 DEF Begins, Finders, Gets, Replies
<1>15. CASE op = "rmdir" /\ p = <<"getw", "rmdir", "remove", "free", "reply">>
  <2>1. Later(op, 1, "getw") /\ Later(op, 1, "reply")
    BY <1>2, <1>15
  <2> QED
    BY <1>15, <2>1 DEF Begins, Finders, Gets, Replies
<1>16. CASE op = "rename" /\ p = <<"get2w", "is_open", "hide_name", "hide_rename", "hide_node", "rename", "rename_node", "free", "reply">>
  <2>1. Later(op, 1, "get2w") /\ Later(op, 1, "reply")
    BY <1>2, <1>16
  <2> QED
    BY <1>16, <2>1 DEF Begins, Finders, Gets, Replies
<1>17. CASE op = "forget" /\ p = <<"forget">>
  BY <1>17 DEF Begins, Finders
<1>18. CASE op = "flush" /\ p = <<"getany", "fs_unlock", "list_lock", "free", "reply">>
  <2>1. Later(op, 1, "getany") /\ Later(op, 1, "reply")
    BY <1>2, <1>18
  <2> QED
    BY <1>18, <2>1 DEF Begins, Finders, Gets, Replies
<1>19. CASE op \in {"setlk", "setlkw"} /\ p = <<"get", "fs_lock", "free", "list_lock", "reply">>
  <2>1. Later(op, 1, "get") /\ Later(op, 1, "reply")
    BY <1>2, <1>19
  <2> QED
    BY <1>19, <2>1 DEF Begins, Finders, Gets, Replies
<1>20. CASE op = "getlk" /\ p = <<"list_conflict", "get", "fs_getlk", "free", "reply">>
  <2>1. Later(op, 1, "get") /\ Later(op, 1, "reply")
    BY <1>2, <1>20
  <2> QED
    BY <1>20, <2>1 DEF Begins, Finders, Gets, Replies
<1> QED
  BY <1>1, <1>3, <1>4, <1>5, <1>6, <1>7, <1>8, <1>9, <1>10, <1>11, <1>12, <1>13, <1>14, <1>15, <1>16, <1>17,
     <1>18, <1>19, <1>20, Programs

\* The locals of a new handler.
Fresh(r, l) ==
  /\ LocOK(l) /\ l.err = "ok" /\ ~l.locked /\ l.w = None /\ l.w2 = None /\ l.id = None /\ ~l.hide /\ ~l.intr
  /\ ~l.pinned /\ l.victim = Victim(r)
  /\ Op(r) = "forget" => l.n > 0 \/ NodeOf(r) = Root

\* What the kernel takes a request to be about is what lookup_node finds.
LEMMA VictimIs ==
  ASSUME IInv, NEW r \in Reqs, ~Started(r)
  PROVE  /\ Victim(r) \in Ids \cup {None}
         /\ Op(r) \in {"unlink", "rmdir", "rename"} => Victim(r) = Doom(r)
         /\ Op(r) = "revalidate" => Victim(r) = Req(r).victim
<1>1. TypeOK /\ TableOK(nodes)
  BY InvIs
<1>2. /\ Req(r).op = Op(r) /\ Req(r).victim \in Ids \cup {None}
      /\ Op(r) \in {"rename", "link"} => Req(r).nm2 # NoName
      /\ Op(r) \in Naming => Req(r).nm # NoName
  BY <1>1, OpFacts
<1>3. CASE Op(r) \in {"unlink", "rmdir", "rename"}
  <2>1. Victim(r) = Doom(r)
    BY <1>2, <1>3 DEF Victim, Doom
  <2>2. Doomed(r)[2] # NoName
    BY <1>2, <1>3 DEF Doomed, Naming
  <2>3. Doom(r) \in Ids \cup {None}
    BY <1>1, <2>2, LookupFacts DEF Doom, TableOK
  <2> QED
    BY <1>3, <2>1, <2>3
<1>4. CASE Op(r) = "revalidate"
  BY <1>2, <1>4 DEF Victim
<1>5. CASE Op(r) \notin {"unlink", "rmdir", "rename", "revalidate"}
  BY <1>2, <1>5 DEF Victim
<1> QED
  BY <1>3, <1>4, <1>5

\* The locals of a request that begins.
NewLoc(n, v) == [NoLoc EXCEPT !.n = n, !.victim = v]
\* It has nothing but its lookups and what it is about.
LEMMA NoLocIs ==
  ASSUME NEW n \in Nat, NEW v \in Ids \cup {None}, NEW l, l = NewLoc(n, v)
  PROVE  /\ LocOK(l) /\ l.err = "ok" /\ ~l.locked /\ l.w = None /\ l.w2 = None /\ l.id = None /\ ~l.hide /\ ~l.intr
         /\ ~l.pinned /\ l.victim = v /\ l.n = n
BY DEF NewLoc, LocOK, NoLoc, None

\* The kernel sends a request: what it may send, and what this changes.
Issued(r, l) ==
  /\ KernelMay(r) /\ ~Started(r) /\ Fresh(r, l) /\ Goto(r, 1, l)
  /\ Op(r) = "forget" => l.n = (IF Spare(r) THEN 1 ELSE known[NodeOf(r)])
  /\ known' = IF Op(r) = "forget" /\ ~Spare(r) THEN [known EXCEPT ![NodeOf(r)] = 0] ELSE known
  /\ answer' = IF Op(r) = "forget" THEN [answer EXCEPT ![r] = "ok"] ELSE answer
  /\ work' = work /\ nodes' = nodes /\ ctr' = ctr /\ queue' = queue /\ woken' = woken

\* Issue starts a request.
LEMMA IssueIs ==
  ASSUME IInv, NEW r \in Reqs, Issue(r)
  PROVE  NodeOf(r) \in Ids \cup {None} /\ (Req(r).of # 0 => NodeOf(r) \in Ids) /\ \E l : Issued(r, l)
<1>1. Places /\ TypeOK /\ known \in [1 .. MaxId -> Nat]
  BY InvIs
<1>2. /\ KernelMay(r) /\ ~Started(r) /\ work' = work /\ nodes' = nodes /\ ctr' = ctr /\ queue' = queue /\ woken' = woken
      /\ known' = IF Op(r) = "forget" /\ ~Spare(r) THEN [known EXCEPT ![NodeOf(r)] = 0] ELSE known
      /\ answer' = IF Op(r) = "forget" THEN [answer EXCEPT ![r] = "ok"] ELSE answer
  BY DEF Issue, KernelMay, Op, table
<1>3. PICK v : v = Victim(r)
  OBVIOUS
<1>4. PICK n : n = IF Op(r) # "forget" THEN 0 ELSE IF Spare(r) THEN 1 ELSE known[NodeOf(r)]
  OBVIOUS
<1>5. Goto(r, 1, NewLoc(n, v))
  BY <1>3, <1>4 DEF Issue, Op, NewLoc
<1>6. PICK l : l = NewLoc(n, v)
  OBVIOUS
<1>7. NodeOf(r) \in Ids \cup {None} /\ (Req(r).of = 0 => NodeOf(r) \in Ids) /\ (Req(r).of # 0 => NodeOf(r) \in Ids)
  <2>1. Req(r).of = 0 => Req(r).n \in Ids
    BY <1>1, OpFacts
  <2>2. Req(r).of # 0 => Req(r).of \in Req(r).needs /\ Req(r).of \in Reqs /\ Op(Req(r).of) \in Finders
    BY <1>1, OpFacts
  <2>3. Req(r).of # 0 => answer[Req(r).of] = "ok"
    BY <1>2, <2>2 DEF KernelMay
  <2>4. Req(r).of # 0 => loc[Req(r).of].id \in Ids
    BY <1>1, <2>2, <2>3, AnsweredFacts
  <2> QED
    BY <2>1, <2>4 DEF NodeOf
<1>8. NodeOf(r) \in 1 .. MaxId
  BY <1>7, MaxIdAssumption DEF Ids
<1>9. n \in Nat
  BY <1>1, <1>4, <1>8
<1>10. v \in Ids \cup {None}
  BY <1>2, <1>3, VictimIs
<1>11. /\ LocOK(l) /\ l.err = "ok" /\ ~l.locked /\ l.w = None /\ l.w2 = None /\ l.id = None /\ ~l.hide /\ ~l.intr
       /\ ~l.pinned /\ l.victim = v /\ l.n = n
  BY <1>6, <1>9, <1>10, NoLocIs
<1>12. Op(r) = "forget" => n > 0 \/ NodeOf(r) = Root
  <2>1. Op(r) = "forget" /\ ~Spare(r) => Holds(NodeOf(r))
    BY <1>2 DEF KernelMay, Op
  <2> QED
    BY <1>1, <1>4, <1>8, <2>1 DEF Holds
<1>13. Fresh(r, l)
  BY <1>3, <1>11, <1>12 DEF Fresh
<1>14. Goto(r, 1, l)
  BY <1>5, <1>6
<1>15. Op(r) = "forget" => l.n = (IF Spare(r) THEN 1 ELSE known[NodeOf(r)])
  BY <1>4, <1>11
<1>16. Issued(r, l)
  BY <1>2, <1>13, <1>14, <1>15 DEF Issued
<1> QED
  BY <1>7, <1>16

\* What moves in the requests' places.
LEMMA IssueMoves ==
  ASSUME IInv, NEW r \in Reqs, NEW l, Issued(r, l)
  PROVE  /\ DOMAIN pc' = Reqs /\ DOMAIN loc' = Reqs /\ loc'[r] = l /\ Reqs' = Reqs /\ \A q \in Reqs : pc'[q] \in Nat
         /\ \A q \in Reqs \ {r} : Same(q)
         /\ \A q \in Reqs : Req(q)' = Req(q) /\ Op(q)' = Op(q) /\ loc'[q].id = loc[q].id /\ loc'[q].locked = loc[q].locked
                            /\ loc'[q].pinned = loc[q].pinned
         /\ Started(r)' /\ loc[r] = NoLoc /\ answer[r] = "none" /\ ~Running(r)
         /\ \A q \in Reqs : NodeOf(q)' = NodeOf(q) /\ Opened(q)' = Opened(q)
         /\ \A t : Later(Op(r), 1, t) /\ Applies(r, t, l) => Ahead(r, t)'
         /\ Running(r)' => Applies(r, Step(r)', l)
         /\ DOMAIN answer' = Reqs /\ \A q \in Reqs \ {r} : answer'[q] = answer[q]
         /\ answer'[r] = IF Op(r) = "forget" THEN "ok" ELSE "none"
         /\ Kept' = Kept
<1>1. Places /\ TypeOK
  BY InvIs
<1>2. work' = work /\ Reqs' = Reqs /\ Kept' = Kept /\ Fresh(r, l) /\ Goto(r, 1, l) /\ ~Started(r)
  BY DEF Issued, Reqs, Kept
<1>3. /\ DOMAIN pc' = Reqs /\ DOMAIN loc' = Reqs /\ loc'[r] = l /\ pc'[r] \in Nat
      /\ \A q \in Reqs \ {r} : Same(q)
      /\ Req(r)' = Req(r) /\ Op(r)' = Op(r) /\ Started(r)'
      /\ \A t : Later(Op(r), 1, t) /\ Applies(r, t, l) => Ahead(r, t)'
      /\ Running(r)' => Applies(r, Step(r)', l)
  BY <1>1, <1>2, IssueGoto
<1>4. loc[r] = NoLoc /\ answer[r] = "none"
  BY <1>1, <1>2 DEF Places, PlaceOK
<1>5. ~Running(r)
  <2>1. pc[r] = 0
    BY <1>1, <1>2 DEF Started, TypeOK
  <2>2. PICK n \in Nat \ {0} : DOMAIN Program(r) = 1 .. n
    BY <1>1, WorkOK, ProgramSeq, AheadLater
  <2> QED
    BY <2>1, <2>2 DEF Running
<1>6. \A q \in Reqs : pc'[q] \in Nat
  BY <1>1, <1>3 DEF Same, TypeOK
<1>7. NoLoc.id = None /\ ~NoLoc.locked /\ ~NoLoc.pinned
  BY DEF NoLoc
<1>8. \A q \in Reqs : /\ Req(q)' = Req(q) /\ Op(q)' = Op(q) /\ loc'[q].id = loc[q].id
  BY <1>2, <1>3, <1>4, <1>7 DEF Same, Fresh
<1>9. \A q \in Reqs : loc'[q].locked = loc[q].locked /\ loc'[q].pinned = loc[q].pinned
  <2>1. l.locked = FALSE /\ l.pinned = FALSE
    BY <1>2 DEF Fresh, LocOK
  <2>2. NoLoc.locked = FALSE /\ NoLoc.pinned = FALSE
    BY DEF NoLoc
  <2> QED
    BY <1>3, <1>4, <2>1, <2>2 DEF Same
<1>10. \A q \in Reqs : NodeOf(q)' = NodeOf(q) /\ Opened(q)' = Opened(q)
  <2>1. \A q \in Reqs : Req(q).of # 0 => Req(q).of \in Reqs
    BY <1>1, OpFacts
  <2>2. \A q \in Reqs : NodeOf(q)' = NodeOf(q)
    BY <1>8, <2>1 DEF NodeOf
  <2> QED
    BY <1>8, <2>2 DEF Opened
<1>11. DOMAIN answer' = Reqs /\ (\A q \in Reqs \ {r} : answer'[q] = answer[q])
       /\ answer'[r] = IF Op(r) = "forget" THEN "ok" ELSE "none"
  BY <1>1, <1>4 DEF Issued, TypeOK
<1> QED
  BY <1>2, <1>3, <1>4, <1>5, <1>6, <1>8, <1>9, <1>10, <1>11

\* All requests are in place after that.
LEMMA IssuePlaces ==
  ASSUME IInv, NEW r \in Reqs, NEW l, Issued(r, l)
  PROVE  \A q \in Reqs : PlaceOK(q)'
<1>1. Places /\ TypeOK /\ \A q \in Reqs : PlaceOK(q)
  BY InvIs
<1>2. work' = work /\ Fresh(r, l) /\ ~Started(r) /\ KernelMay(r)
  BY DEF Issued
<1>3. /\ loc'[r] = l /\ Reqs' = Reqs
      /\ \A q \in Reqs \ {r} : Same(q)
      /\ \A q \in Reqs : Req(q)' = Req(q) /\ NodeOf(q)' = NodeOf(q)
      /\ Started(r)' /\ Op(r)' = Op(r) /\ answer[r] = "none"
      /\ \A t : Later(Op(r), 1, t) /\ Applies(r, t, l) => Ahead(r, t)'
      /\ Running(r)' => Applies(r, Step(r)', l)
      /\ \A q \in Reqs \ {r} : answer'[q] = answer[q]
      /\ answer'[r] = IF Op(r) = "forget" THEN "ok" ELSE "none"
  BY IssueMoves
<1>4. \A q \in Reqs : answer[q] = "ok" => answer'[q] = "ok"
  BY <1>3
<1>5. \A q \in Reqs \ {r} : PlaceOK(q)'
  <2>1. SUFFICES ASSUME NEW q \in Reqs \ {r} PROVE PlaceOK(q)'
    OBVIOUS
  <2>2. Req(q).needs \subseteq Reqs
    BY <1>1, OpFacts
  <2> QED
    BY <1>1, <1>2, <1>3, <1>4, <2>2, PlaceSame
<1>6. PlaceOK(r)'
  <2>1. /\ LocOK(l) /\ l.err = "ok" /\ ~l.locked /\ l.w = None /\ l.w2 = None /\ l.id = None /\ ~l.hide /\ ~l.intr
        /\ ~l.pinned /\ l.victim = Victim(r)
        /\ Op(r) = "forget" => l.n > 0 \/ NodeOf(r) = Root
    BY <1>2 DEF Fresh
  <2>2. Op(r) \in Ops /\ Begins(Op(r)) /\ Req(r).op = Op(r)
    BY <1>1, OpFacts, AllBegin
  <2>3. \A t \in Replies : Applies(r, t, l)
    BY AppliesIs
  <2>4. \A t \in Gets \cup {"find"} : Applies(r, t, l)
    <3>1. \A t \in Gets \cup {"find"} : t \notin Special \/ t = "get"
      BY DEF Gets, Special, Replies
    <3> QED
      BY <2>1, <3>1, AppliesIs
  <2>5. Op(r) = "dot" => Applies(r, "pin", l)
    BY AppliesIs
  <2>6. Op(r) # "forget" => Replying(r)'
    BY <1>3, <2>2, <2>3 DEF Begins, Replying
  <2>7. Op(r) # "forget" => Getting(r)'
    BY <1>3, <2>2, <2>4 DEF Begins, Getting
  <2>8. Op(r) \in Finders => Ahead(r, "find")'
    BY <1>3, <2>2, <2>4 DEF Begins
  <2>9. Op(r) = "dot" => Ahead(r, "pin")'
    BY <1>3, <2>2, <2>5 DEF Begins
  <2>10. Op(r) = "forget" => ~Ahead(r, "free")'
    <3>1. SUFFICES ASSUME Op(r) = "forget" PROVE ~Ahead(r, "free")'
      OBVIOUS
    <3>2. Program(r)' = <<"forget">>
      BY <1>3, <2>2, <3>1, Programs DEF Program, PathOps
    <3> QED
      BY <3>2 DEF Ahead
  <2>11. \A q \in Req(r).needs : answer'[q] = "ok"
    <3>1. Req(r).needs \subseteq Reqs
      BY <1>1, OpFacts
    <3> QED
      BY <1>2, <1>4, <3>1 DEF KernelMay
  <2>12. Running(r)' => Applies(r, Step(r), loc[r])'
    <3>1. Running(r)' => Applies(r, Step(r)', l)
      BY <1>3
    <3>2. Op(r) = Req(r).op /\ Req(r)' = Req(r)
      BY <1>3, <2>2
    <3> QED
      BY <1>3, <3>1, <3>2 DEF Applies
  <2>13. /\ Op(r) \in {"unlink", "rmdir"} => Victim(r) # None
         /\ Op(r) = "revalidate" => Victim(r) = Req(r).victim
    BY <1>2, VictimIs, <2>2 DEF KernelMay
  <2>14. /\ Req(r)' = Req(r) /\ NodeOf(r)' = NodeOf(r) /\ loc'[r] = l /\ Started(r)' /\ Req(r).op = Op(r)
         /\ answer'[r] = IF Op(r) = "forget" THEN "ok" ELSE "none"
    BY <1>3, <2>2
  <2> QED
    BY <2>1, <2>6, <2>7, <2>8, <2>9, <2>10, <2>11, <2>12, <2>13, <2>14 DEF PlaceOK
<1> QED
  BY <1>5, <1>6

\* A lookup the kernel gives back at once is of a node it did not expect.
LEMMA SpareIs ==
  ASSUME IInv, NEW r \in Reqs, NEW l, Issued(r, l), NEW q \in Reqs, Req(r).of = q, Op(q) = "revalidate"
  PROVE  /\ Op(r) = "forget" /\ Spare(r) /\ NodeOf(r) = loc[q].id /\ answer[q] = "ok" /\ q # r
         /\ loc[q].id # Req(q).victim
         /\ \A p \in Reqs : Req(p).of = q => ~Started(p)
<1>1. TypeOK /\ KernelMay(r) /\ ~Started(r)
  BY InvIs DEF Issued
<1>2. /\ Reqs \subseteq Nat \ {0} /\ RequestOK(work.reqs, r) /\ Op(r) \in Ops
  BY <1>1, WorkOK
<1>3. q # 0
  BY <1>2
<1>4. q \in Req(r).needs /\ Op(r) = "forget" /\ \A p \in Reqs \ {r} : Req(p).of # q
  BY <1>2, <1>3 DEF RequestOK, Req, Reqs, Op
<1>5. q # r
  BY <1>4
<1>6. answer[q] = "ok"
  BY <1>1, <1>4 DEF KernelMay
<1>7. Spare(r)
  BY <1>3, <1>4 DEF Spare, Op
<1>8. NodeOf(r) = loc[q].id
  BY <1>3 DEF NodeOf
<1>9. loc[q].id # Req(q).victim
  BY <1>1, <1>4, <1>7 DEF KernelMay, Op
<1> QED
  BY <1>1, <1>4, <1>5, <1>6, <1>7, <1>8, <1>9

\* It comes of a revalidation.
LEMMA SpareFor ==
  ASSUME IInv, NEW r \in Reqs, Spare(r)
  PROVE  /\ Req(r).of \in Reqs /\ Op(Req(r).of) = "revalidate" /\ Op(r) = "forget"
BY InvIs, OpFacts DEF Spare, Op

\* Such a lookup is no longer in flight
LEMMA InFlightIssued ==
  ASSUME IInv, NEW r \in Reqs, NEW l, Issued(r, l), NEW id \in Ids,
         NEW S, S = (IF Spare(r) /\ NodeOf(r) = id THEN {Req(r).of} ELSE {})
  PROVE  InFlight(id)' = InFlight(id) \ S /\ S \subseteq InFlight(id)
<1>1. /\ Reqs' = Reqs /\ loc'[r] = l /\ \A q \in Reqs \ {r} : Same(q) /\ answer'[q] = answer[q]
      /\ Started(r)' /\ \A q \in Reqs : Req(q)' = Req(q) /\ loc'[q].id = loc[q].id
      /\ loc[r] = NoLoc
  BY IssueMoves
<1>2. loc[r].id # id
  BY <1>1, MaxIdAssumption DEF NoLoc, None, Ids
<1>3. \A p \in Reqs \ {r} : Started(p)' = Started(p)
  BY <1>1 DEF Same
<1>4. ~Started(r) /\ KernelMay(r)
  BY DEF Issued
<1>5. ASSUME NEW q \in Reqs \ {r}, Req(r).of = q, Op(q) = "revalidate"
      PROVE  q \notin InFlight(id)' /\ (q \in InFlight(id) <=> loc[q].id = id) /\ (q \in S <=> loc[q].id = id)
  <2>1. /\ Op(r) = "forget" /\ Spare(r) /\ NodeOf(r) = loc[q].id /\ answer[q] = "ok"
        /\ loc[q].id # Req(q).victim /\ \A p \in Reqs : Req(p).of = q => ~Started(p)
    BY <1>5, SpareIs
  <2>2. answer'[q] = "ok" /\ Req(r).of' = q
    BY <1>1, <1>5, <2>1
  <2>3. q \notin InFlight(id)'
    BY <1>1, <2>2 DEF InFlight
  <2>4. q \in InFlight(id) <=> loc[q].id = id
    BY <1>5, <2>1 DEF InFlight, Op
  <2> QED
    BY <1>5, <2>1, <2>3, <2>4
<1>6. ASSUME NEW q \in Reqs \ {r}, ~(Req(r).of = q /\ Op(q) = "revalidate")
      PROVE  (q \in InFlight(id)' <=> q \in InFlight(id)) /\ q \notin S
  <2>1. q \notin S
    BY <1>6, SpareFor
  <2>2. loc'[q] = loc[q] /\ Req(q)' = Req(q) /\ answer'[q] = answer[q] /\ Ahead(q, "undo")' = Ahead(q, "undo")
    BY <1>1 DEF Same
  <2>3. Req(q).op = "revalidate" =>
          ((\A p \in Reqs : Req(p).of = q => ~Started(p))' <=> \A p \in Reqs : Req(p).of = q => ~Started(p))
    <3>1. SUFFICES ASSUME Req(q).op = "revalidate"
                   PROVE (\A p \in Reqs : Req(p).of = q => ~Started(p))' <=> \A p \in Reqs : Req(p).of = q => ~Started(p)
      OBVIOUS
    <3>2. Req(r).of # q
      BY <1>6, <3>1 DEF Op
    <3> QED
      BY <1>1, <1>3, <3>2
  <2>4. q \in InFlight(id)' <=> q \in InFlight(id)
    BY <1>1, <2>2, <2>3 DEF InFlight
  <2> QED
    BY <2>1, <2>4
<1>7. r \notin InFlight(id) /\ r \notin InFlight(id)'
  BY <1>1, <1>2 DEF InFlight
<1>8. InFlight(id) \subseteq Reqs /\ InFlight(id)' \subseteq Reqs
  BY <1>1 DEF InFlight
<1>9. S \subseteq Reqs /\ r \notin S
  <2>1. Spare(r) => Req(r).of # r
    <3>1. Spare(r) => Op(Req(r).of) = "revalidate" /\ Op(r) = "forget"
      BY SpareFor
    <3> QED
      BY <3>1
  <2> QED
    BY <2>1, SpareFor
<1> QED
  BY <1>5, <1>6, <1>7, <1>8, <1>9

\* but coming back, as all that are forgotten.
LEMMA ReturningIssued ==
  ASSUME IInv, NEW r \in Reqs, NEW l, Issued(r, l), NEW id,
         NEW T, T = (IF Op(r) = "forget" /\ NodeOf(r) = id THEN {r} \X (1 .. l.n) ELSE {})
  PROVE  Returning(id)' = Returning(id) \cup T /\ Returning(id) \cap T = {}
<1>1. /\ Reqs' = Reqs /\ loc'[r] = l /\ \A q \in Reqs \ {r} : Same(q)
      /\ Started(r)' /\ \A q \in Reqs : Req(q)' = Req(q) /\ NodeOf(q)' = NodeOf(q) /\ Op(q)' = Op(q)
      /\ ~Running(r) /\ pc'[r] \in Nat
      /\ \A t : Later(Op(r), 1, t) /\ Applies(r, t, l) => Ahead(r, t)'
  BY IssueMoves
<1>2. Step(r) # "forget"
  BY <1>1 DEF Step
<1>3. Step(r)' = "forget" <=> Op(r) = "forget"
  <2>1. Op(r) \in Ops /\ Op(r) = Req(r).op
    BY InvIs, OpFacts
  <2>2. CASE Op(r) = "forget"
    <3>1. Program(r) = <<"forget">> /\ Program(r)' = <<"forget">>
      BY <1>1, <2>1, <2>2, Programs DEF Program, PathOps
    <3>2. fuse_path_ops[Op(r)] = <<"forget">>
      BY <2>2, Programs, <2>1 DEF PathOps
    <3>3. Later(Op(r), 1, "forget")
      BY <3>2 DEF Later
    <3>4. Applies(r, "forget", l)
      <4>1. "forget" \notin Special /\ l.err = "ok"
        BY DEF Special, Replies, Issued, Fresh
      <4> QED
        BY <4>1, AppliesIs
    <3>5. Ahead(r, "forget")'
      BY <1>1, <3>3, <3>4
    <3>6. pc'[r] \in DOMAIN Program(r)'
      BY <1>1, <3>1, <3>5 DEF Ahead, Started
    <3>7. DOMAIN Program(r)' = {1} /\ Program(r)'[1] = "forget"
      BY <3>1
    <3>8. pc'[r] = 1
      BY <3>6, <3>7
    <3>9. Step(r)' = "forget"
      BY <3>6, <3>7, <3>8 DEF Step, Running
    <3> QED
      BY <2>2, <3>9
  <2>3. CASE Op(r) # "forget"
    <3>1. ASSUME Step(r)' = "forget" PROVE FALSE
      <4>1. pc'[r] \in DOMAIN Program(r)' /\ Program(r)'[pc'[r]] = "forget" /\ Program(r)' = fuse_path_ops[Op(r)]
        BY <1>1, <3>1 DEF Step, Running, Program, Op
      <4>2. Ordered(Op(r), pc'[r], "forget")
        BY <2>1, <4>1, OrderOf
      <4>3. Op(r) = "forget"
        BY <4>2 DEF Ordered
      <4> QED
        BY <2>3, <4>3
    <3> QED
      BY <2>3, <3>1
  <2> QED
    BY <2>2, <2>3
<1>4. \A q \in Reqs \ {r} : Step(q)' = Step(q) /\ NodeOf(q)' = NodeOf(q) /\ loc'[q] = loc[q]
  BY <1>1 DEF Same
<1>5. Op(r) = "forget" /\ NodeOf(r) = id <=> Step(r)' = "forget" /\ NodeOf(r)' = id
  BY <1>1, <1>3
<1>6. \A x : x \in Returning(id) <=> \E q \in Reqs \ {r} : Step(q) = "forget" /\ NodeOf(q) = id /\ x \in {q} \X (1 .. loc[q].n)
  BY <1>2 DEF Returning
<1>7. \A x : x \in Returning(id)' <=> \E q \in Reqs : Step(q)' = "forget" /\ NodeOf(q)' = id /\ x \in {q} \X (1 .. loc'[q].n)
  BY <1>1 DEF Returning
<1>8. \A x : x \in Returning(id)' <=> x \in Returning(id) \/ x \in T
  BY <1>1, <1>4, <1>5, <1>6, <1>7
<1>9. \A x \in T : x \notin Returning(id)
  BY <1>6
<1> QED
  BY <1>8, <1>9

\* Issue keeps the count of lookups.
LEMMA IssueLookups ==
  ASSUME IInv, NEW r \in Reqs, NEW l, Issued(r, l), Req(r).of # 0 => NodeOf(r) \in Ids
  PROVE  LookupsOK' /\ known' \in [1 .. MaxId -> Nat] /\ \A id \in 1 .. MaxId : known'[id] = known[id] \/ (known'[id] = 0 /\ id = NodeOf(r) /\ Op(r) = "forget" /\ ~Spare(r))
<1>1. Places /\ TypeOK /\ LookupsOK /\ known \in [1 .. MaxId -> Nat] /\ TableOK(nodes)
  BY InvIs
<1>2. /\ work' = work /\ nodes' = nodes /\ l.n \in Nat
      /\ Op(r) = "forget" => l.n = (IF Spare(r) THEN 1 ELSE known[NodeOf(r)])
      /\ known' = IF Op(r) = "forget" /\ ~Spare(r) THEN [known EXCEPT ![NodeOf(r)] = 0] ELSE known
  BY DEF Issued, Fresh, LocOK
<1>3. known' \in [1 .. MaxId -> Nat]
  BY <1>1, <1>2
<1>4. \A id \in 1 .. MaxId : known'[id] = IF Op(r) = "forget" /\ ~Spare(r) /\ id = NodeOf(r) THEN 0 ELSE known[id]
  BY <1>1, <1>2
<1>5. Spare(r) => Op(r) = "forget"
  BY SpareFor
<1>6. ASSUME NEW id \in Ids \ {Root}
      PROVE  /\ IsFiniteSet(InFlight(id)') /\ IsFiniteSet(Returning(id)')
             /\ Weight(nodes', id, Kept) - known'[id] - Cardinality(InFlight(id)') - Cardinality(Returning(id)')
                = Weight(nodes, id, Kept) - known[id] - Cardinality(InFlight(id)) - Cardinality(Returning(id))
  <2>1. PICK F : F = InFlight(id)
    OBVIOUS
  <2>2. PICK R : R = Returning(id)
    OBVIOUS
  <2>3. PICK S : S = IF Spare(r) /\ NodeOf(r) = id THEN {Req(r).of} ELSE {}
    OBVIOUS
  <2>4. PICK T : T = IF Op(r) = "forget" /\ NodeOf(r) = id THEN {r} \X (1 .. l.n) ELSE {}
    OBVIOUS
  <2>5. InFlight(id)' = F \ S /\ S \subseteq F
    BY <2>1, <2>3, InFlightIssued
  <2>6. Returning(id)' = R \cup T /\ R \cap T = {}
    BY <2>2, <2>4, ReturningIssued, SMTT(40)
  <2>7. IsFiniteSet(F) /\ IsFiniteSet(R) /\ Cardinality(F) \in Nat /\ Cardinality(R) \in Nat
    BY <1>1, <2>1, <2>2, Finite, FS_CardinalityType
  <2>8. IsFiniteSet(T) /\ Cardinality(T) = IF Op(r) = "forget" /\ NodeOf(r) = id THEN l.n ELSE 0
    <3>1. CASE Op(r) = "forget" /\ NodeOf(r) = id
      <4>1. T = {r} \X (1 .. l.n)
        BY <2>4, <3>1
      <4>2. IsFiniteSet({r} \X (1 .. l.n)) /\ Cardinality({r} \X (1 .. l.n)) = l.n
        BY <1>2, Pairs
      <4> QED
        BY <3>1, <4>1, <4>2
    <3>2. CASE ~(Op(r) = "forget" /\ NodeOf(r) = id)
      BY <2>4, <3>2, FS_EmptySet
    <3> QED
      BY <3>1, <3>2
  <2>9. IsFiniteSet(F \ S) /\ Cardinality(F \ S) = Cardinality(F) - (IF Spare(r) /\ NodeOf(r) = id THEN 1 ELSE 0)
    <3>1. CASE Spare(r) /\ NodeOf(r) = id
      <4>1. S = {Req(r).of} /\ Req(r).of \in F
        BY <2>3, <2>5, <3>1
      <4>2. IsFiniteSet(F \ {Req(r).of}) /\ Cardinality(F \ {Req(r).of}) = IF Req(r).of \in F THEN Cardinality(F) - 1 ELSE Cardinality(F)
        BY <2>7, FS_RemoveElement
      <4> QED
        BY <3>1, <4>1, <4>2
    <3>2. CASE ~(Spare(r) /\ NodeOf(r) = id)
      <4>1. F \ S = F
        BY <2>3, <3>2
      <4> QED
        BY <2>7, <3>2, <4>1
    <3> QED
      BY <3>1, <3>2
  <2>10. IsFiniteSet(R \cup T) /\ Cardinality(R \cup T) = Cardinality(R) + Cardinality(T)
    <3>1. IsFiniteSet(R \cup T) /\ Cardinality(R \cup T) = Cardinality(R) + Cardinality(T) - Cardinality(R \cap T)
      BY <2>7, <2>8, FS_Union
    <3>2. Cardinality(R \cap T) = 0
      BY <2>6, FS_EmptySet
    <3> QED
      BY <1>2, <2>7, <2>8, <3>1, <3>2
  <2>11. known[id] \in Nat /\ known'[id] = IF Op(r) = "forget" /\ ~Spare(r) /\ id = NodeOf(r) THEN 0 ELSE known[id]
    BY <1>1, <1>4, MaxIdAssumption DEF Ids
  <2>12. known'[id] + Cardinality(F \ S) + Cardinality(R \cup T) = known[id] + Cardinality(F) + Cardinality(R)
    <3>1. CASE Spare(r) /\ NodeOf(r) = id
      BY <1>2, <1>5, <2>7, <2>8, <2>9, <2>10, <2>11, <3>1
    <3>2. CASE ~Spare(r) /\ NodeOf(r) = id /\ Op(r) = "forget"
      BY <1>2, <2>7, <2>8, <2>9, <2>10, <2>11, <3>2
    <3>3. CASE ~(NodeOf(r) = id /\ Op(r) = "forget")
      BY <1>2, <1>5, <2>7, <2>8, <2>9, <2>10, <2>11, <3>3
    <3> QED
      BY <3>1, <3>2, <3>3
  <2>13. Weight(nodes, id, Kept) \in Int
    BY <1>1, LookupsIs, <2>1, <2>2, <2>7, <2>11 DEF LookupsOK, Weight, TableOK, NodeOK, Kept
  <2>14. PICK w : w = Weight(nodes, id, Kept)
    OBVIOUS
  <2>15. PICK f2 : f2 = Cardinality(F \ S)
    OBVIOUS
  <2>16. PICK r2 : r2 = Cardinality(R \cup T)
    OBVIOUS
  <2>17. f2 \in Nat /\ r2 \in Nat /\ known'[id] \in Nat
    BY <2>9, <2>10, <2>11, <2>15, <2>16, FS_CardinalityType
  <2>18. w - known'[id] - f2 - r2 = w - known[id] - Cardinality(F) - Cardinality(R)
    BY <2>7, <2>11, <2>12, <2>13, <2>14, <2>15, <2>16, <2>17
  <2> QED
    BY <1>2, <2>1, <2>2, <2>5, <2>6, <2>9, <2>10, <2>14, <2>15, <2>16, <2>18
<1>7. LookupsOK'
  BY <1>1, <1>2, <1>3, <1>6, LookupsMoved
<1> QED
  BY <1>3, <1>4, <1>7

\* What requests are about stays so.
LEMMA IssueMentions ==
  ASSUME IInv, NEW r \in Reqs, NEW l, Issued(r, l)
  PROVE  /\ \A q \in Reqs : q = r \/ Started(q) => Victim(q)' = Victim(q) /\ Mentions(q)' = Mentions(q) /\ Mutexes(q)' = Mutexes(q)
         /\ \A q : q \in Unanswered' <=> q \in Unanswered \/ (q = r /\ Op(r) # "forget")
         /\ r \notin Unanswered /\ \A q \in Unanswered : q \in Reqs /\ Started(q)
<1>1. /\ Reqs' = Reqs /\ loc'[r] = l /\ \A q \in Reqs \ {r} : Same(q) /\ answer'[q] = answer[q]
      /\ Started(r)' /\ \A q \in Reqs : Req(q)' = Req(q) /\ NodeOf(q)' = NodeOf(q) /\ Op(q)' = Op(q)
      /\ answer[r] = "none" /\ answer'[r] = IF Op(r) = "forget" THEN "ok" ELSE "none"
  BY IssueMoves
<1>2. ~Started(r) /\ l.victim = Victim(r)
  BY DEF Issued, Fresh
<1>3. \A q \in Reqs : q = r \/ Started(q) => Victim(q)' = Victim(q)
  <2>1. ASSUME NEW q \in Reqs \ {r}, Started(q) PROVE Victim(q)' = Victim(q)
    <3>1. Req(q)' = Req(q) /\ loc'[q] = loc[q] /\ Started(q)'
      BY <1>1, <2>1 DEF Same
    <3> QED
      BY <2>1, <3>1 DEF Victim
  <2>2. Victim(r)' = Victim(r)
    <3>1. Victim(r)' = IF Req(r).op = "revalidate" THEN Req(r).victim ELSE l.victim
      BY <1>1 DEF Victim
    <3>2. Req(r).op = "revalidate" => Victim(r) = Req(r).victim
      BY DEF Victim
    <3> QED
      BY <1>2, <3>1, <3>2
  <2> QED
    BY <2>1, <2>2
<1>4. \A q \in Reqs : q = r \/ Started(q) => Mentions(q)' = Mentions(q) /\ Mutexes(q)' = Mutexes(q)
  BY <1>1, <1>3 DEF Mentions, Mutexes
<1>5. \A q : q \in Unanswered' <=> q \in Unanswered \/ (q = r /\ Op(r) # "forget")
  <2>1. \A q \in Reqs \ {r} : Started(q)' = Started(q) /\ answer'[q] = answer[q]
    BY <1>1 DEF Same
  <2> QED
    BY <1>1, <1>2, <2>1 DEF Unanswered
<1>6. r \notin Unanswered /\ \A q \in Unanswered : q \in Reqs /\ Started(q)
  BY <1>2 DEF Unanswered
<1> QED
  BY <1>3, <1>4, <1>5, <1>6

\* Issue forgets nothing a request is about, and takes mutexes that are free.
LEMMA IssueHeld ==
  ASSUME IInv, NEW r \in Reqs, NEW l, Issued(r, l), Req(r).of # 0 => NodeOf(r) \in Ids
  PROVE  HeldOK' /\ MutexOK'
<1>1. Places /\ TypeOK /\ HeldOK /\ MutexOK /\ KernelMay(r) /\ ~Started(r) /\ Op(r) = Req(r).op
  BY InvIs DEF Issued, Op
<1>2. /\ Reqs' = Reqs /\ loc'[r] = l /\ \A q \in Reqs \ {r} : Same(q) /\ answer'[q] = answer[q]
      /\ Started(r)' /\ \A q \in Reqs : Req(q)' = Req(q) /\ NodeOf(q)' = NodeOf(q) /\ Op(q)' = Op(q) /\ Opened(q)' = Opened(q)
      /\ answer[r] = "none" /\ answer'[r] = IF Op(r) = "forget" THEN "ok" ELSE "none"
  BY IssueMoves
<1>3. /\ \A q \in Reqs : q = r \/ Started(q) => Victim(q)' = Victim(q) /\ Mentions(q)' = Mentions(q) /\ Mutexes(q)' = Mutexes(q)
      /\ \A q : q \in Unanswered' <=> q \in Unanswered \/ (q = r /\ Op(r) # "forget")
      /\ r \notin Unanswered /\ \A q \in Unanswered : q \in Reqs /\ Started(q)
  BY IssueMentions
<1>4. /\ known \in [1 .. MaxId -> Nat]
      /\ \A id \in 1 .. MaxId : known'[id] = known[id] \/ (known'[id] = 0 /\ id = NodeOf(r) /\ Op(r) = "forget" /\ ~Spare(r))
  BY IssueLookups, InvIs
<1>5. known' # known => Op(r) = "forget" /\ ~Spare(r) /\ Forgettable(NodeOf(r))
                         /\ known' = [known EXCEPT ![NodeOf(r)] = 0]
  <2>1. known' # known => Op(r) = "forget" /\ ~Spare(r) /\ known' = [known EXCEPT ![NodeOf(r)] = 0]
    BY DEF Issued
  <2> QED
    BY <1>1, <2>1 DEF KernelMay
<1>6. ASSUME NEW id, Holds(id), known' = known \/ (id # NodeOf(r) /\ id \in Ids) PROVE Holds(id)'
  <2>1. known'[id] = known[id]
    BY <1>4, <1>5, <1>6, MaxIdAssumption DEF Ids
  <2> QED
    BY <1>6, <2>1 DEF Holds
<1>7. HeldOK'
  <2>1. ASSUME NEW q \in Unanswered', Req(q).op' # "dot", NEW id \in Mentions(q)' PROVE Holds(id)'
    <3>1. CASE q = r
      <4>1. Op(r) # "forget" /\ id \in Mentions(r) /\ Op(r) # "dot"
        BY <1>1, <1>2, <1>3, <2>1, <3>1
      <4>2. Holds(id)
        BY <1>1, <4>1 DEF KernelMay
      <4> QED
        BY <1>5, <1>6, <4>1, <4>2
    <3>2. CASE q # r
      <4>1. q \in Unanswered /\ Req(q).op # "dot" /\ id \in Mentions(q)
        BY <1>2, <1>3, <2>1, <3>2
      <4>2. Holds(id)
        BY <1>1, <4>1 DEF HeldOK
      <4>3. id \in Ids
        <5>1. q \in Reqs /\ Started(q) /\ LocOK(loc[q])
          BY <1>1, <1>3, <4>1 DEF Places, PlaceOK
        <5>2. NodeOf(q) \in Ids /\ Req(q).n2 \in Ids \cup {None} /\ Req(q).victim \in Ids \cup {None}
          BY <1>1, <5>1, OfFacts, OpFacts
        <5>3. Victim(q) \in Ids \cup {None}
          BY <5>1, <5>2 DEF Victim, LocOK
        <5> QED
          BY <4>1, <5>2, <5>3 DEF Mentions
      <4>4. known' = known \/ id # NodeOf(r)
        BY <1>5, <4>1 DEF Forgettable
      <4> QED
        BY <1>6, <4>2, <4>3, <4>4
    <3> QED
      BY <3>1, <3>2
  <2>2. ASSUME NEW q \in Reqs, Req(q).op' \in {"open", "create"}, answer'[q] = "ok",
               \A p \in Reqs : Req(p).op' = "release" /\ Req(p).handle' = q => ~Started(p)'
        PROVE  Holds(Opened(q))'
    <3>1. q # r /\ Req(q).op \in {"open", "create"} /\ answer[q] = "ok"
      BY <1>1, <1>2, <2>2
    <3>2. \A p \in Reqs : Req(p).op = "release" /\ Req(p).handle = q => ~Started(p)
      BY <1>1, <1>2, <2>2 DEF Same
    <3>3. Holds(Opened(q)) /\ Opened(q)' = Opened(q)
      BY <1>1, <1>2, <3>1, <3>2 DEF HeldOK
    <3>4. known' = known \/ Opened(q) # NodeOf(r)
      BY <1>5, <3>1, <3>2 DEF Forgettable
    <3>7. Opened(q) \in Ids
      <4>1. Started(q) /\ NodeOf(q) \in Ids
        BY <1>1, <3>1, AnsweredFacts, OfFacts
      <4>2. Req(q).op = "create" => loc[q].id \in Ids
        BY <1>1, <3>1, AnsweredFacts DEF Op, Finders
      <4> QED
        BY <4>1, <4>2 DEF Opened
    <3>5. \A id : id = Opened(q) => Holds(id)'
      BY <1>6, <3>3, <3>4, <3>7
    <3>6. Holds(Opened(q))' <=> (Opened(q)' = Root \/ known'[Opened(q)'] > 0)
      BY DEF Holds
    <3> QED
      BY <3>3, <3>5, <3>6 DEF Holds
  <2> QED
    BY <1>2, <2>1, <2>2 DEF HeldOK
<1>8. MutexOK'
  <2>1. SUFFICES ASSUME NEW p \in Unanswered', NEW q \in Unanswered', p # q PROVE Mutexes(p)' \cap Mutexes(q)' = {}
    BY DEF MutexOK
  <2>2. Mutexes(p)' = Mutexes(p) /\ Mutexes(q)' = Mutexes(q)
    BY <1>3, <2>1
  <2>3. Mutexes(p) \cap Mutexes(q) = {}
    BY <1>1, <1>3, <2>1 DEF MutexOK, KernelMay
  <2> QED
    BY <2>2, <2>3
<1> QED
  BY <1>7, <1>8

\* Issue keeps opens, references, locks, paths and the queue.
LEMMA IssueOpens ==
  ASSUME IInv, NEW r \in Reqs, NEW l, Issued(r, l)
  PROVE  OpensOK' /\ RefsOK' /\ TreesOK' /\ PathStable' /\ QueueOK'
<1>1. /\ Places /\ TypeOK /\ OpensOK /\ RefsOK /\ TreesOK /\ PathStable /\ QueueOK /\ TableOK(nodes) /\ nodes # Abort
      /\ ~Started(r) /\ Op(r) = Req(r).op /\ Op(r) \in Ops /\ Begins(Op(r))
      /\ nodes' = nodes /\ queue' = queue /\ woken' = woken
  BY InvIs, OpFacts, AllBegin DEF Issued
<1>2. /\ Reqs' = Reqs /\ loc'[r] = l /\ \A q \in Reqs \ {r} : Same(q)
      /\ Started(r)' /\ \A q \in Reqs : Req(q)' = Req(q) /\ NodeOf(q)' = NodeOf(q) /\ Op(q)' = Op(q) /\ Opened(q)' = Opened(q)
                                        /\ loc'[q].locked = loc[q].locked /\ loc'[q].pinned = loc[q].pinned
      /\ \A t : Later(Op(r), 1, t) /\ Applies(r, t, l) => Ahead(r, t)'
      /\ loc[r] = NoLoc /\ ~Running(r)
  BY IssueMoves
<1>3. l.err = "ok" /\ ~l.intr /\ ~l.locked
  BY DEF Issued, Fresh
<1>4. OpensOK'
  <2>1. Op(r) \in {"open", "create"} => Ahead(r, "count")'
    <3>1. Applies(r, "count", l)
      <4>1. "count" \notin Special
        BY DEF Special, Replies
      <4> QED
        BY <1>3, <4>1, AppliesIs
    <3> QED
      BY <1>1, <1>2, <3>1 DEF Begins
  <2>2. Op(r) = "release" => Ahead(r, "uncount")'
    <3>1. Op(r) = "release" => Applies(r, "uncount", l)
      BY <1>1 DEF Applies
    <3> QED
      BY <1>1, <1>2, <3>1 DEF Begins
  <2>3. ASSUME NEW q \in Reqs, Op(q) \in {"open", "create"} PROVE Counted(q)' = Counted(q)
    <3>1. CASE q = r
      BY <1>1, <2>1, <2>3, <3>1 DEF Counted
    <3>2. CASE q # r
      BY <1>2, <3>2 DEF Counted, Same
    <3> QED
      BY <3>1, <3>2
  <2>4. ASSUME NEW q \in Reqs, Op(q) \in {"open", "create"}, q # r PROVE Closed(q)' = Closed(q)
    <3>1. loc'[q].intr = loc[q].intr /\ Ahead(q, "uncount")' = Ahead(q, "uncount")
      BY <1>2, <2>4 DEF Same
    <3>2. \A p \in Reqs : Req(p).op' = "release" /\ Req(p).handle' = q /\ Started(p)' /\ ~Ahead(p, "uncount")'
                          <=> Req(p).op = "release" /\ Req(p).handle = q /\ Started(p) /\ ~Ahead(p, "uncount")
      <4>1. SUFFICES ASSUME NEW p \in Reqs
                     PROVE  Req(p).op' = "release" /\ Req(p).handle' = q /\ Started(p)' /\ ~Ahead(p, "uncount")'
                            <=> Req(p).op = "release" /\ Req(p).handle = q /\ Started(p) /\ ~Ahead(p, "uncount")
        OBVIOUS
      <4>2. CASE p = r
        BY <1>1, <1>2, <2>2, <4>2
      <4>3. CASE p # r
        BY <1>2, <4>3 DEF Same
      <4> QED
        BY <4>2, <4>3
    <3> QED
      BY <1>2, <3>1, <3>2 DEF Closed
  <2>5. \A id : OpenBy(id)' = OpenBy(id)
    <3>1. ASSUME NEW id, NEW q \in Reqs, Op(q) \in {"open", "create"}
          PROVE  Counted(q)' /\ ~Closed(q)' /\ Opened(q)' = id <=> Counted(q) /\ ~Closed(q) /\ Opened(q) = id
      <4>1. CASE q = r
        BY <1>1, <2>3, <3>1, <4>1 DEF Counted
      <4>2. CASE q # r
        BY <1>2, <2>3, <2>4, <3>1, <4>2
      <4> QED
        BY <4>1, <4>2
    <3>2. \A id, q : q \in OpenBy(id)' <=> q \in OpenBy(id)
      BY <1>2, <3>1 DEF OpenBy, Op
    <3> QED
      BY <3>2
  <2> QED
    BY <1>1, <2>5 DEF OpensOK
<1>5. RefsOK'
  <2>1. \A id : Pinners(id)' = Pinners(id)
    BY <1>2 DEF Pinners
  <2>2. \A id : Children(id)' = Children(id)
    BY <1>1 DEF Children
  <2> QED
    BY <1>1, <1>2, <2>1, <2>2 DEF RefsOK
<1>6. TreesOK' /\ PathStable'
  <2>0. LocksKept
    <3>1. ~loc[r].locked
      BY <1>2 DEF NoLoc
    <3> QED
      BY <1>2, <3>1 DEF LocksKept, Same
  <2>1. PICK X : X = {}
    OBVIOUS
  <2>2. \A n \in DOMAIN nodes \ X : n \in DOMAIN nodes' /\ nodes'[n].name = nodes[n].name /\ nodes'[n].parent = nodes[n].parent
    BY <1>1
  <2>3. \A p \in Paths : Above(nodes, Base(p)) \cap X = {}
    BY <2>1
  <2>4. \A n \in DOMAIN nodes' : nodes'[n].tree = IF n \in DOMAIN nodes THEN nodes[n].tree ELSE 0
    BY <1>1
  <2>5. \A q \in Reqs : loc[q].locked => {loc[q].w, loc[q].w2} \subseteq DOMAIN nodes' \cup {None}
    BY <1>1 DEF TreesOK
  <2>6. TableOK(nodes')
    BY <1>1
  <2> QED
    BY <1>1, <2>0, <2>2, <2>3, <2>4, <2>5, <2>6, TreesKept
<1>7. QueueOK'
  <2>1. queue \in Seq(Reqs) /\ DOMAIN queue = 1 .. Len(queue)
    BY <1>1, LenProperties DEF QueueOK
  <2>2. Step(r) \notin Gets \cup Forgets
    BY <1>2 DEF Step, Gets, Forgets
  <2>3. \A k \in DOMAIN queue : queue[k] \in Reqs \ {r} /\ Step(queue[k]) \in Gets \cup Forgets
    BY <1>1, <2>1, <2>2, ElementOfSeq DEF QueueOK
  <2>4. PICK s : s = queue
    OBVIOUS
  <2>5. \A k \in DOMAIN s : \A y : y = s[k] => Step(y)' \in Gets \cup Forgets
    BY <1>2, <2>3, <2>4 DEF Same
  <2>6. s = queue' /\ s \in Seq(Reqs) /\ (\A j, k \in DOMAIN s : s[j] = s[k] => j = k)
        /\ \A w \in woken' : \E k \in DOMAIN s : s[k] = w
    BY <1>1, <2>1, <2>4 DEF QueueOK, Queued, Contains
  <2> QED
    BY <1>2, <2>5, <2>6, QueueNew
<1> QED
  BY <1>4, <1>5, <1>6, <1>7

\* Issue keeps the names to be removed.
LEMMA IssueNames ==
  ASSUME IInv, NEW r \in Reqs, NEW l, Issued(r, l), Req(r).of # 0 => NodeOf(r) \in Ids
  PROVE  \A q \in Reqs : NamesOK(q)'
<1>1. Places /\ TypeOK /\ TableOK(nodes) /\ nodes' = nodes /\ work' = work /\ (\A q \in Reqs : NamesOK(q)) /\ Op(r) = Req(r).op /\ ~Started(r)
  BY InvIs DEF Issued, Op
<1>2. /\ Reqs' = Reqs /\ loc'[r] = l /\ \A q \in Reqs \ {r} : Same(q)
      /\ Started(r)' /\ \A q \in Reqs : Req(q)' = Req(q) /\ NodeOf(q)' = NodeOf(q) /\ Op(q)' = Op(q) /\ loc'[q].id = loc[q].id
  BY IssueMoves
<1>3. ~l.locked /\ ~l.hide /\ l.victim = Victim(r) /\ l.id = None
  BY DEF Issued, Fresh
<1>4. ASSUME NEW x, Stranger(x) PROVE Stranger(x)'
  <2>1. x \in Ids /\ x \in 1 .. MaxId /\ x # None
    BY <1>1, <1>4, MaxIdAssumption DEF Stranger, TableOK, Ids, None
  <2>2. known'[x] = 0
    BY <1>4, <2>1, IssueLookups DEF Stranger
  <2>3. Children(x)' = {}
    BY <1>1, <1>4 DEF Stranger, Children
  <2>4. \A q \in Unanswered' : loc'[q].id = x => Req(q).op' = "revalidate"
    <3>1. SUFFICES ASSUME NEW q \in Unanswered', loc'[q].id = x PROVE Req(q).op' = "revalidate"
      OBVIOUS
    <3>2. q # r
      BY <1>2, <1>3, <2>1, <3>1
    <3>3. q \in Unanswered /\ q \in Reqs
      BY <3>1, <3>2, IssueMentions
    <3> QED
      BY <1>2, <1>4, <3>1, <3>3 DEF Stranger
  <2> QED
    BY <1>1, <1>4, <2>2, <2>3, <2>4 DEF Stranger
<1>5. ASSUME NEW q \in Reqs \ {r} PROVE NamesOK(q)'
  <2>1. NamesOK(q) /\ Doomed(q)' = Doomed(q) /\ Doom(q)' = Doom(q) /\ Removing(q)' = Removing(q) /\ Renaming(q)' = Renaming(q)
    <3>1. Doomed(q)' = Doomed(q)
      BY <1>2 DEF Doomed
    <3>2. Doom(q)' = Doom(q)
      BY <1>1, <3>1 DEF Doom
    <3>3. Removing(q)' = Removing(q) /\ Renaming(q)' = Renaming(q)
      BY <1>2 DEF Removing, Renaming, Same
    <3> QED
      BY <1>1, <3>1, <3>2, <3>3
  <2>2. Started(q)' /\ (Removing(q)' \/ (Renaming(q)' /\ work'.noforget)) =>
          IF loc'[q].hide /\ ~Ahead(q, "hide_node")' THEN work'.noforget /\ Renaming(q)' => Doom(q)' = None
          ELSE Doom(q)' = loc'[q].victim
    BY <1>1, <1>2, <2>1 DEF NamesOK, Same
  <2>3. loc'[q].locked /\ Renaming(q)' =>
          \A x \in {Doom(q)', lookup_node(nodes, Req(q).n, Req(q).nm)'} :
            x \in {None, loc'[q].w, loc'[q].w2} \/ Stranger(x)'
    <3>1. SUFFICES ASSUME loc'[q].locked, Renaming(q)', NEW x \in {Doom(q)', lookup_node(nodes, Req(q).n, Req(q).nm)'}
                   PROVE  x \in {None, loc'[q].w, loc'[q].w2} \/ Stranger(x)'
      OBVIOUS
    <3>2. lookup_node(nodes, Req(q).n, Req(q).nm)' = lookup_node(nodes, Req(q).n, Req(q).nm) /\ loc'[q] = loc[q]
      BY <1>1, <1>2 DEF Same
    <3>3. x \in {None, loc[q].w, loc[q].w2} \/ Stranger(x)
      BY <2>1, <3>1, <3>2 DEF NamesOK
    <3> QED
      BY <1>4, <3>2, <3>3
  <2> QED
    BY <2>2, <2>3 DEF NamesOK
<1>6. NamesOK(r)'
  <2>1. Doom(r)' = Doom(r)
    <3>1. Doomed(r)' = Doomed(r)
      BY <1>2 DEF Doomed
    <3> QED
      BY <1>1, <3>1 DEF Doom
  <2>2. Removing(r)' \/ Renaming(r)' => Doom(r)' = l.victim
    <3>1. Removing(r)' \/ Renaming(r)' => Op(r) \in {"unlink", "rmdir", "rename"}
      BY <1>1, <1>2 DEF Removing, Renaming
    <3> QED
      BY <1>1, <1>3, <2>1, <3>1, VictimIs
  <2> QED
    BY <1>2, <1>3, <2>2 DEF NamesOK
<1> QED
  BY <1>5, <1>6

\* Issue keeps the invariant.
LEMMA IssueInv ==
  ASSUME IInv, NEW r \in Reqs, Issue(r)
  PROVE  IInv'
<1>1. PICK l : Issued(r, l)
  BY IssueIs
<1>2. Req(r).of # 0 => NodeOf(r) \in Ids
  BY IssueIs
<1>3. TypeOK /\ TableOK(nodes) /\ nodes # Abort /\ ctr \in 0 .. MaxId
  BY InvIs
<1>4. /\ DOMAIN pc' = Reqs /\ DOMAIN loc' = Reqs /\ Reqs' = Reqs /\ (\A q \in Reqs : pc'[q] \in Nat)
      /\ DOMAIN answer' = Reqs /\ \A q \in Reqs \ {r} : answer'[q] = answer[q]
      /\ answer'[r] = IF Op(r) = "forget" THEN "ok" ELSE "none"
  BY <1>1, IssueMoves
<1>5. nodes' = nodes /\ work' = work /\ ctr' = ctr
  BY <1>1 DEF Issued
<1>6. LookupsOK' /\ known' \in [1 .. MaxId -> Nat]
  BY <1>1, <1>2, IssueLookups
<1>7. answer' \in [Reqs -> {"none", "ok", "err", "intr"}]
  <2>1. answer' = IF Op(r) = "forget" THEN [answer EXCEPT ![r] = "ok"] ELSE answer
    BY <1>1 DEF Issued
  <2> QED
    BY <1>3, <2>1 DEF TypeOK
<1>8. TypeOK'
  BY <1>3, <1>4, <1>5, <1>6, <1>7 DEF TypeOK
<1>9. HeldOK' /\ MutexOK'
  BY <1>1, <1>2, IssueHeld
<1>10. OpensOK' /\ RefsOK' /\ TreesOK' /\ PathStable' /\ QueueOK'
  BY <1>1, IssueOpens
<1>11. \A q \in Reqs' : NamesOK(q)'
  BY <1>1, <1>2, <1>4, IssueNames
<1>12. \A q \in Reqs' : PlaceOK(q)'
  BY <1>1, <1>4, IssuePlaces
<1> QED
  BY <1>3, <1>5, <1>6, <1>8, <1>9, <1>10, <1>11, <1>12 DEF IInv

(***************************************************************************)
(* All together.                                                           *)
(***************************************************************************)

\* A queue nothing happens to is in order.
LEMMA QueueStays ==
  ASSUME QueueOK, Reqs' = Reqs, queue' = queue, woken' = woken, \A q : Step(q)' = Step(q)
  PROVE  QueueOK'
<1>1. queue \in Seq(Reqs) /\ DOMAIN queue = 1 .. Len(queue)
  BY LenProperties DEF QueueOK
<1>2. PICK s : s = queue
  OBVIOUS
<1>3. \A k \in DOMAIN s : \A y : y = s[k] => Step(y)' \in Gets \cup Forgets
  BY <1>2 DEF QueueOK
<1>4. s = queue' /\ s \in Seq(Reqs) /\ (\A j, k \in DOMAIN s : s[j] = s[k] => j = k)
      /\ \A w \in woken' : \E k \in DOMAIN s : s[k] = w
  BY <1>1, <1>2 DEF QueueOK, Queued, Contains
<1> QED
  BY <1>3, <1>4, QueueNew

\* A step that changes nothing of this keeps the invariant: fuse_destroy, and stuttering.
LEMMA RestInv ==
  ASSUME IInv, work' = work, UNCHANGED table, pc' = pc, loc' = loc, known' = known, answer' = answer
  PROVE  IInv'
<1>1. nodes' = nodes /\ ctr' = ctr /\ queue' = queue /\ woken' = woken
  BY DEF table
<1>2. Reqs' = Reqs /\ \A q : Step(q)' = Step(q)
  BY StaySame DEF Same
<1>3. QueueOK'
  BY <1>1, <1>2, InvIs, QueueStays
<1>4. Alike(nodes, nodes')
  BY <1>1 DEF Alike, Body
<1> QED
  BY <1>1, <1>3, <1>4, StayInv

\* Every step keeps the invariant.
LEMMA NextInv ==
  ASSUME IInv, RenamesApart, [Next]_vars
  PROVE  IInv'
<1>1. CASE UNCHANGED vars
  BY <1>1, RestInv DEF vars, table
<1>2. CASE Destroy
  BY <1>2, RestInv DEF Destroy
<1>3. ASSUME NEW r \in Reqs, Issue(r) PROVE IInv'
  BY <1>3, IssueInv
<1>4. ASSUME NEW r \in Reqs, Enter(r) PROVE IInv'
  BY <1>4, EnterInv
<1>5. ASSUME NEW r \in Reqs, Wake(r) PROVE IInv'
  BY <1>5, WakeInv
<1>6. ASSUME NEW r \in Reqs, Free(r) PROVE IInv'
  BY <1>6, FreeInv
<1>7. ASSUME NEW r \in Reqs, Section(r) PROVE IInv'
  BY <1>7, SectionInv
<1>8. ASSUME NEW r \in Reqs, FileSystem(r) PROVE IInv'
  BY <1>8, FileSystemInv
<1>9. ASSUME NEW r \in Reqs, Reply(r) PROVE IInv'
  BY <1>9, ReplyInv
<1>10. ASSUME NEW r \in Reqs, ReplyInterrupted(r) PROVE IInv'
  BY <1>10, ReplyInterruptedInv
<1> QED
  BY <1>1, <1>2, <1>3, <1>4, <1>5, <1>6, <1>7, <1>8, <1>9, <1>10 DEF Next

\* A settled table is a tree.
LEMMA SettledTable ==
  ASSUME NEW ns, NEW kept \in {0, 1}, Settled(ns, kept)
  PROVE  TableOK(ns)
<1>1. /\ Root \in DOMAIN ns /\ DOMAIN ns \subseteq Ids
      /\ \A S \in SUBSET (DOMAIN ns \ {Root}) : S # {} => \E n \in S : ns[n].parent \notin S
      /\ \A m, n \in DOMAIN ns \ {Root} : ns[m].parent = ns[n].parent /\ ns[m].name = ns[n].name => m = n
  BY DEF Settled, Ids
<1>2. ASSUME NEW id \in DOMAIN ns
      PROVE  /\ ns[id] = Node(ns[id].name, ns[id].parent, ns[id].nlookup, ns[id].refctr)
             /\ ns[id].nlookup \in Nat /\ ns[id].nlookup > 0
             /\ ns[id].refctr = Cardinality(ChildrenIn(ns, id)) + 1
             /\ IF id = Root THEN ns[id].name = NoName /\ ns[id].parent = None
                ELSE ns[id].name # NoName /\ ns[id].parent \in DOMAIN ns
  BY DEF Settled
<1>3. ASSUME NEW id \in DOMAIN ns PROVE NodeOK(ns[id]) /\ ns[id].tree = 0
  <2>1. IsFiniteSet(Ids)
    <3>1. 1 \in Int /\ MaxId - 1 \in Int
      BY MaxIdAssumption
    <3> QED
      BY <3>1, FS_Interval DEF Ids
  <2>2. Cardinality(ChildrenIn(ns, id)) \in Nat
    <3>1. ChildrenIn(ns, id) \subseteq Ids
      BY <1>1 DEF ChildrenIn
    <3> QED
      BY <2>1, <3>1, FS_Subset, FS_CardinalityType
  <2>3. PICK m : m = ns[id]
    OBVIOUS
  <2>4. m = Node(m.name, m.parent, m.nlookup, m.refctr)
    BY <1>2, <2>3
  <2>5. DOMAIN m = DOMAIN Node(NoName, None, 0, 0) /\ m.tree = 0 /\ m.open = 0
    BY <2>4 DEF Node
  <2>6. m.nlookup \in Nat /\ m.nlookup > 0 /\ m.refctr \in Nat /\ m.parent \in Ids \cup {None} /\ (m.name = NoName => m.parent = None)
    BY <1>1, <1>2, <2>2, <2>3
  <2> QED
    BY <2>3, <2>5, <2>6 DEF NodeOK
<1>4. ns[Root].name = NoName /\ ns[Root].nlookup > 0 /\ ns[Root].tree = 0
  BY <1>1, <1>2, <1>3
<1>5. \A id \in DOMAIN ns : ns[id].name # NoName => ns[id].parent \in DOMAIN ns /\ id # Root
  BY <1>2
<1>6. \A m, n \in DOMAIN ns : ns[m].name # NoName /\ ns[m].name = ns[n].name /\ ns[m].parent = ns[n].parent => m = n
  BY <1>1, <1>5
<1> QED
  BY <1>1, <1>3, <1>4, <1>5, <1>6 DEF TableOK, Rooted

\* The invariant holds at the start: settled tables, nothing under way.
LEMMA InitInv ==
  ASSUME Init
  PROVE  IInv
<1>1. /\ work \in Workloads /\ nodes = work.nodes /\ ctr = Cardinality(DOMAIN nodes) /\ queue = <<>> /\ woken = {}
      /\ pc = [r \in Reqs |-> 0] /\ loc = [r \in Reqs |-> NoLoc] /\ answer = [r \in Reqs |-> "none"]
      /\ known = [id \in 1 .. MaxId |-> IF id \in DOMAIN nodes \ {Root}
                                         THEN nodes[id].nlookup - (IF work.noforget THEN 1 ELSE 0) ELSE 0]
  BY DEF Init
<1>2. /\ Settled(nodes, Kept) /\ Kept \in {0, 1} /\ Reqs \subseteq Nat \ {0}
  BY <1>1, WorkloadAssumption DEF Kept, Reqs
<1>3. TableOK(nodes)
  BY <1>2, SettledTable
<1>4. \A id \in DOMAIN nodes :
        /\ nodes[id].nlookup \in Nat /\ nodes[id].nlookup > 0 /\ nodes[id].nlookup >= (IF id = Root THEN 0 ELSE Kept)
        /\ nodes[id].refctr = Cardinality(ChildrenIn(nodes, id)) + 1 /\ nodes[id].open = 0 /\ nodes[id].tree = 0
        /\ id # Root => nodes[id].name # NoName
  <2>1. SUFFICES ASSUME NEW id \in DOMAIN nodes
                 PROVE  /\ nodes[id].nlookup \in Nat /\ nodes[id].nlookup > 0 /\ nodes[id].nlookup >= (IF id = Root THEN 0 ELSE Kept)
                        /\ nodes[id].refctr = Cardinality(ChildrenIn(nodes, id)) + 1 /\ nodes[id].open = 0 /\ nodes[id].tree = 0
                        /\ id # Root => nodes[id].name # NoName
    OBVIOUS
  <2>2. /\ nodes[id] = Node(nodes[id].name, nodes[id].parent, nodes[id].nlookup, nodes[id].refctr)
        /\ nodes[id].nlookup \in Nat /\ nodes[id].nlookup > (IF id = Root THEN 0 ELSE Kept)
        /\ nodes[id].refctr = Cardinality(ChildrenIn(nodes, id)) + 1
        /\ id # Root => nodes[id].name # NoName
    BY <1>2, <2>1 DEF Settled
  <2>3. PICK m : m = nodes[id]
    OBVIOUS
  <2>4. m = Node(m.name, m.parent, m.nlookup, m.refctr)
    BY <2>2, <2>3
  <2>5. m.open = 0 /\ m.tree = 0
    BY <2>4 DEF Node
  <2> QED
    BY <1>2, <2>2, <2>3, <2>5
<1>5. NoLoc.id = None /\ ~NoLoc.locked /\ ~NoLoc.pinned /\ ~NoLoc.intr /\ LocOK(NoLoc)
  BY DEF NoLoc, LocOK, None
<1>6. \A r \in Reqs : loc[r] = NoLoc /\ pc[r] = 0 /\ answer[r] = "none" /\ ~Started(r)
  BY <1>1 DEF Started
<1>7. \A id \in DOMAIN nodes \ {Root} : known[id] = nodes[id].nlookup - Kept /\ known[id] \in Nat
  BY <1>1, <1>2, <1>3, <1>4, MaxIdAssumption DEF TableOK, Ids, Kept
<1>8. known \in [1 .. MaxId -> Nat]
  <2>1. \A id \in 1 .. MaxId : known[id] \in Nat
    BY <1>1, <1>7
  <2> QED
    BY <1>1, <2>1
<1>9. ctr \in 0 .. MaxId
  <2>1. 1 \in Int /\ MaxId - 1 \in Int /\ MaxId \in Nat /\ MaxId > 1
    BY MaxIdAssumption
  <2>2. IsFiniteSet(1 .. MaxId - 1) /\ Cardinality(1 .. MaxId - 1) = IF 1 > MaxId - 1 THEN 0 ELSE MaxId - 1 - 1 + 1
    BY ONLY <2>1, FS_Interval
  <2>3. IsFiniteSet(DOMAIN nodes) /\ Cardinality(DOMAIN nodes) <= Cardinality(1 .. MaxId - 1)
    BY <1>3, <2>2, FS_Subset DEF TableOK, Ids
  <2>4. Cardinality(DOMAIN nodes) \in Nat
    BY <2>3, FS_CardinalityType
  <2>5. Cardinality(1 .. MaxId - 1) \in 0 .. MaxId
    BY <2>1, <2>2
  <2> QED
    BY <1>1, <2>1, <2>3, <2>4, <2>5
<1>10. TypeOK
  BY <1>1, <1>3, <1>6, <1>8, <1>9 DEF TypeOK
<1>11. \A r \in Reqs : PlaceOK(r)
  BY <1>5, <1>6 DEF PlaceOK
<1>12. QueueOK
  BY <1>1 DEF QueueOK
<1>13. \A id \in Ids : InFlight(id) = {} /\ Returning(id) = {}
  <2>1. \A r \in Reqs : Step(r) # "forget"
    <3>1. SUFFICES ASSUME NEW r \in Reqs PROVE ~Running(r)
      BY DEF Step
    <3>2. PICK n \in Nat \ {0} : DOMAIN Program(r) = 1 .. n
      BY <1>10, WorkOK, ProgramSeq, AheadLater
    <3> QED
      BY <1>6, <3>2 DEF Running
  <2>2. None \notin Ids
    BY DEF Ids, None
  <2>3. \A id \in Ids : InFlight(id) = {}
    BY <1>5, <1>6, <2>2 DEF InFlight
  <2> QED
    BY <2>1, <2>3 DEF Returning
<1>14. LookupsOK
  <2>1. SUFFICES ASSUME NEW id \in Ids \ {Root}
                 PROVE  IF id \in DOMAIN nodes
                        THEN nodes[id].nlookup = known[id] + Cardinality(InFlight(id)) + Cardinality(Returning(id))
                                                 + (IF nodes[id].name # NoName THEN Kept ELSE 0)
                        ELSE known[id] = 0 /\ InFlight(id) = {} /\ Returning(id) = {}
    BY DEF LookupsOK
  <2>2. Cardinality(InFlight(id)) = 0 /\ Cardinality(Returning(id)) = 0
    BY <1>13, FS_EmptySet
  <2>3. id \in 1 .. MaxId
    BY MaxIdAssumption DEF Ids
  <2>4. CASE id \in DOMAIN nodes
    BY <1>2, <1>4, <1>7, <2>2, <2>4
  <2>5. CASE id \notin DOMAIN nodes
    BY <1>1, <1>13, <2>3, <2>5
  <2> QED
    BY <2>4, <2>5
<1>15. RefsOK
  <2>1. \A id : Pinners(id) = {}
    BY <1>5, <1>6 DEF Pinners
  <2>2. \A id : Cardinality(Pinners(id)) = 0
    BY <2>1, FS_EmptySet
  <2>3. \A id \in DOMAIN nodes : Cardinality(Children(id)) \in Nat
    BY <1>3, KidsFinite DEF Children
  <2> QED
    BY <1>4, <1>5, <1>6, <2>2, <2>3 DEF RefsOK, Children
<1>16. TreesOK
  <2>1. \A id : Writers(id) = {}
    BY <1>5, <1>6 DEF Writers
  <2>2. \A id : Readers(id) = {}
    BY <1>5, <1>6 DEF Readers, Paths
  <2>3. \A id : Cardinality(Readers(id)) = 0
    BY <2>2, FS_EmptySet
  <2> QED
    BY <1>4, <1>5, <1>6, <2>1, <2>2, <2>3 DEF TreesOK
<1>17. HeldOK /\ MutexOK
  BY <1>6 DEF HeldOK, MutexOK, Unanswered
<1>18. OpensOK
  <2>1. \A id : OpenBy(id) = {}
    BY <1>6 DEF OpenBy, Counted
  <2>2. \A id : Cardinality(OpenBy(id)) = 0
    BY <2>1, FS_EmptySet
  <2> QED
    BY <1>4, <2>1, <2>2 DEF OpensOK
<1>19. (\A r \in Reqs : NamesOK(r)) /\ PathStable
  BY <1>5, <1>6 DEF NamesOK, PathStable
<1>20. nodes # Abort
  BY <1>3, NotAborted
<1> QED
  BY <1>10, <1>11, <1>12, <1>14, <1>15, <1>16, <1>17, <1>18, <1>19, <1>20 DEF IInv

\* Its counts are those the kernel and the handlers rely on.
LEMMA CountsFollow ==
  ASSUME IInv
  PROVE  CountsExact
<1>1. SUFFICES ASSUME NEW id \in DOMAIN nodes \ {Root}
               PROVE  /\ nodes[id].nlookup = known[id] + Cardinality(InFlight(id)) + Cardinality(Returning(id))
                                             + (IF work.noforget /\ nodes[id].name # NoName THEN 1 ELSE 0)
                      /\ nodes[id].refctr = Cardinality(Children(id)) + (IF nodes[id].nlookup > 0 THEN 1 ELSE 0)
                                            + Cardinality({r \in Reqs : loc[r].pinned /\ NodeOf(r) = id})
                      /\ nodes[id].tree = IF Writers(id) # {} THEN -1 ELSE Cardinality(Readers(id))
                      /\ Cardinality(Writers(id)) <= 1 /\ (Writers(id) # {} => Readers(id) = {})
  BY DEF CountsExact
<1>2. Places /\ TypeOK /\ LookupsOK /\ RefsOK /\ TreesOK /\ TableOK(nodes)
  BY InvIs
<1>3. id \in Ids \ {Root}
  BY <1>1, <1>2 DEF TableOK
<1>4. nodes[id].nlookup = known[id] + Cardinality(InFlight(id)) + Cardinality(Returning(id)) + (IF nodes[id].name # NoName THEN Kept ELSE 0)
  BY <1>1, <1>2, <1>3 DEF LookupsOK
<1>5. nodes[id].nlookup = known[id] + Cardinality(InFlight(id)) + Cardinality(Returning(id))
                          + (IF work.noforget /\ nodes[id].name # NoName THEN 1 ELSE 0)
  BY <1>4 DEF Kept
<1>6. nodes[id].refctr = Cardinality(Children(id)) + (IF nodes[id].nlookup > 0 THEN 1 ELSE 0)
                         + Cardinality({r \in Reqs : loc[r].pinned /\ NodeOf(r) = id})
  BY <1>1, <1>2 DEF RefsOK, Pinners
<1>7. Cardinality(Writers(id)) <= 1
  <2>1. CASE Writers(id) = {}
    BY <2>1, FS_EmptySet
  <2>2. CASE Writers(id) # {}
    <3>1. PICK q : q \in Writers(id)
      BY <2>2
    <3>2. Writers(id) = {q}
      BY <1>1, <1>2, <3>1 DEF TreesOK
    <3> QED
      BY <3>2, FS_Singleton
  <2> QED
    BY <2>1, <2>2
<1> QED
  BY <1>1, <1>2, <1>5, <1>6, <1>7 DEF TreesOK

\* The invariant holds always.
THEOREM Invariance ==
  ASSUME RenamesApart
  PROVE  Spec => []IInv
<1>1. Init => IInv
  BY InitInv
<1>2. IInv /\ [Next]_vars => IInv'
  BY NextInv
<1> QED
  BY <1>1, <1>2, PTL DEF Spec

\* No assertion of fuse.c fails: ids are always of nodes that are there, nothing is unlocked that is not
\* locked, and unlink_node leaves a kept node its lookups.
THEOREM NeverAborts ==
  ASSUME RenamesApart
  PROVE  Spec => []NoAbort
<1>1. IInv => NoAbort
  BY DEF IInv, NoAbort
<1> QED
  BY <1>1, Invariance, PTL

\* nlookup, refctr and treelock of every node count exactly what they are for, after any interleaving of
\* handlers, interrupted answers and FORGETs.
THEOREM CountsAreExact ==
  ASSUME RenamesApart
  PROVE  Spec => []CountsExact
<1>1. IInv => CountsExact
  BY CountsFollow
<1> QED
  BY <1>1, Invariance, PTL

\* The path a handler got from get_path still leads to its node when it uses it, whoever renames or removes
\* meanwhile: that is what the tree locks are for.
THEOREM PathsAreStable ==
  ASSUME RenamesApart
  PROVE  Spec => []PathStable
<1>1. IInv => PathStable
  BY DEF IInv
<1> QED
  BY <1>1, Invariance, PTL
=============================================================================
