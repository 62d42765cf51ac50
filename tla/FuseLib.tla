------------------------------- MODULE FuseLib -------------------------------
(***************************************************************************)
(* libfuse's high-level library (fuse.c): every request of the kernel is   *)
(* handled by a thread that translates inode numbers to a path, locks the  *)
(* path, calls the user's file system with it, updates the table of nodes, *)
(* unlocks the path and answers.  fuse.lock is held for single steps only, *)
(* so the steps of the handlers interleave.                                *)
(*                                                                         *)
(* A handler is a program: a sequence of steps.  A step is one section     *)
(* under fuse.lock, one call of the file system, or one reply; Applies     *)
(* says which of the steps that follow are taken after an error.           *)
(*                                                                         *)
(* The kernel and the file system are external.  The kernel issues the     *)
(* requests of a workload under the order its VFS keeps: see KernelMay.    *)
(* The file system is a map from paths to file identities; one call in a   *)
(* workload may fail.  A handler's answer may find that its caller was     *)
(* interrupted (ENOENT from the kernel device).                            *)
(***************************************************************************)
EXTENDS NodeTable, PosixLocks, FiniteSets

CONSTANTS
  Workloads,    \* sets of requests the kernel may have under way: records with
                \* reqs (see KernelMay), nodes, fs, noforget, intr, faults
  Owners        \* lock owners

VARIABLES
  work,           \* the workload
  up,             \* FALSE once fuse_destroy has run
  nodes, ctr,     \* the node table and fuse.ctr
  queue, woken,   \* fuse.lockq, and those of it that were signalled
  pc, loc,        \* every request's place in its program, and its locals
  fs,             \* external: the file system, path -> file
  held,           \* external: the POSIX locks it has granted on the file
  known,          \* external: the references the kernel holds, by node id
  answer,         \* external: what each request was answered
  faults          \* file system calls that failed

vars == <<work, up, nodes, ctr, queue, woken, pc, loc, fs, held, known, answer, faults>>
table == <<nodes, ctr, queue, woken>>
outside == <<fs, held, known, answer, faults>>

Reqs == DOMAIN work.reqs
Req(r) == work.reqs[r]

\* The locals of a handler.
NoLoc == [err |-> "ok", locked |-> FALSE, path |-> NoPath, path2 |-> NoPath, w |-> None,
          w2 |-> None, id |-> None, file |-> None, hide |-> FALSE, hname |-> NoName,
          unhide |-> FALSE, intr |-> FALSE, pinned |-> FALSE, n |-> 0, late |-> {},
          victim |-> None]

Init ==
  /\ work \in Workloads /\ up = TRUE
  /\ nodes = work.nodes /\ fs = work.fs
  /\ ctr = Cardinality(DOMAIN nodes)
  /\ queue = <<>> /\ woken = {}
  /\ pc = [r \in Reqs |-> 0] /\ loc = [r \in Reqs |-> NoLoc]
  /\ held = [o \in Owners |-> [k \in 0 .. MaxOff |-> "UN"]]
  /\ known = [id \in 1 .. MaxId |-> IF id \in DOMAIN nodes \ {Root}
                THEN nodes[id].nlookup - (IF work.noforget THEN 1 ELSE 0) ELSE 0]
  /\ answer = [r \in Reqs |-> "none"] /\ faults = 0
-----------------------------------------------------------------------------
(* The handlers' programs *)

PathCall == <<"get", "touch", "free", "reply">>
fuse_lib_getattr == <<"get", "touch", "free", "cache", "reply">>
fuse_lib_setattr == <<"get", "touch", "touch", "free", "cache", "reply">>
fuse_lib_access == PathCall
fuse_lib_readlink == PathCall
fuse_lib_read == PathCall
fuse_lib_write == PathCall
fuse_lib_fsync == PathCall
fuse_lib_fsyncdir == PathCall
fuse_lib_statfs == PathCall
fuse_lib_setxattr == PathCall
common_getxattr == PathCall
common_listxattr == PathCall
fuse_lib_removexattr == PathCall
fuse_lib_bmap == PathCall
fuse_lib_ioctl == PathCall
fuse_lib_poll == PathCall
readdir_fill == PathCall
fuse_lib_opendir == <<"get", "touch", "reply", "free">>
fuse_lib_releasedir == <<"getany", "touch", "free", "reply">>
do_release == <<"uncount", "unlink_hidden">>
flush_common == <<"fs_unlock", "list_lock">>
fuse_lib_release == <<"getany">> \o flush_common \o do_release \o <<"free", "reply">>
fuse_lib_open == <<"get", "openfs", "count", "reply_open">> \o do_release \o <<"free">>
fuse_lib_create ==
  <<"getname", "make", "stat", "find", "count", "reply_open">> \o do_release \o <<"undo", "free">>
fuse_lib_lookup == <<"pin", "getname", "stat", "find", "free", "unpin", "reply_entry", "undo">>
Making == <<"getname", "make", "stat", "find", "free", "reply_entry", "undo">>
fuse_lib_mknod == Making
fuse_lib_mkdir == Making
fuse_lib_symlink == Making
fuse_lib_link == <<"get2", "link", "stat2", "find", "free", "reply_entry", "undo">>
hide_node == <<"hide_name", "hide_rename", "hide_node">>
fuse_lib_unlink ==
  <<"getw", "is_open">> \o hide_node \o <<"unlink", "remove", "free", "reply">>
fuse_lib_rmdir == <<"getw", "rmdir", "remove", "free", "reply">>
fuse_lib_rename ==
  <<"get2w", "is_open">> \o hide_node \o <<"rename", "rename_node", "free", "reply">>
fuse_lib_forget == <<"forget">>
fuse_lib_flush == <<"getany">> \o flush_common \o <<"free", "reply">>
fuse_lib_setlk == <<"get", "fs_lock", "free", "list_lock", "reply">>
fuse_lib_getlk == <<"list_conflict", "get", "fs_getlk", "free", "reply">>

fuse_path_ops ==
  [getattr |-> fuse_lib_getattr, setattr |-> fuse_lib_setattr, access |-> fuse_lib_access,
   readlink |-> fuse_lib_readlink, read |-> fuse_lib_read, write |-> fuse_lib_write,
   fsync |-> fuse_lib_fsync, fsyncdir |-> fuse_lib_fsyncdir, statfs |-> fuse_lib_statfs,
   setxattr |-> fuse_lib_setxattr, getxattr |-> common_getxattr,
   listxattr |-> common_listxattr, removexattr |-> fuse_lib_removexattr,
   bmap |-> fuse_lib_bmap, ioctl |-> fuse_lib_ioctl, poll |-> fuse_lib_poll,
   readdir |-> readdir_fill, opendir |-> fuse_lib_opendir,
   releasedir |-> fuse_lib_releasedir, release |-> fuse_lib_release, open |-> fuse_lib_open,
   create |-> fuse_lib_create, lookup |-> fuse_lib_lookup, revalidate |-> fuse_lib_lookup,
   dot |-> fuse_lib_lookup, mknod |-> fuse_lib_mknod, mkdir |-> fuse_lib_mkdir,
   symlink |-> fuse_lib_symlink, link |-> fuse_lib_link, unlink |-> fuse_lib_unlink,
   rmdir |-> fuse_lib_rmdir, rename |-> fuse_lib_rename, forget |-> fuse_lib_forget,
   flush |-> fuse_lib_flush, setlk |-> fuse_lib_setlk, setlkw |-> fuse_lib_setlk,
   getlk |-> fuse_lib_getlk]

Program(r) == fuse_path_ops[Req(r).op]
Started(r) == pc[r] > 0
Running(r) == pc[r] \in DOMAIN Program(r)
Step(r) == IF Running(r) THEN Program(r)[pc[r]] ELSE "out"

\* Is a step of r taken, with these locals?  Cleaning up and replying always are;
\* the rest only without an error.
Applies(r, step, l) ==
  CASE step = "free" -> l.locked
    [] step = "reply" -> TRUE
    [] step = "reply_open" -> TRUE
    [] step = "reply_entry" -> TRUE
    [] step = "pin" -> Req(r).op = "dot"
    [] step = "unpin" -> l.pinned
    [] step \in {"fs_unlock", "list_lock"} -> l.err = "ok" /\ (Req(r).op = "release" => Req(r).flush)
    [] step = "uncount" -> Req(r).op = "release" \/ l.intr
    [] step = "undo" -> l.intr
    [] step = "unlink_hidden" -> l.unhide /\ l.path # NoPath
    [] step \in {"hide_name", "hide_rename", "hide_node"} -> l.err = "ok" /\ l.hide
    [] step \in {"unlink", "remove"} -> l.err = "ok" /\ ~l.hide
    [] step \in {"get", "fs_getlk"} -> l.err = "ok" /\ ~l.hide
    [] OTHER -> l.err = "ok"

\* r goes on with locals l.
Goto(r, from, l) ==
  LET p == Program(r)
      next == {k \in from .. Len(p) : Applies(r, p[k], l)}
  IN /\ loc' = [loc EXCEPT ![r] = l]
     /\ pc' = [pc EXCEPT ![r] = IF next = {} THEN Len(p) + 1
                                ELSE CHOOSE k \in next : \A j \in next : k <= j]
Advance(r, l) == Goto(r, pc[r] + 1, l)
-----------------------------------------------------------------------------
(* External: what the kernel sends.  A request names a node by its id n, or by *)
(* the request of whose answer it is; nm is a name in it, n2 and nm2 those of  *)
(* the second path; needs are requests that must have succeeded before, after  *)
(* those that must be over; a revalidation expects to find the node victim; a  *)
(* release may have to flush.                                                  *)

\* The requests whose answers name a node, and those the VFS sends about a name.
Finders == {"lookup", "revalidate", "dot", "create", "mknod", "mkdir", "symlink", "link"}
Naming == {"lookup", "revalidate", "create", "mknod", "mkdir", "symlink", "unlink", "rmdir", "rename"}

\* A request is about a node or an answer, and has its names.  A revalidation that is
\* not believed is forgotten, once; a file is released after its open, once.
RequestOK(reqs, r) ==
  LET q == reqs[r]  ids == 1 .. MaxId - 1 IN
  /\ q.op \in DOMAIN fuse_path_ops /\ q.needs \subseteq DOMAIN reqs
  /\ {q.n2, q.victim} \subseteq ids \cup {None}
  /\ IF q.of = 0 THEN q.n \in ids
     ELSE /\ q.of \in q.needs /\ reqs[q.of].op \in Finders
          /\ reqs[q.of].op = "revalidate" =>
               q.op = "forget" /\ \A p \in DOMAIN reqs \ {r} : reqs[p].of # q.of
  /\ q.op \in Naming => q.of = 0 /\ q.nm # NoName
  /\ q.op \in {"rename", "link"} => q.n2 # None /\ q.nm2 # NoName
  /\ q.op = "rename" => <<q.n, q.nm>> # <<q.n2, q.nm2>>
  /\ q.op = "revalidate" => q.victim # None
  /\ q.op = "release" =>
       LET open == reqs[q.handle] IN
       /\ q.handle \in q.needs
       /\ \/ open.op = "create" /\ q.of = q.handle
          \/ open.op = "open" /\ q.of = open.of /\ q.n = open.n
       /\ \A p \in DOMAIN reqs \ {r} : reqs[p].op = "release" => reqs[p].handle # q.handle

ASSUME WorkloadAssumption ==
  \A w \in Workloads :
    /\ w.noforget \in BOOLEAN
    /\ IsFiniteSet(DOMAIN w.reqs) /\ DOMAIN w.reqs \subseteq Nat \ {0}
    /\ \A r \in DOMAIN w.reqs : RequestOK(w.reqs, r)
    /\ Settled(w.nodes, IF w.noforget THEN 1 ELSE 0)

NodeOf(r) == IF Req(r).of = 0 THEN Req(r).n ELSE loc[Req(r).of].id

\* The node an open, a creation or a release is about.
Opened(r) == IF Req(r).op = "create" THEN loc[r].id ELSE NodeOf(r)

Over(r) == answer[r] # "none" \/ \E q \in Req(r).needs : answer[q] \in {"err", "intr"}

\* The node whose name the request takes away, as the kernel knows it by then.
Doomed(r) ==
  IF Req(r).op = "rename" THEN <<Req(r).n2, Req(r).nm2>> ELSE <<NodeOf(r), Req(r).nm>>
Victim(r) ==
  IF Req(r).op = "revalidate" THEN Req(r).victim
  ELSE IF Started(r) THEN loc[r].victim
  ELSE IF Req(r).op \notin {"unlink", "rmdir", "rename"} THEN None
  ELSE lookup_node(nodes, Doomed(r)[1], Doomed(r)[2])

\* The directories whose mutex the VFS holds from the request to its answer; 0
\* stands for the one it holds to rename between directories.
Mutexes(r) ==
  CASE Req(r).op \in {"lookup", "create", "mknod", "mkdir", "symlink", "unlink"} -> {Req(r).n}
    [] Req(r).op = "rmdir" -> {Req(r).n, Victim(r)}
    [] Req(r).op = "rename" -> {Req(r).n, Req(r).n2} \cup (IF Req(r).n # Req(r).n2 THEN {0} ELSE {})
    [] Req(r).op = "link" -> {Req(r).n2}
    [] OTHER -> {}

\* Nodes whose directory entry the kernel has dropped.
Dropped ==
  {Victim(q) : q \in {p \in Reqs : Req(p).op \in {"unlink", "rmdir", "rename"} /\ answer[p] = "ok"}}

\* It speaks of nodes it holds references to, and gives these back only when no
\* unanswered request speaks of the node, no file of it is open and no child of it
\* is known.  The exception is NFS: "dot" looks a node up by an old file handle.
Holds(id) == id = Root \/ known[id] > 0
Mentions(r) == {NodeOf(r), Req(r).n2, Victim(r)} \ {None}
Unanswered == {r \in Reqs : Started(r) /\ answer[r] = "none"}
Forgettable(id) ==
  /\ \A q \in Unanswered : Req(q).op # "dot" => id \notin Mentions(q)
  /\ \A q \in Reqs : (Req(q).op \in {"open", "create"} /\ answer[q] = "ok" /\ Opened(q) = id) =>
       \E p \in Reqs : Req(p).op = "release" /\ Req(p).handle = q /\ Started(p)
  /\ \A n \in DOMAIN nodes : nodes[n].parent = id => known[n] = 0

Spare(r) == Req(r).op = "forget" /\ Req(r).of # 0 /\ Req(Req(r).of).op = "revalidate"

KernelMay(r) ==
  /\ up /\ ~Started(r)
  /\ \A q \in Req(r).needs : answer[q] = "ok"
  /\ \A q \in Req(r).after : Over(q)
  /\ \A q \in Unanswered : Mutexes(q) \cap Mutexes(r) = {}
  /\ IF Req(r).op # "forget" THEN Req(r).op = "dot" \/ \A id \in Mentions(r) : Holds(id)
     ELSE IF Spare(r) THEN loc[Req(r).of].id # Req(Req(r).of).victim
     ELSE Holds(NodeOf(r)) /\ Forgettable(NodeOf(r))
  /\ Req(r).op \in {"open", "getattr", "link"} => NodeOf(r) \notin Dropped
  /\ Req(r).op = "revalidate" => Req(r).victim \notin Dropped
  /\ Req(r).op \in {"unlink", "rmdir"} => Victim(r) # None

\* With FORGET the kernel gives back all its references; one that answers a
\* revalidation it does not believe gives back that one.
Issue(r) ==
  LET forget == Req(r).op = "forget" IN
  /\ KernelMay(r)
  /\ Goto(r, 1, [NoLoc EXCEPT !.n = IF ~forget THEN 0 ELSE IF Spare(r) THEN 1 ELSE known[NodeOf(r)],
                             !.victim = Victim(r)])
  /\ known' = IF forget /\ ~Spare(r) THEN [known EXCEPT ![NodeOf(r)] = 0] ELSE known
  /\ answer' = IF forget THEN [answer EXCEPT ![r] = "ok"] ELSE answer
  /\ UNCHANGED <<work, up, table, fs, held, faults>>
-----------------------------------------------------------------------------
(* Waiting for paths.  get_path and its kin try with a ticket, here the number *)
(* of the request; forget_node waits for the readers of a node it would free.  *)

Gets == {"get", "getany", "getname", "getw", "get2", "get2w"}
Forgets == {"forget", "undo"}

Named1(r) == IF Req(r).op = "dot" THEN NoName ELSE Req(r).nm

TryGet(r) ==
  LET q == Req(r)  n == NodeOf(r) IN
  CASE Step(r) \in {"get", "getany"} -> try_get_path(nodes, n, NoName, FALSE, r)
    [] Step(r) = "getname" -> try_get_path(nodes, n, Named1(r), FALSE, r)
    [] Step(r) = "getw" -> try_get_path(nodes, n, q.nm, TRUE, r)
    [] Step(r) = "get2" -> try_get_path2(nodes, n, NoName, q.n2, q.nm2, FALSE, r)
    [] OTHER -> try_get_path2(nodes, n, q.nm, q.n2, q.nm2, TRUE, r)

ForgetArgs(r) == IF Step(r) = "undo" THEN <<loc[r].id, 1>> ELSE <<NodeOf(r), loc[r].n>>

\* Mutant: forget_node does not wait.
NeverWait(id, n) == FALSE

MustWait(id, n) ==
  id \in DOMAIN nodes \ {Root} /\ nodes[id].nlookup = n /\ nodes[id].tree # 0

TryForget(r) ==
  LET id == ForgetArgs(r)[1]  n == ForgetArgs(r)[2]
  IN IF MustWait(id, n) THEN [err |-> "EAGAIN", nodes |-> nodes]
     ELSE [err |-> "ok", nodes |-> forget_node(nodes, id, n)]

Try(r) == IF Step(r) \in Gets THEN TryGet(r) ELSE TryForget(r)

\* The locals after a try that is not to be repeated.
After(r, try) ==
  IF Step(r) \in Forgets THEN loc[r]
  ELSE LET l == [loc[r] EXCEPT !.err = IF Step(r) = "getany" THEN "ok" ELSE try.err,
                               !.locked = try.err = "ok", !.path = try.path, !.w = try.w]
       IN IF Step(r) \in {"get2", "get2w"} THEN [l EXCEPT !.path2 = try.path2, !.w2 = try.w2] ELSE l

Queued(r) == Contains(queue, r)

\* get_path_common, get_path2 and forget_node: the first try.
Enter(r) ==
  /\ Step(r) \in Gets \cup Forgets /\ ~Queued(r)
  /\ \E try \in {Try(r)} :
       /\ nodes' = try.nodes
       /\ IF try.err = "EAGAIN" THEN queue' = Append(queue, r) /\ UNCHANGED <<pc, loc>>
          ELSE queue' = queue /\ Advance(r, After(r, try))
  /\ UNCHANGED <<work, up, ctr, woken, outside>>

\* Mutant: only the first waiter is ever woken.
WakeAlone(r) ==
  /\ r \in woken
  /\ woken' = woken \ {r}
  /\ \E try \in {Try(r)} :
       /\ nodes' = try.nodes
       /\ IF try.err = "EAGAIN" THEN UNCHANGED <<queue, pc, loc>>
          ELSE queue' = SelectSeq(queue, LAMBDA q : q # r) /\ Advance(r, After(r, try))
  /\ UNCHANGED <<work, up, ctr, outside>>

\* Their loops: a woken waiter tries again and wakes the next.
Wake(r) ==
  LET at == CHOOSE k \in DOMAIN queue : queue[k] = r
      next == IF at < Len(queue) THEN {queue[at + 1]} ELSE {}
  IN /\ r \in woken
     /\ woken' = (woken \ {r}) \cup next
     /\ \E try \in {Try(r)} :
          /\ nodes' = try.nodes
          /\ IF try.err = "EAGAIN" THEN UNCHANGED <<queue, pc, loc>>
             ELSE queue' = RemoveAt(queue, at) /\ Advance(r, After(r, try))
     /\ UNCHANGED <<work, up, ctr, outside>>

\* free_path, free_path_wrlock and free_path2.
Free(r) ==
  LET one == unlock_path(nodes, NodeOf(r), loc[r].w, 0) IN
  /\ Step(r) = "free"
  /\ nodes' = IF Req(r).op \in {"rename", "link"} THEN unlock_path(one, Req(r).n2, loc[r].w2, 0) ELSE one
  /\ woken' = woken \cup {queue[k] : k \in {1} \cap DOMAIN queue}
  /\ Advance(r, [loc[r] EXCEPT !.locked = FALSE])
  /\ UNCHANGED <<work, up, ctr, queue, outside>>
-----------------------------------------------------------------------------
(* Sections under fuse.lock *)

Table(r, l, ns) ==
  /\ nodes' = ns /\ Advance(r, l)
  /\ UNCHANGED <<work, up, ctr, queue, woken, outside>>

Exists(id) == id \in DOMAIN nodes

Pin(r) ==
  /\ Step(r) = "pin"
  /\ LET id == NodeOf(r) IN
     IF Exists(id) THEN Table(r, [loc[r] EXCEPT !.pinned = TRUE], [nodes EXCEPT ![id].refctr = @ + 1])
     ELSE Table(r, [loc[r] EXCEPT !.err = "ESTALE"], nodes)
Unpin(r) ==
  Step(r) = "unpin" /\ Table(r, [loc[r] EXCEPT !.pinned = FALSE], unref_node(nodes, NodeOf(r)))

\* lookup_path, its second half.
Find(r) ==
  LET q == Req(r)
      got == IF q.op = "link" THEN find_node(nodes, q.n2, q.nm2, ctr, work.noforget)
             ELSE find_node(nodes, NodeOf(r), Named1(r), ctr, work.noforget)
  IN /\ Step(r) = "find" /\ IdLeft(nodes)
     /\ nodes' = got.nodes /\ ctr' = got.ctr
     /\ Advance(r, [loc[r] EXCEPT !.id = got.id])
     /\ UNCHANGED <<work, up, queue, woken, outside>>

Count(r) ==
  /\ Step(r) = "count"
  /\ Table(r, loc[r], IF Exists(Opened(r)) THEN [nodes EXCEPT ![Opened(r)].open = @ + 1] ELSE Abort)

\* History: who has not counted its open yet?
Late == {r \in Reqs : ~Started(r) \/ Step(r) \in {"get", "openfs", "count"}}

\* Mutant: the file stays marked as hidden.
UncountKeeping(r) ==
  LET id == Opened(r) IN
  /\ Step(r) = "uncount"
  /\ Table(r, loc[r], IF Exists(id) /\ nodes[id].open > 0 THEN [nodes EXCEPT ![id].open = @ - 1] ELSE Abort)

\* fuse_do_release, the section under the lock.
Uncount(r) ==
  LET id == Opened(r) IN
  /\ Step(r) = "uncount"
  /\ IF Exists(id) /\ nodes[id].open > 0
     THEN LET last == nodes[id].hidden /\ nodes[id].open = 1
          IN Table(r, [loc[r] EXCEPT !.unhide = last, !.late = Late],
                   [nodes EXCEPT ![id].open = @ - 1, ![id].hidden = @ /\ ~last])
     ELSE Table(r, loc[r], Abort)

\* Mutant: nothing is ever hidden, as with -o hard_remove.
HardRemove(r) == FALSE

is_open(r) ==
  LET id == lookup_node(nodes, Doomed(r)[1], Doomed(r)[2])
  IN id # None /\ nodes[id].open > 0

IsOpen(r) == Step(r) = "is_open" /\ Table(r, [loc[r] EXCEPT !.hide = is_open(r)], nodes)

RemoveNode(r) ==
  Step(r) = "remove" /\ Table(r, loc[r], remove_node(nodes, NodeOf(r), Req(r).nm, work.noforget))

HideNode(r) ==
  LET done == rename_node(nodes, Doomed(r)[1], Doomed(r)[2], Doomed(r)[1], loc[r].hname, TRUE, work.noforget)
  IN Step(r) = "hide_node" /\ Table(r, [loc[r] EXCEPT !.err = done.err], done.nodes)

RenameNode(r) ==
  LET q == Req(r)
      done == rename_node(nodes, q.n, q.nm, q.n2, q.nm2, FALSE, work.noforget)
  IN Step(r) = "rename_node" /\ Table(r, [loc[r] EXCEPT !.err = done.err], done.nodes)

\* update_stat of the node, found again after the path was freed.
Cache(r) == Step(r) = "cache" /\ Table(r, loc[r], IF Exists(NodeOf(r)) THEN nodes ELSE Abort)

LockOf(r) == flock_to_lock(IF Req(r).op \in {"flush", "release"} THEN [type |-> "UN", start |-> 0, len |-> 0]
                           ELSE Req(r).flock, Req(r).owner)
ListLock(r) ==
  /\ Step(r) = "list_lock"
  /\ LET id == NodeOf(r)
     IN Table(r, loc[r], IF Exists(id) THEN [nodes EXCEPT ![id].locks = locks_insert(@, LockOf(r))]
                         ELSE Abort)
ListConflict(r) ==
  /\ Step(r) = "list_conflict"
  /\ Table(r, [loc[r] EXCEPT !.hide = Exists(NodeOf(r)) /\ locks_conflict(nodes[NodeOf(r)].locks, LockOf(r))],
           IF Exists(NodeOf(r)) THEN nodes ELSE Abort)

Section(r) ==
  \/ Pin(r) \/ Unpin(r) \/ Find(r) \/ Count(r) \/ Uncount(r) \/ IsOpen(r) \/ RemoveNode(r)
  \/ HideNode(r) \/ RenameNode(r) \/ Cache(r) \/ ListLock(r) \/ ListConflict(r)
-----------------------------------------------------------------------------
(* External: the calls of the file system *)

Without(p) == [x \in {x \in DOMAIN fs : ~IsPrefix(p, x)} |-> fs[x]]
With(p, file) == [x \in DOMAIN fs \cup {p} |-> IF x = p THEN file ELSE fs[x]]
Moved(p, q) ==
  LET tail(x) == SubSeq(x, Len(p) + 1, Len(x))
      back(x) == p \o SubSeq(x, Len(q) + 1, Len(x))
      keep == {x \in DOMAIN fs : ~IsPrefix(p, x) /\ ~IsPrefix(q, x)}
      moved == {q \o tail(x) : x \in {y \in DOMAIN fs : IsPrefix(p, y)}}
  IN [x \in keep \cup moved |-> IF x \in moved THEN fs[back(x)] ELSE fs[x]]
Occupied(p) == \E x \in DOMAIN fs : IsStrictPrefix(p, x)

Call(r, ok, err, fs2, l) ==
  /\ fs' = IF ok THEN fs2 ELSE fs
  /\ Advance(r, IF ok THEN l ELSE [loc[r] EXCEPT !.err = err])
  /\ UNCHANGED <<work, up, table, held, known, answer, faults>>

File(p) == IF p \in DOMAIN fs THEN fs[p] ELSE None

FsLooks(r) ==
  LET p == IF Step(r) = "stat2" THEN loc[r].path2 ELSE loc[r].path IN
  /\ Step(r) \in {"touch", "stat", "stat2", "openfs"}
  /\ Call(r, p = <<>> \/ p \in DOMAIN fs, "ENOENT", fs, [loc[r] EXCEPT !.file = File(p)])
FsMakes(r) ==
  /\ Step(r) = "make"
  /\ Call(r, loc[r].path \notin DOMAIN fs, "EEXIST", With(loc[r].path, r + 10), loc[r])
FsLinks(r) ==
  /\ Step(r) = "link"
  /\ Call(r, loc[r].path \in DOMAIN fs /\ loc[r].path2 \notin DOMAIN fs, "EEXIST",
          With(loc[r].path2, File(loc[r].path)), loc[r])
FsRemoves(r) ==
  /\ Step(r) \in {"unlink", "rmdir", "unlink_hidden"}
  /\ IF Step(r) = "unlink_hidden" THEN Call(r, TRUE, "ok", Without(loc[r].path), loc[r])
     ELSE Call(r, loc[r].path \in DOMAIN fs /\ ~Occupied(loc[r].path), "ENOENT",
               Without(loc[r].path), loc[r])
FsRenames(r) ==
  LET hiding == Step(r) = "hide_rename"
      p == IF hiding /\ Req(r).op = "rename" THEN loc[r].path2 ELSE loc[r].path
      q == IF hiding THEN Append(Front(p), loc[r].hname) ELSE loc[r].path2
  IN /\ Step(r) \in {"rename", "hide_rename"}
     /\ Call(r, p \in DOMAIN fs /\ ~Occupied(q), "ENOENT", Moved(p, q), loc[r])
\* hidden_name: a name no node and no file has; with the node's id it is new as
\* long as no file is hidden twice.
FsHiddenName(r) ==
  LET dir == Doomed(r)[1]  id == lookup_node(nodes, dir, Doomed(r)[2])
      name == <<"hidden", id>>
  IN /\ Step(r) = "hide_name"
     /\ Call(r, id # None /\ PathOf(nodes, dir) # NoPath /\ Append(PathOf(nodes, dir), name) \notin DOMAIN fs,
             "EBUSY", fs, [loc[r] EXCEPT !.hname = name])

Granted(lock) ==
  \A o \in Owners \ {lock.owner} : \A k \in lock.start .. lock.end :
    "WR" \in {held[o][k], lock.type} => lock.type = "UN" \/ held[o][k] = "UN"

\* F_SETLKW sleeps until the lock is granted.
FsLock(r) ==
  LET lock == LockOf(r) IN
  /\ Step(r) \in {"fs_lock", "fs_unlock"}
  /\ Req(r).op = "setlkw" => Granted(lock)
  /\ IF Granted(lock)
     THEN /\ held' = [held EXCEPT ![lock.owner] =
                        [k \in 0 .. MaxOff |-> IF k \in lock.start .. lock.end THEN lock.type ELSE @[k]]]
          /\ Advance(r, loc[r])
     ELSE held' = held /\ Advance(r, [loc[r] EXCEPT !.err = "EAGAIN"])
  /\ UNCHANGED <<work, up, table, fs, known, answer, faults>>
FsGetLock(r) == Step(r) = "fs_getlk" /\ Call(r, TRUE, "ok", fs, loc[r])

FsFails(r) ==
  /\ Step(r) \in {"touch", "stat", "stat2", "openfs", "make", "link", "unlink", "rmdir", "rename", "hide_rename"}
  /\ faults < work.faults
  /\ faults' = faults + 1
  /\ Advance(r, [loc[r] EXCEPT !.err = "EIO"])
  /\ UNCHANGED <<work, up, table, fs, held, known, answer>>

FileSystem(r) ==
  \/ FsLooks(r) \/ FsMakes(r) \/ FsLinks(r) \/ FsRemoves(r) \/ FsRenames(r) \/ FsHiddenName(r)
  \/ FsLock(r) \/ FsGetLock(r) \/ FsFails(r)
-----------------------------------------------------------------------------
(* The replies *)

\* The kernel takes the answer.  It counts a lookup that it believes.
Reply(r) ==
  LET l == loc[r]  finds == Req(r).op \in {"lookup", "dot", "create", "mknod", "mkdir", "symlink", "link"}
                            \/ (Req(r).op = "revalidate" /\ l.id = Req(r).victim)
  IN /\ Step(r) \in {"reply", "reply_open", "reply_entry"}
     /\ answer' = [answer EXCEPT ![r] = IF l.err = "ok" THEN "ok" ELSE "err"]
     /\ known' = IF l.err = "ok" /\ finds /\ l.id # Root THEN [known EXCEPT ![l.id] = @ + 1] ELSE known
     /\ Advance(r, l)
     /\ UNCHANGED <<work, up, table, fs, held, faults>>

\* The caller was interrupted: an open is closed again, a lookup forgotten.
ReplyInterrupted(r) ==
  /\ Step(r) \in {"reply_open", "reply_entry"} /\ loc[r].err = "ok" /\ work.intr
  /\ answer' = [answer EXCEPT ![r] = "intr"]
  /\ Advance(r, [loc[r] EXCEPT !.intr = TRUE])
  /\ UNCHANGED <<work, up, table, fs, held, known, faults>>

\* fuse_destroy: the files that are still hidden are removed.
Destroy ==
  LET hidden == {PathOf(nodes, id) : id \in {n \in DOMAIN nodes : nodes[n].hidden}}
  IN /\ up /\ \A r \in Reqs : ~Running(r)
     /\ up' = FALSE
     /\ fs' = [x \in DOMAIN fs \ hidden |-> fs[x]]
     /\ UNCHANGED <<work, table, pc, loc, held, known, answer, faults>>

Next ==
  /\ nodes # Abort
  /\ \/ \E r \in Reqs : Issue(r) \/ Enter(r) \/ Wake(r) \/ Free(r) \/ Section(r)
                        \/ FileSystem(r) \/ Reply(r) \/ ReplyInterrupted(r)
     \/ Destroy

Spec == Init /\ [][Next]_vars
-----------------------------------------------------------------------------
\* No assertion of fuse.c fails, and no handler looks for a node that is gone: the
\* process never aborts (fuse.c:249, 356, 465, 475, 807, 2384).
NoAbort == nodes # Abort

Children(id) == ChildrenIn(nodes, id)
\* The paths that are locked: the first of a handler and the second of rename and link.
Paths == {p \in Reqs \X {1, 2} : loc[p[1]].locked /\ (p[2] = 2 => Req(p[1]).op \in {"rename", "link"})}
Base(p) == IF p[2] = 1 THEN NodeOf(p[1]) ELSE Req(p[1]).n2
Readers(id) == {p \in Paths : Contains(Chain(nodes, Base(p)), id)}
Writers(id) == {r \in Reqs : loc[r].locked /\ id \in {loc[r].w, loc[r].w2}}

\* A lookup that is neither the kernel's yet nor given back, and one that is on its way
\* back with a FORGET.
Ahead(r, step) == \E k \in DOMAIN Program(r) : k >= pc[r] /\ Program(r)[k] = step
InFlight(id) ==
  {r \in Reqs : /\ loc[r].id = id
                /\ \/ answer[r] = "none"
                   \/ answer[r] = "intr" /\ Ahead(r, "undo")
                   \/ /\ Req(r).op = "revalidate" /\ answer[r] = "ok" /\ id # Req(r).victim
                      /\ \A q \in Reqs : Req(q).of = r => ~Started(q)}
Returning(id) ==
  UNION {{r} \X (1 .. loc[r].n) : r \in {q \in Reqs : Step(q) = "forget" /\ NodeOf(q) = id}}

\* The counts of a node say what refers to it: nlookup the references of the kernel,
\* of handlers that have not answered and of FORGETs on their way; refctr these, its
\* children and the lookups of "." that pin it; treelock the handlers that hold a
\* path through it.  A node that nothing refers to is gone (fuse.c:236-442, 783-834).
CountsExact ==
  nodes # Abort => \A id \in DOMAIN nodes \ {Root} :
    LET n == nodes[id]
        kept == IF work.noforget /\ n.name # NoName THEN 1 ELSE 0
    IN /\ n.nlookup = known[id] + Cardinality(InFlight(id)) + Cardinality(Returning(id)) + kept
       /\ n.refctr = Cardinality(Children(id)) + (IF n.nlookup > 0 THEN 1 ELSE 0)
                     + Cardinality({r \in Reqs : loc[r].pinned /\ NodeOf(r) = id})
       /\ n.tree = IF Writers(id) # {} THEN -1 ELSE Cardinality(Readers(id))
       /\ Cardinality(Writers(id)) <= 1 /\ (Writers(id) # {} => Readers(id) = {})

\* The path a handler works with remains the path of its node until it frees it,
\* whatever is renamed or removed meanwhile (fuse.c:498-581).
PathStable ==
  LET true(path, id) ==
        LET now == PathOf(nodes, id)
        IN path = now \/ (path # <<>> /\ path = Append(now, Last(path)))
  IN \A r \in Reqs : (loc[r].locked /\ nodes # Abort) =>
       /\ true(loc[r].path, NodeOf(r))
       /\ Req(r).op \in {"rename", "link"} => true(loc[r].path2, Req(r).n2)

\* A read or write through an open file reaches the file that was opened, though
\* the file was renamed or removed since, unless the call itself fails; but for an
\* open that is under way while the last close removes the hidden file (fuse.c:2249-2347,
\* 2374-2394).
RightFile ==
  \A r \in Reqs : (Req(r).handle # 0 /\ Req(r).op = "read" /\ Step(r) = "reply") =>
    \/ loc[r].err = "ok" /\ loc[r].file = loc[Req(r).handle].file
    \/ loc[r].err = "EIO"
    \/ \E q \in Reqs : loc[q].unhide /\ Req(r).handle \in loc[q].late

\* A file hidden because it was open is in the file system only while somebody has
\* it open or a handler is at it, and never after the end (fuse.c:1724-1779, 2386-2393,
\* 3842-3855).  But a creation that was interrupted closes its file with no lock on
\* the file's own path, and under the path it was created with: if a request hides it
\* meanwhile it may stay, and the name's next file be removed instead (2424-2431).
HiddenGone ==
  \A p \in DOMAIN fs : (p # <<>> /\ Len(Last(p)) = 2 /\ nodes # Abort) =>
    \/ up /\ \E id \in DOMAIN nodes : nodes[id].hidden /\ nodes[id].open > 0 /\ PathOf(nodes, id) = p
    \/ up /\ \E r \in Reqs : Step(r) \in {"hide_node", "rename_node", "unlink_hidden"}
    \/ \E r \in Reqs : Req(r).op = "create" /\ answer[r] = "intr" /\ loc[r].id = Last(p)[2]

\* A reservation belongs to a request that waits.  And all wait with nobody left to
\* wake them only if a request waits for two paths (the FIXME of fuse.c:710), or one
\* sleeps in the file system for a POSIX lock, with its path locked.  Both but for a
\* lookup by file handle below a directory that was forgotten first: the ENOENT of
\* try_get_path leaves its ticket behind (fuse.c:541-577).
Sleeping(r) == Step(r) = "fs_lock" /\ Req(r).op = "setlkw" /\ ~Granted(LockOf(r))
Stranded == queue # <<>> /\ \A r \in Reqs : Running(r) => (Queued(r) /\ r \notin woken) \/ Sleeping(r)
Detached(r) == Req(r).op = "dot" /\ (NodeOf(r) \in DOMAIN nodes => PathOf(nodes, NodeOf(r)) = NoPath)
NobodyStranded ==
  nodes # Abort =>
    /\ \A id \in DOMAIN nodes : LET t == nodes[id].ticket
                                IN t # 0 => Queued(t) \/ (Req(t).op = "dot" /\ PathOf(nodes, id) = NoPath)
    /\ Stranded => \E r \in Reqs : Running(r) /\ (Req(r).op \in {"rename", "link"} \/ Sleeping(r) \/ Detached(r))

\* When nobody is locking or unlocking it, the locks libfuse remembers for a file are
\* those the file system has granted, byte for byte, but for an owner whose threads
\* lock at the same time (fuse.c:3019-3091, 3112-3142, 3226-3242).
LockReqs == {r \in Reqs : Req(r).op \in {"setlk", "setlkw", "flush"} \/ (Req(r).op = "release" /\ Req(r).flush)}
AtOnce(o) == \E q, r \in LockReqs : /\ Req(q).owner = o /\ Req(r).owner = o /\ q # r
                                    /\ q \notin Req(r).after /\ r \notin Req(q).after
LocksAgree ==
  (nodes # Abort /\ \A r \in LockReqs : ~Running(r)) =>
    \A r \in LockReqs : NodeOf(r) \in DOMAIN nodes => \A o \in Owners : \A k \in 0 .. MaxOff :
      AtOnce(o) \/ TypeAt(nodes[NodeOf(r)].locks, o, k) = held[o][k]
=============================================================================
