------------------------------ MODULE MCFuseLib ------------------------------
(***************************************************************************)
(* FuseLib for TLC: what a few programs do at once in the tree             *)
(*      /d  /d/a  /d/b  /d/s  /d/s/q      (nodes 2 to 6)                   *)
(***************************************************************************)
EXTENDS FuseLib, TLC

N(name) == << name >>
MCNodes(noforget) ==
  LET kept == IF noforget THEN 1 ELSE 0 IN
  << Node(NoName, None, 1, 2), Node(N("d"), 1, 1 + kept, 4), Node(N("a"), 2, 1 + kept, 1),
     Node(N("b"), 2, 1 + kept, 1), Node(N("s"), 2, 1 + kept, 2), Node(N("q"), 5, 1 + kept, 1) >>
MCFs ==
  LET p(names) == [k \in DOMAIN names |-> N(names[k])]
  IN p(<<"d">>) :> 2 @@ p(<<"d", "a">>) :> 3 @@ p(<<"d", "b">>) :> 4
     @@ p(<<"d", "s">>) :> 5 @@ p(<<"d", "s", "q">>) :> 6

Rq(op, n) ==
  [op |-> op, n |-> n, nm |-> NoName, n2 |-> 0, nm2 |-> NoName, needs |-> {}, after |-> {}, of |-> 0,
   victim |-> 0, handle |-> 0, flush |-> FALSE, owner |-> 0, flock |-> [type |-> "RD", start |-> 0, len |-> 0]]
At(op, dir, name) == [Rq(op, dir) EXCEPT !.nm = N(name)]
Gone(op, dir, name, victim) == [At(op, dir, name) EXCEPT !.victim = victim]
Move(dir, name, dir2, name2, victim) ==
  [Gone("rename", dir, name, victim) EXCEPT !.n2 = dir2, !.nm2 = N(name2)]
Of(op, r) == [Rq(op, 0) EXCEPT !.of = r, !.needs = {r}]
Handle(op, n, r, after) == [Rq(op, n) EXCEPT !.handle = r, !.needs = {r}, !.after = after]
Posix(op, owner, type, start, len, after) ==
  [Rq(op, 3) EXCEPT !.owner = owner, !.after = after, !.flock = [type |-> type, start |-> start, len |-> len]]
Forget(n, after) == [Rq("forget", n) EXCEPT !.after = after]

Work(reqs, intr, failing) ==
  [reqs |-> reqs, nodes |-> MCNodes(FALSE), fs |-> MCFs, noforget |-> FALSE, intr |-> intr, faults |-> failing]

\* A file is removed while it is open and being opened, then forgotten.
RemoveOpen ==
  Work(<< Rq("open", 3), Handle("read", 3, 1, {}), Handle("release", 3, 1, {2}),
          Gone("unlink", 2, "a", 3), Forget(3, {1, 3, 4, 6}), Handle("release", 3, 7, {}), Rq("open", 3) >>, TRUE, 0)
\* A file is renamed over an open one in a directory that is renamed.
RenameOver1 ==
  Work(<< Rq("open", 6), Handle("read", 6, 1, {}), Handle("release", 6, 1, {2}),
          Move(2, "a", 5, "q", 6), Rq("getattr", 3), Move(2, "s", 2, "t", 0) >>, FALSE, 1)
\* Revalidations, a removal and a creation of the same name.
SameName ==
  Work(<< Gone("revalidate", 2, "a", 3), Gone("unlink", 2, "a", 3), At("create", 2, "a"),
          [Of("release", 3) EXCEPT !.handle = 3], Of("forget", 1), Forget(3, {1, 2}),
          Gone("revalidate", 2, "b", 4), Of("forget", 7) >>, TRUE, 0)
\* A second name for a file that is removed, a new and a removed directory.
Directories ==
  Work(<< [Rq("link", 3) EXCEPT !.n2 = 5, !.nm2 = N("h")], Gone("unlink", 2, "a", 3),
          At("mkdir", 2, "x"), Gone("rmdir", 2, "b", 4), Forget(4, {4, 7}), Forget(3, {1, 2}),
          Rq("getattr", 4), Of("forget", 3) >>, TRUE, 1)
\* Two owners lock a file that is being removed; one sleeps for its lock.
Locking ==
  Work(<< Posix("setlk", 1, "WR", 0, 0, {}), Posix("setlkw", 2, "RD", 1, 1, {}),
          Posix("setlk", 1, "UN", 1, 1, {1}), Posix("flush", 1, "UN", 0, 0, {1, 3}),
          Posix("getlk", 2, "RD", 0, 1, {}), Gone("unlink", 2, "a", 3) >>, FALSE, 0)
\* Two threads of one owner lock and unlock; another's lock goes with its file.
Threads ==
  Work(<< Posix("setlk", 1, "WR", 0, 0, {}), Posix("setlk", 1, "UN", 0, 1, {}),
          Posix("setlk", 2, "WR", 1, 1, {}), Rq("open", 3),
          [Handle("release", 3, 4, {3}) EXCEPT !.flush = TRUE, !.owner = 2] >>, FALSE, 0)
\* NFS looks nodes up by their handles while the kernel forgets them.
Handles ==
  Work(<< Rq("dot", 6), Forget(6, {}), Forget(5, {2}), Rq("dot", 6), Forget(6, {1, 2, 4}),
          Gone("revalidate", 5, "q", 6) >>, TRUE, 0)
\* Nothing is ever forgotten.
NoForget ==
  [Work(<< Gone("unlink", 2, "a", 3), Forget(3, {1}), At("create", 2, "a"), Move(2, "b", 2, "a", 0),
           Forget(4, {4}), At("lookup", 2, "a") >>, TRUE, 0)
     EXCEPT !.nodes = MCNodes(TRUE), !.noforget = TRUE]
MCWorkloads == {RemoveOpen, RenameOver1, SameName, Directories, Locking, Threads, Handles, NoForget}
=============================================================================
