----------------------------- MODULE FuseCache -------------------------------
(***************************************************************************)
(* The option auto_cache of fuse.c: the kernel may keep the pages of a     *)
(* file over an open if the file looks unchanged, by attributes that are   *)
(* looked at again when they are older than ac_attr_timeout.  Others       *)
(* change the file meanwhile, and opens overlap.                           *)
(*                                                                         *)
(* A version of the file stands for its mtime and size.                    *)
(***************************************************************************)
EXTENDS Naturals

CONSTANTS
  Openers,     \* the programs that open the file, each once at a time
  Timeout,     \* ac_attr_timeout
  MaxTime, MaxVersion   \* bounds on the clock and on the changes

ASSUME CacheAssumption == Timeout \in Nat /\ MaxTime \in Nat /\ MaxVersion \in Nat \ {0}

VARIABLES
  time, version,
  changed,     \* when each version came
  node,        \* struct node: cache_valid, mtime, stat_updated
  pages,       \* the version of the pages the kernel has, 0 being none
  opener,      \* where each open is, its answer, and what its reads may see at the oldest
  dropped         \* an open that told the kernel to drop the pages was interrupted
cacheVars == <<time, version, changed, node, pages, opener, dropped>>

\* The file was looked up, which updates what is known of it.
CacheInit ==
  /\ time = 0 /\ version = 1 /\ changed = [v \in 1..MaxVersion |-> 0]
  /\ node = [cache_valid |-> FALSE, mtime |-> 1, stat_updated |-> 0]
  /\ pages = 0 /\ dropped = FALSE
  /\ opener = [o \in Openers |-> [pc |-> "idle", keep |-> FALSE, oldest |-> 0, saw |-> 0, late |-> FALSE]]

Where(o, pc) == opener[o].pc = pc

Tick == time < MaxTime /\ time' = time + 1 /\ UNCHANGED <<version, changed, node, pages, opener, dropped>>
ChangeFile ==
  /\ version < MaxVersion
  /\ version' = version + 1 /\ changed' = [changed EXCEPT ![version + 1] = time]
  /\ UNCHANGED <<time, node, pages, opener, dropped>>
-----------------------------------------------------------------------------
\* update_stat
\* Mutant: a changed file keeps its pages.
UpdateStatKeeping(n, v) == [n EXCEPT !.mtime = v, !.stat_updated = time]
UpdateStat(n, v) ==
  [cache_valid |-> n.cache_valid /\ n.mtime = v, mtime |-> v, stat_updated |-> time]

\* fuse_lib_getattr, lookup_path: the attributes are the file system's of now.
Getattr ==
  /\ node' = UpdateStat(node, version)
  /\ UNCHANGED <<time, version, changed, pages, opener, dropped>>

\* What an open of now must at least show: what there was Timeout ago.
Oldest == CHOOSE v \in 1..version : /\ changed[v] + Timeout < time \/ v = 1
                                    /\ \A u \in (v + 1)..version : changed[u] + Timeout >= time

\* The end of open_auto_cache, in one section with the test before it.
Decide(o, n) ==
  /\ node' = [n EXCEPT !.cache_valid = TRUE]
  /\ opener' = [opener EXCEPT ![o].pc = "reply", ![o].keep = n.cache_valid, ![o].oldest = Oldest]

\* open_auto_cache: old attributes are asked for again, without the lock.
Stale(n) == n.cache_valid /\ time - n.stat_updated > Timeout
OpenFresh(o) ==
  /\ Where(o, "idle") /\ ~Stale(node)
  /\ Decide(o, node)
  /\ UNCHANGED <<time, version, changed, pages, dropped>>
OpenStale(o) ==
  /\ Where(o, "idle") /\ Stale(node)
  /\ opener' = [opener EXCEPT ![o].pc = "stat"]
  /\ UNCHANGED <<time, version, changed, node, pages, dropped>>
OpenStat(o) ==
  /\ Where(o, "stat")
  /\ \/ Decide(o, UpdateStat(node, version))
     \/ Decide(o, [node EXCEPT !.cache_valid = FALSE])
  /\ UNCHANGED <<time, version, changed, pages, dropped>>
-----------------------------------------------------------------------------
(* The kernel *)

\* fuse_finish_open drops the pages unless FOPEN_KEEP_CACHE came with the reply.
FinishOpen(o) ==
  /\ Where(o, "reply")
  /\ pages' = IF opener[o].keep THEN pages ELSE 0
  /\ opener' = [opener EXCEPT ![o].pc = "open"]
  /\ UNCHANGED <<time, version, changed, node, dropped>>
\* The open was interrupted: the reply is ENOENT and the file is released.
OpenInterrupted(o) ==
  /\ Where(o, "reply")
  /\ opener' = [opener EXCEPT ![o].pc = "idle", ![o].keep = FALSE]
  /\ dropped' = (dropped \/ ~opener[o].keep)
  /\ UNCHANGED <<time, version, changed, node, pages>>
ReadPages(o) ==
  /\ Where(o, "open")
  /\ pages' = IF pages = 0 THEN version ELSE pages
  /\ opener' = [opener EXCEPT ![o].pc = "read", ![o].saw = pages',
                            ![o].late = \E p \in Openers \ {o} : Where(p, "reply") /\ ~opener[p].keep]
  /\ UNCHANGED <<time, version, changed, node, dropped>>
Close(o) ==
  /\ Where(o, "read")
  /\ opener' = [opener EXCEPT ![o] = [pc |-> "idle", keep |-> FALSE, oldest |-> 0, saw |-> 0, late |-> FALSE]]
  /\ UNCHANGED <<time, version, changed, node, pages, dropped>>

Opening(o) == OpenFresh(o) \/ OpenStale(o) \/ OpenStat(o)
CacheNext ==
  \/ Tick \/ ChangeFile \/ Getattr
  \/ \E o \in Openers : Opening(o) \/ FinishOpen(o) \/ OpenInterrupted(o) \/ ReadPages(o) \/ Close(o)

CacheSpec == CacheInit /\ [][CacheNext]_cacheVars
-----------------------------------------------------------------------------
\* A program that opens a file sees no contents older than ac_attr_timeout:
\* pages are kept over an open only if they are the file's (open_auto_cache,
\* update_stat).  Excepted are a read while the answer that drops the pages
\* is under way to another opener, and the time after such an answer came to
\* an interrupted open, for open_auto_cache has set cache_valid by then.
FreshPages ==
  \A o \in Openers : Where(o, "read") /\ ~dropped /\ ~opener[o].late => opener[o].saw >= opener[o].oldest
=============================================================================
