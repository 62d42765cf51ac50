----------------------------- MODULE MCFuseMain -----------------------------
(* Eight machines of libfuse that share no state, so one of them runs in a   *)
(* behaviour: the worker pool and its requests, httpfs2 and its server, two  *)
(* programs at a mount point, one connection from INIT to its end, a reader  *)
(* of a directory, the pages the kernel keeps for auto_cache, the options of *)
(* a command line, and the callers of the lock manager.                      *)
EXTENDS FuseSession, HttpFs, FuseMount, FuseProtocol, FuseListing, FuseCache, FuseOptions,
        UlockMgr, TLC

CONSTANTS r1, r2, w1, w2, w3, p1, p2, o1, o2, c1, c2, c3

VARIABLE part

S(kind1, kind2, intr, stop, threads) ==
  [kind |-> r1 :> kind1 @@ r2 :> kind2, intr |-> intr, stop |-> stop, threads |-> threads]
U(root, mtab, subtype) == [root |-> root, mtab |-> mtab, subtype |-> subtype]

MCSessions ==
  {S("wait", "op", "other", "none", {w1, w2, w3}),
   S("wait", "forget", "off", "unmount", {w1, w2}),
   S("op", "forget", "off", "signal", {w1, w2}),
   S("wait", "op", "usr1", "none", {w1, w2}),
   S("wait", "op", "other", "unmount", {w1, w2})}

MCUsers == {U(TRUE, TRUE, FALSE), U(FALSE, FALSE, TRUE)}

\* Kernels from before 7.4 to one with a newer major version; file systems of
\* today and of versions 1.1, 2.2 and 2.5, one of them with a module that is missing.
K(major, minor, offers, bye) == [major |-> major, minor |-> minor, offers |-> offers, sends_destroy |-> bye]
MCKernels == {K(6, 2, {}, FALSE), K(7, 3, {}, FALSE), K(7, 8, {"posix_locks"}, FALSE),
              K(7, 11, Caps, TRUE), K(8, 20, Caps, TRUE)}
All == {"getattr", "fgetattr", "open", "read", "write", "flush", "release", "lock", "create",
        "opendir", "readdir", "releasedir", "truncate", "ftruncate", "utimens", "mkdir"}
All25 == (All \ {"lock", "utimens"}) \cup {"utime"}
Old == {"getattr", "open", "read", "release", "getdir", "truncate", "utime", "mknod"}
F(ops, compat, module) == [ops |-> ops, nullpath |-> FALSE, compat |-> compat, module |-> module]
MCFileSystems == {F(All, 0, "none"), [F(All, 0, "none") EXCEPT !.nullpath = TRUE], F(All25, 25, "none"), F(Old, 22, "pushed"), F(Old, 11, "none"),
                  F({"getattr"}, 0, "missing")}
MCSetups ==
  {[major |-> k.major, minor |-> k.minor, offers |-> k.offers, sends_destroy |-> k.sends_destroy,
    ops |-> f.ops, nullpath |-> f.nullpath, compat |-> f.compat, module |-> f.module, opts |-> o,
    buf |-> 135168, max_write |-> 1048576]
     : k \in MCKernels, f \in MCFileSystems, o \in {{}, {"allow_root", "no_remote_lock"}}}

MCLength == "a" :> 1 @@ "b" :> 9 @@ "c" :> 4

\* Every pair of options in one group, and groups with dashed options and "--".
Pool == {<<"ro">>, <<"rw">>, <<"suid">>, <<"dev">>, <<"nosuid">>, <<"fsname=", "x">>, <<"fsname=", ",", "\\", "x">>,
         <<"fsname=", "\\">>, <<"subtype=", "y">>, <<"subtype=", "y", ",", "suid">>, <<"allow_other">>, <<"allow_root">>,
         <<"max_read=", "1">>, <<"big_writes">>, <<"umask=", "2">>, <<"debug">>, <<"nonempty">>, <<"blkdev">>,
         <<"unknown">>, <<"user=", "z">>, <<"subtype=", "y", ",", "rw">>, <<"subtype=", "y", ",", "allow_other">>,
         <<"max_read=", "1", ",", "ro">>, <<"large_read">>, <<"umask=", "x">>, <<"auto_cache">>, <<"noauto_cache">>}
Path == [kind |-> "path", text |-> <<"mnt">>]
Dash(o) == [kind |-> "dash", text |-> <<o>>]
Sep == [kind |-> "sep", text |-> <<"--">>]
Opts(l) == [kind |-> "opts", opts |-> l]
Givens ==
  {<<Opts(<<a, b>>), Path>> : a \in Pool, b \in Pool}
  \cup {<<Path, Dash("-r"), Opts(<<a>>), Dash(d)>> : a \in Pool, d \in {"-d", "-f", "-x"}}
  \cup {<<Dash("-d"), Opts(<<a>>), Sep, Path>> : a \in Pool}
  \cup {<<Dash("-d"), Sep, Path>>, <<Path, Path>>, << >>}

Line(says, ends) == [says |-> says, ends |-> ends]
Confs == {<< >>, <<Line("user_allow_other", TRUE)>>, <<Line("mount_max = 0", TRUE)>>,
          <<Line("comment", FALSE), Line("user_allow_other", TRUE)>>, <<Line("user_allow_other", FALSE)>>}
Dir(empty, own) == [kind |-> "dir", empty |-> empty, own |-> own, sticky |-> TRUE, writable |-> TRUE]
Runner(root, conf, place, subtypes) == [root |-> root, conf |-> conf, place |-> place, subtypes |-> subtypes]
Runners ==
  {Runner(TRUE, << >>, Dir(TRUE, TRUE), TRUE), Runner(TRUE, << >>, Dir(FALSE, FALSE), FALSE),
   Runner(FALSE, << >>, Dir(TRUE, FALSE), TRUE)}
  \cup {Runner(FALSE, c, Dir(TRUE, TRUE), FALSE) : c \in Confs}
MCCommands == {[given |-> g, root |-> e.root, conf |-> e.conf, place |-> e.place, subtypes |-> e.subtypes]
                : g \in Givens, e \in Runners}
MCProg == <<"prog">>
MCDev == <<"dev">>

\* A thread of owner a waits for what owner b may have, while another thread of a
\* unlocks that file and uses a second one.
Lk(t, o, f, c, l, b) ==
  [by |-> t, owner |-> o, fd |-> f, cmd |-> c, type |-> l, bytes |-> b]
MCUlockCalls ==
  {Lk(c1, "a", "f", "SETLKW", "WRLCK", "all"),
   Lk(c2, "a", "f", "SETLKW", "UNLCK", "all"), Lk(c2, "a", "f", "SETLK", "UNLCK", "some"),
   Lk(c2, "a", "g", "SETLK", "WRLCK", "some"), Lk(c2, "a", "g", "SETLK", "UNLCK", "all"),
   Lk(c3, "b", "f", "SETLK", "WRLCK", "some"), Lk(c3, "b", "f", "SETLK", "UNLCK", "all"),
   Lk(c3, "b", "f", "GETLK", "WRLCK", "all")}

\* The parts that do not run stay at one of their initial states.
OneSession == CHOOSE s \in Sessions : TRUE
OneLength == CHOOSE n \in Lengths : TRUE
OneUser == CHOOSE u \in Users : TRUE
OneSetup == CHOOSE s \in Setups : TRUE
OneCommand == CHOOSE c \in Commands : TRUE
Init ==
  /\ part \in {"session", "http", "mount", "protocol", "listing", "cache", "options", "ulock"}
  /\ SessionInit /\ (part = "session" \/ session = OneSession)
  /\ HttpInit /\ (part = "http" \/ length = OneLength)
  /\ MountInit /\ (part = "mount" \/ user = [p \in Programs |-> OneUser])
  /\ ProtocolInit /\ (part = "protocol" \/ setup = OneSetup)
  /\ ListingInit /\ (part = "listing" \/ (paging /\ dir = << >>))
  /\ CacheInit
  /\ OptionsInit /\ (part = "options" \/ cmd = OneCommand)
  /\ UlockInit /\ (part = "ulock" \/ handler = "return")

Next ==
  /\ UNCHANGED part
  /\ \/ /\ part = "session" /\ SessionNext
        /\ UNCHANGED <<httpVars, mountVars, protocolVars, listingVars, cacheVars, optionVars, ulockVars>>
     \/ /\ part = "http" /\ HttpNext
        /\ UNCHANGED <<sessionVars, mountVars, protocolVars, listingVars, cacheVars, optionVars, ulockVars>>
     \/ /\ part = "mount" /\ MountNext
        /\ UNCHANGED <<sessionVars, httpVars, protocolVars, listingVars, cacheVars, optionVars, ulockVars>>
     \/ /\ part = "protocol" /\ ProtocolNext
        /\ UNCHANGED <<sessionVars, httpVars, mountVars, listingVars, cacheVars, optionVars, ulockVars>>
     \/ /\ part = "listing" /\ ListingNext
        /\ UNCHANGED <<sessionVars, httpVars, mountVars, protocolVars, cacheVars, optionVars, ulockVars>>
     \/ /\ part = "cache" /\ CacheNext
        /\ UNCHANGED <<sessionVars, httpVars, mountVars, protocolVars, listingVars, optionVars, ulockVars>>
     \/ /\ part = "options" /\ OptionsNext
        /\ UNCHANGED <<sessionVars, httpVars, mountVars, protocolVars, listingVars, cacheVars, ulockVars>>
     \/ /\ part = "ulock" /\ UlockNext
        /\ UNCHANGED <<sessionVars, httpVars, mountVars, protocolVars, listingVars, cacheVars, optionVars>>

vars == <<part, sessionVars, httpVars, mountVars, protocolVars, listingVars, cacheVars, optionVars, ulockVars>>

\* The session's fairness is about its own part.
Fairness ==
  /\ WF_sessionVars(part = "session" /\ MainStep)
  /\ \A w \in Workers : WF_sessionVars(part = "session" /\ WorkerStep(w))

Spec == Init /\ [][Next]_vars /\ Fairness
=============================================================================
