---------------------------- MODULE FuseProtocol ----------------------------
(***************************************************************************)
(* One connection to the kernel from fuse_new to fuse_destroy: the INIT    *)
(* message, in which the two sides agree on a version and on capabilities, *)
(* the gate every message passes, the handle a file system gave at an open *)
(* and must find again in every later call, and the end of the connection, *)
(* with a DESTROY message or without.                                      *)
(*                                                                         *)
(* Requests are served one at a time; FuseSession has the threads.         *)
(***************************************************************************)
EXTENDS FuseCalls, Integers, FiniteSetsExt

CONSTANT Setups      \* see SetupAssumption

Caps == {"async_read", "posix_locks", "atomic_o_trunc", "export", "big_writes", "dont_mask"}
LlOpts == {"allow_root", "no_remote_lock", "atomic_o_trunc", "big_writes", "sync_read"}
Uids == {"owner", "root", "stranger"}
\* MIN_BUFSIZE of fuse_kern_chan.c
MinBuf == 135168
Valids == {{}, {"size"}, {"mode", "uid"}, {"atime"}, {"atime", "mtime"}}

\* The functions that came after a version of the interface.
Later(compat) ==
  (IF compat # 0 THEN {"utimens", "lock", "bmap", "ioctl", "poll"} ELSE {})
  \cup (IF compat \in {11, 21, 22} THEN {"access", "create", "ftruncate", "fgetattr"} ELSE {})
  \cup (IF compat \in {11, 21} THEN {"opendir", "readdir", "releasedir", "fsyncdir"} ELSE {})

\* major, minor, offers: the kernel's; sends_destroy: a mount of fuseblk;
\* ops, nullpath, compat: the file system's; module: one to be pushed, if any;
\* buf: the buffer of the channel, max_write: the option.
\* The structures of older interfaces have fewer functions (fuse_compat.h).
ASSUME SetupAssumption ==
  /\ Setups \subseteq
       [major : 6..8, minor : Nat, offers : SUBSET Caps, sends_destroy : BOOLEAN,
        ops : SUBSET FsFunctions, nullpath : BOOLEAN, compat : {0, 11, 21, 22, 25},
        module : {"none", "pushed", "missing"}, opts : SUBSET LlOpts, buf : Nat, max_write : Nat]
  /\ \A s \in Setups : s.buf >= MinBuf /\ s.ops \cap Later(s.compat) = {}

VARIABLES
  setup,
  phase,     \* fuse_new is "called"; the session "runs"; "failed"; "destroyed"
  ll,        \* struct fuse_ll: got_init, got_destroy, and its conn
  kernel,    \* what the kernel is in, what it agreed to, and the handles of its open files
  fs,        \* how often its init and destroy ran, and whether a call came outside of them
  last       \* the request served last
protocolVars == <<setup, phase, ll, kernel, fs, last>>

FsOf(s) == [ops |-> s.ops, compat |-> s.compat]
Nothing == [opcode |-> "none", uid |-> "owner", err |-> "none", answers |-> {},
            replies |-> {}, nulls |-> {}, held |-> "none", found |-> "none"]

ProtocolInit ==
  /\ setup \in Setups
  /\ phase = "called"
  /\ ll = [got_init |-> FALSE, got_destroy |-> FALSE, minor |-> 0, capable |-> {}, want |-> {},
           async |-> TRUE, max_write |-> setup.max_write]
  /\ kernel = [state |-> "mounted", minor |-> 0, flags |-> {}, max_write |-> 4096, fh |-> "none", dh |-> "none"]
  /\ fs = [inits |-> 0, destroys |-> 0, outside |-> FALSE]
  /\ last = Nothing
-----------------------------------------------------------------------------
(* fuse_new_common, fuse_lowlevel_new_common *)

\* fuse_path_ops without the lock functions, unless the file system locks.
LlOps(s) == Opcodes \ (IF "lock" \in s.ops THEN {} ELSE LockOps)

\* The interfaces up to 2.5 read one block at a time.
SyncCompat(s) == s.compat # 0 /\ s.compat <= 25

\* A module that cannot be loaded undoes the rest; the file system's destroy
\* is taken away first, for its init has not run.
New ==
  /\ phase = "called"
  /\ phase' = IF setup.module = "missing" THEN "failed" ELSE "runs"
  /\ ll' = [ll EXCEPT !.async = "sync_read" \notin setup.opts /\ ~SyncCompat(setup)]
  /\ UNCHANGED <<setup, kernel, fs, last>>
-----------------------------------------------------------------------------
(* do_init *)

Capable(offers) == offers \cap Caps
Want(s) ==
  (IF "atomic_o_trunc" \in s.opts THEN {"atomic_o_trunc"} ELSE {})
  \cup (IF LockOps \subseteq LlOps(s) /\ "no_remote_lock" \notin s.opts THEN {"posix_locks"} ELSE {})
  \cup (IF "big_writes" \in s.opts THEN {"big_writes"} ELSE {})
\* fuse_lib_init wants what NFS needs, too.
LibWant == {"export"}

MinReadBuffer == 8192
MaxWrite(s) == Min({s.max_write, Max({s.buf, MinReadBuffer}) - 4096})

\* The kernel takes of the reply what it offered, from 7.6 on; an older one writes a page at a time.
Agrees(flags, max_write) ==
  [kernel EXCEPT !.state = "ready", !.minor = Min({setup.minor, 12}),
                 !.flags = IF setup.minor >= 6 THEN flags \cap setup.offers ELSE {},
                 !.max_write = IF setup.minor >= 5 THEN max_write ELSE 4096]

\* The version noted is the kernel's, though it may be newer.  Mutant: the library's own.
NotedOwn == 12
Noted == setup.minor

\* A newer kernel asks again with the library's major version, an older one is refused.
InitOther ==
  /\ phase = "runs" /\ kernel.state = "mounted" /\ setup.major # 7
  /\ kernel' = [kernel EXCEPT !.state = IF setup.major > 7 THEN "asks again" ELSE "refused"]
  /\ ll' = [ll EXCEPT !.minor = Noted, !.capable = {}, !.want = {}]
  /\ last' = [Nothing EXCEPT !.opcode = "init", !.err = IF setup.major > 7 THEN "ok" ELSE "EPROTO"]
  /\ UNCHANGED <<setup, phase, fs>>

InitSeven ==
  /\ phase = "runs"
  /\ (kernel.state = "mounted" /\ setup.major = 7) \/ kernel.state = "asks again"
  /\ ~ll.got_init
  /\ LET new == setup.minor >= 6
         async == new /\ ll.async /\ "async_read" \in setup.offers
         want == Want(setup) \cup LibWant
     IN /\ ll' = [ll EXCEPT !.got_init = TRUE, !.minor = Noted, !.async = async, !.want = want,
                            !.capable = IF new THEN Capable(setup.offers) ELSE {}, !.max_write = MaxWrite(setup)]
        /\ kernel' = Agrees(want \cup (IF async THEN {"async_read"} ELSE {}), MaxWrite(setup))
  /\ fs' = [fs EXCEPT !.inits = @ + 1]
  /\ last' = [Nothing EXCEPT !.opcode = "init", !.err = "ok"]
  /\ UNCHANGED <<setup, phase>>
-----------------------------------------------------------------------------
(* fuse_ll_process *)

\* With allow_root a stranger has only what is open already.
OnOpenFiles == {"read", "write", "fsync", "release", "readdir", "fsyncdir", "releasedir"}
Gate(opcode, uid) ==
  IF ~ll.got_init THEN "EIO"
  ELSE IF "allow_root" \in setup.opts /\ uid = "stranger" /\ opcode \notin OnOpenFiles THEN "EACCES"
  ELSE IF opcode \notin Opcodes THEN "ENOSYS" ELSE "pass"

OfFile == {"read", "write", "flush", "release", "fsync", "getlk", "setlk", "setlkw", "ioctl", "poll"}
OfDir == {"readdir", "fsyncdir", "releasedir"}
ByHandle(opcode) == opcode \in {"getattr", "setattr"} /\ AttrInfo(opcode, ll.minor, kernel.fh # "none") # {}
Held(opcode) ==
  CASE opcode \in OfDir -> kernel.dh
    [] opcode \in OfFile \/ ByHandle(opcode) -> kernel.fh
    [] OTHER -> "none"

\* What the kernel sends: locks only if they were agreed on, and handles only of what is open.
Sends(opcode) ==
  /\ kernel.state = "ready"
  /\ opcode \in OfFile => kernel.fh # "none"
  /\ opcode \in OfDir => kernel.dh # "none"
  /\ opcode \in {"open", "create"} => kernel.fh = "none"
  /\ opcode = "opendir" => kernel.dh = "none"
  /\ opcode \in LockOps => "posix_locks" \in kernel.flags
  /\ opcode \in {"ioctl", "poll"} => kernel.minor >= 11

\* What the file system finds where it looks for its handle.  For a directory
\* the handle is in the library's struct fuse_dh, which sets both members.
Found(opcode, info) == IF HandleMember(FsOf(setup)) \in info THEN Held(opcode) ELSE "zero"

\* The handle the kernel holds after an open.
Opened(a) == IF a.form \in {"fi", "copy"} THEN "given" ELSE "zero"
Handles(opcode, f) ==
  CASE opcode \in {"open", "create"} -> [kernel EXCEPT !.fh = Opened(Answer(opcode, f, TRUE))]
    [] opcode = "opendir" -> [kernel EXCEPT !.dh = Opened(Answer(opcode, f, TRUE))]
    [] opcode = "release" -> [kernel EXCEPT !.fh = "none"]
    [] opcode = "releasedir" -> [kernel EXCEPT !.dh = "none"]
    [] OTHER -> kernel

\* An attribute request may be about an open file.
Info(opcode) ==
  FileInfo(opcode, ll.minor) \cup (IF ByHandle(opcode) THEN Handle ELSE {})

\* gone: the file has lost its path; hiding it instead is FuseLib's.  What is
\* opened has one, and a FORGET is root's.
Request(opcode, uid, valid, gone) ==
  /\ phase = "runs" /\ Sends(opcode)
  /\ LET f == FsOf(setup)
         gate == Gate(opcode, uid)
         served == gate = "pass" /\ LlOp(opcode) \in LlOps(setup)
         info == Info(opcode)
         lost == gone /\ NoPath(opcode, info, setup.nullpath)
         works == served /\ ~lost /\ ~Unsupported(opcode, f, valid, info)
     IN /\ last' = [opcode |-> opcode, uid |-> uid,
                    answers |-> IF served /\ ~lost THEN {Answer(c, f, ~gone) : c \in LibCalls(opcode, valid, info)} ELSE {},
                    replies |-> CASE works -> LibReplies(opcode)
                                  [] gate = "pass" /\ ~served -> MissingReplies(opcode)
                                  [] OTHER -> {"err"},
                    nulls |-> IF served /\ gone THEN NullPath(opcode, info, setup.nullpath) ELSE {},
                    err |-> CASE works -> "ok"
                              [] gate # "pass" -> gate
                              [] gate = "pass" /\ ~served -> Missing(opcode)
                              [] served /\ lost -> "ENOENT"
                              [] OTHER -> "ENOSYS",
                    held |-> Held(opcode), found |-> Found(opcode, info)]
        /\ fs' = [fs EXCEPT !.outside = @ \/ (served /\ (fs.inits # 1 \/ fs.destroys # 0))]
        /\ kernel' = IF works THEN Handles(opcode, f) ELSE kernel
  /\ UNCHANGED <<setup, phase, ll>>
-----------------------------------------------------------------------------
(* The end *)

\* do_destroy, for a mount whose kernel says goodbye, with its files closed.
DestroyMessage ==
  /\ phase = "runs" /\ kernel.state = "ready" /\ setup.sends_destroy
  /\ kernel.fh = "none" /\ kernel.dh = "none"
  /\ ll' = [ll EXCEPT !.got_destroy = TRUE]
  /\ fs' = [fs EXCEPT !.destroys = @ + 1]
  /\ kernel' = [kernel EXCEPT !.state = "gone"]
  /\ last' = [Nothing EXCEPT !.opcode = "destroy", !.err = "ok"]
  /\ UNCHANGED <<setup, phase>>

\* fuse_ll_destroy
\* Mutant: it forgets that DESTROY came.
OwesAlways == ll.got_init
OwesDestroy == ll.got_init /\ ~ll.got_destroy

\* fuse_destroy, whenever the loop ends.
FuseDestroy ==
  /\ phase = "runs"
  /\ phase' = "destroyed"
  /\ fs' = [fs EXCEPT !.destroys = IF OwesDestroy THEN @ + 1 ELSE @]
  /\ kernel' = [kernel EXCEPT !.state = "gone"]
  /\ UNCHANGED <<setup, ll, last>>

\* Whatever follows a request that changed nothing also follows the state before it.
Settled == last.opcode \in Opcodes => last.opcode \in {"open", "create", "opendir", "release", "releasedir"}

ProtocolNext ==
  \/ New \/ InitOther \/ InitSeven
  \/ \E opcode \in Opcodes, uid \in Uids, valid \in Valids, gone \in BOOLEAN :
       /\ Settled
       /\ opcode = "setattr" \/ valid = {}
       /\ uid = "owner" \/ "allow_root" \in setup.opts      \* nothing else looks at it
       /\ opcode = "forget" => uid # "stranger"
       /\ gone => opcode \notin {"open", "opendir", "create"} /\ uid = "owner"
       /\ Request(opcode, uid, valid, gone)
  \/ DestroyMessage \/ FuseDestroy

ProtocolSpec == ProtocolInit /\ [][ProtocolNext]_protocolVars
-----------------------------------------------------------------------------
(* Properties *)

\* The file system's destroy runs once for each init, and every other call of
\* it comes between the two, however the connection was made and ended
\* (do_init, do_destroy, fuse_ll_destroy, the gate of fuse_ll_process).
SessionPaired ==
  /\ ~fs.outside
  /\ fs.inits <= 1 /\ fs.destroys <= fs.inits
  /\ phase = "destroyed" => fs.destroys = fs.inits

\* The handle a file system gave when it opened a file is the one it finds
\* in every later call on that file, whatever version it was compiled for and
\* whatever version the kernel speaks (fh, fh_old and fuse_compat_open).
HandleKept ==
  last.held = "given" /\ (\E a \in last.answers : a.form = "fi") => last.found = "given"

\* A file system that does not say it takes NULL for a path gets none, and
\* none of its functions but those listed does (fuse.h:451-457), even for a file
\* that has lost its name; and its release is called even then.  Not so a flush,
\* which goes out with whatever get_path left (fuse.c:3168-3179).
PathGiven ==
  /\ last.nulls \ {"flush", "lock"} # {} => setup.nullpath
  /\ last.nulls \subseteq NullPathCalls
  /\ last.opcode \in {"release", "releasedir"} /\ last.err # "EIO" => last.err = "ok" /\ last.answers # {}

\* A request gets only the replies that its function may give
\* (struct fuse_lowlevel_ops), whoever answers: the file system's way, the
\* function that is missing, the gate.
RepliesListed == last.opcode \in Opcodes => last.replies # {} /\ last.replies \subseteq ValidReplies(last.opcode)

CallsKept == HandleKept /\ PathGiven /\ RepliesListed

\* The message of a kernel of some version: what it sends at least.
Sent(opcode, minor) ==
  CASE opcode \in {"read", "write"} -> IF minor >= 9 THEN 40 ELSE 24
    [] opcode = "release" -> IF minor >= 8 THEN 24 ELSE 16
    [] opcode = "flush" -> IF minor >= 7 THEN 24 ELSE 16
    [] opcode = "readdir" -> 24
    [] opcode \in LockOps -> 48
    [] opcode \in {"open", "opendir", "create"} -> 8
    [] OTHER -> 16

\* After the INIT message both sides lay out every message in the same way,
\* the kernel by the version agreed on, the library by what it noted
\* (proto_minor and its uses).
SameLayout ==
  kernel.state = "ready" =>
    /\ \A opcode \in Opcodes :
         /\ Offset(opcode, ll.minor) = Offset(opcode, kernel.minor)
         /\ FileInfo(opcode, ll.minor) = FileInfo(opcode, kernel.minor)
         /\ \A m \in FileInfo(opcode, ll.minor) : MemberEnd(opcode, m) <= Sent(opcode, kernel.minor)
    /\ \A r \in {"entry", "create", "attr", "statfs"} : ReplySize(r, ll.minor) = ReplySize(r, kernel.minor)
    /\ kernel.max_write + 80 <= setup.buf
=============================================================================
