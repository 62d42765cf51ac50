------------------------------ MODULE FuseCalls ------------------------------
(***************************************************************************)
(* The way of a request from the kernel's opcode to a function of the file *)
(* system: the table of fuse_lowlevel.c and its do_ functions, which       *)
(* unpack a message by the kernel's minor version, the fuse_lib_ functions *)
(* of fuse.c, and the fuse_fs_ functions, which fall back on what the file *)
(* system has and speak the dialect it was compiled for.                   *)
(*                                                                         *)
(* fs is [ops, compat]: the functions a file system defines, and the       *)
(* version of the interface it uses, 0 being the current one.              *)
(***************************************************************************)
EXTENDS Integers, FiniteSets

\* The do_ functions.
AttrOps == {"lookup", "forget", "getattr", "setattr", "access", "readlink"}
NameOps == {"mknod", "mkdir", "unlink", "rmdir", "symlink", "rename", "link", "create"}
FileOps == {"open", "release", "read", "write", "flush", "fsync"}
DirOps == {"opendir", "releasedir", "readdir", "fsyncdir", "statfs"}
XattrOps == {"setxattr", "getxattr", "listxattr", "removexattr"}
LockOps == {"getlk", "setlk", "setlkw"}
OtherOps == LockOps \cup {"bmap", "ioctl", "poll"}

\* The table fuse_ll_ops, beside INIT, DESTROY and INTERRUPT.
Opcodes == AttrOps \cup NameOps \cup FileOps \cup DirOps \cup XattrOps \cup OtherOps

\* What each answers when its function is missing.
Granting == {"open", "release", "opendir", "releasedir", "statfs"}
Missing(opcode) ==
  CASE opcode = "forget" -> "none" [] opcode \in Granting -> "ok" [] OTHER -> "ENOSYS"
-----------------------------------------------------------------------------
(* struct fuse_lowlevel_ops: what may answer a request, beside an error *)

PathReplies(opcode) ==
  CASE opcode \in {"lookup", "mknod", "mkdir"} -> {"entry"}
    [] opcode \in {"getattr", "setattr"} -> {"attr"}
    [] opcode = "readlink" -> {"readlink"}
    [] OTHER -> {}
\* Nothing else answers unlink, rmdir and rename;
NameReplies(opcode) == IF opcode \in {"symlink", "link"} THEN {"entry"} ELSE {}
\* or flush, release and fsync;
FileReplies(opcode) ==
  CASE opcode = "open" -> {"open"} [] opcode = "read" -> {"buf", "iov"}
    [] opcode = "write" -> {"write"} [] OTHER -> {}
\* or releasedir and fsyncdir;
DirReplies(opcode) ==
  CASE opcode = "opendir" -> {"open"} [] opcode = "readdir" -> {"buf"}
    [] opcode = "statfs" -> {"statfs"} [] OTHER -> {}
\* or setxattr, removexattr and access;
XattrReplies(opcode) ==
  CASE opcode \in {"getxattr", "listxattr"} -> {"buf", "xattr"}
    [] opcode = "create" -> {"create"} [] OTHER -> {}
\* or setlk.
LockReplies(opcode) ==
  CASE opcode = "getlk" -> {"lock"} [] opcode = "bmap" -> {"bmap"} [] opcode = "poll" -> {"poll"}
    [] opcode = "ioctl" -> {"ioctl_retry", "ioctl", "ioctl_iov"} [] OTHER -> {}
ValidReplies(opcode) ==
  PathReplies(opcode) \cup NameReplies(opcode) \cup FileReplies(opcode) \cup DirReplies(opcode)
  \cup XattrReplies(opcode) \cup LockReplies(opcode)
  \cup (IF opcode = "forget" THEN {"none"} ELSE {"err"})
-----------------------------------------------------------------------------
(* do_lookup ... do_poll *)

\* The function of struct fuse_lowlevel_ops.
LlOp(opcode) == IF opcode = "setlkw" THEN "setlk" ELSE opcode

\* The members of fuse_file_info that come out of the message; the others are 0.
Handle == {"fh", "fh_old"}
\* Mutant: only fh is copied.
FileInfoNew(opcode, minor) ==
  IF opcode \in {"open", "opendir", "create"} THEN {"flags"} ELSE {"fh"}
FileInfo(opcode, minor) ==
  CASE opcode \in {"open", "opendir", "create"} -> {"flags"}
    [] opcode = "read" -> Handle \cup (IF minor >= 9 THEN {"lock_owner", "flags"} ELSE {})
    [] opcode = "write" -> Handle \cup {"writepage"} \cup (IF minor >= 9 THEN {"lock_owner", "flags"} ELSE {})
    [] opcode = "flush" -> Handle \cup {"flush"} \cup (IF minor >= 7 THEN {"lock_owner"} ELSE {})
    [] opcode = "release" -> Handle \cup {"flags"} \cup (IF minor >= 8 THEN {"flush", "lock_owner"} ELSE {})
    [] opcode = "releasedir" -> Handle \cup {"flags"}
    [] opcode \in {"fsync", "readdir", "fsyncdir", "ioctl", "poll"} -> Handle
    [] opcode \in LockOps -> {"fh", "lock_owner"}
    [] OTHER -> {}

\* GETATTR and SETATTR have a handle only when the kernel says so; a kernel
\* before 7.9 has no such flag of GETATTR.
AttrInfo(opcode, minor, fhFlag) ==
  IF fhFlag /\ (opcode = "setattr" \/ minor >= 9) THEN Handle ELSE {}

\* Where a member ends in the message of its request (struct fuse_read_in and the others).
MemberEnd(opcode, member) ==
  CASE member \in Handle -> 8
    [] member = "flags" -> IF opcode \in {"read", "write"} THEN 36
                           ELSE IF opcode \in {"open", "opendir", "create"} THEN 4 ELSE 12
    [] member = "lock_owner" -> IF opcode \in {"read", "write"} THEN 32 ELSE IF opcode \in LockOps THEN 16 ELSE 24
    [] member = "writepage" -> 24
    [] member = "flush" -> IF opcode = "release" THEN 16 ELSE 0

\* The bytes between the header and the name or the data of a message: the
\* sizes of the structures of fuse_kernel.h, which grew in 7.9 and 7.12.
Offset(opcode, minor) ==
  CASE opcode = "mknod" -> IF minor >= 12 THEN 16 ELSE 8
    [] opcode = "create" -> IF minor >= 12 THEN 16 ELSE 8
    [] opcode = "mkdir" -> 8
    [] opcode = "write" -> IF minor >= 9 THEN 40 ELSE 24
    [] opcode \in {"rename", "link"} -> 8
    [] opcode \in {"setxattr", "getxattr"} -> 8
    [] OTHER -> 0

\* struct fuse_attr, which grew in 7.9, and what has one in it; struct fuse_kstatfs in 7.4.
AttrSize(minor) == IF minor < 9 THEN 80 ELSE 88
EntryOut(minor) == 40 + AttrSize(minor)
StatfsOut(minor) == IF minor < 4 THEN 48 ELSE 80

\* fuse_reply_entry and the others; the rest has the length of its data.
ReplySize(reply, minor) ==
  CASE reply = "entry" -> EntryOut(minor)
    [] reply = "create" -> EntryOut(minor) + 16
    [] reply = "attr" -> 16 + AttrSize(minor)
    [] reply = "statfs" -> StatfsOut(minor)
    [] reply = "init" -> IF minor < 5 THEN 8 ELSE 24
    [] reply = "open" -> 16
    [] reply \in {"write", "xattr", "bmap", "poll"} -> 8
    [] reply = "lock" -> 24

\* fuse_send_reply_iov_nofree: a negative errno above -1000 is sent, any other is -ERANGE.
SentError(error) == IF error > -1000 /\ error <= 0 THEN error ELSE -34
\* fuse_reply_err has errno positive; without memory the vectors' replies have it negative already.
ReplyErr(err) == SentError(-err)
NoMemoryForVector == ReplyErr(-12)
\* An unknown inode before 7.4 was ENOENT.
EntryReply(ino, minor) == IF ino = 0 /\ minor < 4 THEN "ENOENT" ELSE "entry"

\* calc_timeout_sec and calc_timeout_nsec, with a second of S parts and times up to Most seconds.
TimeoutSec(t, S, Most) == IF t > Most * S THEN Most ELSE IF t < 0 THEN 0 ELSE t \div S
TimeoutNsec(t, S, Most) ==
  LET f == t - TimeoutSec(t, S, Most) * S
  IN IF f < 0 THEN 0 ELSE IF f >= S - 1 THEN S - 1 ELSE f

\* struct flock and struct fuse_file_lock: a length of 0 goes to the last offset.
ToFlock(start, end, OffsetMax) == [start |-> start, len |-> IF end = OffsetMax THEN 0 ELSE end - start + 1]
FromFlock(l, OffsetMax) == [start |-> l.start, end |-> IF l.len = 0 THEN OffsetMax ELSE l.start + l.len - 1]
-----------------------------------------------------------------------------
(* fuse_lib_ : what each calls of fuse_fs_ *)

\* valid: the attributes a SETATTR is about.  A time alone is not set.
SetattrCalls(valid, fi) ==
  (IF "mode" \in valid THEN {"chmod"} ELSE {})
  \cup (IF valid \cap {"uid", "gid"} # {} THEN {"chown"} ELSE {})
  \cup (IF "size" \notin valid THEN {} ELSE IF Handle \subseteq fi THEN {"ftruncate"} ELSE {"truncate"})
  \cup (IF {"atime", "mtime"} \subseteq valid THEN {"utimens"} ELSE {})
  \cup {"getattr"}

\* The functions a request may call; hiding an open file is FuseLib's.
LibCalls(opcode, valid, fi) ==
  CASE opcode = "lookup" -> {"getattr"}
    [] opcode = "getattr" -> IF Handle \subseteq fi THEN {"fgetattr"} ELSE {"getattr"}
    [] opcode = "setattr" -> SetattrCalls(valid, fi)
    [] opcode \in {"mkdir", "symlink", "link"} -> {opcode, "getattr"}
    [] opcode = "mknod" -> {"create", "fgetattr", "release", "mknod", "getattr"}
    [] opcode = "create" -> {"create", "fgetattr", "release"}
    [] opcode = "flush" -> {"flush", "lock"}
    [] opcode = "release" -> (IF "flush" \in fi THEN {"flush", "lock"} ELSE {}) \cup {"release"}
    [] opcode \in LockOps -> {"lock"}
    [] opcode = "forget" -> {}
    [] OTHER -> {opcode}

\* common_getxattr's and common_listxattr's callers: the size alone, the value, or errno.
XattrReply(size, res) ==
  CASE size = 0 /\ res >= 0 -> "xattr"
    [] size > 0 /\ res > 0 -> "buf"
    [] OTHER -> "err"

\* What answers a request that did not fail; "err" has errno 0.
LibReplies(opcode) ==
  CASE opcode \in {"lookup", "mknod", "mkdir", "symlink", "link"} -> {"entry"}
    [] opcode \in {"getattr", "setattr"} -> {"attr"}
    [] opcode \in {"open", "opendir"} -> {"open"}
    [] opcode \in {"read", "readdir"} -> {"buf"}
    [] opcode \in {"getxattr", "listxattr"} -> {XattrReply(size, res) : size \in 0..1, res \in 0..1}
    [] opcode \in {"readlink", "write", "statfs", "create", "bmap", "ioctl", "poll"} -> {opcode}
    [] opcode = "getlk" -> {"lock"}
    [] opcode = "forget" -> {"none"}
    [] OTHER -> {"err"}
\* What answers one whose function is missing.
MissingReplies(opcode) ==
  IF Missing(opcode) = "ok" /\ opcode \in {"open", "opendir", "statfs"} THEN LibReplies(opcode)
  ELSE IF Missing(opcode) = "none" THEN {"none"} ELSE {"err"}

\* get_path and get_path_nullok when the node has lost its name, by a removal
\* that did not hide it: a request fails, or its calls get NULL for a path, or
\* "-".  A flush does not ask.
ByHandleAlone(opcode, fi) ==
  opcode \in {"read", "write", "fsync"} \cup LockOps \/ (opcode = "getattr" /\ Handle \subseteq fi)
NoPath(opcode, fi, nullok) ==
  opcode \notin {"flush", "release", "releasedir", "forget"} /\ ~(nullok /\ ByHandleAlone(opcode, fi))
NullPath(opcode, fi, nullok) ==
  CASE opcode = "flush" -> {"flush", "lock"}
    [] opcode = "release" -> (IF nullok THEN {"release"} ELSE {}) \cup (IF "flush" \in fi THEN {"flush", "lock"} ELSE {})
    [] nullok /\ (opcode = "releasedir" \/ ByHandleAlone(opcode, fi)) -> LibCalls(opcode, {}, fi)
    [] OTHER -> {}

\* fuse_lib_ioctl never serves an unrestricted ioctl.
IoctlRefused(flags) == "unrestricted" \in flags
-----------------------------------------------------------------------------
(* fuse_fs_ *)

\* What becomes of a call whose function the file system does not have: another
\* of its functions serves it, or the library answers, "ok" or "ENOSYS".
NameCalls == {"getattr", "fgetattr", "rename", "unlink", "rmdir", "symlink", "link"}
WithoutName(call, fs, hasPath) ==
  IF call = "fgetattr" /\ hasPath /\ "getattr" \in fs.ops THEN "getattr" ELSE "ENOSYS"
OpenCalls == {"release", "opendir", "open"}
DataCalls == {"read", "write", "fsync", "fsyncdir", "flush", "statfs", "releasedir"}
WithoutData(call) == IF call \in {"statfs", "releasedir"} THEN "ok" ELSE "ENOSYS"
WithoutReaddir(fs) == IF "getdir" \in fs.ops THEN "getdir" ELSE "ENOSYS"
ChangeCalls == {"create", "lock", "chown", "truncate", "ftruncate", "utimens"}
WithoutChange(call, fs, hasPath) ==
  CASE call = "ftruncate" /\ hasPath /\ "truncate" \in fs.ops -> "truncate"
    [] call = "utimens" /\ "utime" \in fs.ops -> "utime"
    [] OTHER -> "ENOSYS"
PlainCalls == {"access", "readlink", "mknod", "mkdir", "setxattr", "getxattr", "listxattr", "bmap",
               "removexattr", "ioctl", "poll", "chmod"}

Serves(call, fs, hasPath) ==
  CASE call \in fs.ops -> call
    [] call \notin fs.ops /\ call \in NameCalls -> WithoutName(call, fs, hasPath)
    [] call \notin fs.ops /\ call \in OpenCalls -> "ok"
    [] call \notin fs.ops /\ call \in DataCalls -> WithoutData(call)
    [] call \notin fs.ops /\ call = "readdir" -> WithoutReaddir(fs)
    [] call \notin fs.ops /\ call \in ChangeCalls -> WithoutChange(call, fs, hasPath)
    [] call \notin fs.ops /\ call \in PlainCalls -> "ENOSYS"

\* Whether a request fails for want of functions.  A regular file is made by
\* create or by mknod; closing asks for flush and for lock and needs neither.
Lacks(call, fs) == Serves(call, fs, TRUE) = "ENOSYS"
Unsupported(opcode, fs, valid, fi) ==
  CASE opcode = "mknod" -> /\ Lacks("create", fs) \/ Lacks("fgetattr", fs)
                           /\ Lacks("mknod", fs) \/ Lacks("getattr", fs)
    [] opcode = "flush" -> Lacks("flush", fs) /\ Lacks("lock", fs)
    [] opcode = "release" -> FALSE
    [] OTHER -> \E c \in LibCalls(opcode, valid, fi) : Lacks(c, fs)

\* How it is given the file: by a fuse_file_info, by the one of version 2.2,
\* whose handle lies where fh_old is, by the flags alone, or not at all.
OpenForm(compat) == CASE compat = 0 \/ compat >= 25 -> "fi" [] compat = 22 -> "copy" [] OTHER -> "flags"
ReleaseForm(compat) == IF compat = 0 \/ compat >= 22 THEN "fi" ELSE "flags"
OpendirForm(compat) == IF compat = 0 \/ compat >= 25 THEN "fi" ELSE "copy"
StatfsForm(compat) ==
  CASE compat = 0 \/ compat > 25 -> "path" [] compat = 25 -> "root"
    [] compat \in 12..24 -> "old" [] OTHER -> "oldest"
\* struct fuse_operations: the functions of a path, and those of an open file.
PathCalls == {"getattr", "readlink", "getdir", "mknod", "mkdir", "unlink", "rmdir", "symlink", "rename", "link",
              "chmod", "chown", "truncate", "utime", "utimens", "access", "bmap"} \cup XattrOps
InfoCalls == {"read", "write", "flush", "fsync", "readdir", "releasedir", "fsyncdir"}
LateInfoCalls == {"create", "ftruncate", "fgetattr", "lock", "ioctl", "poll"}
\* Those that take NULL for a path, where a file system says it can.
NullPathCalls == {"read", "write", "flush", "release", "fsync", "readdir", "releasedir", "fsyncdir",
                  "ftruncate", "fgetattr", "lock"}
\* All the functions, beside init and destroy.
FsFunctions == PathCalls \cup InfoCalls \cup LateInfoCalls \cup {"open", "release", "opendir", "statfs"}

Form(call, fs) ==
  CASE call = "open" -> OpenForm(fs.compat)
    [] call = "release" -> ReleaseForm(fs.compat)
    [] call = "opendir" -> OpendirForm(fs.compat)
    [] call = "statfs" -> StatfsForm(fs.compat)
    [] call \in PathCalls -> "path"
    [] call \in InfoCalls \cup LateInfoCalls -> "fi"

\* The member in which the file system looks for its handle.
HandleMember(fs) == IF fs.compat = 22 THEN "fh_old" ELSE "fh"
Answer(call, fs, hasPath) ==
  LET by == Serves(call, fs, hasPath)
  IN [by |-> by, form |-> IF by \in fs.ops THEN Form(by, fs) ELSE "none"]
=============================================================================
