------------------------------ MODULE FuseMount ------------------------------
(***************************************************************************)
(* How programs of libfuse come to a mount point and leave it: the set-up  *)
(* and the teardown of helper.c, mount(2) and umount2(2) in mount.c, and   *)
(* fusermount, the helper of those who are not root, as its own process    *)
(* (built with IGNORE_MTAB).  All use one mount point; an administrator    *)
(* may unmount what is on top of it.                                       *)
(*                                                                         *)
(* Nobody has a file open when a file system is unmounted, so that a       *)
(* detached one is gone, and its device answers poll with POLLERR.         *)
(***************************************************************************)
EXTENDS Sequences, SequencesExt

CONSTANTS
  Programs,
  Users           \* by whom and how a program may be run: see MountAssumption

\* root: by root; mtab: /etc/mtab is a file that wants updates; subtype: of the
\* mount options, which the helper adds unless fsname= or subtype= is given.
ASSUME MountAssumption ==
  Users \subseteq [root : BOOLEAN, mtab : BOOLEAN, subtype : BOOLEAN]

VARIABLES
  user,           \* of each program
  mounts,         \* what is mounted on the mount point, the top last
  stage,          \* where a program is
  fd,             \* its descriptor of the device: "none", "open" or "closed"
  helper,         \* its fusermount
  quiet,          \* its first attempt with fusermount is still to come
  lost,           \* programs whose mount another program took away
  excuse          \* what happened that explains a loss

mountVars == <<user, mounts, stage, fd, helper, quiet, lost, excuse>>

MountInit ==
  /\ user \in [Programs -> Users]
  /\ mounts = << >>
  /\ stage = [p \in Programs |-> "start"] /\ fd = [p \in Programs |-> "none"]
  /\ helper = [p \in Programs |-> "none"]
  /\ quiet = [p \in Programs |-> user[p].subtype]
  /\ lost = {} /\ excuse = {}

Mounted(p) == p \in ToSet(mounts)
Because(why, reason) == excuse' = IF why THEN excuse \cup {reason} ELSE excuse
At(p, from) == stage[p] = from
To(p, to) == stage' = [stage EXCEPT ![p] = to]
Fd(p, to) == fd' = [fd EXCEPT ![p] = to]

\* mount(2) covers what is there; an unmount by path takes the topmost.
Push(p) == mounts' = Append(mounts, p) /\ Because(mounts # << >>, "stacked")
Pop(p) ==
  IF mounts = << >> THEN UNCHANGED <<mounts, lost>>
  ELSE mounts' = Front(mounts) /\ lost' = lost \cup ({Last(mounts)} \ {p})
-----------------------------------------------------------------------------
(* fuse_setup_common *)

\* fuse_parse_cmdline and the options of fuse_kern_mount.
Parse(p) ==
  /\ At(p, "start") /\ \E to \in {"over", "check"} : To(p, to)
  /\ UNCHANGED <<user, mounts, fd, helper, quiet, lost, excuse>>

\* With -h and a mount point, fuse_kern_mount returns 0, which passes for a
\* descriptor until fuse_new_common has printed its help and fails.
AskHelp(p) ==
  /\ At(p, "start") /\ To(p, "unmount") /\ Because(TRUE, "help")
  /\ UNCHANGED <<user, mounts, fd, helper, quiet, lost>>

\* fuse_mount_sys: stat, fuse_mnt_check_empty, the opening of /dev/fuse.  What
\* is mounted there may be empty, too.
CheckEmpty(p) ==
  /\ At(p, "check") /\ \E to \in {"over", "mount"} : To(p, to)
  /\ UNCHANGED <<user, mounts, fd, helper, quiet, lost, excuse>>

\* mount(2).  For root, mtab comes next; for others it is EPERM, as a rule.
MountSys(p) ==
  /\ At(p, "mount")
  /\ \/ /\ Push(p) /\ Fd(p, "open")
        /\ To(p, IF user[p].root THEN "mtab" ELSE "channel")
     \/ /\ \/ To(p, "over")
           \/ ~user[p].root /\ To(p, "fork")
        /\ UNCHANGED <<mounts, fd, excuse>>
  /\ UNCHANGED <<user, helper, quiet, lost>>

\* fuse_mnt_resolve_path and fuse_mnt_add_mount; if one fails the mount is taken
\* back.
AddMtab(p) ==
  /\ At(p, "mtab") /\ \E to \in {"channel", "undo"} : To(p, to)
  /\ UNCHANGED <<user, mounts, fd, helper, quiet, lost, excuse>>

\* out_umount
UndoMount(p) ==
  /\ At(p, "undo") /\ Pop(p) /\ To(p, "over") /\ Fd(p, "closed")
  /\ Because(~Mounted(p), "late")
  /\ UNCHANGED <<user, helper, quiet>>
-----------------------------------------------------------------------------
(* fuse_mount_fusermount, and mount_fuse of fusermount *)

Fork(p) ==
  /\ At(p, "fork") /\ To(p, "receive")
  /\ helper' = [helper EXCEPT ![p] = "check"]
  /\ UNCHANGED <<user, mounts, fd, quiet, lost, excuse>>

\* open_fuse_device, read_conf, check_perm, the options and check_empty.
HelperChecks(p) ==
  /\ helper[p] = "check"
  /\ \E to \in {"exited", "mount"} : helper' = [helper EXCEPT ![p] = to]
  /\ UNCHANGED <<user, mounts, stage, fd, quiet, lost, excuse>>

HelperMounts(p) ==
  /\ helper[p] = "mount"
  /\ \/ helper' = [helper EXCEPT ![p] = "send"] /\ Push(p)
     \/ helper' = [helper EXCEPT ![p] = "exited"] /\ UNCHANGED <<mounts, excuse>>
  /\ UNCHANGED <<user, stage, fd, quiet, lost>>

\* send_fd.  A helper that ends before leaves its mount behind.
HelperSends(p) ==
  /\ helper[p] = "send"
  /\ \/ helper' = [helper EXCEPT ![p] = "sent"] /\ UNCHANGED excuse
     \/ helper' = [helper EXCEPT ![p] = "exited"] /\ Because(TRUE, "orphan")
  /\ UNCHANGED <<user, mounts, stage, fd, quiet, lost>>

\* receive_fd.  With a subtype there is a second attempt, without it.
Receive(p) ==
  /\ At(p, "receive") /\ helper[p] \in {"sent", "exited"}
  /\ helper' = [helper EXCEPT ![p] = "none"] /\ quiet' = [quiet EXCEPT ![p] = FALSE]
  /\ IF helper[p] = "sent" THEN Fd(p, "open") /\ To(p, "channel")
     ELSE UNCHANGED fd /\ To(p, IF quiet[p] THEN "fork" ELSE "over")
  /\ UNCHANGED <<user, mounts, lost, excuse>>
-----------------------------------------------------------------------------
(* The rest of the set-up, and the end *)

\* fuse_kern_chan_new, fuse_new_common, fuse_daemonize, fuse_set_signal_handlers.
SetUp(p) ==
  /\ At(p, "channel") /\ \E to \in {"run", "unmount"} : To(p, to)
  /\ UNCHANGED <<user, mounts, fd, helper, quiet, lost, excuse>>

\* A fuse_new_common that fails after its session destroys the channel with it;
\* the helper then reads the freed channel's descriptor, or crashes.
ChannelFreed(p) ==
  /\ At(p, "channel") /\ \E to \in {"killed", "unmount"} : To(p, to)
  /\ Fd(p, "closed")
  /\ UNCHANGED <<user, mounts, helper, quiet, lost, excuse>>

\* The loop returns, after a signal or ENODEV, or the process is killed.
Ends(p) ==
  /\ At(p, "run") /\ \E to \in {"unmount", "killed"} : To(p, to)
  /\ UNCHANGED <<user, mounts, fd, helper, quiet, lost, excuse>>

\* Mutant: the device is not asked whether its file system is still mounted.
PollNothing(p) ==
  /\ At(p, "unmount") /\ To(p, "umount") /\ Fd(p, "closed")
  /\ UNCHANGED <<user, mounts, helper, quiet, lost, excuse>>

\* fuse_kern_unmount: POLLERR on an open device says that it is not.
Poll(p) ==
  /\ At(p, "unmount")
  /\ To(p, IF fd[p] = "open" /\ ~Mounted(p) THEN "over" ELSE "umount")
  /\ Fd(p, "closed")
  /\ Because(fd[p] = "closed" /\ ~Mounted(p), "freed")
  /\ UNCHANGED <<user, mounts, helper, quiet, lost>>

\* For root, umount2 or else /bin/umount, which may fail; for others umount2,
\* as a rule with EPERM, and then fusermount -u -q -z, if it can be started.
Umount(p) ==
  /\ At(p, "umount")
  /\ \/ Pop(p) /\ To(p, "over") /\ UNCHANGED helper
     \/ ~user[p].root /\ To(p, "wait") /\ UNCHANGED <<mounts, lost>>
        /\ helper' = [helper EXCEPT ![p] = "umount"]
     \/ (user[p].root => user[p].mtab)
        /\ To(p, "left") /\ UNCHANGED <<mounts, lost, helper>>
  /\ UNCHANGED <<user, fd, quiet, excuse>>

\* unmount_fuse, and the end of the wait for it.
HelperUnmounts(p) ==
  /\ At(p, "wait") /\ helper[p] = "umount"
  /\ \/ Pop(p) /\ To(p, "over")
     \/ user[p].mtab /\ To(p, "left") /\ UNCHANGED <<mounts, lost>>
  /\ helper' = [helper EXCEPT ![p] = "none"]
  /\ UNCHANGED <<user, fd, quiet, excuse>>

\* The administrator is too late when its program is about to do the same.
Administrator ==
  /\ mounts # << >> /\ mounts' = Front(mounts)
  /\ Because(stage[Last(mounts)] \in {"umount", "wait", "undo"}, "late")
  /\ UNCHANGED <<user, stage, fd, helper, quiet, lost>>

ProgramStep(p) ==
  \/ Parse(p) \/ AskHelp(p) \/ CheckEmpty(p) \/ MountSys(p) \/ AddMtab(p) \/ UndoMount(p)
  \/ Fork(p) \/ HelperChecks(p) \/ HelperMounts(p) \/ HelperSends(p) \/ Receive(p)
  \/ SetUp(p) \/ ChannelFreed(p) \/ Ends(p) \/ Poll(p) \/ Umount(p) \/ HelperUnmounts(p)

MountNext == Administrator \/ \E p \in Programs : ProgramStep(p)

MountSpec == MountInit /\ [][MountNext]_mountVars
-----------------------------------------------------------------------------
\* A program that is over, whether its set-up failed at any of its steps or its
\* loop ended, has left nothing mounted, and it has taken no other program's
\* file system away, even if its own was unmounted and another came in its
\* place before it looked (helper.c:238-305, mount.c:270-315).  It is otherwise
\* when a mount covers another, when the administrator unmounts between the
\* look and the unmount, when a helper dies before it has sent the descriptor,
\* when the channel was freed and nobody can look, and for a program that only
\* wants its help text.
MountsKept ==
  /\ lost # {} => excuse \cap {"stacked", "late", "freed", "help"} # {}
  /\ \A p \in Programs :
       At(p, "over") /\ Mounted(p) => excuse \cap {"stacked", "orphan"} # {}
=============================================================================
