# A verification project for the CS 3210 projects

The repository holds three operating-systems projects. This directory models them in TLA+,
checks the models with TLC on small instances and proves the most important results with
TLAPS for every instance. Paths below are relative to the repository's root; line numbers
are those of its one commit.

## 1. Inventory

### sysmon-project1: a kernel module that logs system calls

| part | state | operations |
|---|---|---|
| log (`log.c`) | ring `logs_buffer` of 20000 pointers, `start`, `end`, `log_mutex` | `init_log`, `read_log`, `monitor_handler` |
| monitor (`monitor.c`) | `_handler`, `_monitoring_user_id`, `buffer_mutex`, `buffer`, 30 jprobes | `send_logline` (in every probe), `monitor_init`, `monitor_cleanup`, `monitor_set_uid` |
| proc files (`proc.c`) | `toggle`, `temp_uid`, `temp_toggle` | reads and writes of `/proc/sysmon_{uid,toggle,log}`, `proc_init`, `proc_cleanup` |

A task that makes a probed call runs `send_logline` in its own context: it compares its uid,
prints into one static buffer under `buffer_mutex`, and hands the buffer to
`monitor_handler`, which copies it into the ring under `log_mutex`. Readers empty the ring.
Writing 1 or 0 to the toggle registers or unregisters the probes; nothing serialises writers.
Hard: probes of many tasks at once, switching off while handlers run, a ring that wraps under
a reader, registration that fails half way, two administrators.
Correct means: no line leaks, dangles or is overwritten without need; each line is of one
call; off means quiet; unloading leaves nothing behind; every call returns.

### deadlocks-project2: a lock in a system call

| part | state | operations |
|---|---|---|
| lock system call (`lock_kmod/main.c`) | `procs[10]` of slots (pid, tid, count, mutex), `procs_info_mutex` | `get_proc_info`, `lock_syscall` |
| registration (`lock_kmod/syscall.c`, `main.c`) | `sys_call_table`, `ready_to_work`, `sysnum` | `init_syscall`, `register_syscall`, `unregister_syscall`, module init and cleanup |
| number file (`lock_kmod/proc.c`) | `syscall_num`, `temp_syscall_num` | `read_syscall_num` |
| library (`class_thread.c`) | `syscall_num` per process | `get_syscall_num`, `class_mutex_*`, `class_thread_*` |
| client (`bestoffer`, a binary) | two prices | two threads that lock two mutexes in opposite orders |

A process reads the number of the system call from the proc file, then makes the call for
every mutex operation. The kernel gives each process one slot, and with it one recursive lock
for all its mutexes, which is how `bestoffer` is kept from its deadlock. A `LockMutex` that
fails 100 times returns -1 and the library asks again.
Hard: first calls of several threads, retries against releases, a table that fills, processes
that die with the lock, a proc file whose end-of-file flag all readers share, a system call
table that other modules change too.
Correct means: mutual exclusion, one slot per process, an exact count, a free lock is taken,
a program finds the right table entry, the table is restored.

### yourtunes-project3: a FUSE file system over a music service

| part | state | operations |
|---|---|---|
| ytfs (`fs/main.cpp`) | `MetadataJson`, `metadata.json`, the cache `~/.ytfs/*.mp3`, `is_writing`, `/tmp/tmp.mp3` | the handlers of `ytfs_oper`, the updater thread, `curl` through the shell |
| mediafs (`android-fs/libfuse/mediafs.cpp`) | the same, read-only | one load at start, the handlers |
| JSON library (`json.hpp`, two copies) | none between calls | `parse` is the way `metadata.json` takes into ytfs |
| libfuse, nodes and paths (`fuse.c`) | table of nodes with counts, tree locks and tickets; hidden files; copies of POSIX locks; one listing per open directory; `cache_valid` and times | the `fuse_lib_` handlers, `fuse_new`, `fuse_destroy` |
| libfuse, requests (`fuse_lowlevel.c`) | the agreed version and capabilities; lists of requests and interrupts | `fuse_ll_process`, the `do_` functions, the replies |
| libfuse, worker pool (`fuse_loop_mt.c`, `fuse_session.c`, `fuse_signals.c`) | list of workers, `numavail`, `exit`, `mt.lock`, the semaphore | `fuse_do_work`, `fuse_session_loop_mt`, the signal handlers |
| libfuse, options and mounting (`fuse_opt.c`, `helper.c`, `mount.c`, `fusermount.c`) | argument lists; the kernel's mounts; a socket to the helper | parsing, set-up, tear-down |
| lock manager (`ulockmgr.c`) | owners, a connection and descriptors for each | `ulockmgr_op` |
| httpfs2 (an example) | one kept connection | `exchange`, `get_stat`, `get_data` |

The kernel sends requests through `/dev/fuse`. A worker of libfuse reads one, finds the
`fuse_lib_` handler for it, which turns node numbers into a path that it locks, calls the file
system (a handler of ytfs), updates the table and replies; meanwhile other workers do the
same, an INTERRUPT may come for the request, and the main thread may be ending all of them.
ytfs locks nothing: its handlers share their state with each other and with the updater.
Hard: handlers of several workers on one node, path or file; removal of what is open;
FORGET against lookup; requests that block, are interrupted, or end with the session; the
updater against flush and unlink; a song that is being downloaded; connections that break half
way; set-up that fails at any of its steps; an option that four parsers read.
Correct means: counts that equal the references, paths that stay the node's, an open file that
stays reachable, a hidden one that goes; every request served, interrupted or ended; both
sides of the device agree on the layout; a song arrives whole and is read whole; nothing
stays mounted; an option means what the user wrote.

The build files, `sysmon-project1/test.sh`, `run.sh`, `lock_kmod/test` and
`3210_proj2_release` (the pthread original of the library) are scripts and drivers without
state of their own; they are used as evidence of how the parts are meant to be used.

## 2. Modules

| module | models | implements / extends |
|---|---|---|
| `BoundedLog` | what the log promises: a queue of at most `Bound` lines at which one process has its turn; a reader's turn takes lines, a writer's adds one and gives up the oldest only when the queue is full | abstract |
| `LogBuffer` | `log.c` | implements `BoundedLog` |
| `LogBuffer_proof` | proofs | extends `LogBuffer` |
| `Sysmon` | `monitor.c`, toggle, uid and life of the module in `proc.c` | the log is one step here |
| `Sysmon_proof` | proofs | extends `Sysmon` |
| `RecursiveLock` | what lock_kmod promises a process: one recursive lock | abstract |
| `LockKmod` | `lock_syscall`, and the library's mutex functions that call it | implements `RecursiveLock` |
| `BestOffer` | the program | composed with `LockKmod` |
| `ProcNumber` | a proc file that prints one number, and the loop that reads it | |
| `KmodLifecycle` | loading, registering, unregistering | composed with `ProcNumber` |
| `ClassThread_proof` | proofs about `LockKmod` and its users | extends `BestOffer`, `KmodLifecycle` |
| `YtfsTree` | names to directories, files and song ids | operators only |
| `Ytfs` | ytfs and mediafs | extends `YtfsTree` |
| `Ytfs_proof` | proofs | extends `Ytfs` |
| `JsonText` | scanner, parser and strings of `json.hpp` | recursive operators |
| `PosixLocks` | `locks_insert`, `locks_conflict` | operators only |
| `NodeTable` | the node table and path locks under `fuse.lock` | uses `PosixLocks` |
| `FuseLib` | the `fuse_lib_` handlers of `fuse.c` | extends `NodeTable` |
| `FuseNodes_proof` | proofs: the invariant, and what `NodeTable`'s operators do | extends `FuseLib` |
| `FuseLib_proof` | proofs: the steps, and the theorems | extends `FuseNodes_proof` |
| `FuseSession` | worker pool, interrupts, end of the loop | |
| `FuseCalls` | who serves a request, with what, laid out how | operators only |
| `FuseProtocol` | one connection, INIT to DESTROY | extends `FuseCalls` |
| `FuseListing` | `opendir` to `releasedir` | |
| `FuseCache` | `auto_cache` | |
| `FuseOpt` | `fuse_opt.c`: a text of options | operators only |
| `FuseOptParse` | `fuse_opt.c`: the parser, for one table and its function | operators only, extends `FuseOpt` |
| `FuseOptions` | options from the command line to mount(2) | extends `FuseOpt`, four instances of `FuseOptParse` |
| `FuseMount` | set-up, tear-down, fusermount | |
| `UlockMgr` | the callers of `ulockmgr_op` | |
| `HttpFs` | httpfs2 and its server | |
| `FuseMain_proof` | proofs | extends `FuseSession`, `FuseMount`, `FuseProtocol` |
| `FuseIO_proof` | proofs | extends `FuseCache`, `HttpFs`, `UlockMgr`, `FuseListing` |
| `MC*` | constants for TLC; `MCFuseMain`, `MCYtfs`, `MCClassThread` put machines that share no state into one run | |

How they read against the code:

* **Places.** `pc`, `tpc`, `apc`, `rpc` and `state` are places in the code. The steps between
  two places are one action; the places are where another thread can make a difference: at
  each lock and unlock, and at each access to something shared that no lock covers.
* **Mutexes** are variables holding their owner. A lock is a guard; nothing else keeps two
  threads apart, so each critical section is several actions long and a lost lock shows.
* **Memory.** In `LogBuffer` a line is its `kmalloc` (a fresh `id`) and its length; `heap` is
  what has been allocated and not freed, and ring entries keep their pointer after `kfree`.
  In `LockKmod` a new slot's `tid` is anything, since `kmalloc` does not clear it.
* **Mutants.** Definitions marked `Mutant` are mutated forms of the definition they stand
  before; no specification uses them. Each property of a passing run is shown to fail when
  one definition is exchanged for its mutant, so that the property does depend on the code.

`LogBuffer`: `ReadLock`, `ReadCopy`, `ReadFault`, `ReadDone` are `read_log`, with its loop and
its three exits; `HandlerLock`, `HandlerOverwrite`, `HandlerStore` are `monitor_handler`.
`ReadDone` covers the empty log, a line that does not fit, and the end of the loop. The `turn` of
`BoundedLog` is mapped to `log_mutex`: only its owner's steps change the queue, so a line that no reader
took is one that a handler dropped, and the abstract handler may do that only to a full queue.

`Sysmon`: `Probe` enters a probe's handler; `Check` to `BufferUnlock` are `send_logline`;
`MonitorInit` and `Register` are `monitor_init` (each registration may fail, and a failure
ends it); `Disarm` and `Await` are one turn of `monitor_cleanup`'s loop; `WriteToggle` and
`SetToggle` are the test and the assignment of `set_toggle`; `Load` to `Unloaded` are
`proc_init` and `proc_cleanup`. `anext` is where `monitor_init` or `monitor_cleanup` returns
to. Who holds the mutex after `mutex_init` is nobody, whoever held it before.

`LockKmod`: `InfoLock` to `Insert` are `get_proc_info` under `procs_info_mutex`, `DataLock` to
`Release` the command under the slot's mutex. `Return` is the return to the library: for
`LockMutex` with a value other than 0 it stays in the library's loop, from which `Retry`
calls again. `depth` counts what the library has given the thread, which is what the
properties hold the kernel's `count` against. `Exit` ends a process at any moment it is not
in the kernel, with whatever it holds.

`KmodLifecycle` and `ProcNumber`: one action per step of `lock_kmod_init` and
`lock_kmod_cleanup`; `ReadTest` to `ReadEnd` are `read_syscall_num`, where the global flag is
read anew for the test, for the number of bytes to copy and for the return value.

`Ytfs`: a handler's places are its uses of what is shared. `Found` and `ReadFindsId` walk
`MetadataJson`, which `ReloadParse` may be assigning (the walk then crashes or finds anything:
`WalkCrashes`), for the title in the request's path, which `loc` keeps to the end; `ShellTruncate`, `CurlAnswers` and `ReloadParse` are a reload, run by the updater
and by flush and unlink; `CacheOpen` to `ReadReturns` are `ytfs_read`, with curl writing the
cache in `FetchTruncate` and `FetchChunk`; `WriteOpen` to `WriteData` are `ytfs_write`. `mode` chooses
between ytfs in the foreground, ytfs as a daemon (the updater does not survive the fork, and
`metadata.json` cannot be created in `/`) and mediafs. `cache` has an entry for each file there is
in `~/.ytfs`, the one without a number included, which the id `NoId` makes.

`FuseLib`: a handler is a sequence of steps, one for each section under `fuse.lock` and each call
of the file system (`fuse_lib_getattr` and the others are these sequences); `Enter`, `Wake` and
`Free` lock and free its path, or queue for it. The kernel issues the requests of a workload in
any order its VFS allows (`KernelMay`); the file system is a map from paths to files, whose
calls may fail. `NodeTable`'s operators have the names of the functions of `fuse.c` and map a
table to a table; a failed assertion is the table `Abort`.

`FuseSession`: `InPool` is `fuse_do_work` and `fuse_start_thread`, `OnRequest` a request from
`fuse_ll_process` to its reply with the interrupt that finds it, `MainStep` the loop of the main
thread. `frame` is what became of the `fuse_intr_data` on a handler's stack: it is "there" from `PrepareInterrupt`
on, gone when `FinishInterrupt` is through, and "ended" when the thread ended first, which the handler of
SIGUSR1 does (`End`, from `Interrupt` and `Kill`). `FuseProtocol` takes requests one at a time: `last` is what the file system was called
with and what it answered. `Settled` in its next-state relation is a reduction and no code: a
request that changes nothing but `last` is not followed by another, since whatever can follow
it can follow the state before it. `FuseListing` counts bytes of a page; `FuseCache` has a clock;
`FuseOptions` runs one function at a time over argument lists, where what one parser keeps, drops, joins and
escapes is what the next one reads; `FuseMount` has a place for each
process of a program. `UlockMgr` has a mutex and a wait without it; the lock server is external.

`JsonText` grows a text piece by piece (tokens, characters of a number, characters of a string)
and states what parsing it must give; the scanner itself reads bytes.

## 3. Runs

| run | states | asks |
|---|---|---|
| `log_buffer` | 26,548 | is the ring a bounded queue, without leaks, under every interleaving? |
| `log_eof` (violation) | | does 0 from `read_log` mean that the log is empty? |
| `sysmon` | about 54,000 | do probes keep out of each other's lines, and does off mean quiet? |
| `sysmon_two_admins` (violation) | | does `buffer_mutex` survive a second `monitor_init`? |
| `lock_kmod` | 238,825 | is each process's slot a recursive lock? |
| `lock_liveness` | 32,947 | does every call return and a free lock get taken, with a full table? |
| `class_mutex_init` (violation) | | does a process told 0 have a lock? |
| `class_thread` | about 2,800 | does bestoffer run for ever with whole offers; is the table restored and the number right? |
| `ytfs` | 567,554 | what may a copy, a read and a reload that meets no other rely on; is the metadata read as it is written? |
| `json_pairs` (violation) | | is a string with a pair of surrogates read whole? |
| `fuse_lib` | 228,368 | do counts, paths, open files and locks survive any mix of handlers? |
| `fuse_main` | 280,539 | eight machines, below |

`fuse_main` runs eight machines that share no state, one in each behaviour (`part`), since each is
small: the pool (`NoDangling`, `Served`, `InterruptKept`, `LoopEnds`), httpfs2 (`RightBytes`), the mount point
(`MountsKept`), a connection (`SessionPaired`, `CallsKept`, `SameLayout`), a listing (`ListedOnce`), cached
pages (`FreshPages`), options (`MountAsGiven`, `OptionsUsed`) and the lock manager (`UlockKept`). Fairness
is stated for the pool only, and only when it is the part that runs.

Bounds, and why they are enough for the question:

* `log_buffer`: a ring of 3 is full with 2 lines, so 4 lines (`MaxLines`) wrap both indexes and
  overwrite; 2 tasks and 2 readers give every pair that can meet; the buffer sizes 0, 2 and 5
  hold none, one, and one or two lines. The proofs cover every size.
* `sysmon`: 2 tasks of the monitored user contend for the buffer; 2 probes let registration fail
  between them, and one has no arguments (`fmt` NULL); an int of 8 values, written 2 (nobody's
  uid) and 9 (which is cut to 1). Nothing bounds how often the module is loaded.
* `lock_kmod`: two threads that share and a stranger, 2 slots, 2 tries (`MAX_TRY_COUNT` is 100:
  the last try and one before it), locks taken up to twice, `count` modulo 4. Threads of the
  same process are symmetric; the run checks no liveness.
* `lock_liveness`: 1 slot for 2 processes, so one of them finds the table full; no symmetry.
* `class_thread`: the program's own three threads, nothing bounds how long it runs; 2 vacant
  entries, so that another module can push lock_kmod to the second or leave it none; 2 loads
  (`MaxLoads`); 2 programs that take turns (`Overlap = FALSE`). No deadlock check, because after
  the last unload, or a load that failed, nothing happens.
* `ytfs`: 2 workers and the updater, 2 songs to copy of 2 chunks each beside one old song, 1 failing
  curl (`MaxFail`); six workloads (two reads at once, a read against removals, a read against a copy of
  another song, two copies, a copy against closes of other files, a copy against removals) in three modes. Symmetric in workers and songs (no
  liveness is checked). Texts: up to 5 tokens or characters of a number, up to 3 characters of
  a string with every class of escape and the edges of UTF-8 lengths and of surrogates.
* `fuse_lib`: ids below `MaxId`, a find waits when none is left (`IdLeft`; `next_id` has 2^32); a tree of six nodes two deep, with a directory to rename above an open file; eight
  workloads of four to eight requests chosen so that the cases of the hazards happen (a removal of
  a file open and being opened, a rename over an open one, names used again, forgets against
  lookups, two owners' locks and a release that flushes them, an NFS handle, `noforget`); interruption of answers, and one failing
  call where it says so. Offsets 0 and 1 (`MaxOff`) are enough to split and join ranges.
* `fuse_main`: 3 workers and 2 requests (one blocking, one that ends, forgets, interrupts), so that
  the pool grows, shrinks (`MaxAvail` 2) and dies; a file of 1 or 4 bytes in pages of 2, 3 requests over
  the connection; 2 programs; kernels of five versions against file systems of six; 3 names on
  pages that hold one or two; 2 openers, 3 ticks and 2 changes; every pair of 27 options, with
  8 users; 3 callers, 2 owners, 2 files.

`CHECK_DEADLOCK FALSE` in the last five, because a workload, a session or a mount that is over has
no next step; that nobody is stuck before is `NobodyStranded`, `Served`, `InterruptKept` and `LoopEnds`.

What the passing runs show beyond the proofs: `CallReturns`, `SyscallReturns`, `FreeLockTaken`,
`RunsIndefinitely`, `Served`, `InterruptKept` and `LoopEnds` are liveness; `LinesWhole` that no line of the
log mixes two calls; `OffMeansQuiet` that once a write of 0 has returned no probe is armed and
no handler is under way; `ImplementsRecursiveLock` that a process's slot is one recursive lock,
whatever its memory held before; the properties of libfuse that its locks do what they are
there for, except where section 4 says otherwise.

## 4. What the code does not do as it is described

The runs that expect a violation:

* `log_eof`: `read_log` returns 0 when the oldest line is longer than the caller's buffer
  (`log.c:33`). `Report.pdf` says that reads go on "until a 0 is returned which states that all
  the required data has been read". A reader with a small buffer stops with the log full.
* `sysmon_two_admins`: `monitor.c:19` says of `buffer_mutex` "Ensure that only one jprobe uses the
  buffer at a time". Two callers of `monitor_init` (two writers of 1, or one beside insmod)
  both pass the unlocked test of `toggle`, and the second `mutex_init` frees the mutex under
  the probe that holds it.
* `class_mutex_init`: `class_thread.h:26` promises "0 on success, -1 on failure";
  `class_thread.c:53` returns 0 whatever the kernel said, also to the process that got no slot.
* `json_pairs`: `json.hpp:6768` says "skip the next 11 characters (xxxx\uyyyy)", which are ten; the
  byte behind an escaped pair of surrogates is lost, and of two emoji in a row the second.

Behaviours of the code that the properties name as exceptions, each of them reachable in the
models and explained at the property:

* ytfs: two copies at once mix in `tmp.mp3`; closing any file uploads what is there; two reloads at
  once can drop the song just uploaded until the next second; a failed download stays in the
  cache; ytfs as a daemon has no updater and never uploads.
* Paths and nodes: an open that overlaps the last close of a hidden file loses it
  (`fuse.c:2386`); a lookup of "." below a forgotten directory leaves its ticket (541);
  a rename over an open file that then fails leaves it hidden (2335); two requests with two
  paths each may wait for one another (710); a creation that was interrupted may leave a hidden
  file (2424); a revalidation that meets a removal and then a rename of its name lets
  `rename_node` replace a node that is not locked, and with `noforget` abort (819); two threads of one owner leave `node->locks` stale; `fuse_lib_flush` and
  `fuse_lib_release` pass a NULL path (3152, 3174) although `fuse.h:451` ties that to a flag.
* Pool: the default signal of `-o intr` is SIGUSR1, whose handler ends the thread since the
  Android patch (`fuse_loop_mt.c:73`), so the interrupted request is never answered, and the thread
  that sends the signal goes on reading `fuse_intr_data` on the stack of the one that ended
  (`fuse.c:911-920`); the signal that ends the pool (`fuse_loop_mt.c:247`) can do the same; a signal
  between the test of `exited` and `sem_wait` is seen one request late; a worker that leaves while
  the main thread walks the list leaves it on freed memory.
* Listings and pages: `seekdir` back after the end of a paged listing returns nothing; an open
  interrupted after `open_auto_cache` keeps pages that were to be dropped.
* Options and mounts: "--" behind a group of options is not removed (`fuse_opt.c:366`), and what is
  inserted behind it, the default subtype too, is an argument; the subtype and `user=` are not escaped
  for fusermount (`mount.c:208`, 211), nor are options for the kernel (202), so that a user's
  `ro,subtype=y\,rw` is mounted for writing; `user=` of a user goes on to mount(2), which refuses it
  (`mount.c:556`, `fusermount.c:780-783`); `large_read` is refused for root and left out for users
  (`fusermount.c:756-765`); a last line of `fuse.conf` without newline
  is ignored; `-h` as root unmounts what is there; an unmount by the administrator between poll and
  umount takes the next mount; the library and fusermount are built with different
  settings of `IGNORE_MTAB`, so `mount_max` limits nothing.
* httpfs2: a body that timed out on a connection that is kept, an error reply with a body and a
  short 206 give a later read the wrong bytes.
* Lock manager: a signal while waiting ends the thread in the middle of the call; an owner whose
  server died answers EIO for good.

## 5. Fairness

* `LogBuffer`: weak fairness of what a thread does inside its critical section; nobody has to
  call. The kernel schedules a task that can run.
* `Sysmon`: weak fairness of each task's and administrator's next step, strong fairness of
  `BufferLock`: a kernel mutex queues its waiters (FIFO), so one that is released again and
  again is given to each. No fairness of calls, registrations that succeed, or toggles.
* `LockKmod`: weak fairness of the steps of a call and of the library's loop, strong fairness of
  `InfoLock` and `DataLock` for the same reason. Nobody has to unlock: `SyscallReturns` holds
  because tries end, not because holders release. Per-thread progress is not claimed: tries
  do not queue, and one thread may win every time.
* `BestOffer` adds weak fairness of the program's own threads, which never block outside the
  kernel; `KmodLifecycle` of a load or unload that has begun and of a reader in the file.
* `FuseSession`: weak fairness of the main thread and of each worker, which the scheduler grants.
  No fairness of arrivals, interrupts, unmounting or signals, and a call that waits for an
  event has no step of its own until it is interrupted: `Served` holds because the pool grows.
* The other machines state no fairness and no liveness: in `Ytfs` a curl may take for ever, in
  `HttpFs` a server may stay silent.

## 6. Proofs

`tlapm` proves the theorems from the assumptions on the constants, which the code meets and
which TLC evaluates on each run. They say that constants that must be distinct are, that
capacities and lengths are positive (a log of at least 2; a song, a page and a file of at least
one chunk or byte), that threads map to processes, and that the sets the callers' requests and
the versions that meet are taken from have the fields they should. Beyond that: clients of
lock_kmod stay below the width of `count` (`MaxDepth < CountMod`; the program of `BestOffer` nests
two); workers and callers are finite sets, as threads are; a buffer holds the smallest message
and a file system of an older interface lacks the functions that came later (`SetupAssumption`, from
`MIN_BUFSIZE` and `fuse_compat.h`). The requests of the kernel are about a node or about the answer
to an earlier one, they have the names their handler needs, what is opened is released once
(`RequestOK`), and the nodes they start from are a tree whose counts say what the kernel has
(`Settled`): a mount on which nothing is under way. A bound such as `MaxLines` or `MaxFail` is any number.

No property below is inductive: each speaks of what callers or programs have, the code of what is
in its variables. Each proof has an invariant that says, for every place in the code, what the
shared state then is; TLC checked each of them on the instance of its run before it was proved.

* **Log** (`LogBuffer_proof`). `HeapExact` and `KeepsLatest` speak of the sequence of lines and are
  not inductive. `IInv` says entry by entry where in the ring the k-th oldest of the `Size` latest
  lines is (`EntriesOK`), that the heap is the interval of their pointers (`HeapOK`), that only
  the holder of `log_mutex` is past its lock (`HolderOK`), and that what `HandlerLock` found out
  about room still holds at `HandlerStore` (`RoomOK`). The lemmas are about the arithmetic of
  the ring: dropping shifts every entry by one (`DropShifts`), storing extends (`StoreExtends`).
  From `IInv`: `TypeCorrect`, `LatestKept`, `NoLeakNoDanglingLine`, `LossNeedsFullRing`, and
  `Refinement`, that each step is a step of `BoundedLog` or a stutter (`ContentsShift` and
  `ContentsAppend` turn ring steps into `Tail` and `Append`).
* **Monitor** (`Sysmon_proof`). Under the hypothesis `OneAdmin`, that no two administrators load,
  unload or switch at once. It is needed: with two, a second `mutex_init` frees the mutex under
  its holder, which is the finding of `sysmon_two_admins`. `LinesAreWhole` and `BufferIsExclusive`
  rest on the mutex (`MutexOK`) and on what its holder has printed (`BufferOK`); `OffIsQuiet` and
  `UnloadedIsGone` on how far registration and `monitor_cleanup` have come at each step of insmod,
  rmmod and a write to the toggle (`PlaceOK`, `Cleared`).
* **Lock** (`ClassThread_proof`, first part). `MutualExclusion` speaks of what the library was given, the kernel of
  `tid` and `count`. `IInv` ties the two: each slot is free and its process owes nothing, or
  its owner alone owes exactly `count` (`LockOK`); a call works on the one slot of its process,
  and what `TestTake` saw still holds at `Take` (`SlotOK`); mutexes are held by whoever is in
  their section (`MutexOK`); commands are where they belong (`PhaseOK`). From it `TypeCorrect`,
  `SlotUnique`, `CountIsDebt`, `Exclusion`, for any number of threads, processes, slots and tries.
  `Refinement` shows that `LockKmod` implements `RecursiveLock`: the abstract lock of a process is
  what its only slot shows (`TheSlot`), a slot rewritten or added shows to its own process only
  (`SlotShows`), so `Insert`, whose count is 0, stutters, `Take` is `Acquire` and `Release` is
  `Release` (`TakeAcquires`, `ReleaseReleases`); every other step leaves the slots alone.
* **The program and its system call** (`ClassThread_proof`, second part). `OfferIsWhole`: the threads of `bestoffer` keep
  the two prices one offer whenever nobody has the lock, if they are threads of one process
  (`OneProcess`; two processes have two slots). The lock is `LockKmod`'s, by `Exclusion` and its
  invariant; `OfferInv` adds which locks a thread has at each of its operations and what the
  prices are then. `TableIsRestored`: `TableInv` says which entry is the module's at each step of
  loading and unloading. `NumberIsRight` needs `~Overlap`, readers that take turns: all opens of
  the proc file share its end-of-file flag. That a number read from the file is the module's then
  follows from the positions of the only reader.
* **ytfs and mediafs** (`Ytfs_proof`). The handlers share everything and lock nothing, so the
  properties are about what a copy, a download or a reload that meets no other may rely on, and
  the proofs show that nothing else that runs takes it away. `IdsOK`: every id anything remembers
  is one the server has given. `ReloadOK`: what `metadata.json` holds at each place of a reload
  that meets no other; from it the action property `ReloadsAreFresh`. `CacheOK`: the file of a song
  with one download has exactly the chunks up to curl's offset, and the whole song when nobody
  downloads. `ReadsAreWhole` adds to it what each read has asked for (`AskedOK`): the id `getSongId` found was
  one with that title when it was found, titles of ids do not change, and so the bytes that the read returns are
  those of a song with the title in its path. `UploadOK`: what `tmp.mp3` holds at each place of a copy that
  meets nobody; it needs `FlagOK`, that `is_writing` is set only while some song is under way, so
  that the first chunk of a lone copy truncates. From it `UploadsAreWhole`. `ListingsAgree` holds for
  any ids, titles and sizes, also titles used twice: the lemmas compute what `getattr`, `readdir` and
  `getSongId` find in a tree of one folder in every grouping (`FolderOfTree`, `IdFound`).
* **libfuse** (`FuseMain_proof`, `FuseIO_proof`), for any number of workers, requests, programs,
  openers and callers. `NothingDangles`: `SessionInv` says which worker has which message, that
  a request that is interrupted stays listed and referred to (`PlacedOK`), and that the data of a handler is
  there as long as its thread is; after SIGUSR1 only the request is. Proved of
  `SessionSteps`, the specification without its fairness. `MountsAreKept`: `MountInv` counts the mounts
  at each stage of each program and its helper. `SessionIsPaired`, `LayoutIsTheSame` and `CallsAreKept`:
  `ProtocolInv` says what INIT settled on each side and which handles the kernel has. `PagesAreFresh`:
  `CacheInv` says since when the version a node vouches for has been the file's. `BytesAreRight`: `HttpInv`
  says that on a connection no failed read spoilt, what is on the wire answers the request that
  is owed. `LocksAreKept`: `UlockInv` counts the uses of each stored file, and says what the lock
  server holds and the callers were told. `ListingsAreWhole`, for any names, lengths and size of a page:
  `ListInv` says that a reader has read the names up to its place and that the listing its place is
  an offset in is still there. `Whole` and `Size` are folds, which are functions defined by recursion over
  sets of indexes: the lemmas show that there is such a function for every length, taking the least
  length without one, and from its values on the prefixes where each entry ends.
* **Nodes and paths** (`FuseNodes_proof`, `FuseLib_proof`), for any number of requests, ids and
  names, with and without `noforget`, interrupted answers and failing calls. `NeverAborts`: no assertion
  of `fuse.c` fails and no handler meets an id that is gone. `CountsAreExact`: `nlookup`, `refctr` and
  `treelock` of every node are what the kernel, the answers and FORGETs on their way, its children, and
  the locked paths add up to. `PathsAreStable`: a locked path stays the path of its node.
  None of them is inductive: a FORGET may bring a count to 0 only because the kernel has no more,
  the kernel has no more only because no request names the node, and that depends on what each
  handler will still do. `IInv` says of the table that it is a tree with every name used once (`TableOK`);
  of each handler what it has locked, found, answered and hidden, given the steps that are still ahead
  of it (`PlaceOK`, proved of every program of `fuse_path_ops`); of each count what it counts
  (`LookupsOK`, `RefsOK`, `TreesOK`, `OpensOK`); that the kernel has every node that a request or an open
  file is about (`HeldOK`), and one request for each directory mutex (`MutexOK`); that the name a
  removal or a rename is about is still that of the node it locked (`NamesOK`); and that who waits
  waits for its path, once (`QueueOK`). The lemmas of the first module say what locking, unlocking,
  hashing, unhashing and forgetting do to a tree: which chains they leave, by induction up the
  tree, which `Rooted` allows (a set of nodes that is not empty has one whose parent is outside);
  and what one request's step leaves of everything another relies on. The second goes through
  the actions.

  The hypothesis is `RenamesApart`: no workload with a rename has a lookup of "." by an NFS handle
  or, with `noforget`, a revalidation. It is needed. A revalidation takes no mutex of the directory,
  so it may ask the file system before a removal and make a node for the name after it; a rename
  to that name, which saw no node to lock, then finds one to replace in `rename_node`. TLC has the
  behaviour in which a lookup of "." has locked that node's path by then, so that the node loses its
  name under the lock (`CountsExact`), and the one in which, with `noforget`, the kernel has
  forgotten the node already and the assertion of `unlink_node` fails (`fuse.c:819`, `NoAbort`).
  The workloads of `fuse_lib` meet it.

Only model-checked:

* all liveness, which the prover cannot reach: `CallReturns`, `SyscallReturns`, `FreeLockTaken`,
  `RunsIndefinitely`, `Served`, `InterruptKept`, `LoopEnds`;
* what recursion over data computes, which would need induction: `MetadataRead` of `JsonText`, and
  `MountAsGiven` and `OptionsUsed` of `FuseOptions`;
* of `FuseLib`, `RightFile` and `HiddenGone`, which compare the table with the content of the file
  system, a map of paths that each call changes: a proof needs an invariant for what each handler
  and each failed or interrupted call leaves there, and the exceptions of section 4 are all in
  it; `LocksAgree`, which compares two lists of ranges, one folded by `locks_insert` and one by the file
  system, so that it is about what a fold computes; and `NobodyStranded`, that who is not woken
  could not go on, which is about the order in which `wake_up_queued` runs through the queue, again
  a fold.

## 7. Assumptions, omissions, and the plan

Assumed of what is outside the repository: kernel mutexes exclude and queue; `unregister_jprobe`
disarms at once and waits for running handlers (kprobes promises this for handlers that do not
sleep, and `send_logline` may sleep in `mutex_lock`: a hazard the model does not reach);
`remove_proc_entry` waits for operations in progress; a lock_kmod client unlocks only what it
locked (`Call`), as `bestoffer` does; lock_kmod is unloaded when no program runs and other modules
do not store into the table in the very window of `register_syscall`, which the code cannot
enforce. The kernel's VFS holds a directory's mutex over changes to its names and forgets a node
only when no request names it and no file of it is open (`KernelMay`, `Forgettable`); it answers INIT as `fuse_kernel.h` says; a signal sent to
a thread is taken at once; the web server and the lock server answer in order.

Not modelled: `kmalloc` and `malloc` returning NULL; the texts of log lines and printk; a pid that
is used again by a later process; reads of `sysmon_uid` and `sysmon_toggle`, and memory sysmon leaks
at unload; `class_thread_cond_wait`, which `bestoffer` does not call; in ytfs, readers that insert an
empty category with `operator[]`, and what a data race on `std::string` could do beyond a crash or a
wrong answer; in libfuse, stacked modules (`-o modules`, whose reference counts of shared libraries
go down once too often), notifications to the kernel, ioctl retries, CUSE, BSD mounting and how mtab
is rewritten, and how root falls back to fusermount when mount(2) answers EPERM (`mount.c:473`); in `json.hpp`, everything but parsing; in httpfs2, URLs and the authentication header.

Plan, most important first:

1. Done: a module and a run for every component of section 1 but those said above not to be modelled.
2. Done: theorems for every machine; of `FuseLib`, `NoAbort`, `CountsExact` and `PathStable`. Left:
   `RightFile` and `HiddenGone`, from an invariant that relates each handler's place to the content of the
   file system.
3. `ProcNumber` with overlapping readers, and for sysmon's files; stacked modules.
