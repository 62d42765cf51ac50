----------------------------- MODULE FuseOptions -----------------------------
(***************************************************************************)
(* The way of the options on a file system's command line: four parsers in *)
(* a row (helper.c, mount.c, fuse.c, fuse_lowlevel.c) each take what they   *)
(* know and leave the rest to the next, and a fifth one of its own, in      *)
(* fusermount, reads what mount.c writes for it when the user may not      *)
(* mount.                                                                   *)
(*                                                                         *)
(* A command is [given, root, conf, place, subtypes]: the arguments, in    *)
(* which a group has its options as the user means them; whether root runs *)
(* it; the lines of /etc/fuse.conf; the mount point; and whether the       *)
(* kernel knows types with a subtype.                                      *)
(***************************************************************************)
EXTENDS FuseOpt, Naturals, FiniteSets

CONSTANTS Commands, Prog, Dev     \* Prog: argv[0]; Dev: "/dev/fuse"

VARIABLES
  cmd,
  step,     \* which function is next
  args,      \* struct fuse_args
  mopts,     \* struct mount_opts
  made,      \* what was mounted
  settings   \* what the last two parsers stored
optionVars == <<cmd, step, args, mopts, made, settings>>

NotMade == [source |-> << >>, type |-> << >>, flags |-> {}, kernel |-> {}, by |-> "none"]
NoData == [mountpoint |-> << >>]

Text(a) == IF a.kind # "opts" THEN a.text
           ELSE FoldLeft(LAMBDA t, o : AddOpt(t, Escape(o)), << >>, a.opts)

OptionsInit ==
  /\ cmd \in Commands
  /\ step = "fuse_parse_cmdline"
  /\ args = [i \in DOMAIN cmd.given |-> [kind |-> cmd.given[i].kind, text |-> Text(cmd.given[i])]]
  /\ mopts = NoData /\ made = NotMade /\ settings = NoData

Entry(names, prefix, act) == [names |-> names, prefix |-> prefix, act |-> act, field |-> "own"]
Clear(name, field) == [names |-> {name}, prefix |-> FALSE, act |-> "clear", field |-> field]
Goes(st, res) == [st |-> st, res |-> res]
Has(data, name) == name \in DOMAIN data

GivesUp == step' = "failed" /\ made' = NotMade
-----------------------------------------------------------------------------
(* helper.c *)

HelperOpts == <<Entry({"-d", "debug", "-f", "-s"}, FALSE, "set"),
                Entry({"fsname=", "subtype="}, TRUE, "set"),
                Entry({"-d", "debug"}, FALSE, "keep"),
                Entry({"fsname=", "subtype="}, TRUE, "keep")>>

HelperProc(st, opt, key) ==
  CASE key = "nonopt" /\ st.data.mountpoint = << >> -> Goes([st EXCEPT !.data.mountpoint = opt], 0)
    [] key = "nonopt" /\ st.data.mountpoint # << >> -> Goes(st, -1)
    [] OTHER -> Goes(st, 1)
HelperParser == INSTANCE FuseOptParse WITH Table <- HelperOpts, Proc <- HelperProc

\* add_default_subtype appends an argument.
ParseCmdline ==
  /\ step = "fuse_parse_cmdline"
  /\ LET p == HelperParser!OptParse(args, NoData)
         named == Has(p.data, "fsname=") \/ Has(p.data, "subtype=")
     IN /\ args' = IF named THEN p.args
                   ELSE Append(p.args, [kind |-> "opts", text |-> <<"subtype=">> \o Prog])
        /\ IF p.failed \/ p.data.mountpoint = << >> THEN GivesUp
           ELSE step' = "fuse_kern_mount" /\ UNCHANGED made
  /\ UNCHANGED <<cmd, mopts, settings>>
-----------------------------------------------------------------------------
(* mount.c; fusermount has the same flags *)

FlagNames == {"ro", "nosuid", "nodev", "noexec", "sync", "noatime", "dirsync"}
Clears == [rw |-> "ro", suid |-> "nosuid", dev |-> "nodev", exec |-> "noexec", async |-> "sync", atime |-> "noatime"]
IsFlag(name) == name \in FlagNames \cup DOMAIN Clears
\* set_mount_flag
SetFlag(flags, name) == IF name \in FlagNames THEN flags \cup {name} ELSE flags \ {Clears[name]}

MountOpts ==
  <<Entry({"allow_other", "allow_root", "nonempty", "blkdev"}, FALSE, "set"),
    Entry({"fsname=", "subtype="}, TRUE, "text"),
    Entry({"allow_other", "large_read", "default_permissions"}, FALSE, "kern"),
    Entry({"allow_root"}, FALSE, "allow_root"),
    Entry({"nonempty", "blkdev"}, FALSE, "fusermount"), Entry({"fsname="}, TRUE, "fusermount"),
    Entry({"subtype="}, TRUE, "subtype"),
    Entry({"blksize=", "max_read="}, TRUE, "kern"), Entry({"max_read="}, TRUE, "keep"),
    Entry({"user="}, TRUE, "mtab"), Entry({"-r"}, FALSE, "ro"),
    Entry(FlagNames \cup DOMAIN Clears, FALSE, "flag")>>

MountData == [flags |-> {"nosuid", "nodev"}, kernel |-> << >>, mtab |-> << >>, fusermount |-> << >>, subtype_opt |-> << >>]

\* fuse_opt_add_opt_escaped
\* Mutant: fuse_opt_add_opt.
ForHelperPlain(opt) == opt
ForHelper(opt) == Escape(opt)

\* fuse_mount_opt_proc.  Only what goes to fusermount and is not the subtype is escaped.
MountProc(st, opt, key) ==
  CASE key = "allow_root" -> Goes([st EXCEPT !.data["kernel"] = AddOpt(@, <<"allow_other">>),
                                             !.args = Append(@, [kind |-> "opts", text |-> opt])], 0)
    [] key = "ro" -> Goes([st EXCEPT !.data["flags"] = SetFlag(@, "ro")], 0)
    [] key = "flag" -> Goes([st EXCEPT !.data["flags"] = SetFlag(@, opt[1])], 0)
    [] key = "kern" -> Goes([st EXCEPT !.data["kernel"] = AddOpt(@, opt)], 0)
    [] key = "fusermount" -> Goes([st EXCEPT !.data["fusermount"] = AddOpt(@, ForHelper(opt))], 0)
    [] key = "subtype" -> Goes([st EXCEPT !.data["subtype_opt"] = AddOpt(@, opt)], 0)
    [] key = "mtab" -> Goes([st EXCEPT !.data["mtab"] = AddOpt(@, opt)], 0)
    [] OTHER -> Goes(st, 1)
MountParser == INSTANCE FuseOptParse WITH Table <- MountOpts, Proc <- MountProc

KernMount ==
  /\ step = "fuse_kern_mount"
  /\ LET p == MountParser!OptParse(args, MountData)
     IN /\ mopts' = p.data /\ args' = p.args
        /\ IF p.failed \/ (Has(p.data, "allow_other") /\ Has(p.data, "allow_root")) THEN GivesUp
           ELSE step' = "fuse_mount_sys" /\ UNCHANGED made
  /\ UNCHANGED <<cmd, settings>>

\* The source and the type for the kernel, with a subtype if it knows them.
Base(data) == IF Has(data, "blkdev") THEN <<"fuseblk">> ELSE <<"fuse">>
SourceOf(data, subtypes) ==
  IF Has(data, "subtype=") /\ ~subtypes
  THEN IF ~Has(data, "fsname=") THEN Base(data)
       ELSE IF Has(data, "blkdev") THEN data["fsname="] ELSE data["subtype="] \o <<"#">> \o data["fsname="]
  ELSE IF Has(data, "fsname=") THEN data["fsname="]
  ELSE IF Has(data, "subtype=") THEN data["subtype="] ELSE Dev
TypeOf(data, subtypes) ==
  Base(data) \o IF Has(data, "subtype=") /\ subtypes THEN <<".">> \o data["subtype="] ELSE << >>

\* What fuse_fill_super understands.
KernelTakes(options) ==
  \A o \in options : \/ o[1] \in {"allow_other", "default_permissions"} /\ Len(o) = 1
                     \/ o[1] \in {"max_read=", "blksize="} /\ Len(o) = 2 /\ IsNumber(Tail(o))
Options(text) == ToSet(Parts(text, <<"\\">>)) \ {<< >>}
EmptyEnough(data) == Has(data, "nonempty") \/ cmd.place.empty

\* fuse_mount_sys.  A user gets EPERM from mount, which is no failure yet.
FuseMountSys ==
  /\ step = "fuse_mount_sys"
  /\ CASE ~EmptyEnough(mopts) -> GivesUp
       [] EmptyEnough(mopts) /\ ~cmd.root -> step' = "fuse_mount_fusermount" /\ UNCHANGED made
       [] EmptyEnough(mopts) /\ cmd.root /\ ~KernelTakes(Options(mopts.kernel)) -> GivesUp
       [] OTHER -> /\ step' = "fuse_new"
                   /\ made' = [source |-> SourceOf(mopts, cmd.subtypes), type |-> TypeOf(mopts, cmd.subtypes),
                               flags |-> mopts.flags, kernel |-> Options(mopts.kernel), by |-> "library"]
  /\ UNCHANGED <<cmd, args, mopts, settings>>

\* get_mnt_flag_opts, in whichever order, and what fuse_kern_mount adds.
FlagOpts(flags) == FoldLeft(LAMBDA t, f : AddOpt(t, <<f>>), IF "ro" \in flags THEN << >> ELSE <<"rw">>, SetToSeq(flags))
Join(texts) == FoldLeft(LAMBDA t, u : IF u = << >> THEN t ELSE AddOpt(t, u), << >>, texts)
ForFusermount(data, sub) ==
  Join(<<FlagOpts(data.flags), data.kernel, data.mtab, data.fusermount, IF sub THEN data.subtype_opt ELSE << >> >>)
-----------------------------------------------------------------------------
(* fusermount.c *)

\* read_conf: chunks of at most 255 bytes; a line counts if one chunk holds it, with its end.
ReadConf(chunks) ==
  FoldLeft(LAMBDA c, k : [newline |-> k.ends,
                          allow |-> c.allow \/ (c.newline /\ k.ends /\ k.says = "user_allow_other"),
                          max |-> IF c.newline /\ k.ends /\ k.says = "mount_max = 0" THEN 0 ELSE c.max],
           [newline |-> TRUE, allow |-> FALSE, max |-> 1000], chunks)

\* count_fuse_fs counts nothing in this build.
TooMany(conf) == ~cmd.root /\ conf.max # -1 /\ 0 >= conf.max

\* check_perm
CheckPerm(place) ==
  cmd.root \/ (/\ place.kind \in {"dir", "file"} /\ place.writable
               /\ place.kind = "dir" /\ place.sticky => place.own)

\* find_mount_flag
Ignored(name) == ~cmd.root /\ name \in {"suid", "dev"}

Never == {"fd=", "rootmode=", "user_id=", "group_id="}
OneOption(st, o, allow) ==
  CASE st.failed \/ o = << >> -> st
    [] ~st.failed /\ o # << >> /\ o[1] \in {"fsname=", "subtype="} -> [st EXCEPT !.data = (o[1] :> Split(Tail(o))[1]) @@ @]
    [] ~st.failed /\ o = <<"blkdev">> -> [st EXCEPT !.data = ("blkdev" :> << >>) @@ @, !.failed = ~cmd.root]
    [] ~st.failed /\ o = <<"nonempty">> -> [st EXCEPT !.data = ("nonempty" :> << >>) @@ @]
    [] ~st.failed /\ o # << >> /\ (o[1] \in Never \/ o = <<"large_read">>) -> st
    [] ~st.failed /\ o \in {<<"allow_other">>, <<"allow_root">>} /\ ~cmd.root /\ ~allow -> [st EXCEPT !.failed = TRUE]
    [] ~st.failed /\ o # << >> /\ Len(o) = 1 /\ IsFlag(o[1]) ->
         [st EXCEPT !.flags = IF Ignored(o[1]) THEN @ ELSE SetFlag(@, o[1])]
    [] OTHER -> [st EXCEPT !.kernel = @ \cup {o}]

\* mount_fuse and do_mount, for the text after -o.
DoMount(text) ==
  LET conf == ReadConf(cmd.conf)
      st == FoldLeft(LAMBDA s, o : OneOption(s, o, conf.allow),
                     [data |-> NoData, flags |-> {"nosuid", "nodev"}, kernel |-> {}, failed |-> FALSE],
                     Parts(text, <<"\\">>))
  IN IF st.failed \/ TooMany(conf) \/ ~CheckPerm(cmd.place) \/ ~EmptyEnough(st.data) \/ ~KernelTakes(st.kernel)
     THEN NotMade
     ELSE [source |-> SourceOf(st.data, cmd.subtypes), type |-> TypeOf(st.data, cmd.subtypes),
           flags |-> st.flags, kernel |-> st.kernel, by |-> "fusermount"]

\* An old fusermount may not know subtypes, so it is asked again without.
MountFusermount ==
  /\ step = "fuse_mount_fusermount"
  /\ LET first == DoMount(ForFusermount(mopts, Has(mopts, "subtype=")))
         m == IF first = NotMade /\ Has(mopts, "subtype=") THEN DoMount(ForFusermount(mopts, FALSE)) ELSE first
     IN IF m = NotMade THEN GivesUp ELSE made' = m /\ step' = "fuse_new"
  /\ UNCHANGED <<cmd, args, mopts, settings>>
-----------------------------------------------------------------------------
(* fuse.c and fuse_lowlevel.c *)

LibOpts == <<Entry({"debug", "-d"}, FALSE, "keep"),
             Entry({"debug", "-d", "hard_remove", "use_ino", "readdir_ino", "direct_io", "kernel_cache",
                    "auto_cache", "noforget", "intr"}, FALSE, "set"),
             Clear("noauto_cache", "auto_cache"),
             Entry({"umask=", "uid=", "gid=", "entry_timeout=", "attr_timeout=", "ac_attr_timeout=",
                    "negative_timeout=", "intr_signal="}, TRUE, "number"),
             Entry({"modules="}, TRUE, "text")>>
LibProc(st, opt, key) == Goes(st, 1)
LibParser == INSTANCE FuseOptParse WITH Table <- LibOpts, Proc <- LibProc

\* conn.async_read is set from the start: sync_read is the member here.
LowlevelOpts == <<Entry({"debug", "-d", "allow_root", "sync_read", "atomic_o_trunc", "no_remote_lock",
                         "big_writes"}, FALSE, "set"),
                  Clear("async_read", "sync_read"),
                  Entry({"max_write=", "max_readahead="}, TRUE, "number"),
                  Entry({"max_read="}, TRUE, "discard")>>
LlProc(st, opt, key) == Goes(st, -1)
LlParser == INSTANCE FuseOptParse WITH Table <- LowlevelOpts, Proc <- LlProc

\* Whoever gives up now unmounts what was mounted.
FuseNew ==
  /\ step = "fuse_new"
  /\ LET p == LibParser!OptParse(args, settings)
     IN /\ settings' = p.data /\ args' = p.args
        /\ IF p.failed THEN GivesUp ELSE step' = "fuse_lowlevel_new" /\ UNCHANGED made
  /\ UNCHANGED <<cmd, mopts>>

\* What nobody knew ends it.
LowlevelNew ==
  /\ step = "fuse_lowlevel_new"
  /\ LET p == LlParser!OptParse(args, settings)
     IN /\ settings' = p.data /\ args' = p.args
        /\ IF p.failed THEN GivesUp ELSE step' = "runs" /\ UNCHANGED made
  /\ UNCHANGED <<cmd, mopts>>

OptionsNext == ParseCmdline \/ KernMount \/ FuseMountSys \/ MountFusermount \/ FuseNew \/ LowlevelNew
-----------------------------------------------------------------------------
(* Properties *)

\* The options as the user means them.
Given == FlattenSeq([i \in DOMAIN cmd.given |-> IF cmd.given[i].kind = "opts" THEN cmd.given[i].opts
                                                 ELSE IF cmd.given[i].kind = "dash" THEN <<cmd.given[i].text>> ELSE << >>])
Named(name) == SelectSeq(Given, LAMBDA o : o[1] = name)
Asked(name) == Named(name) # << >>
Value(name) == Tail(Last(Named(name)))
HasSep == \E i \in DOMAIN cmd.given : cmd.given[i].kind = "sep"

\* What is not escaped on its way (mount.c:202, 208, 211), and so may be taken for
\* other options: by fusermount, and that for the kernel by the kernel too.
Loose(names) == \E i \in DOMAIN Given : Given[i][1] \in names /\ ToSet(Given[i]) \cap Special # {}
KernelLoose == Loose({"max_read=", "blksize="})
Spoilt == KernelLoose \/ (made.by = "fusermount" /\ Loose({"subtype=", "user="}))

\* The source and the type of the mount are the names the user gave, whatever
\* symbols are in them and whoever mounts: two parsers and two writers agree
\* on what is escaped.  Not so with a comma or a backslash in an option that is
\* not escaped, such as a subtype that goes through fusermount.
NamesKept ==
  LET sub == IF Asked("subtype=") THEN Value("subtype=") ELSE Prog
      hasSub == Asked("subtype=") \/ ~Asked("fsname=")
      data == (IF hasSub THEN "subtype=" :> sub ELSE << >>) @@ (IF Asked("fsname=") THEN "fsname=" :> Value("fsname=") ELSE << >>)
              @@ (IF Asked("blkdev") THEN "blkdev" :> << >> ELSE << >>)
  IN made # NotMade /\ ~Spoilt /\ ~HasSep =>
       made.source = SourceOf(data, cmd.subtypes) /\ made.type = TypeOf(data, cmd.subtypes)

\* The flags of the mount are what the last option about each says, -r being
\* the last, on the way through the library and through the text for
\* fusermount, except for what an option that is not escaped says there: a
\* user's "ro,subtype=y\,rw" is mounted for writing.  A user's mount never
\* loses nosuid and nodev, and is open to others only if a line of fuse.conf
\* says so, whatever the options are.
Pair(f) == {f} \cup {c \in DOMAIN Clears : Clears[c] = f}
LastSays(f) == LET about == SelectSeq(Given, LAMBDA o : o[1] \in Pair(f))
               IN IF about = << >> THEN f \in {"nosuid", "nodev"} ELSE Last(about)[1] = f
AllowedByConf == \E i \in DOMAIN cmd.conf : /\ cmd.conf[i] = [says |-> "user_allow_other", ends |-> TRUE]
                                            /\ i > 1 => cmd.conf[i - 1].ends
FlagsKept ==
  made # NotMade =>
    /\ Spoilt \/ made.flags = {f \in FlagNames : \/ f = "ro" /\ Asked("-r")
                                                 \/ LastSays(f) /\ ~(f = "ro" /\ Asked("-r"))
                                                 \/ ~cmd.root /\ f \in {"nosuid", "nodev"}}
    /\ Spoilt \/ (<<"allow_other">> \in made.kernel <=> Asked("allow_other") \/ Asked("allow_root"))
    /\ ~cmd.root => {"nosuid", "nodev"} \subseteq made.flags
    /\ <<"allow_other">> \in made.kernel => cmd.root \/ AllowedByConf

MountAsGiven == NamesKept /\ FlagsKept

\* An option the help of any part lists is taken by that part, with its last
\* value, and not reported as unknown; the file system is refused only for
\* options nobody knows or that are not allowed, and for what is no number.
\* Not so after "--" with options left over or with the default subtype behind
\* it (opt_parse), nor with a comma or a backslash in an option for the kernel.
\* large_read is for root's kernel to refuse, as fusermount leaves it out
\* (fusermount.c:756-765), and user= for a user's, to which mount.c:556 sends
\* it by way of fusermount (fusermount.c:780-783).
Tables == {HelperOpts, MountOpts, LibOpts, LowlevelOpts}
Known == UNION {UNION {e.names : e \in ToSet(t)} : t \in Tables}
Numbers == {"max_read=", "blksize="} \cup UNION {e.names : e \in {d \in ToSet(LibOpts) \cup ToSet(LowlevelOpts) : d.act = "number"}}
Refused ==
  \/ Cardinality({i \in DOMAIN cmd.given : cmd.given[i].kind = "path"}) # 1
  \/ \E i \in DOMAIN Given : Given[i][1] \notin Known
  \/ \E i \in DOMAIN Given : Given[i][1] \in Numbers /\ ~IsNumber(Tail(Given[i]))
  \/ Asked("allow_other") /\ Asked("allow_root")
  \/ ~cmd.root /\ (Asked("blkdev") \/ ((Asked("allow_other") \/ Asked("allow_root")) /\ ~AllowedByConf))
  \/ cmd.root /\ Asked("large_read")
  \/ ~cmd.root /\ Asked("user=")
  \/ ~cmd.place.empty /\ ~Asked("nonempty")
  \/ ~cmd.root /\ (TooMany(ReadConf(cmd.conf)) \/ ~CheckPerm(cmd.place))

\* The last word on a member that one option sets and another one clears.
Switched(n) ==
  LET off == UNION {e.names : e \in {d \in ToSet(LibOpts) \cup ToSet(LowlevelOpts) : d.act = "clear" /\ d.field = n}}
      about == SelectSeq(Given, LAMBDA o : o[1] \in {n} \cup off)
  IN about # << >> /\ Last(about)[1] = n
OptionsUsed ==
  /\ step = "failed" => Refused \/ HasSep \/ KernelLoose
  /\ step = "runs" =>
       /\ ~Refused
       /\ \A e \in ToSet(LibOpts) \cup ToSet(LowlevelOpts) : \A n \in e.names :
            /\ e.act = "set" => Has(settings, n) = Switched(n)
            /\ e.act \in {"number", "text"} => Has(settings, n) = Asked(n) /\ (Asked(n) => settings[n] = Value(n))
=============================================================================
