----------------------------- MODULE FuseOptParse -----------------------------
(***************************************************************************)
(* The option parser of libfuse (fuse_opt.c), for one table and its        *)
(* function.  An argument is [kind, text]: a group of options after -o     *)
(* ("opts"), an option with a dash ("dash"), "--" ("sep"), or anything     *)
(* else ("path").  argv[0] is left out.  An entry of the table is          *)
(* [names, prefix, act, field]; act is "set", "clear", "text", "number",    *)
(* "keep", "discard" or a key of the table's own, and field the member it  *)
(* writes, "own" being the option's.  A member that is zero is not in the  *)
(* data.  A parse is [data, opts, args, nonopt, failed], and Proc gives    *)
(* the parse and what the function returned.                               *)
(***************************************************************************)
EXTENDS FuseOpt, TLC

CONSTANTS Table, Proc(_, _, _)

\* call_proc; iso: the option stands in a group.
CallProc(st, arg, iso, key) ==
  LET r == IF key = "keep" THEN [st |-> st, res |-> 1] ELSE Proc(st, arg.text, key)
  IN CASE key = "discard" -> st
       [] key # "discard" /\ r.res = -1 -> [r.st EXCEPT !.failed = TRUE]
       [] key # "discard" /\ r.res = 0 -> r.st
       [] OTHER -> IF iso THEN [r.st EXCEPT !.opts = AddOpt(@, Escape(arg.text))]
                   ELSE [r.st EXCEPT !.args = Append(@, arg)]

\* process_opt and process_opt_param: sscanf reads no number where there is none.
ProcessOpt(st, entry, arg, iso) ==
  LET name == IF entry.field = "own" THEN arg.text[1] ELSE entry.field
      value == Tail(arg.text)
  IN CASE st.failed -> st
       [] ~st.failed /\ entry.act \in {"set", "text"} -> [st EXCEPT !.data = (name :> value) @@ @]
       [] ~st.failed /\ entry.act = "clear" -> [st EXCEPT !.data = [n \in DOMAIN @ \ {name} |-> @[n]]]
       [] ~st.failed /\ entry.act = "number" ->
            IF IsNumber(value) THEN [st EXCEPT !.data = (name :> value) @@ @] ELSE [st EXCEPT !.failed = TRUE]
       [] OTHER -> CallProc(st, arg, iso, entry.act)

\* find_opt, again and again: every entry that matches, in the order of the table.
\* Mutant: the first one only.
FirstEntry(opt) ==
  LET entries == SelectSeq(Table, LAMBDA e : Matches(e, opt))
  IN IF entries = << >> THEN << >> ELSE <<entries[1]>>
Entries(opt) == SelectSeq(Table, LAMBDA e : Matches(e, opt))

\* process_gopt
ProcessGopt(st, arg, iso) ==
  LET entries == Entries(arg.text)
  IN IF entries = << >> /\ ~st.failed THEN CallProc(st, arg, iso, "opt")
     ELSE FoldLeft(LAMBDA s, e : ProcessOpt(s, e, arg, iso), st, entries)

\* process_one
ProcessOne(st, arg) ==
  CASE st.failed -> st
    [] ~st.failed /\ (st.nonopt # 0 \/ arg.kind = "path") -> CallProc(st, arg, FALSE, "nonopt")
    [] ~st.failed /\ st.nonopt = 0 /\ arg.kind = "opts" ->
         FoldLeft(LAMBDA s, o : ProcessGopt(s, [arg EXCEPT !.text = o], TRUE), st, Split(arg.text))
    [] ~st.failed /\ st.nonopt = 0 /\ arg.kind = "sep" ->
         [st EXCEPT !.args = Append(@, arg), !.nonopt = Len(st.args) + 1]
    [] OTHER -> ProcessGopt(st, arg, FALSE)

\* opt_parse: the options that are left come first, as one group, and the
\* separator goes if it is the last, unless there is such a group: nonopt was
\* counted before the group was put in.
Grouped(st) ==
  IF st.opts # << >> THEN <<[kind |-> "opts", text |-> st.opts]>> \o st.args
  ELSE IF st.nonopt # 0 /\ st.nonopt = Len(st.args) THEN Front(st.args) ELSE st.args

OptParse(args, data) ==
  LET st == FoldLeft(LAMBDA s, a : ProcessOne(s, a),
                     [data |-> data, opts |-> << >>, args |-> << >>, nonopt |-> 0, failed |-> FALSE], args)
  IN [data |-> st.data, args |-> IF st.failed THEN args ELSE Grouped(st), failed |-> st.failed]
=============================================================================
