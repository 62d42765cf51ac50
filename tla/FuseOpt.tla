------------------------------- MODULE FuseOpt -------------------------------
(***************************************************************************)
(* Texts of options in libfuse (fuse_opt.c).  A text is a sequence of      *)
(* symbols: "," and "\\" are themselves, the name of an option is one      *)
(* symbol, with its "=" if it has one, and so is what stands in a value,   *)
(* such as a number.                                                       *)
(***************************************************************************)
EXTENDS Naturals, Sequences, SequencesExt

Special == {",", "\\"}

\* add_opt_common
Escape(text) == FlattenSeq([i \in DOMAIN text |-> IF text[i] \in Special THEN <<"\\", text[i]>> ELSE <<text[i]>>])
AddOpt(opts, opt) == IF opts = << >> THEN opt ELSE opts \o <<",">> \o opt

\* The parts of a group; a backslash keeps what follows it from being special,
\* and at the very end stands for itself.
Part(s, c, escapes) ==
  IF s.quoted THEN [s EXCEPT !.quoted = FALSE, !.cur = @ \o escapes \o <<c>>]
  ELSE CASE c = "\\" -> [s EXCEPT !.quoted = TRUE]
         [] c = "," -> [s EXCEPT !.done = Append(@, s.cur), !.cur = << >>]
         [] OTHER -> [s EXCEPT !.cur = Append(@, c)]
Parts(text, escapes) ==
  LET s == FoldLeft(LAMBDA t, c : Part(t, c, escapes), [done |-> << >>, cur |-> << >>, quoted |-> FALSE], text)
  IN Append(s.done, IF s.quoted THEN Append(s.cur, "\\") ELSE s.cur)

\* process_real_option_group
Split(text) == Parts(text, << >>)

Digits == {"0", "1", "2", "3", "4", "5", "6", "7", "8", "9"}
IsNumber(text) == text # << >> /\ text[1] \in Digits

\* match_template
Matches(entry, opt) == opt # << >> /\ opt[1] \in entry.names /\ (entry.prefix \/ Len(opt) = 1)
=============================================================================
