---------------------------- MODULE MCLogBuffer ----------------------------
(***************************************************************************)
(* LogBuffer on a ring of three entries: two lines fill it, so four lines  *)
(* wrap both indexes and overwrite.                                        *)
(***************************************************************************)
EXTENDS LogBuffer

MCLens == {2, 3}

\* Too small for any line, room for one, for one or two, and for all.
MCCounts == {0, 2, 5}

\* Buffers some reader might really pass, one of them short for a line of 3.
MCShortCounts == {2, 5}
=============================================================================
