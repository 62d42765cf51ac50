------------------------------- MODULE MCYtfs -------------------------------
(***************************************************************************)
(* Ytfs for TLC: two of libfuse's workers, two songs to copy in; and, in a *)
(* part of its own, the texts its parser may be given.                     *)
(***************************************************************************)
EXTENDS Ytfs, MCJsonText

VARIABLE part

MCModes == {"foreground", "daemon", "mediafs"}
Load(kinds, copies, readers) == [kinds |-> kinds, copies |-> copies, readers |-> readers]
MCWorkloads ==
  { Load({"read"}, 0, 2), Load({"read", "unlink"}, 0, 1), Load({"read", "write", "flush"}, 1, 1),
    Load({"write", "flush"}, 2, 0), Load({"write", "flush", "close"}, 1, 0), Load({"write", "flush", "unlink"}, 1, 0) }

\* Workers, and the songs to copy, play identical parts.
MCSymmetry == Permutations(Workers) \cup Permutations(Songs)

\* The part that does not run stays at one of its initial states.
OneShape == CHOOSE s \in Shapes : TRUE
YtfsInit ==
  /\ part \in {"files", "text"}
  /\ Init /\ (part = "files" \/ (mode = "mediafs" /\ workload.copies = 0))
  /\ JsonInit /\ (part = "text" \/ shape = OneShape)

YtfsNext ==
  /\ UNCHANGED part
  /\ \/ part = "files" /\ Next /\ UNCHANGED jsonVars
     \/ part = "text" /\ Extend /\ UNCHANGED vars

YtfsSpec == YtfsInit /\ [][YtfsNext]_<<part, vars, jsonVars>>
=============================================================================
