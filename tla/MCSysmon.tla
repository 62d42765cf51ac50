------------------------------ MODULE MCSysmon ------------------------------
(***************************************************************************)
(* Sysmon with two tasks of user 1, two probes (the second without         *)
(* arguments), an int of eight values and a log of two lines.  Of the      *)
(* numbers written, 9 does not fit the int and is cut to 1.                *)
(***************************************************************************)
EXTENDS Sysmon

CONSTANTS t1, t2

MCTasks == {t1, t2}
MCUidOf == [t \in MCTasks |-> 1]
MCUids == {2, 9}
MCNoArgs == {2}
=============================================================================
