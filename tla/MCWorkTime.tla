----------------------------- MODULE MCWorkTime ------------------------------
(***************************************************************************)
(* Instances of WorkTime for TLC: a day of four ticks, a rotation of one   *)
(* day shift, and one of a night shift and a day off.                      *)
(***************************************************************************)
EXTENDS WorkTime

MCRotations ==
    {<<[shift |-> [start |-> 1, length |-> 2], on |-> 1, off |-> 0]>>,
     <<[shift |-> [start |-> 3, length |-> 2], on |-> 1, off |-> 1]>>}
=============================================================================
