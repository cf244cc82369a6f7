----------------------------- MODULE MCDispatch -----------------------------
(***************************************************************************)
(* Instances of Dispatch for TLC.                                          *)
(***************************************************************************)
EXTENDS Dispatch, TLC

CONSTANTS s1, s2, e1, e2

\* Both machines can do the first step, one of them the second.
OneSpecialised == s1 :> {e1, e2} @@ s2 :> {e2}

OnePlaceEach == [e \in Equipment |-> 1]

\* Tasks and items are interchangeable, and no property distinguishes them.
Symmetry == Permutations(Tasks) \cup Permutations(Items)
=============================================================================
