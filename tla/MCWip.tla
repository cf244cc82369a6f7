-------------------------------- MODULE MCWip --------------------------------
(***************************************************************************)
(* Instances of Wip for TLC.                                               *)
(***************************************************************************)
EXTENDS Wip, TLC

\* Machine, then test; a piece that fails the test goes round it again, one that
\* passes is packed.  Three steps, one loop, one dead-end disposition.
LoopSteps == {"machine", "test", "pack"}
LoopDispositions == {"made", "rework", "good"}
LoopRoute ==
    [steps    |-> LoopSteps,
     inputs   |-> [s \in LoopSteps |->
                     CASE s = "machine" -> {}
                       [] s = "test"    -> {"made", "rework"}
                       [] s = "pack"    -> {"good"}],
     outputs  |-> [s \in LoopSteps |->
                     CASE s = "machine" -> {"made"}
                       [] s = "test"    -> {"rework", "good"}
                       [] s = "pack"    -> {}],
     initial  |-> {"machine"},
     sequence |-> [s \in LoopSteps |->
                     CASE s = "machine" -> 10 [] s = "test" -> 20 [] s = "pack" -> 30],
     active   |-> LoopDispositions]
LoopTransfers == {"pack"}

ASSUME ValidRoute(LoopRoute)

\* Bound: one order at a time, made either in units or in a lot.
OneOrder ==
    /\ \E o \in Orders : orderStatus[o] = "absent"
    /\ \/ \A u \in Units : status[u] = "absent"
       \/ \A l \in Lots : status[l] = "absent"

Symmetry == Permutations(Units)
=============================================================================
