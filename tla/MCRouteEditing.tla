--------------------------- MODULE MCRouteEditing ---------------------------
(***************************************************************************)
(* Instances of RouteEditing for TLC: three steps, the last of which may   *)
(* be flagged or deleted; two dispositions, of which one may be retired.   *)
(***************************************************************************)
EXTENDS RouteEditing, TLC

MCSteps == {"a", "b", "c"}
MCSequence == [s \in MCSteps |-> CASE s = "a" -> 30 [] s = "b" -> 10 [] s = "c" -> 20]
=============================================================================
