---------------------------- MODULE RouteEditing ----------------------------
(***************************************************************************)
(* A route edited while an item travels it (core/product_def, the process  *)
(* segment and disposition endpoints, and the item's moves through         *)
(* core/routing).  Nothing makes an edit wait for the items on the route,  *)
(* and nothing validates a route before items use it.                      *)
(***************************************************************************)
EXTENDS Routing

CONSTANTS
    Sequence,    \* the sequence number each step is created with
    Deletable,   \* bound: the steps that may be deleted
    Retirable,   \* bound: the dispositions that may be deleted
    Flaggable    \* bound: the steps that may be flagged as initial

ASSUME EditingAssumption ==
    /\ Sequence \in [Steps -> Nat]
    /\ Deletable \subseteq Steps /\ Flaggable \subseteq Steps
    /\ Retirable \subseteq Dispositions

VARIABLES
    route,   \* the saved route
    gone,    \* its soft-deleted steps
    phase,   \* of the item: "waiting", "walking", "done"
    at       \* its current step

vars == <<route, gone, phase, at>>

TypeOK ==
    /\ route \in Routes
    /\ gone \subseteq Steps
    /\ phase \in {"waiting", "walking", "done"}
    /\ at \in Steps \cup {NoStep}
    /\ phase = "walking" <=> at \in Steps

Init ==
    /\ route = [steps    |-> {},
                inputs   |-> [s \in Steps |-> {}],
                outputs  |-> [s \in Steps |-> {}],
                initial  |-> {},
                sequence |-> Sequence,
                active   |-> Dispositions]
    /\ gone = {}
    /\ phase = "waiting"
    /\ at = NoStep

\* Nothing checks that the dispositions of a list are still active, and an
\* editor opened earlier may send one back that was deleted since.
Lists == SUBSET Dispositions

CreateStep(s, ins, outs, flags) ==
    /\ s \notin route.steps \cup gone
    /\ route' = [route EXCEPT !.steps = @ \cup {s}, !.inputs[s] = ins,
                              !.outputs[s] = outs, !.initial = @ \cup flags]
    /\ UNCHANGED <<gone, phase, at>>

SetInputs(s, ins) ==
    /\ s \in route.steps
    /\ route' = [route EXCEPT !.inputs[s] = ins]
    /\ UNCHANGED <<gone, phase, at>>

SetOutputs(s, outs) ==
    /\ s \in route.steps
    /\ route' = [route EXCEPT !.outputs[s] = outs]
    /\ UNCHANGED <<gone, phase, at>>

SetInitial(s) ==
    /\ s \in route.steps
    /\ route' = [route EXCEPT !.initial = IF s \in @ THEN @ \ {s} ELSE @ \cup {s}]
    /\ UNCHANGED <<gone, phase, at>>

\* The lists of a deleted step stay, and so do the items at it.
DeleteStep(s) ==
    /\ s \in route.steps
    /\ route' = [route EXCEPT !.steps = @ \ {s}]
    /\ gone' = gone \cup {s}
    /\ UNCHANGED <<phase, at>>

DeleteDisposition(d) ==
    /\ d \in route.active
    /\ route' = [route EXCEPT !.active = @ \ {d}]
    /\ UNCHANGED <<gone, phase, at>>

\* start_unit resolves the first step of the route.
Enter ==
    /\ phase = "waiting"
    /\ at' \in FirstSteps(route)
    /\ phase' = "walking"
    /\ UNCHANGED <<route, gone>>

\* move_unit without a target step.
Walk(d) ==
    /\ phase = "walking"
    /\ at' \in NextSteps(route, at, d)
    /\ phase' = IF at' = NoStep THEN "done" ELSE "walking"
    /\ UNCHANGED <<route, gone>>

Next ==
    \/ \E s \in Steps, ins, outs \in Lists, flags \in SUBSET Flaggable :
            flags \subseteq {s} /\ CreateStep(s, ins, outs, flags)
    \/ \E s \in Steps, L \in Lists : SetInputs(s, L) \/ SetOutputs(s, L)
    \/ \E s \in Flaggable : SetInitial(s)
    \/ \E s \in Deletable : DeleteStep(s)
    \/ \E d \in Retirable : DeleteDisposition(d)
    \/ Enter
    \/ \E d \in Dispositions \cup {NoDisposition} : Walk(d)

Spec == Init /\ [][Next]_vars

-----------------------------------------------------------------------------
(***************************************************************************)
(* Properties.                                                             *)
(***************************************************************************)

\* Whatever edits led to it, a route that validation accepts navigates: every
\* disposition offered leads to one step (validate_route against get_next_step).
ValidRoutesNavigate == Navigable(route)

\* Whatever edits led to it, the engine and the validator agree on the entry of
\* a route that validation accepts (validate_route against get_first_step).
ValidRoutesAgreeOnEntry == EntryAgreed(route)

\* The routing module's own words: a step with an empty output list is
\* terminal, completing it ends the route.  An item that is done was at such a
\* step when the route was valid and the step was still in it.
EndsAtTerminalStep ==
    [][phase = "walking" /\ phase' = "done" /\ ValidRoute(route) /\ at \in route.steps
            => at \in Terminal(route)]_vars
=============================================================================
