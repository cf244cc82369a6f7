------------------------------- MODULE Routing -------------------------------
(***************************************************************************)
(* The routing engine of core/routing/service.py.  A route is a record     *)
(*   steps    - its active steps,                                          *)
(*   inputs   - the input disposition list of each step,                   *)
(*   outputs  - the output disposition list of each step,                  *)
(*   initial  - the steps flagged is_initial_step,                         *)
(*   sequence - the sequence number of each step,                          *)
(*   active   - the dispositions of the catalogue not soft-deleted.        *)
(* There is no edge table: a step leads to another through a disposition   *)
(* that is in the output list of the first and the input list of the       *)
(* second.                                                                 *)
(***************************************************************************)
EXTENDS Naturals, FiniteSets

CONSTANTS
    Steps,          \* the process segments that may appear in a route
    Dispositions,   \* the disposition catalogue
    NoStep,         \* current_step_id IS NULL
    NoDisposition   \* the caller names no disposition

ASSUME RoutingAssumption ==
    /\ NoStep \notin Steps
    /\ NoDisposition \notin Dispositions
    /\ IsFiniteSet(Steps)

Routes == [steps    : SUBSET Steps,
           inputs   : [Steps -> SUBSET Dispositions],
           outputs  : [Steps -> SUBSET Dispositions],
           initial  : SUBSET Steps,
           sequence : [Steps -> Nat],
           active   : SUBSET Dispositions]

-----------------------------------------------------------------------------
(***************************************************************************)
(* Step navigation.                                                        *)
(***************************************************************************)

Flagged(r) == r.initial \cap r.steps

Unfed(r) == {s \in r.steps : r.inputs[s] = {}}

\* Mutant of EntryCandidates: the rule of the empty input list is lost.
EntryCandidatesUnfedIgnored(r) == IF Flagged(r) # {} THEN Flagged(r) ELSE r.steps

\* get_first_step sorts one of three candidate lists: the flagged steps, else
\* the steps nothing leads to, else every active step.
EntryCandidates(r) ==
    IF Flagged(r) # {} THEN Flagged(r)
    ELSE IF Unfed(r) # {} THEN Unfed(r)
    ELSE r.steps

Lowest(r, S) == {s \in S : \A t \in S : r.sequence[s] <= r.sequence[t]}

FirstSteps(r) == Lowest(r, EntryCandidates(r))

\* The active steps of the route that have d in their input list.
Destinations(r, d) == {s \in r.steps : d \in r.inputs[s]}

\* The outputs an operator may still choose: a disposition deleted from the
\* catalogue stays in the list of the step but is no longer offered.
Offered(r, s) == r.outputs[s] \cap r.active

\* The disposition get_next_step settles on: the only output when the caller
\* names none, else the named one if it is an output.  Empty when it raises
\* AmbiguousDispositionError or NoNextStepException.
Chosen(r, s, d) ==
    IF d = NoDisposition
    THEN {o \in Offered(r, s) : Offered(r, s) = {o}}
    ELSE Offered(r, s) \cap {d}

\* The answers of get_next_step: {NoStep} when the route ends here, the one
\* destination otherwise, and no answer when it raises (two destinations are a
\* RuntimeError).
NextSteps(r, s, d) ==
    IF s = NoStep THEN FirstSteps(r)
    ELSE IF Offered(r, s) = {} THEN {NoStep}
    ELSE {t \in r.steps \cup {NoStep} :
            \E o \in Chosen(r, s, d) :
                Destinations(r, o) = (IF t = NoStep THEN {} ELSE {t})}

-----------------------------------------------------------------------------
(***************************************************************************)
(* validate_route.  It reads the lists as they were saved, whether or not  *)
(* their dispositions are still active.                                    *)
(***************************************************************************)

Terminal(r) == {s \in r.steps : r.outputs[s] = {}}

Fed(r)    == UNION {r.inputs[s] : s \in r.steps}
Raised(r) == UNION {r.outputs[s] : s \in r.steps}

\* The entry step the reachability check starts from, if it runs at all.
ValidationEntry(r) ==
    IF Flagged(r) # {} THEN Lowest(r, Flagged(r))
    ELSE {s \in Unfed(r) : Unfed(r) = {s}}

Successors(r, s) == UNION {Destinations(r, d) : d \in r.outputs[s]}

\* What the breadth-first search collects: the least set that holds the entry
\* and is closed under the edges.
Reachable(r, S) ==
    {t \in r.steps :
        \A C \in SUBSET r.steps :
            (S \subseteq C /\ \A u \in C : Successors(r, u) \subseteq C) => t \in C}

OneEntry(r) ==
    /\ Cardinality(Flagged(r)) <= 1
    /\ Flagged(r) = {} => Cardinality(Unfed(r)) = 1
    /\ Flagged(r) \subseteq Unfed(r)

\* Mutant of InputsUnique: two steps may be fed by one disposition.
InputsUniqueForgotten(r) == \A d \in Dispositions : Cardinality(Destinations(r, d)) <= 2

InputsUnique(r) == \A d \in Dispositions : Cardinality(Destinations(r, d)) <= 1

Connected(r) == Fed(r) = Raised(r)

NoOrphans(r) ==
    ValidationEntry(r) # {} => Reachable(r, ValidationEntry(r)) = r.steps

ValidRoute(r) ==
    r.steps # {} =>
        /\ OneEntry(r)
        /\ InputsUnique(r)
        /\ Connected(r)
        /\ Terminal(r) # {}
        /\ NoOrphans(r)

-----------------------------------------------------------------------------
(***************************************************************************)
(* What validation is for.                                                 *)
(***************************************************************************)

\* No disposition in use was deleted from the catalogue.
Current(r) == \A s \in r.steps : r.outputs[s] \subseteq r.active

\* In a valid route whose dispositions are all active, each disposition a step
\* offers leads to exactly one step: navigation neither fails nor ends the
\* route before a terminal step.
Navigable(r) ==
    ValidRoute(r) /\ Current(r) =>
        \A s \in r.steps : \A d \in r.outputs[s] :
            \E t \in r.steps : NextSteps(r, s, d) = {t}

\* The engine and the validator, which find it by different rules, agree on
\* the one entry step of a valid route, so that the steps validation finds
\* reachable are those an item can reach.
EntryAgreed(r) ==
    ValidRoute(r) /\ r.steps # {} =>
        \E s \in r.steps : FirstSteps(r) = {s} /\ ValidationEntry(r) = {s}
=============================================================================
