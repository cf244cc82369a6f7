------------------------------- MODULE Dispatch -------------------------------
(***************************************************************************)
(* The equipment an item of WIP is assigned to (core/dispatch, and the     *)
(* requests of core/wip that touch the same row), as transactions that     *)
(* interleave.  A move clears the equipment of the item and schedules an   *)
(* event; the handler of the event, in a session of its own, looks for     *)
(* equipment at the new step.  Nothing makes the handler wait for the      *)
(* commit of the move, and nothing locks a queue between the moment its    *)
(* depth is compared with its limit and the moment an item joins it.       *)
(*                                                                         *)
(* A transaction loads the item's row once, changes its copy, and at the   *)
(* commit writes the columns of the copy that differ from what it loaded.  *)
(* The ranking of the options is left out: an evaluation may recommend any *)
(* of them.  The SELECTs of one evaluation count as one moment, and so do  *)
(* those of a handler that compares the step of its event and then loads   *)
(* the row; the equipment is taken to be set up for the material.          *)
(***************************************************************************)
EXTENDS Naturals, FiniteSets

CONSTANTS
    Items,       \* units and lots
    Steps,       \* the steps of their route
    Equipment,
    Logged,      \* the equipment with a state log; other counts as available
    Tasks,       \* transactions that may run, of requests and of handlers
    Capable,     \* the equipment required at a step and set up for the items
    First,       \* the first step of the route
    Limit,       \* max_queue_depth
    None         \* current_step_id or current_equipment_id IS NULL

ASSUME DispatchAssumption ==
    /\ IsFiniteSet(Items) /\ IsFiniteSet(Tasks)
    /\ Capable \in [Steps -> SUBSET Equipment]
    /\ First \in Steps
    /\ Limit \in [Equipment -> Nat]
    /\ Logged \subseteq Equipment
    /\ None \notin Steps \cup Equipment

VARIABLES
    row,         \* step, status and equipment of each item, as committed
    up,          \* the equipment in dispatch category "available"
    events,      \* moved events whose handler has not started
    job,         \* what a task does
    item,        \* the item it is about
    pc,          \* where it is
    seen, copy,  \* the row as it loaded it, and as it changed it
    aim,         \* the equipment its evaluation recommended
    together,    \* ghost: items two transactions were on at the same time
    byHand,      \* ghost: items an operator named the equipment of
    excused,     \* ghost: items an attempt to dispatch was given up for
    excess       \* ghost: how often a queue was joined past the check

task == <<job, item, pc, seen, copy, aim>>
vars == <<row, up, events, job, item, pc, seen, copy, aim,
          together, byHand, excused, excess>>

Working  == {"queued", "in_process"}
Statuses == Working \cup {"on_hold", "gone"}
Rows == [step : Steps \cup {None}, status : Statuses, equipment : Equipment \cup {None}]
Jobs == {"none", "start", "auto", "other"}

TypeOK ==
    /\ row \in [Items -> Rows]
    /\ up \subseteq Equipment
    /\ events \subseteq [item : Items, step : Steps, from : Tasks]
    /\ job \in [Tasks -> Jobs]
    /\ item \in [Tasks -> Items \cup {None}]
    /\ pc \in [Tasks -> {"idle", "publish", "evaluate", "execute", "commit", "done"}]
    /\ seen \in [Tasks -> Rows] /\ copy \in [Tasks -> Rows]
    /\ aim \in [Tasks -> Equipment \cup {None}]
    /\ together \subseteq Items /\ byHand \subseteq Items /\ excused \subseteq Items
    /\ excess \in [Equipment -> Nat]

Fresh == [step |-> None, status |-> "queued", equipment |-> None]

\* Items at the equipment e: those _get_queue_depth counts.
Queue(e) == {i \in Items : row[i].equipment = e /\ row[i].status \in Working}

HasRoom(e) == e \in up /\ Cardinality(Queue(e)) < Limit[e]

\* Some items are new, some are at a step and its equipment.
Init ==
    /\ row \in [Items -> {Fresh} \cup
                  {r \in Rows : /\ r.status = "queued" /\ r.step # None
                                /\ r.equipment \in Capable[r.step]}]
    /\ \A e \in Equipment : Cardinality(Queue(e)) <= Limit[e]
    /\ up = Equipment
    /\ events = {}
    /\ job = [t \in Tasks |-> "none"]
    /\ item = [t \in Tasks |-> None]
    /\ pc = [t \in Tasks |-> "idle"]
    /\ seen = [t \in Tasks |-> Fresh] /\ copy = [t \in Tasks |-> Fresh]
    /\ aim = [t \in Tasks |-> None]
    /\ together = {} /\ byHand = {} /\ excused = {}
    /\ excess = [e \in Equipment |-> 0]

-----------------------------------------------------------------------------
InFlight == {t \in Tasks : pc[t] \notin {"idle", "done"}}

On(i) == {t \in InFlight : item[t] = i}

\* The tasks about to put an item at e.
Joining(e) ==
    {t \in InFlight : /\ pc[t] = "commit"
                      /\ copy[t].equipment = e /\ seen[t].equipment # e}

\* A task loads the row of its item, and goes on at p with the copy c.
Load(t, j, i, p, c) ==
    /\ pc[t] = "idle"
    /\ job' = [job EXCEPT ![t] = j]
    /\ item' = [item EXCEPT ![t] = i]
    /\ pc' = [pc EXCEPT ![t] = p]
    /\ seen' = [seen EXCEPT ![t] = row[i]]
    /\ copy' = [copy EXCEPT ![t] = c]
    /\ together' = IF On(i) = {} THEN together ELSE together \cup {i}
    /\ UNCHANGED <<row, up, aim>>

\* A task ends, and what it knew is forgotten.
End(t) ==
    /\ job' = [job EXCEPT ![t] = "none"]
    /\ item' = [item EXCEPT ![t] = None]
    /\ pc' = [pc EXCEPT ![t] = "done"]
    /\ seen' = [seen EXCEPT ![t] = Fresh]
    /\ copy' = [copy EXCEPT ![t] = Fresh]
    /\ aim' = [aim EXCEPT ![t] = None]

\* One more at e than the check allowed for, if it was not where the item was.
Joined(e, loaded) ==
    excess' = IF loaded.equipment = e THEN excess ELSE [excess EXCEPT ![e] = @ + 1]

-----------------------------------------------------------------------------
(***************************************************************************)
(* The requests of core/wip.                                               *)
(***************************************************************************)

\* start_unit, start_lot with equipment named in the request: not checked.
StartAt(t, i, e) ==
    /\ row[i].status \in Working
    /\ Load(t, "start", i, "commit",
            [step |-> IF row[i].step = None THEN First ELSE row[i].step,
             status |-> "in_process", equipment |-> e])
    /\ byHand' = byHand \cup {i}
    /\ Joined(e, row[i])
    /\ UNCHANGED <<events, excused>>

\* Without: an item that has none is dispatched first, in the same session.
Start(t, i) ==
    /\ row[i].status \in Working
    /\ Load(t, "start", i, IF row[i].equipment = None THEN "evaluate" ELSE "commit",
            [row[i] EXCEPT !.step = IF @ = None THEN First ELSE @, !.status = "in_process"])
    /\ UNCHANGED <<events, byHand, excused, excess>>

\* Mutant of Moved: the equipment stays with the item.
MovedWithEquipment(r, s) ==
    IF s = None THEN [step |-> None, status |-> "gone", equipment |-> None]
    ELSE [r EXCEPT !.step = s, !.status = "queued"]

\* The row after a move to s; None is the end of the route.
Moved(r, s) ==
    IF s = None THEN [step |-> None, status |-> "gone", equipment |-> None]
    ELSE [step |-> s, status |-> "queued",
          equipment |-> IF s = r.step THEN r.equipment ELSE None]

\* move_unit, move_lot, by routing or to a named step.
Move(t, i, s) ==
    /\ row[i].status \in Working
    /\ s = None => row[i].step # None
    /\ Load(t, "other", i, IF s = None THEN "commit" ELSE "publish", Moved(row[i], s))
    /\ UNCHANGED <<events, byHand, excused, excess>>

\* Mutant of Publish: only items without equipment are announced.
PublishSome(t) ==
    /\ pc[t] = "publish"
    /\ pc' = [pc EXCEPT ![t] = "commit"]
    /\ events' = IF seen[t].equipment # None THEN events
                 ELSE events \cup {[item |-> item[t], step |-> copy[t].step, from |-> t]}
    /\ UNCHANGED <<row, up, job, item, seen, copy, aim, together, byHand, excused, excess>>

\* _publish_after_commit: the event is scheduled, before the commit.
Publish(t) ==
    /\ pc[t] = "publish"
    /\ pc' = [pc EXCEPT ![t] = "commit"]
    /\ events' = events \cup {[item |-> item[t], step |-> copy[t].step, from |-> t]}
    /\ UNCHANGED <<row, up, job, item, seen, copy, aim, together, byHand, excused, excess>>

Hold(t, i) ==
    /\ row[i].status # "gone"
    /\ Load(t, "other", i, "commit", [row[i] EXCEPT !.status = "on_hold"])
    /\ UNCHANGED <<events, byHand, excused, excess>>

ReleaseHold(t, i) ==
    /\ row[i].status = "on_hold"
    /\ Load(t, "other", i, "commit", [row[i] EXCEPT !.status = "queued"])
    /\ UNCHANGED <<events, byHand, excused, excess>>

Scrap(t, i) ==
    /\ row[i].status # "gone"
    /\ Load(t, "other", i, "commit", [row[i] EXCEPT !.status = "gone", !.equipment = None])
    /\ UNCHANGED <<events, byHand, excused, excess>>

\* transfer_to_inventory of an item that waits at a step; it keeps its equipment.
Finish(t, i) ==
    /\ row[i].status = "queued" /\ row[i].step # None
    /\ Load(t, "other", i, "commit", [row[i] EXCEPT !.status = "gone"])
    /\ UNCHANGED <<events, byHand, excused, excess>>

-----------------------------------------------------------------------------
(***************************************************************************)
(* Dispatch.                                                               *)
(***************************************************************************)

\* on_unit_moved, on_lot_moved: an event for a step the item is not at, or not
\* yet at as far as this session sees, is dropped.
Drop(v) ==
    /\ v \in events /\ row[v.item].step # v.step
    /\ events' = events \ {v}
    /\ excused' = IF v.from \in InFlight THEN excused \cup {v.item} ELSE excused
    /\ UNCHANGED <<row, up, task, together, byHand, excess>>

Handle(t, v) ==
    /\ v \in events /\ row[v.item].step = v.step
    /\ events' = events \ {v}
    /\ Load(t, "auto", v.item, "evaluate", row[v.item])
    /\ UNCHANGED <<byHand, excused, excess>>

\* POST /dispatch/auto.
AutoDispatch(t, i) ==
    /\ row[i].step # None
    /\ Load(t, "auto", i, "evaluate", row[i])
    /\ UNCHANGED <<events, byHand, excused, excess>>

\* POST /dispatch/execute: equipment the operator chose, which is checked before
\* the item is loaded.  It need not be equipment of the step.
Execute(t, i, e) ==
    /\ HasRoom(e)
    /\ Load(t, "other", i, "commit", [row[i] EXCEPT !.equipment = e])
    /\ byHand' = byHand \cup {i}
    /\ IF Joining(e) = {} THEN UNCHANGED excess ELSE Joined(e, row[i])
    /\ UNCHANGED <<events, excused>>

\* No equipment: a start goes on without, everything else ends here.
GiveUp(t) ==
    /\ excused' = excused \cup {item[t]}
    /\ \/ /\ job[t] = "start"
          /\ pc' = [pc EXCEPT ![t] = "commit"]
          /\ aim' = [aim EXCEPT ![t] = None]
          /\ UNCHANGED <<job, item, seen, copy>>
       \/ job[t] # "start" /\ End(t)
    /\ UNCHANGED excess

\* DispatchService.evaluate.
Evaluate(t) ==
    /\ pc[t] = "evaluate"
    /\ LET options == {e \in Capable[copy[t].step] : HasRoom(e)}
       IN  \/ options = {} /\ GiveUp(t)
           \/ /\ aim' \in {[aim EXCEPT ![t] = e] : e \in options}
              /\ pc' = [pc EXCEPT ![t] = "execute"]
              /\ UNCHANGED <<job, item, seen, copy, excused, excess>>
    /\ UNCHANGED <<row, up, events, together, byHand>>

\* The recommended equipment is put into the copy.
TakeAim(t) ==
    /\ copy' = [copy EXCEPT ![t].equipment = aim[t]]
    /\ aim' = [aim EXCEPT ![t] = None]
    /\ pc' = [pc EXCEPT ![t] = "commit"]
    /\ IF Joining(aim[t]) = {} THEN UNCHANGED excess ELSE Joined(aim[t], seen[t])
    /\ UNCHANGED <<job, item, seen, excused>>

\* Mutant of Assign: the recommendation is taken as it is.
AssignUnchecked(t) ==
    /\ pc[t] = "execute" /\ TakeAim(t)
    /\ UNCHANGED <<row, up, events, together, byHand>>

\* DispatchService.execute on the recommendation: checked again, then assigned.
Assign(t) ==
    /\ pc[t] = "execute"
    /\ \/ HasRoom(aim[t]) /\ TakeAim(t)
       \/ ~HasRoom(aim[t]) /\ GiveUp(t)
    /\ UNCHANGED <<row, up, events, together, byHand>>

-----------------------------------------------------------------------------
(***************************************************************************)
(* The end of a transaction, and what goes on around it.                   *)
(***************************************************************************)

\* The columns that changed are written, whatever the row holds by now.
Written(t, r) ==
    [c \in DOMAIN r |-> IF copy[t][c] # seen[t][c] THEN copy[t][c] ELSE r[c]]

Commit(t) ==
    LET i == item[t]
        r == Written(t, row[i])
        back == r.equipment # None /\ r.equipment = row[i].equipment
                  /\ r.status \in Working /\ row[i].status \notin Working
    IN  /\ pc[t] = "commit"
        /\ row' = [row EXCEPT ![i] = r]
        /\ End(t)
        /\ excess' = IF back THEN [excess EXCEPT ![r.equipment] = @ + 1] ELSE excess
        /\ UNCHANGED <<up, events, together, byHand, excused>>

\* An exception, or a server that stops.
Rollback(t) ==
    /\ t \in InFlight
    /\ End(t)
    /\ excused' = IF job[t] = "auto" THEN excused \cup {item[t]} ELSE excused
    /\ UNCHANGED <<row, up, events, together, byHand, excess>>

\* Events are kept in memory only.
LoseEvent(v) ==
    /\ v \in events
    /\ events' = events \ {v}
    /\ excused' = excused \cup {v.item}
    /\ UNCHANGED <<row, up, task, together, byHand, excess>>

\* The equipment changes its state.
ChangeState(e) ==
    /\ up' = IF e \in up THEN up \ {e} ELSE up \cup {e}
    /\ UNCHANGED <<row, events, task, together, byHand, excused, excess>>

-----------------------------------------------------------------------------
Request(t, i) ==
    \/ \E e \in Equipment : StartAt(t, i, e) \/ Execute(t, i, e)
    \/ Start(t, i)
    \/ \E s \in Steps \cup {None} : Move(t, i, s)
    \/ Hold(t, i)
    \/ ReleaseHold(t, i)
    \/ Scrap(t, i)
    \/ Finish(t, i)
    \/ AutoDispatch(t, i)

Proceed(t) == Publish(t) \/ Evaluate(t) \/ Assign(t) \/ Commit(t) \/ Rollback(t)

Next ==
    \/ \E t \in Tasks, i \in Items : Request(t, i)
    \/ \E t \in Tasks : Proceed(t)
    \/ \E v \in events : Drop(v) \/ LoseEvent(v) \/ \E t \in Tasks : Handle(t, v)
    \/ \E e \in Logged : ChangeState(e)

Spec == Init /\ [][Next]_vars

-----------------------------------------------------------------------------
(***************************************************************************)
(* Properties.                                                             *)
(***************************************************************************)

\* A queue grows past its limit for three reasons only, by one item each: two
\* dispatches that checked it at the same time, an operator who named the
\* equipment at the start of an item, and an item that comes back from hold to
\* the place it had.  The items about to join are counted with it.
OverfullExplained ==
    \A e \in Equipment :
        Cardinality(Queue(e)) + Cardinality(Joining(e)) <= Limit[e] + excess[e]

\* Unless an operator chose, or two transactions met on it, an item is at
\* equipment of the step it is at.
AtEquipmentOfItsStep ==
    \A i \in Items \ (byHand \cup together) :
        row[i].equipment # None =>
            row[i].step # None /\ row[i].equipment \in Capable[row[i].step]

Quiet(i) == On(i) = {} /\ \A v \in events : v.item # i

\* No item is forgotten: one that waits at a step without equipment, with
\* nothing under way for it, is one for which dispatch was given up, because no
\* equipment had room, because its event was lost or arrived before the move
\* was committed, or because two transactions met.
NobodyForgotten ==
    \A i \in Items \ (excused \cup together) :
        Quiet(i) /\ row[i].step # None /\ row[i].status \in Working
            => row[i].equipment # None
=============================================================================
