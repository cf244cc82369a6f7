--------------------------------- MODULE Wip ---------------------------------
(***************************************************************************)
(* Production orders (core/operations) and the units and lots made for     *)
(* them (core/wip), one HTTP request at a time: a request reads the rows   *)
(* it needs, changes them and commits, and one that raises changes         *)
(* nothing.  Requests that interleave are the subject of OrderRequests;    *)
(* the equipment an item is assigned to is the subject of Dispatch.        *)
(*                                                                         *)
(* Units and lots have the same life cycle and are both Items here: a unit *)
(* is an item of quantity one.  Of the history rows (segment responses)    *)
(* what later requests read is kept: how many rows are open at each step,  *)
(* and the step of the row closed last.                                    *)
(***************************************************************************)
EXTENDS Routing, Integers, FiniteSetsExt

CONSTANTS
    Orders,         \* operations requests
    Discrete,       \* the orders whose product is of type "discrete"
    Units, Lots,    \* unit and lot rows that may be inserted
    NoOrder,        \* order_id of a row not inserted yet
    Route,          \* the route the orders' product is made with
    TransferSteps,  \* the steps with a transfer_location_id
    MaxQuantity,    \* bound: quantities named in requests
    MaxOpenRows,    \* bound: open history rows of an item at one step
    MaxCount        \* bound: an order's counters

ASSUME WipAssumption ==
    /\ Discrete \subseteq Orders
    /\ NoOrder \notin Orders
    /\ Units \cap Lots = {}
    /\ IsFiniteSet(Units) /\ IsFiniteSet(Lots)
    /\ Route \in Routes
    /\ TransferSteps \subseteq Steps
    /\ MaxQuantity \in Nat /\ MaxOpenRows \in Nat /\ MaxCount \in Nat

Items == Units \cup Lots

VARIABLES
    orderStatus,    \* operations_requests.status, "absent" before POST
    orderActive,    \* ... .is_active, cleared by the soft delete
    ordered,        \* ... .quantity_ordered
    completed,      \* ... .quantity_completed
    scrapped,       \* ... .quantity_scrapped
    status,         \* units/lots.status, "absent" before the insert
    owner,          \* ... .order_id
    step,           \* ... .current_step_id
    qty,            \* lots.quantity, one for a unit
    openRows,       \* rows with exited_at IS NULL, per item and step
    lastExit        \* step of the row with the greatest exited_at

orderVars == <<orderStatus, orderActive, ordered, completed, scrapped>>
rowVars   == <<openRows, lastExit>>
itemVars  == <<status, owner, step, qty, openRows, lastExit>>
vars == <<orderStatus, orderActive, ordered, completed, scrapped,
          status, owner, step, qty, openRows, lastExit>>

OrderStatuses == {"absent", "created", "released", "in_progress", "completed", "closed"}
ItemStatuses  == {"absent", "queued", "in_process", "on_hold",
                  "completed", "finished", "scrapped"}
Settled == {"completed", "finished", "scrapped"}
Started == {"in_progress", "completed", "closed"}

TypeOK ==
    /\ orderStatus \in [Orders -> OrderStatuses]
    /\ orderActive \in [Orders -> BOOLEAN]
    /\ ordered \in [Orders -> Nat]
    /\ completed \in [Orders -> Int]
    /\ scrapped \in [Orders -> Int]
    /\ status \in [Items -> ItemStatuses]
    /\ owner \in [Items -> Orders \cup {NoOrder}]
    /\ step \in [Items -> Steps \cup {NoStep}]
    /\ qty \in [Items -> Int]
    /\ openRows \in [Items -> [Steps -> Nat]]
    /\ lastExit \in [Items -> Steps \cup {NoStep}]

Init ==
    /\ orderStatus = [o \in Orders |-> "absent"]
    /\ orderActive = [o \in Orders |-> TRUE]
    /\ ordered = [o \in Orders |-> 0]
    /\ completed = [o \in Orders |-> 0]
    /\ scrapped = [o \in Orders |-> 0]
    /\ status = [i \in Items |-> "absent"]
    /\ owner = [i \in Items |-> NoOrder]
    /\ step = [i \in Items |-> NoStep]
    /\ qty = [i \in Items |-> 0]
    /\ openRows = [i \in Items |-> [s \in Steps |-> 0]]
    /\ lastExit = [i \in Items |-> NoStep]

-----------------------------------------------------------------------------
(***************************************************************************)
(* Orders.  Every mutation loads the order with get_order, which does not  *)
(* see a soft-deleted one.                                                 *)
(***************************************************************************)

\* Mutant of Allowed: a completed order can be released again.
AllowedReopening(from) ==
    CASE from = "created"     -> {"released", "closed"}
      [] from = "released"    -> {"in_progress", "closed"}
      [] from = "in_progress" -> {"completed", "closed"}
      [] from = "completed"   -> {"closed", "released"}
      [] OTHER                -> {}

\* ORDER_TRANSITIONS of core/operations/schemas.py.
Allowed(from) ==
    CASE from = "created"     -> {"released", "closed"}
      [] from = "released"    -> {"in_progress", "closed"}
      [] from = "in_progress" -> {"completed", "closed"}
      [] from = "completed"   -> {"closed"}
      [] OTHER                -> {}

CreateOrder(o, q) ==
    /\ orderStatus[o] = "absent"
    /\ orderStatus' = [orderStatus EXCEPT ![o] = "created"]
    /\ ordered' = [ordered EXCEPT ![o] = q]
    /\ UNCHANGED <<orderActive, completed, scrapped, itemVars>>

UpdateOrder(o, q) ==
    /\ orderStatus[o] # "absent" /\ orderActive[o]
    /\ ordered' = [ordered EXCEPT ![o] = q]
    /\ UNCHANGED <<orderStatus, orderActive, completed, scrapped, itemVars>>

DeleteOrder(o) ==
    /\ orderStatus[o] # "absent" /\ orderActive[o]
    /\ orderActive' = [orderActive EXCEPT ![o] = FALSE]
    /\ UNCHANGED <<orderStatus, ordered, completed, scrapped, itemVars>>

SetOrderStatus(o, target) ==
    /\ orderActive[o]
    /\ target \in Allowed(orderStatus[o])
    /\ orderStatus' = [orderStatus EXCEPT ![o] = target]
    /\ UNCHANGED <<orderActive, ordered, completed, scrapped, itemVars>>

ReleaseOrder(o)  == SetOrderStatus(o, "released")
CompleteOrder(o) == SetOrderStatus(o, "completed")
CloseOrder(o)    == SetOrderStatus(o, "closed")

\* start_order, called for every item created: idempotent on a running order,
\* a transition from "released" otherwise.
Startable(o) ==
    /\ orderActive[o]
    /\ orderStatus[o] = "in_progress" \/ "in_progress" \in Allowed(orderStatus[o])

-----------------------------------------------------------------------------
(***************************************************************************)
(* Creating items: by an operator, or by the generator loop, which wakes   *)
(* every five seconds.                                                     *)
(***************************************************************************)

Absent(S) == {i \in S : status[i] = "absent"}

Insert(I, o, q) ==
    /\ Startable(o)
    /\ orderStatus' = [orderStatus EXCEPT ![o] = "in_progress"]
    /\ status' = [i \in Items |-> IF i \in I THEN "queued" ELSE status[i]]
    /\ owner' = [i \in Items |-> IF i \in I THEN o ELSE owner[i]]
    /\ qty' = [i \in Items |-> IF i \in I THEN q ELSE qty[i]]
    /\ UNCHANGED <<orderActive, ordered, completed, scrapped, step, openRows, lastExit>>

CreateUnit(u, o) == u \in Absent(Units) /\ Insert({u}, o, 1)

CreateLot(l, o, q) == l \in Absent(Lots) /\ Insert({l}, o, q)

\* One order of process_released_orders.  A serial number that is already taken
\* raises inside the loop over the pieces; the exception is swallowed and what
\* was inserted before it is committed, so fewer units than ordered may result.
GenerateWip(o) ==
    /\ orderActive[o] /\ orderStatus[o] = "released"
    /\ \/ /\ o \in Discrete
          /\ \E U \in SUBSET Absent(Units) :
                /\ U # {} /\ Cardinality(U) <= ordered[o]
                /\ Insert(U, o, 1)
       \/ /\ o \notin Discrete
          /\ \E l \in Absent(Lots) : Insert({l}, o, ordered[o])

-----------------------------------------------------------------------------
(***************************************************************************)
(* The life of an item.                                                    *)
(***************************************************************************)

\* The step a start works at: the current one, else the first of the route.
StartSteps(i) == IF step[i] = NoStep THEN FirstSteps(Route) ELSE {step[i]}

\* start_unit, start_lot.  A history row is added whether or not one is open.
Start(i) ==
    /\ status[i] \in {"queued", "in_process"}
    /\ \E s \in StartSteps(i) :
        /\ openRows[i][s] < MaxOpenRows
        /\ step' = [step EXCEPT ![i] = s]
        /\ openRows' = [openRows EXCEPT ![i][s] = @ + 1]
    /\ status' = [status EXCEPT ![i] = "in_process"]
    /\ UNCHANGED <<orderVars, owner, qty, lastExit>>

\* Closes the latest open row of the current step, if there is one.
CloseRow(i) ==
    IF step[i] # NoStep /\ openRows[i][step[i]] > 0
    THEN /\ openRows' = [openRows EXCEPT ![i][step[i]] = @ - 1]
         /\ lastExit' = [lastExit EXCEPT ![i] = step[i]]
    ELSE UNCHANGED rowVars

CompleteUnitStep(u) ==
    /\ status[u] = "in_process"
    /\ CloseRow(u)
    /\ UNCHANGED <<orderVars, status, owner, step, qty>>

\* quantity_out defaults to what the scrapped pieces leave; nothing compares
\* either number with the lot's quantity.
CompleteLotStep(l, out, bad) ==
    /\ status[l] = "in_process"
    /\ scrapped[owner[l]] + bad <= MaxCount
    /\ CloseRow(l)
    /\ qty' = [qty EXCEPT ![l] = out]
    /\ scrapped' = [scrapped EXCEPT ![owner[l]] = @ + bad]
    /\ UNCHANGED <<orderStatus, orderActive, ordered, completed, status, owner, step>>

DefaultOut(l, bad) == qty[l] - bad

\* move_unit, move_lot close the open row with scalar_one_or_none over all of
\* them: a second open row raises and the item does not move.
AtMostOneOpenRow(i) == step[i] # NoStep => openRows[i][step[i]] <= 1

Movable(i) == status[i] \in {"in_process", "queued"} /\ AtMostOneOpenRow(i)

\* Mutant of MoveTo: the open row is left open.
MoveToLeavingRow(i, t) ==
    /\ Movable(i)
    /\ step' = [step EXCEPT ![i] = t]
    /\ status' = [status EXCEPT ![i] = "queued"]
    /\ UNCHANGED <<orderVars, owner, qty, rowVars>>

\* To the target step the request names, whatever the route says.
MoveTo(i, t) ==
    /\ Movable(i)
    /\ CloseRow(i)
    /\ step' = [step EXCEPT ![i] = t]
    /\ status' = [status EXCEPT ![i] = "queued"]
    /\ UNCHANGED <<orderVars, owner, qty>>

\* Mutant of Move: the end of the route leaves the item at its step.
MoveKeepingStep(i, d) ==
    /\ Movable(i)
    /\ CloseRow(i)
    /\ \E t \in NextSteps(Route, step[i], d) :
        \/ /\ t # NoStep
           /\ step' = [step EXCEPT ![i] = t]
           /\ status' = [status EXCEPT ![i] = "queued"]
           /\ UNCHANGED completed
        \/ /\ t = NoStep
           /\ status' = [status EXCEPT ![i] = "completed"]
           /\ completed' = [completed EXCEPT ![owner[i]] = @ + qty[i]]
           /\ UNCHANGED step
    /\ UNCHANGED <<orderStatus, orderActive, ordered, scrapped, owner, qty>>

\* To the step the routing engine finds; the end of the route completes it.
Move(i, d) ==
    /\ Movable(i)
    /\ CloseRow(i)
    /\ \E t \in NextSteps(Route, step[i], d) :
        /\ step' = [step EXCEPT ![i] = t]
        /\ \/ /\ t # NoStep
              /\ status' = [status EXCEPT ![i] = "queued"]
              /\ UNCHANGED completed
           \/ /\ t = NoStep
              /\ status' = [status EXCEPT ![i] = "completed"]
              /\ completed' = [completed EXCEPT ![owner[i]] = @ + qty[i]]
    /\ UNCHANGED <<orderStatus, orderActive, ordered, scrapped, owner, qty>>

Hold(i) ==
    /\ status[i] \in ItemStatuses \ (Settled \cup {"absent"})
    /\ status' = [status EXCEPT ![i] = "on_hold"]
    /\ UNCHANGED <<orderVars, owner, step, qty, rowVars>>

ReleaseHold(i) ==
    /\ status[i] = "on_hold"
    /\ status' = [status EXCEPT ![i] = "queued"]
    /\ UNCHANGED <<orderVars, owner, step, qty, rowVars>>

\* Mutant of Scrap: a completed item can be scrapped.
ScrapAny(i) ==
    /\ status[i] \notin {"absent", "finished", "scrapped"}
    /\ scrapped[owner[i]] + qty[i] <= MaxCount
    /\ status' = [status EXCEPT ![i] = "scrapped"]
    /\ CloseRow(i)
    /\ scrapped' = [scrapped EXCEPT ![owner[i]] = @ + qty[i]]
    /\ UNCHANGED <<orderStatus, orderActive, ordered, completed, owner, step, qty>>

\* scrap_unit, scrap_lot: the current step is kept.
Scrap(i) ==
    /\ status[i] \in ItemStatuses \ (Settled \cup {"absent"})
    /\ scrapped[owner[i]] + qty[i] <= MaxCount
    /\ status' = [status EXCEPT ![i] = "scrapped"]
    /\ CloseRow(i)
    /\ scrapped' = [scrapped EXCEPT ![owner[i]] = @ + qty[i]]
    /\ UNCHANGED <<orderStatus, orderActive, ordered, completed, owner, step, qty>>

\* Mutant of Transfer: a completed item is counted a second time.
TransferCountingAgain(i) ==
    /\ status[i] \in {"queued", "completed"}
    /\ lastExit[i] \in TransferSteps
    /\ owner[i] \in Discrete => qty[i] = 1
    /\ completed' = [completed EXCEPT ![owner[i]] = @ + qty[i]]
    /\ status' = [status EXCEPT ![i] = "finished"]
    /\ UNCHANGED <<orderStatus, orderActive, ordered, scrapped, owner, step, qty, rowVars>>

\* transfer_to_inventory, when the step left last has a transfer location.  A
\* discrete product is tracked by unit, so its quantity must be one.  An item
\* that has not finished its route is counted as completed here.
Transfer(i) ==
    /\ status[i] \in {"queued", "completed"}
    /\ lastExit[i] \in TransferSteps
    /\ owner[i] \in Discrete => qty[i] = 1
    /\ completed' = IF status[i] = "completed" THEN completed
                    ELSE [completed EXCEPT ![owner[i]] = @ + qty[i]]
    /\ status' = [status EXCEPT ![i] = "finished"]
    /\ UNCHANGED <<orderStatus, orderActive, ordered, scrapped, owner, step, qty, rowVars>>

-----------------------------------------------------------------------------
OrderNext(o) ==
    \/ \E q \in 1..MaxQuantity : CreateOrder(o, q) \/ UpdateOrder(o, q)
    \/ DeleteOrder(o)
    \/ ReleaseOrder(o)
    \/ CompleteOrder(o)
    \/ CloseOrder(o)
    \/ \E u \in Units : CreateUnit(u, o)
    \/ \E l \in Lots, q \in 1..MaxQuantity : CreateLot(l, o, q)
    \/ GenerateWip(o)

ItemNext(i) ==
    \/ Start(i)
    \/ \E t \in Steps : MoveTo(i, t)
    \/ \E d \in Dispositions \cup {NoDisposition} : Move(i, d)
    \/ Hold(i)
    \/ ReleaseHold(i)
    \/ Scrap(i)
    \/ Transfer(i)

LotStep(l) ==
    \/ \E bad \in 0..MaxQuantity : CompleteLotStep(l, DefaultOut(l, bad), bad)
    \/ \E out \in 1..MaxQuantity, bad \in 0..MaxQuantity : CompleteLotStep(l, out, bad)

Next ==
    \/ \E o \in Orders : OrderNext(o)
    \/ \E i \in Items : ItemNext(i)
    \/ \E u \in Units : CompleteUnitStep(u)
    \/ \E l \in Lots : LotStep(l)

Spec == Init /\ [][Next]_vars

-----------------------------------------------------------------------------
(***************************************************************************)
(* Properties.                                                             *)
(***************************************************************************)

\* An item has open history rows at its current step only: whatever mixture of
\* starts, moves, holds and jumps brought it there, no earlier step is left
\* with a row that says the item is still in it.  (Start always adds a row, and
\* the close queries look at the current step alone.)
RowsOnlyAtCurrentStep ==
    \A i \in Items, s \in Steps : openRows[i][s] > 0 => s = step[i]

\* The status and the step of an item agree, whatever way it took: one in process is at
\* a step, a completed one is at none, and one that has left a step is without a step only
\* because it went through its route, so that nothing in work, held or scrapped loses its
\* place.
StepMatchesStatus ==
    \A i \in Items :
        /\ status[i] = "in_process" => step[i] # NoStep
        /\ status[i] = "completed" => step[i] = NoStep
        /\ step[i] = NoStep /\ lastExit[i] # NoStep => status[i] \in {"completed", "finished"}

\* No item belongs to an order that was never started, though an order may be
\* closed, or deleted, under its items.
WipOnlyOnStartedOrders ==
    \A i \in Items :
        IF status[i] = "absent" THEN owner[i] = NoOrder
        ELSE owner[i] \in Orders /\ orderStatus[owner[i]] \in Started

Of(o, S) == {i \in Items : owner[i] = o /\ status[i] \in S}

Quantity(S) == MapThenSumSet(LAMBDA i : qty[i], S)

\* The counters of an order agree with its items: completed pieces were counted
\* once, whether the item left through the end of the route, through inventory,
\* or through both; scrapped pieces were counted once too, and an order without
\* lots has counted nothing else.
OrderAccounting ==
    \A o \in Orders :
        /\ completed[o] = Quantity(Of(o, {"completed", "finished"}))
        /\ Of(o, ItemStatuses) \cap Lots = {} =>
              scrapped[o] = Quantity(Of(o, {"scrapped"}))

\* A settled item is out of every operator's reach: no request changes its
\* quantity, its order, its step or its history, and the one change of status
\* left is from completed to finished, by the transfer to inventory.
StaysSettled(i) ==
    status[i] \in Settled =>
        /\ \/ status'[i] = status[i]
           \/ status[i] = "completed" /\ status'[i] = "finished"
        /\ owner'[i] = owner[i] /\ qty'[i] = qty[i] /\ step'[i] = step[i]
        /\ openRows'[i] = openRows[i]

SettledForGood == [][\A i \in Items : StaysSettled(i)]_vars

\* Refinement of WipLifecycle.
Stage == [o \in Orders |->
    CASE orderStatus[o] = "absent"      -> "absent"
      [] orderStatus[o] = "created"     -> "planned"
      [] orderStatus[o] = "released"    -> "released"
      [] orderStatus[o] = "in_progress" -> "running"
      [] OTHER                          -> "ended"]

Fate == [i \in Items |->
    CASE status[i] = "absent"                    -> "absent"
      [] status[i] \in {"completed", "finished"} -> "good"
      [] status[i] = "scrapped"                  -> "scrapped"
      [] OTHER                                   -> "live"]

Lifecycle == INSTANCE WipLifecycle WITH stage <- Stage, fate <- Fate, home <- owner

\* Every behaviour of the code, seen through the mapping, is one the life cycle
\* allows: orders never go back, items join only released or running orders,
\* and what is settled stays settled.
RefinesLifecycle == Lifecycle!Spec

\* What the comment on the close query of the moves says: any row open for the
\* current step is closed, so that a start never keeps an item from moving.
StartedItemsCanMove ==
    \A i \in Items : status[i] = "in_process" => Movable(i)
=============================================================================
