------------------------------ MODULE WipProofs ------------------------------
(***************************************************************************)
(* Proofs about Wip, for every set of orders, items and steps, every route *)
(* and every bound.                                                        *)
(***************************************************************************)
EXTENDS Wip, Sums, TLAPS

\* Every insertion of items, by an operator or by the generator.
Arrival(I, o, q) ==
    /\ I \subseteq Items /\ I # {} /\ \A i \in I : status[i] = "absent"
    /\ q \in Int
    /\ I \subseteq Units => q = 1
    /\ I \subseteq Units \/ I \subseteq Lots
    /\ Insert(I, o, q)

\* The actions, flattened: what the case distinctions below go through.
OrderStep ==
    \E o \in Orders :
        \/ \E q \in 1..MaxQuantity : CreateOrder(o, q) \/ UpdateOrder(o, q)
        \/ DeleteOrder(o)
        \/ \E t \in {"released", "completed", "closed"} : SetOrderStatus(o, t)

LotCompletion ==
    \E l \in Lots, out \in Int, bad \in Nat : CompleteLotStep(l, out, bad)

\* Every step is a step on an order, an insertion, a step on an item or the
\* completion of a lot's step.
LEMMA Decomposition ==
    ASSUME TypeOK, Next
    PROVE  \/ OrderStep
           \/ \E I \in SUBSET Items, o \in Orders, q \in Int : Arrival(I, o, q)
           \/ \E i \in Items : ItemNext(i)
           \/ \E u \in Units : CompleteUnitStep(u)
           \/ LotCompletion
<1> USE WipAssumption
<1>1. ASSUME NEW o \in Orders, OrderNext(o)
      PROVE  OrderStep \/ \E I \in SUBSET Items, q \in Int : Arrival(I, o, q)
  <2> DEFINE Arrives == \E I \in SUBSET Items, q \in Int : Arrival(I, o, q)
  <2>1. CASE \E q \in 1..MaxQuantity : CreateOrder(o, q) \/ UpdateOrder(o, q)
    BY <2>1 DEF OrderStep
  <2>2. CASE DeleteOrder(o) \/ ReleaseOrder(o) \/ CompleteOrder(o) \/ CloseOrder(o)
    BY <2>2 DEF OrderStep, ReleaseOrder, CompleteOrder, CloseOrder
  <2>3. CASE \E u \in Units : CreateUnit(u, o)
    <3>1. PICK u \in Units : CreateUnit(u, o)
      BY <2>3
    <3>2. {u} \in SUBSET Items /\ Arrival({u}, o, 1)
      BY <3>1 DEF Arrival, CreateUnit, Absent, Items
    <3> QED
      BY <3>2
  <2>4. CASE \E l \in Lots, q \in 1..MaxQuantity : CreateLot(l, o, q)
    <3>1. PICK l \in Lots, q \in 1..MaxQuantity : CreateLot(l, o, q)
      BY <2>4
    <3>2. {l} \in SUBSET Items /\ q \in Int /\ Arrival({l}, o, q)
      BY <3>1 DEF Arrival, CreateLot, Absent, Items
    <3> QED
      BY <3>2
  <2>5. CASE GenerateWip(o)
    <3>1. CASE \E U \in SUBSET Absent(Units) :
                  U # {} /\ Cardinality(U) <= ordered[o] /\ Insert(U, o, 1)
      <4>1. PICK U \in SUBSET Absent(Units) :
                  U # {} /\ Cardinality(U) <= ordered[o] /\ Insert(U, o, 1)
        BY <3>1
      <4>2. U \in SUBSET Items /\ Arrival(U, o, 1)
        BY <4>1 DEF Arrival, Absent, Items
      <4> QED
        BY <4>2
    <3>2. CASE \E l \in Absent(Lots) : Insert({l}, o, ordered[o])
      <4>1. PICK l \in Absent(Lots) : Insert({l}, o, ordered[o])
        BY <3>2
      <4>2. {l} \in SUBSET Items /\ ordered[o] \in Int
        BY DEF TypeOK, Absent, Items
      <4>3. Arrival({l}, o, ordered[o])
        BY <4>1, <4>2 DEF Arrival, Absent
      <4> QED
        BY <4>2, <4>3
    <3> QED
      BY <2>5, <3>1, <3>2 DEF GenerateWip
  <2> QED
    BY <1>1, <2>1, <2>2, <2>3, <2>4, <2>5 DEF OrderNext
<1>2. ASSUME NEW l \in Lots, LotStep(l)
      PROVE  LotCompletion
  <2>1. l \in Items /\ qty[l] \in Int
    BY DEF TypeOK, Items
  <2>2. \A bad \in 0..MaxQuantity : bad \in Nat /\ DefaultOut(l, bad) \in Int
    BY <2>1 DEF DefaultOut
  <2> QED
    BY <1>2, <2>2 DEF LotStep, LotCompletion
<1> QED
  BY <1>1, <1>2 DEF Next

-----------------------------------------------------------------------------
(***************************************************************************)
(* The inductive invariant.  The counters follow the items only because an *)
(* item belongs to the order that was started for it, and only because it  *)
(* is counted when it enters the settled states, keeps its quantity from   *)
(* then on, and is never counted again.                                    *)
(***************************************************************************)
IInv ==
    /\ TypeOK
    /\ RowsOnlyAtCurrentStep
    /\ StepMatchesStatus
    /\ WipOnlyOnStartedOrders
    /\ OrderAccounting

Good == {"completed", "finished"}
Bad  == {"scrapped"}

\* An order none of whose items is a lot.
WithoutLots(o) == Of(o, ItemStatuses) \cap Lots = {}

\* The quantities add up as module Sums says.
LEMMA QuantityIsSum == ASSUME NEW S PROVE Quantity(S) = SumOver(qty, S)
BY DEF Quantity, SumOver, MapThenSumSet, MapThenFoldSet

\* See QuantityIsSum, after a step.
LEMMA QuantityIsSumAfter ==
    ASSUME NEW o \in Orders, NEW S
    PROVE  Quantity(Of(o, S))' = SumOver(qty', Of(o, S)')
BY DEF Quantity, SumOver, MapThenSumSet, MapThenFoldSet

\* The items of an order are finitely many.
LEMMA FiniteOf == ASSUME NEW o, NEW S PROVE IsFiniteSet(Of(o, S))
<1>1. IsFiniteSet(Items)
  BY FS_Union, WipAssumption DEF Items
<1>2. Of(o, S) \in SUBSET Items
  BY DEF Of
<1> QED
  BY <1>1, <1>2, FS_Subset

\* What a set of the items of an order amounts to stays when neither the items
\* in it nor their quantities change.
LEMMA SameQuantity ==
    ASSUME NEW o \in Orders, NEW S, Of(o, S)' = Of(o, S),
           \A j \in Of(o, S) : qty'[j] = qty[j]
    PROVE  Quantity(Of(o, S))' = Quantity(Of(o, S))
BY FiniteOf, SumsSame, QuantityIsSum, QuantityIsSumAfter

\* A step that settles nobody, leaves the settled items alone and the counters
\* of the orders without lots too keeps the accounts.
LEMMA AccountsKept ==
    ASSUME OrderAccounting,
           \A j \in Items : (status'[j] \in Good <=> status[j] \in Good)
                            /\ (status'[j] \in Bad <=> status[j] \in Bad)
                            /\ (status[j] \in Settled => owner'[j] = owner[j] /\ qty'[j] = qty[j]),
           completed' = completed,
           \A o \in Orders : WithoutLots(o)' => WithoutLots(o) /\ scrapped'[o] = scrapped[o]
    PROVE  OrderAccounting'
<1> SUFFICES ASSUME NEW o \in Orders
             PROVE  /\ completed'[o] = Quantity(Of(o, Good))'
                    /\ WithoutLots(o)' => scrapped'[o] = Quantity(Of(o, Bad))'
  BY DEF OrderAccounting, WithoutLots, Good, Bad
<1>1. Of(o, Good)' = Of(o, Good) /\ Of(o, Bad)' = Of(o, Bad)
  BY DEF Of, Good, Bad, Settled
<1>2. \A j \in Of(o, Good) \cup Of(o, Bad) : qty'[j] = qty[j]
  BY DEF Of, Good, Bad, Settled
<1>3. Quantity(Of(o, Good))' = Quantity(Of(o, Good)) /\ Quantity(Of(o, Bad))' = Quantity(Of(o, Bad))
  BY <1>1, <1>2, SameQuantity
<1>4. /\ completed[o] = Quantity(Of(o, Good))
      /\ WithoutLots(o) => scrapped[o] = Quantity(Of(o, Bad))
  BY DEF OrderAccounting, WithoutLots, Good, Bad
<1> QED
  BY <1>3, <1>4

\* Settling one item of an order adds what it holds to the items settled that way.
LEMMA OneMore ==
    ASSUME NEW o \in Orders, NEW S, NEW i \in Items, NEW t \in S,
           TypeOK, owner[i] = o, status[i] \notin S,
           UNCHANGED <<owner, qty>>, status' = [status EXCEPT ![i] = t]
    PROVE  Quantity(Of(o, S))' = Quantity(Of(o, S)) + qty[i] /\ Quantity(Of(o, S)) \in Int
<1> DEFINE T == Of(o, S) \cup {i}
<1>1. Of(o, S)' = T
  BY DEF Of, TypeOK
<1>2. T \ {i} = Of(o, S)
  BY DEF Of
<1>3. /\ IsFiniteSet(Of(o, S)) /\ IsFiniteSet(T)
      /\ i \in T /\ Of(o, S) \subseteq T
  BY FiniteOf, FS_AddElement
<1>4. \A j \in T : qty[j] \in Int
  BY DEF Of, TypeOK
<1> HIDE DEF T
<1>5. SumOver(qty, T) = qty[i] + SumOver(qty, T \ {i})
  BY <1>3, <1>4, SumTakesAway
<1>6. SumOver(qty, Of(o, S)) \in Int /\ qty[i] \in Int
  BY <1>3, <1>4, SumIsInt
<1>7. Quantity(Of(o, S))' = SumOver(qty, T) /\ Quantity(Of(o, S)) = SumOver(qty, Of(o, S))
  BY <1>1, QuantityIsSum, QuantityIsSumAfter
<1>8. SumOver(qty, T) = qty[i] + Quantity(Of(o, S))
  BY <1>2, <1>5, <1>7
<1>9. SumOver(qty, T) = Quantity(Of(o, S)) + qty[i] /\ Quantity(Of(o, S)) \in Int
  BY <1>6, <1>7, <1>8
<1> QED
  BY <1>7, <1>9

\* ... and leaves the other items of other orders, and other fates, alone.
LEMMA OthersKept ==
    ASSUME NEW o \in Orders, NEW S, NEW i \in Items, NEW t,
           TypeOK, owner[i] # o \/ (status[i] \in S <=> t \in S),
           UNCHANGED <<owner, qty>>, status' = [status EXCEPT ![i] = t]
    PROVE  Quantity(Of(o, S))' = Quantity(Of(o, S))
<1>1. Of(o, S)' = Of(o, S)
  BY DEF Of, TypeOK
<1> QED
  BY <1>1, SameQuantity

\* The rows after a close: one fewer at the current step, none if there was
\* at most one.
LEMMA AfterClose ==
    ASSUME TypeOK, RowsOnlyAtCurrentStep, NEW i \in Items, CloseRow(i)
    PROVE  /\ openRows' \in [Items -> [Steps -> Nat]]
           /\ lastExit' \in [Items -> Steps \cup {NoStep}]
           /\ \A j \in Items, s \in Steps : openRows'[j][s] > 0 => openRows[j][s] > 0
           /\ AtMostOneOpenRow(i) => \A s \in Steps : openRows'[i][s] = 0
           /\ \A j \in Items : j # i => openRows'[j] = openRows[j]
           /\ \A j \in Items : lastExit'[j] # NoStep => lastExit[j] # NoStep \/ (j = i /\ step[i] # NoStep)
<1> USE RoutingAssumption
<1>1. CASE step[i] # NoStep /\ openRows[i][step[i]] > 0
  <2>1. step[i] \in Steps
    BY <1>1 DEF TypeOK
  <2>2. /\ openRows' = [openRows EXCEPT ![i][step[i]] = @ - 1]
        /\ lastExit' = [lastExit EXCEPT ![i] = step[i]]
    BY <1>1 DEF CloseRow
  <2> DEFINE row == [openRows[i] EXCEPT ![step[i]] = @ - 1]
  <2>3. openRows \in [Items -> [Steps -> Nat]]
    BY DEF TypeOK
  <2>4. /\ openRows' = [openRows EXCEPT ![i] = row]
        /\ row \in [Steps -> Nat]
        /\ \A s \in Steps : row[s] = IF s = step[i] THEN openRows[i][s] - 1
                                     ELSE openRows[i][s]
    <3>1. openRows' = [openRows EXCEPT ![i] = row]
      BY <2>2
    <3>2. openRows[i] \in [Steps -> Nat] /\ openRows[i][step[i]] > 0
      BY <1>1, <2>3
    <3>3. row \in [Steps -> Nat]
      BY <2>1, <3>2
    <3>4. \A s \in Steps : row[s] = IF s = step[i] THEN openRows[i][s] - 1
                                    ELSE openRows[i][s]
      BY <2>1, <3>2
    <3> QED
      BY <3>1, <3>3, <3>4
  <2> HIDE DEF row
  <2>5. openRows' \in [Items -> [Steps -> Nat]]
    BY <2>3, <2>4
  <2>6. lastExit' \in [Items -> Steps \cup {NoStep}]
    BY <2>1, <2>2 DEF TypeOK
  <2>7. \A j \in Items, s \in Steps : openRows'[j][s] > 0 => openRows[j][s] > 0
    BY <2>3, <2>4
  <2>8. AtMostOneOpenRow(i) => \A s \in Steps : openRows'[i][s] = 0
    BY <1>1, <2>3, <2>4 DEF RowsOnlyAtCurrentStep, AtMostOneOpenRow
  <2>9. \A j \in Items : j # i => openRows'[j] = openRows[j]
    BY <2>3, <2>4
  <2>10. \A j \in Items : lastExit'[j] # NoStep => lastExit[j] # NoStep \/ (j = i /\ step[i] # NoStep)
    BY <1>1, <2>2 DEF TypeOK
  <2> QED
    BY <2>5, <2>6, <2>7, <2>8, <2>9, <2>10
<1>2. CASE ~(step[i] # NoStep /\ openRows[i][step[i]] > 0)
  <2>1. openRows' = openRows /\ lastExit' = lastExit
    BY <1>2 DEF CloseRow, rowVars
  <2>2. \A s \in Steps : openRows[i][s] = 0
    BY <1>2 DEF TypeOK, RowsOnlyAtCurrentStep
  <2> QED
    BY <2>1, <2>2 DEF TypeOK
<1> QED
  BY <1>1, <1>2

-----------------------------------------------------------------------------
(***************************************************************************)
(* Each action preserves the invariant.                                    *)
(***************************************************************************)

LEMMA InitInv == Init => IInv
<1> SUFFICES ASSUME Init PROVE IInv
  OBVIOUS
<1> USE DEF Init
<1>1. TypeOK
  BY DEF TypeOK, OrderStatuses, ItemStatuses
<1>2. RowsOnlyAtCurrentStep /\ StepMatchesStatus /\ WipOnlyOnStartedOrders
  BY DEF RowsOnlyAtCurrentStep, StepMatchesStatus, WipOnlyOnStartedOrders
<1>3. \A o \in Orders : Of(o, Good) = {} /\ Of(o, Bad) = {}
  BY DEF Of, Good, Bad
<1>4. Quantity({}) = 0
  BY QuantityIsSum, SumUnfolds, FS_EmptySet
<1>5. OrderAccounting
  BY <1>3, <1>4 DEF OrderAccounting, Good, Bad
<1> QED
  BY <1>1, <1>2, <1>5 DEF IInv

\* A request about an order: no item changes, and an order that was started
\* stays so.
LEMMA OrderStepInv == ASSUME IInv, OrderStep PROVE IInv'
<1>1. /\ UNCHANGED <<itemVars, completed, scrapped>>
      /\ \A o \in Orders : orderStatus[o] \in Started => orderStatus'[o] \in Started
      /\ TypeOK'
  <2>1. PICK o \in Orders :
            \/ \E q \in 1..MaxQuantity : CreateOrder(o, q) \/ UpdateOrder(o, q)
            \/ DeleteOrder(o)
            \/ \E t \in {"released", "completed", "closed"} : SetOrderStatus(o, t)
    BY DEF OrderStep
  <2>2. CASE \E q \in 1..MaxQuantity : CreateOrder(o, q) \/ UpdateOrder(o, q)
    BY <2>2 DEF CreateOrder, UpdateOrder, itemVars, Started, IInv, TypeOK, OrderStatuses
  <2>3. CASE DeleteOrder(o)
    BY <2>3 DEF DeleteOrder, itemVars, Started, IInv, TypeOK
  <2>4. CASE \E t \in {"released", "completed", "closed"} : SetOrderStatus(o, t)
    BY <2>4 DEF SetOrderStatus, Allowed, itemVars, Started, IInv, TypeOK, OrderStatuses
  <2> QED
    BY <2>1, <2>2, <2>3, <2>4
<1>2. /\ RowsOnlyAtCurrentStep' /\ StepMatchesStatus'
      /\ WipOnlyOnStartedOrders'
  BY <1>1 DEF IInv, itemVars, RowsOnlyAtCurrentStep, StepMatchesStatus,
              WipOnlyOnStartedOrders, TypeOK
<1>3. OrderAccounting'
  BY <1>1, AccountsKept DEF IInv, itemVars, WithoutLots, Of
<1> QED
  BY <1>1, <1>2, <1>3 DEF IInv

\* Items join an order, which is in progress from then on.
LEMMA ArrivalInv ==
    ASSUME IInv, NEW I \in SUBSET Items, NEW o \in Orders, NEW q \in Int, Arrival(I, o, q)
    PROVE  IInv'
<1>1. /\ orderStatus' = [orderStatus EXCEPT ![o] = "in_progress"]
      /\ status' = [i \in Items |-> IF i \in I THEN "queued" ELSE status[i]]
      /\ owner' = [i \in Items |-> IF i \in I THEN o ELSE owner[i]]
      /\ qty' = [i \in Items |-> IF i \in I THEN q ELSE qty[i]]
      /\ UNCHANGED <<orderActive, ordered, completed, scrapped, step, openRows, lastExit>>
      /\ \A i \in I : status[i] = "absent" /\ owner[i] = NoOrder
  BY DEF Arrival, Insert, IInv, WipOnlyOnStartedOrders
<1>2. TypeOK'
  BY <1>1 DEF IInv, TypeOK, OrderStatuses, ItemStatuses
<1>3. RowsOnlyAtCurrentStep' /\ StepMatchesStatus'
  BY <1>1 DEF IInv, RowsOnlyAtCurrentStep, StepMatchesStatus
<1>4. WipOnlyOnStartedOrders'
  BY <1>1 DEF IInv, TypeOK, WipOnlyOnStartedOrders, Started
<1>5. OrderAccounting'
  <2>1. \A j \in Items : /\ status'[j] \in Good <=> status[j] \in Good
                         /\ status'[j] \in Bad <=> status[j] \in Bad
                         /\ status[j] \in Settled => owner'[j] = owner[j] /\ qty'[j] = qty[j]
    BY <1>1 DEF Good, Bad, Settled
  <2>2. \A p \in Orders : WithoutLots(p)' => WithoutLots(p)
    <3>1. \A p \in Orders, j \in Items : owner[j] = p => owner'[j] = p
      BY <1>1, WipAssumption
    <3> QED
      BY <1>2, <3>1 DEF WithoutLots, Of, IInv, TypeOK
  <2> QED
    BY <1>1, <2>1, <2>2, AccountsKept DEF IInv
<1> QED
  BY <1>2, <1>3, <1>4, <1>5 DEF IInv

\* What most steps on an item have in common: they settle nobody and count
\* nothing an order without lots would see.
LEMMA QuietStep ==
    ASSUME IInv, NEW i \in Items, NEW t \in ItemStatuses \ (Settled \cup {"absent"}),
           status[i] \notin Settled \cup {"absent"},
           status' = [status EXCEPT ![i] = t],
           UNCHANGED <<orderStatus, completed, owner>>,
           \A j \in Items : j # i => qty'[j] = qty[j],
           \A o \in Orders : WithoutLots(o) => scrapped'[o] = scrapped[o]
    PROVE  WipOnlyOnStartedOrders' /\ OrderAccounting'
<1>1. \A j \in Items : status'[j] = IF j = i THEN t ELSE status[j]
  BY DEF IInv, TypeOK
<1>2. WipOnlyOnStartedOrders'
  BY <1>1 DEF IInv, WipOnlyOnStartedOrders
<1>3. OrderAccounting'
  <2>1. \A j \in Items : /\ status'[j] \in Good <=> status[j] \in Good
                         /\ status'[j] \in Bad <=> status[j] \in Bad
                         /\ status[j] \in Settled => owner'[j] = owner[j] /\ qty'[j] = qty[j]
    BY <1>1 DEF Good, Bad, Settled
  <2>2. \A o \in Orders : WithoutLots(o)' => WithoutLots(o)
    BY <1>1 DEF WithoutLots, Of, IInv, TypeOK
  <2> QED
    BY <2>1, <2>2, AccountsKept DEF IInv
<1> QED
  BY <1>2, <1>3

\* The routing engine answers with steps of the route.
LEMMA NavigationTyped ==
    ASSUME NEW s, NEW d
    PROVE  FirstSteps(Route) \subseteq Steps /\ NextSteps(Route, s, d) \subseteq Steps \cup {NoStep}
<1>1. Route.steps \subseteq Steps
  BY WipAssumption DEF Routes
<1>2. FirstSteps(Route) \subseteq Steps
  BY <1>1 DEF FirstSteps, Lowest, EntryCandidates, Flagged, Unfed
<1> QED
  BY <1>1, <1>2 DEF NextSteps

LEMMA StartInv == ASSUME IInv, NEW i \in Items, Start(i) PROVE IInv'
<1>1. PICK s \in Steps :
          /\ s \in StartSteps(i)
          /\ step' = [step EXCEPT ![i] = s]
          /\ openRows' = [openRows EXCEPT ![i][s] = @ + 1]
  BY NavigationTyped DEF Start, StartSteps, IInv, TypeOK
<1>2. /\ status[i] \in {"queued", "in_process"}
      /\ status' = [status EXCEPT ![i] = "in_process"]
      /\ UNCHANGED <<orderVars, owner, qty, lastExit>>
  BY DEF Start
<1>3. TypeOK'
  BY <1>1, <1>2 DEF IInv, TypeOK, ItemStatuses, orderVars
<1>4. \A j \in Items, r \in Steps :
          openRows'[j][r] = IF j = i /\ r = s THEN openRows[i][s] + 1 ELSE openRows[j][r]
  BY <1>1 DEF IInv, TypeOK
<1>5. \A j \in Items : step'[j] = IF j = i THEN s ELSE step[j]
  BY <1>1 DEF IInv, TypeOK
<1>6. step[i] # NoStep => s = step[i]
  BY <1>1 DEF StartSteps
<1>7. RowsOnlyAtCurrentStep'
  BY <1>4, <1>5, <1>6, RoutingAssumption DEF IInv, RowsOnlyAtCurrentStep
<1>8. StepMatchesStatus'
  BY <1>2, <1>5, RoutingAssumption DEF IInv, TypeOK, StepMatchesStatus
<1>9. WipOnlyOnStartedOrders' /\ OrderAccounting'
  BY <1>2, QuietStep DEF orderVars, Settled, ItemStatuses
<1> QED
  BY <1>3, <1>7, <1>8, <1>9 DEF IInv

LEMMA MoveToInv ==
    ASSUME IInv, NEW i \in Items, NEW t \in Steps, MoveTo(i, t) PROVE IInv'
<1>1. /\ status[i] \in {"in_process", "queued"} /\ AtMostOneOpenRow(i) /\ CloseRow(i)
      /\ step' = [step EXCEPT ![i] = t]
      /\ status' = [status EXCEPT ![i] = "queued"]
      /\ UNCHANGED <<orderVars, owner, qty>>
  BY DEF MoveTo, Movable
<1>2. /\ openRows' \in [Items -> [Steps -> Nat]] /\ lastExit' \in [Items -> Steps \cup {NoStep}]
      /\ \A j \in Items, r \in Steps : openRows'[j][r] > 0 => openRows[j][r] > 0
      /\ \A r \in Steps : openRows'[i][r] = 0
      /\ \A j \in Items : lastExit'[j] # NoStep => lastExit[j] # NoStep \/ (j = i /\ step[i] # NoStep)
  BY <1>1, AfterClose DEF IInv
<1>3. TypeOK'
  BY <1>1, <1>2 DEF IInv, TypeOK, ItemStatuses, orderVars
<1>4. RowsOnlyAtCurrentStep'
  BY <1>1, <1>2 DEF IInv, TypeOK, RowsOnlyAtCurrentStep
<1>5. StepMatchesStatus'
  BY <1>1, <1>2, RoutingAssumption DEF IInv, TypeOK, StepMatchesStatus
<1>6. WipOnlyOnStartedOrders' /\ OrderAccounting'
  BY <1>1, QuietStep DEF orderVars, Settled, ItemStatuses
<1> QED
  BY <1>3, <1>4, <1>5, <1>6 DEF IInv

LEMMA HoldInv ==
    ASSUME IInv, NEW i \in Items, Hold(i) \/ ReleaseHold(i) PROVE IInv'
<1>1. PICK t \in {"on_hold", "queued"} :
          /\ status[i] \in ItemStatuses \ (Settled \cup {"absent"})
          /\ status' = [status EXCEPT ![i] = t]
          /\ UNCHANGED <<orderVars, owner, step, qty, rowVars>>
  BY DEF Hold, ReleaseHold, Settled, ItemStatuses
<1>2. TypeOK'
  BY <1>1 DEF IInv, TypeOK, ItemStatuses, orderVars, rowVars
<1>3. RowsOnlyAtCurrentStep' /\ StepMatchesStatus'
  BY <1>1 DEF IInv, TypeOK, RowsOnlyAtCurrentStep, StepMatchesStatus, rowVars, Settled
<1>4. WipOnlyOnStartedOrders' /\ OrderAccounting'
  BY <1>1, QuietStep DEF orderVars, Settled, ItemStatuses
<1> QED
  BY <1>2, <1>3, <1>4 DEF IInv

LEMMA CompleteUnitStepInv ==
    ASSUME IInv, NEW u \in Units, CompleteUnitStep(u) PROVE IInv'
<1>1. /\ status[u] = "in_process" /\ CloseRow(u) /\ u \in Items
      /\ UNCHANGED <<orderVars, status, owner, step, qty>>
  BY DEF CompleteUnitStep, Items
<1>2. /\ openRows' \in [Items -> [Steps -> Nat]] /\ lastExit' \in [Items -> Steps \cup {NoStep}]
      /\ \A j \in Items, r \in Steps : openRows'[j][r] > 0 => openRows[j][r] > 0
      /\ \A j \in Items : lastExit'[j] # NoStep => lastExit[j] # NoStep \/ (j = u /\ step[u] # NoStep)
  BY <1>1, AfterClose DEF IInv
<1>3. TypeOK'
  BY <1>1, <1>2 DEF IInv, TypeOK, orderVars
<1>4. RowsOnlyAtCurrentStep' /\ StepMatchesStatus'
  BY <1>1, <1>2 DEF IInv, RowsOnlyAtCurrentStep, StepMatchesStatus
<1>5. WipOnlyOnStartedOrders'
  BY <1>1 DEF IInv, WipOnlyOnStartedOrders, orderVars
<1>6. OrderAccounting'
  BY <1>1, AccountsKept DEF IInv, WithoutLots, Of, orderVars
<1> QED
  BY <1>3, <1>4, <1>5, <1>6 DEF IInv

LEMMA CompleteLotStepInv ==
    ASSUME IInv, NEW l \in Lots, NEW out \in Int, NEW bad \in Nat, CompleteLotStep(l, out, bad)
    PROVE  IInv'
<1>1. /\ status[l] = "in_process" /\ CloseRow(l) /\ l \in Items /\ l \notin Units
      /\ qty' = [qty EXCEPT ![l] = out]
      /\ scrapped' = [scrapped EXCEPT ![owner[l]] = @ + bad]
      /\ UNCHANGED <<orderStatus, orderActive, ordered, completed, status, owner, step>>
  BY WipAssumption DEF CompleteLotStep, Items
<1>2. /\ openRows' \in [Items -> [Steps -> Nat]] /\ lastExit' \in [Items -> Steps \cup {NoStep}]
      /\ \A j \in Items, r \in Steps : openRows'[j][r] > 0 => openRows[j][r] > 0
      /\ \A j \in Items : lastExit'[j] # NoStep => lastExit[j] # NoStep \/ (j = l /\ step[l] # NoStep)
  BY <1>1, AfterClose DEF IInv
<1>3. owner[l] \in Orders
  BY <1>1 DEF IInv, WipOnlyOnStartedOrders
<1>4. TypeOK'
  <2>1. scrapped[owner[l]] + bad \in Int
    BY <1>3 DEF IInv, TypeOK
  <2>2. scrapped' \in [Orders -> Int] /\ qty' \in [Items -> Int]
    BY <1>1, <2>1 DEF IInv, TypeOK
  <2> QED
    BY <1>1, <1>2, <2>2 DEF IInv, TypeOK
<1>5. RowsOnlyAtCurrentStep' /\ StepMatchesStatus'
  BY <1>1, <1>2 DEF IInv, RowsOnlyAtCurrentStep, StepMatchesStatus
<1>6. \A o \in Orders : WithoutLots(o) => scrapped'[o] = scrapped[o]
  BY <1>1, <1>3 DEF IInv, TypeOK, WithoutLots, Of
<1>7. status' = [status EXCEPT ![l] = "in_process"] /\ \A j \in Items : j # l => qty'[j] = qty[j]
  BY <1>1 DEF IInv, TypeOK
<1>8. WipOnlyOnStartedOrders' /\ OrderAccounting'
  BY <1>1, <1>6, <1>7, QuietStep DEF Settled, ItemStatuses
<1> QED
  BY <1>4, <1>5, <1>8 DEF IInv

\* Settling an item counts it, once, in the counter its fate belongs to.
LEMMA SettleStep ==
    ASSUME IInv, NEW i \in Items, NEW t \in Settled,
           status[i] \notin Settled \cup {"absent"},
           status' = [status EXCEPT ![i] = t],
           UNCHANGED <<orderStatus, owner, qty>>,
           completed' = IF t \in Good THEN [completed EXCEPT ![owner[i]] = @ + qty[i]]
                        ELSE completed,
           scrapped' = IF t \in Bad THEN [scrapped EXCEPT ![owner[i]] = @ + qty[i]]
                       ELSE scrapped
    PROVE  WipOnlyOnStartedOrders' /\ OrderAccounting'
<1>1. \A j \in Items : status'[j] = IF j = i THEN t ELSE status[j]
  BY DEF IInv, TypeOK
<1>2. owner[i] \in Orders
  BY DEF IInv, WipOnlyOnStartedOrders
<1>3. WipOnlyOnStartedOrders'
  BY <1>1 DEF IInv, WipOnlyOnStartedOrders, Settled
<1>4. qty[i] \in Int /\ \A o \in Orders : completed[o] \in Int /\ scrapped[o] \in Int
  BY DEF IInv, TypeOK
<1>5. ASSUME NEW o \in Orders
      PROVE  /\ completed'[o] = Quantity(Of(o, Good))'
             /\ WithoutLots(o)' => scrapped'[o] = Quantity(Of(o, Bad))'
  <2>1. /\ completed[o] = Quantity(Of(o, Good))
        /\ WithoutLots(o) => scrapped[o] = Quantity(Of(o, Bad))
    BY DEF OrderAccounting, WithoutLots, IInv, Good, Bad
  <2>2. WithoutLots(o)' => WithoutLots(o)
    BY <1>1 DEF WithoutLots, Of, IInv, TypeOK, Settled, ItemStatuses
  <2>3. CASE owner[i] # o
    <3>1. completed'[o] = completed[o] /\ scrapped'[o] = scrapped[o]
      BY <1>2, <2>3 DEF IInv, TypeOK
    <3>2. /\ Quantity(Of(o, Good))' = Quantity(Of(o, Good))
          /\ Quantity(Of(o, Bad))' = Quantity(Of(o, Bad))
      BY <2>3, OthersKept DEF IInv
    <3> QED
      BY <2>1, <2>2, <3>1, <3>2
  <2>4. CASE owner[i] = o /\ t \in Good
    <3>1. t \notin Bad /\ status[i] \notin Good /\ status[i] \notin Bad
      BY <2>4 DEF Good, Bad, Settled
    <3>2. completed'[o] = completed[o] + qty[i] /\ scrapped'[o] = scrapped[o]
      BY <1>4, <2>4, <3>1 DEF IInv, TypeOK
    <3>3. Quantity(Of(o, Good))' = Quantity(Of(o, Good)) + qty[i]
      BY <2>4, <3>1, OneMore DEF IInv
    <3>4. Quantity(Of(o, Bad))' = Quantity(Of(o, Bad))
      BY <3>1, OthersKept DEF IInv
    <3> QED
      BY <2>1, <2>2, <3>2, <3>3, <3>4
  <2>5. CASE owner[i] = o /\ t \in Bad
    <3>1. t \notin Good /\ status[i] \notin Good /\ status[i] \notin Bad
      BY <2>5 DEF Good, Bad, Settled
    <3>2. completed'[o] = completed[o] /\ scrapped'[o] = scrapped[o] + qty[i]
      BY <1>4, <2>5, <3>1 DEF IInv, TypeOK
    <3>3. Quantity(Of(o, Bad))' = Quantity(Of(o, Bad)) + qty[i]
      BY <2>5, <3>1, OneMore DEF IInv
    <3>4. Quantity(Of(o, Good))' = Quantity(Of(o, Good))
      BY <3>1, OthersKept DEF IInv
    <3> QED
      BY <2>1, <2>2, <3>2, <3>3, <3>4
  <2> QED
    BY <2>3, <2>4, <2>5 DEF Settled, Good, Bad
<1>6. OrderAccounting'
  BY <1>5 DEF OrderAccounting, WithoutLots, Good, Bad
<1> QED
  BY <1>3, <1>6

LEMMA MoveInv ==
    ASSUME IInv, NEW i \in Items, NEW d \in Dispositions \cup {NoDisposition}, Move(i, d)
    PROVE  IInv'
<1>1. /\ status[i] \in {"in_process", "queued"} /\ AtMostOneOpenRow(i) /\ CloseRow(i)
      /\ UNCHANGED <<orderStatus, orderActive, ordered, scrapped, owner, qty>>
  BY DEF Move, Movable
<1>2. PICK t \in Steps \cup {NoStep} :
          /\ step' = [step EXCEPT ![i] = t]
          /\ \/ /\ t # NoStep
                /\ status' = [status EXCEPT ![i] = "queued"]
                /\ UNCHANGED completed
             \/ /\ t = NoStep
                /\ status' = [status EXCEPT ![i] = "completed"]
                /\ completed' = [completed EXCEPT ![owner[i]] = @ + qty[i]]
  BY NavigationTyped DEF Move
<1>3. /\ openRows' \in [Items -> [Steps -> Nat]] /\ lastExit' \in [Items -> Steps \cup {NoStep}]
      /\ \A j \in Items, r \in Steps : openRows'[j][r] > 0 => openRows[j][r] > 0
      /\ \A r \in Steps : openRows'[i][r] = 0
      /\ \A j \in Items : lastExit'[j] # NoStep => lastExit[j] # NoStep \/ (j = i /\ step[i] # NoStep)
  BY <1>1, AfterClose DEF IInv
<1>4. owner[i] \in Orders
  BY <1>1 DEF IInv, WipOnlyOnStartedOrders
<1>5. TypeOK'
  <2>1. completed[owner[i]] + qty[i] \in Int
    BY <1>4 DEF IInv, TypeOK
  <2>2. completed' \in [Orders -> Int]
    BY <1>2, <2>1 DEF IInv, TypeOK
  <2>3. step' \in [Items -> Steps \cup {NoStep}] /\ status' \in [Items -> ItemStatuses]
    BY <1>2 DEF IInv, TypeOK, ItemStatuses
  <2> QED
    BY <1>1, <1>3, <2>2, <2>3 DEF IInv, TypeOK
<1>6. RowsOnlyAtCurrentStep'
  BY <1>1, <1>2, <1>3 DEF IInv, TypeOK, RowsOnlyAtCurrentStep
<1>7. StepMatchesStatus'
  BY <1>1, <1>2, <1>3 DEF IInv, TypeOK, StepMatchesStatus
<1>8. WipOnlyOnStartedOrders' /\ OrderAccounting'
  <2>1. CASE t # NoStep
    BY <1>1, <1>2, <2>1, QuietStep DEF Settled, ItemStatuses, Items
  <2>2. CASE t = NoStep
    BY <1>1, <1>2, <2>2, SettleStep DEF Settled, Good, Bad
  <2> QED
    BY <2>1, <2>2
<1> QED
  BY <1>5, <1>6, <1>7, <1>8 DEF IInv

LEMMA ScrapInv == ASSUME IInv, NEW i \in Items, Scrap(i) PROVE IInv'
<1>1. /\ status[i] \in ItemStatuses \ (Settled \cup {"absent"}) /\ CloseRow(i)
      /\ status' = [status EXCEPT ![i] = "scrapped"]
      /\ scrapped' = [scrapped EXCEPT ![owner[i]] = @ + qty[i]]
      /\ UNCHANGED <<orderStatus, orderActive, ordered, completed, owner, step, qty>>
  BY DEF Scrap
<1>2. /\ openRows' \in [Items -> [Steps -> Nat]] /\ lastExit' \in [Items -> Steps \cup {NoStep}]
      /\ \A j \in Items, r \in Steps : openRows'[j][r] > 0 => openRows[j][r] > 0
      /\ \A j \in Items : lastExit'[j] # NoStep => lastExit[j] # NoStep \/ (j = i /\ step[i] # NoStep)
  BY <1>1, AfterClose DEF IInv
<1>3. owner[i] \in Orders
  BY <1>1 DEF IInv, WipOnlyOnStartedOrders
<1>4. TypeOK'
  <2>1. scrapped[owner[i]] + qty[i] \in Int
    BY <1>3 DEF IInv, TypeOK
  <2>2. scrapped' \in [Orders -> Int] /\ status' \in [Items -> ItemStatuses]
    BY <1>1, <2>1 DEF IInv, TypeOK, ItemStatuses
  <2> QED
    BY <1>1, <1>2, <2>2 DEF IInv, TypeOK
<1>5. RowsOnlyAtCurrentStep' /\ StepMatchesStatus'
  BY <1>1, <1>2 DEF IInv, TypeOK, RowsOnlyAtCurrentStep, StepMatchesStatus, Settled
<1>6. WipOnlyOnStartedOrders' /\ OrderAccounting'
  BY <1>1, SettleStep DEF Settled, Good, Bad
<1> QED
  BY <1>4, <1>5, <1>6 DEF IInv

LEMMA TransferInv == ASSUME IInv, NEW i \in Items, Transfer(i) PROVE IInv'
<1>1. /\ status[i] \in {"queued", "completed"}
      /\ completed' = IF status[i] = "completed" THEN completed
                      ELSE [completed EXCEPT ![owner[i]] = @ + qty[i]]
      /\ status' = [status EXCEPT ![i] = "finished"]
      /\ UNCHANGED <<orderStatus, orderActive, ordered, scrapped, owner, step, qty, rowVars>>
  BY DEF Transfer
<1>2. owner[i] \in Orders
  BY <1>1 DEF IInv, WipOnlyOnStartedOrders
<1>3. TypeOK'
  BY <1>1, <1>2 DEF IInv, TypeOK, ItemStatuses, rowVars
<1>4. RowsOnlyAtCurrentStep' /\ StepMatchesStatus'
  BY <1>1 DEF IInv, TypeOK, RowsOnlyAtCurrentStep, StepMatchesStatus, rowVars
<1>5. WipOnlyOnStartedOrders' /\ OrderAccounting'
  <2>1. CASE status[i] = "queued"
    BY <1>1, <2>1, SettleStep DEF Settled, Good, Bad
  <2>2. CASE status[i] = "completed"
    <3>1. \A j \in Items : status'[j] = IF j = i THEN "finished" ELSE status[j]
      BY <1>1 DEF IInv, TypeOK
    <3>2. WipOnlyOnStartedOrders'
      BY <1>1, <2>2, <3>1 DEF IInv, WipOnlyOnStartedOrders
    <3>3. \A j \in Items : /\ status'[j] \in Good <=> status[j] \in Good
                           /\ status'[j] \in Bad <=> status[j] \in Bad
                           /\ status[j] \in Settled => owner'[j] = owner[j] /\ qty'[j] = qty[j]
      BY <1>1, <2>2, <3>1 DEF Good, Bad, Settled
    <3>4. \A o \in Orders : WithoutLots(o)' => WithoutLots(o)
      BY <1>1, <3>1 DEF WithoutLots, Of, IInv, TypeOK, ItemStatuses
    <3>5. OrderAccounting'
      BY <1>1, <2>2, <3>3, <3>4, AccountsKept DEF IInv
    <3> QED
      BY <3>2, <3>5
  <2> QED
    BY <1>1, <2>1, <2>2
<1> QED
  BY <1>3, <1>4, <1>5 DEF IInv

LEMMA ItemInv == ASSUME IInv, NEW i \in Items, ItemNext(i) PROVE IInv'
<1>1. CASE \E t \in Steps : MoveTo(i, t)
  <2>1. PICK t \in Steps : MoveTo(i, t)
    BY <1>1
  <2> QED
    BY <2>1, MoveToInv
<1>2. CASE \E d \in Dispositions \cup {NoDisposition} : Move(i, d)
  <2>1. PICK d \in Dispositions \cup {NoDisposition} : Move(i, d)
    BY <1>2
  <2> QED
    BY <2>1, MoveInv
<1>3. CASE Start(i)
  BY <1>3, StartInv
<1>4. CASE Hold(i) \/ ReleaseHold(i)
  BY <1>4, HoldInv
<1>5. CASE Scrap(i)
  BY <1>5, ScrapInv
<1>6. CASE Transfer(i)
  BY <1>6, TransferInv
<1> QED
  BY <1>1, <1>2, <1>3, <1>4, <1>5, <1>6 DEF ItemNext

LEMMA NextInv == IInv /\ [Next]_vars => IInv'
<1> SUFFICES ASSUME IInv, [Next]_vars PROVE IInv'
  OBVIOUS
<1>1. CASE Next
  <2>1. \/ OrderStep
        \/ \E I \in SUBSET Items, o \in Orders, q \in Int : Arrival(I, o, q)
        \/ \E i \in Items : ItemNext(i)
        \/ \E u \in Units : CompleteUnitStep(u)
        \/ LotCompletion
    BY <1>1, Decomposition DEF IInv
  <2>2. CASE OrderStep
    BY <2>2, OrderStepInv
  <2>3. CASE \E I \in SUBSET Items, o \in Orders, q \in Int : Arrival(I, o, q)
    <3>1. PICK I \in SUBSET Items, o \in Orders, q \in Int : Arrival(I, o, q)
      BY <2>3
    <3> QED
      BY <3>1, ArrivalInv
  <2>4. CASE \E i \in Items : ItemNext(i)
    <3>1. PICK i \in Items : ItemNext(i)
      BY <2>4
    <3> QED
      BY <3>1, ItemInv
  <2>5. CASE \E u \in Units : CompleteUnitStep(u)
    <3>1. PICK u \in Units : CompleteUnitStep(u)
      BY <2>5
    <3> QED
      BY <3>1, CompleteUnitStepInv
  <2>6. CASE LotCompletion
    <3>1. PICK l \in Lots, out \in Int, bad \in Nat : CompleteLotStep(l, out, bad)
      BY <2>6 DEF LotCompletion
    <3> QED
      BY <3>1, CompleteLotStepInv
  <2> QED
    BY <2>1, <2>2, <2>3, <2>4, <2>5, <2>6
<1>2. CASE UNCHANGED vars
  <2>1. TypeOK' /\ RowsOnlyAtCurrentStep' /\ StepMatchesStatus'
    BY <1>2 DEF vars, IInv, TypeOK, RowsOnlyAtCurrentStep, StepMatchesStatus
  <2>2. WipOnlyOnStartedOrders'
    BY <1>2 DEF vars, IInv, WipOnlyOnStartedOrders
  <2>3. OrderAccounting'
    BY <1>2, AccountsKept DEF vars, IInv, WithoutLots, Of
  <2> QED
    BY <2>1, <2>2, <2>3 DEF IInv
<1> QED
  BY <1>1, <1>2

\* The invariant holds in every reachable state.
THEOREM Invariance == Spec => []IInv
  BY InitInv, NextInv, PTL DEF Spec

\* Type correctness of orders, items and history rows.
THEOREM TypeCorrect == Spec => []TypeOK
<1>1. IInv => TypeOK
  BY DEF IInv
<1> QED
  BY <1>1, Invariance, PTL

\* No step an item has left keeps an open history row.
THEOREM RowsFollowItems == Spec => []RowsOnlyAtCurrentStep
<1>1. IInv => RowsOnlyAtCurrentStep
  BY DEF IInv
<1> QED
  BY <1>1, Invariance, PTL

\* The step and the status of an item agree: a completed item is at none, and an item that has
\* left a step is without one only if it went through its route.
THEOREM StepsAgree == Spec => []StepMatchesStatus
<1>1. IInv => StepMatchesStatus
  BY DEF IInv
<1> QED
  BY <1>1, Invariance, PTL

\* Every item belongs to an order that was started.
THEOREM NoOrphanWip == Spec => []WipOnlyOnStartedOrders
<1>1. IInv => WipOnlyOnStartedOrders
  BY DEF IInv
<1> QED
  BY <1>1, Invariance, PTL

\* The counters of an order are what its completed and its scrapped items add up
\* to, for any number of orders, units and lots: nothing is counted twice and
\* nothing is forgotten.
THEOREM OrdersAccounted == Spec => []OrderAccounting
<1>1. IInv => OrderAccounting
  BY DEF IInv
<1> QED
  BY <1>1, Invariance, PTL

-----------------------------------------------------------------------------
(***************************************************************************)
(* Settled items.                                                          *)
(***************************************************************************)

\* The actions on an item touch no other item, and a settled one only through
\* the transfer to inventory.
LEMMA ItemKeepsSettled ==
    ASSUME IInv, NEW i \in Items, ItemNext(i), NEW j \in Items
    PROVE  StaysSettled(j)
<1> SUFFICES ASSUME status[j] \in Settled PROVE StaysSettled(j)
  BY DEF StaysSettled
<1> USE DEF IInv, TypeOK, StaysSettled
<1>1. CASE Start(i)
  <2>1. j # i
    BY <1>1 DEF Start, Settled
  <2> QED
    BY <1>1, <2>1, NavigationTyped DEF Start, StartSteps
<1>2. CASE \E t \in Steps : MoveTo(i, t)
  <2>1. PICK t \in Steps : MoveTo(i, t)
    BY <1>2
  <2>2. j # i /\ CloseRow(i)
    BY <2>1 DEF MoveTo, Movable, Settled
  <2> QED
    BY <2>1, <2>2, AfterClose DEF MoveTo
<1>3. CASE \E d \in Dispositions \cup {NoDisposition} : Move(i, d)
  <2>1. PICK d \in Dispositions \cup {NoDisposition} : Move(i, d)
    BY <1>3
  <2>2. j # i /\ CloseRow(i)
    BY <2>1 DEF Move, Movable, Settled
  <2> QED
    BY <2>1, <2>2, AfterClose DEF Move
<1>4. CASE Hold(i) \/ ReleaseHold(i)
  BY <1>4 DEF Hold, ReleaseHold, rowVars, Settled
<1>5. CASE Scrap(i)
  <2>1. j # i /\ CloseRow(i)
    BY <1>5 DEF Scrap
  <2> QED
    BY <1>5, <2>1, AfterClose DEF Scrap
<1>6. CASE Transfer(i)
  BY <1>6 DEF Transfer, rowVars, Settled
<1> QED
  BY <1>1, <1>2, <1>3, <1>4, <1>5, <1>6 DEF ItemNext

LEMMA NextKeepsSettled ==
    ASSUME IInv, Next, NEW j \in Items
    PROVE  StaysSettled(j)
<1>1. \/ OrderStep
      \/ \E I \in SUBSET Items, o \in Orders, q \in Int : Arrival(I, o, q)
      \/ \E i \in Items : ItemNext(i)
      \/ \E u \in Units : CompleteUnitStep(u)
      \/ LotCompletion
  BY Decomposition DEF IInv
<1>2. CASE OrderStep
  BY <1>2 DEF OrderStep, CreateOrder, UpdateOrder, DeleteOrder, SetOrderStatus, itemVars,
              StaysSettled
<1>3. CASE \E I \in SUBSET Items, o \in Orders, q \in Int : Arrival(I, o, q)
  <2>1. PICK I \in SUBSET Items, o \in Orders, q \in Int : Arrival(I, o, q)
    BY <1>3
  <2>2. status[j] \in Settled => j \notin I
    BY <2>1 DEF Arrival, Settled
  <2> QED
    BY <2>1, <2>2 DEF Arrival, Insert, StaysSettled
<1>4. CASE \E i \in Items : ItemNext(i)
  <2>1. PICK i \in Items : ItemNext(i)
    BY <1>4
  <2> QED
    BY <2>1, ItemKeepsSettled
<1>5. CASE \E u \in Units : CompleteUnitStep(u)
  <2>1. PICK u \in Units : CompleteUnitStep(u)
    BY <1>5
  <2>2. u \in Items /\ CloseRow(u) /\ (status[j] \in Settled => j # u)
    BY <2>1 DEF CompleteUnitStep, Items, Settled
  <2> QED
    BY <2>1, <2>2, AfterClose DEF CompleteUnitStep, StaysSettled, IInv
<1>6. CASE LotCompletion
  <2>1. PICK l \in Lots, out \in Int, bad \in Nat : CompleteLotStep(l, out, bad)
    BY <1>6 DEF LotCompletion
  <2>2. l \in Items /\ CloseRow(l) /\ (status[j] \in Settled => j # l)
    BY <2>1 DEF CompleteLotStep, Items, Settled
  <2>3. j # l => openRows'[j] = openRows[j]
    BY <2>2, AfterClose DEF IInv
  <2> QED
    BY <2>1, <2>2, <2>3 DEF CompleteLotStep, StaysSettled, IInv, TypeOK
<1> QED
  BY <1>1, <1>2, <1>3, <1>4, <1>5, <1>6

\* No request changes a settled item, but for the transfer of a completed one.
THEOREM SettledItemsStay == Spec => SettledForGood
<1>1. IInv /\ [Next]_vars => [\A i \in Items : StaysSettled(i)]_vars
  BY NextKeepsSettled
<1> QED
  BY <1>1, Invariance, PTL DEF Spec, SettledForGood

-----------------------------------------------------------------------------
(***************************************************************************)
(* Refinement.                                                             *)
(***************************************************************************)
LEMMA InitMaps == Init => Lifecycle!Init
  BY DEF Init, Lifecycle!Init, Stage, Fate

\* A change of one order's status maps to Advance, or to nothing.
LEMMA OrderStepMaps ==
    ASSUME IInv, OrderStep
    PROVE  (\E o \in Orders : Lifecycle!Advance(o)) \/ UNCHANGED Lifecycle!ledger
<1>1. PICK o \in Orders :
          \/ \E q \in 1..MaxQuantity : CreateOrder(o, q) \/ UpdateOrder(o, q)
          \/ DeleteOrder(o)
          \/ \E t \in {"released", "completed", "closed"} : SetOrderStatus(o, t)
  BY DEF OrderStep
<1>2. Fate' = Fate /\ owner' = owner
  BY <1>1 DEF CreateOrder, UpdateOrder, DeleteOrder, SetOrderStatus, itemVars, Fate
<1>3. CASE orderStatus' = orderStatus
  BY <1>2, <1>3 DEF Lifecycle!ledger, Stage
<1>4. ASSUME NEW t \in OrderStatuses, orderStatus' = [orderStatus EXCEPT ![o] = t]
      PROVE  Stage' = [Stage EXCEPT ![o] =
                        CASE t = "absent" -> "absent" [] t = "created" -> "planned"
                          [] t = "released" -> "released" [] t = "in_progress" -> "running"
                          [] OTHER -> "ended"]
  BY <1>4 DEF Stage, IInv, TypeOK
<1>5. CASE \E q \in 1..MaxQuantity : CreateOrder(o, q)
  <2>1. orderStatus[o] = "absent" /\ orderStatus' = [orderStatus EXCEPT ![o] = "created"]
    BY <1>5 DEF CreateOrder
  <2>2. Stage[o] = "absent" /\ Stage' = [Stage EXCEPT ![o] = "planned"]
    BY <2>1, <1>4 DEF Stage, OrderStatuses
  <2> QED
    BY <1>2, <2>2 DEF Lifecycle!Advance
<1>6. CASE \E t \in {"released", "completed", "closed"} : SetOrderStatus(o, t)
  <2>1. PICK t \in {"released", "completed", "closed"} : SetOrderStatus(o, t)
    BY <1>6
  <2>2. t \in Allowed(orderStatus[o]) /\ orderStatus' = [orderStatus EXCEPT ![o] = t]
    BY <2>1 DEF SetOrderStatus
  <2>3. CASE orderStatus[o] = "created" /\ t = "released"
    <3>1. Stage[o] = "planned" /\ Stage' = [Stage EXCEPT ![o] = "released"]
      BY <2>2, <2>3, <1>4 DEF Stage, OrderStatuses
    <3> QED
      BY <1>2, <3>1 DEF Lifecycle!Advance
  <2>4. CASE orderStatus[o] \in {"created", "released", "in_progress"} /\ t # "released"
    <3>1. /\ Stage[o] \in {"planned", "released", "running"}
          /\ Stage' = [Stage EXCEPT ![o] = "ended"]
      BY <2>2, <2>4, <1>4 DEF Stage, OrderStatuses
    <3> QED
      BY <1>2, <3>1 DEF Lifecycle!Advance
  <2>5. CASE orderStatus[o] = "completed"
    <3>1. Stage[o] = "ended" /\ Stage' = [Stage EXCEPT ![o] = "ended"]
      BY <2>2, <2>5, <1>4 DEF Stage, OrderStatuses, Allowed
    <3>2. Stage' = Stage
      BY <3>1 DEF Stage
    <3> QED
      BY <1>2, <3>2 DEF Lifecycle!ledger
  <2> QED
    BY <2>2, <2>3, <2>4, <2>5 DEF Allowed
<1> QED
  BY <1>1, <1>3, <1>5, <1>6 DEF UpdateOrder, DeleteOrder

\* Items that arrive join.
LEMMA ArrivalMaps ==
    ASSUME IInv, NEW I \in SUBSET Items, NEW o \in Orders, NEW q \in Int, Arrival(I, o, q)
    PROVE  Lifecycle!Join(I, o)
<1>1. orderStatus[o] \in {"released", "in_progress"}
  BY DEF Arrival, Insert, Startable, Allowed, IInv, TypeOK, OrderStatuses
<1>2. /\ orderStatus' = [orderStatus EXCEPT ![o] = "in_progress"]
      /\ status' = [i \in Items |-> IF i \in I THEN "queued" ELSE status[i]]
      /\ owner' = [i \in Items |-> IF i \in I THEN o ELSE owner[i]]
      /\ I # {} /\ \A i \in I : status[i] = "absent"
  BY DEF Arrival, Insert
<1>3. Stage[o] \in {"released", "running"} /\ Stage' = [Stage EXCEPT ![o] = "running"]
  BY <1>1, <1>2 DEF Stage, IInv, TypeOK
<1>4. /\ \A i \in I : Fate[i] = "absent"
      /\ Fate' = [i \in Items |-> IF i \in I THEN "live" ELSE Fate[i]]
  BY <1>2 DEF Fate
<1> QED
  BY <1>2, <1>3, <1>4 DEF Lifecycle!Join

\* A change of status that settles nobody is invisible; one that settles an
\* item that was in process is Settle.
LEMMA StatusMaps ==
    ASSUME IInv, NEW i \in Items, NEW t \in ItemStatuses \ {"absent"},
           status' = [status EXCEPT ![i] = t],
           status[i] \notin Settled \cup {"absent"},
           UNCHANGED <<orderStatus, owner>>
    PROVE  Lifecycle!Settle(i) \/ UNCHANGED Lifecycle!ledger
<1>1. Stage' = Stage
  BY DEF Stage
<1>2. Fate[i] = "live"
  BY DEF Fate, Settled
<1>3. Fate' = [Fate EXCEPT ![i] = IF t \in Good THEN "good"
                                  ELSE IF t \in Bad THEN "scrapped" ELSE "live"]
  BY DEF Fate, Good, Bad, ItemStatuses, IInv, TypeOK
<1>4. CASE t \in Settled
  BY <1>1, <1>2, <1>3, <1>4 DEF Lifecycle!Settle, Settled, Good, Bad
<1>5. CASE t \notin Settled
  <2>1. Fate' = Fate
    BY <1>2, <1>3, <1>5 DEF Settled, Good, Bad, Fate
  <2> QED
    BY <1>1, <2>1 DEF Lifecycle!ledger
<1> QED
  BY <1>4, <1>5

LEMMA ItemStepMaps ==
    ASSUME IInv, NEW i \in Items, ItemNext(i)
    PROVE  Lifecycle!Settle(i) \/ UNCHANGED Lifecycle!ledger
<1>1. CASE /\ status[i] = "completed" /\ status' = [status EXCEPT ![i] = "finished"]
           /\ UNCHANGED <<orderStatus, owner>>
  BY <1>1 DEF Lifecycle!ledger, Stage, Fate, IInv, TypeOK
<1>2. CASE \E t \in Steps : MoveTo(i, t)
  BY <1>2, StatusMaps DEF MoveTo, Movable, orderVars, Settled, ItemStatuses
<1>3. CASE \E d \in Dispositions \cup {NoDisposition} : Move(i, d)
  BY <1>3, StatusMaps DEF Move, Movable, Settled, ItemStatuses
<1>4. CASE Start(i)
  BY <1>4, StatusMaps DEF Start, orderVars, Settled, ItemStatuses
<1>5. CASE Hold(i) \/ ReleaseHold(i)
  BY <1>5, StatusMaps DEF Hold, ReleaseHold, orderVars, Settled, ItemStatuses
<1>6. CASE Scrap(i)
  BY <1>6, StatusMaps DEF Scrap, Settled, ItemStatuses
<1>7. CASE Transfer(i)
  BY <1>1, <1>7, StatusMaps DEF Transfer, Settled, ItemStatuses
<1> QED
  BY <1>2, <1>3, <1>4, <1>5, <1>6, <1>7 DEF ItemNext

\* Every step of the code is a step of the life cycle, or one it does not see.
LEMMA NextMaps ==
    ASSUME IInv, [Next]_vars
    PROVE  [Lifecycle!Next]_(Lifecycle!ledger)
<1>1. CASE UNCHANGED vars
  BY <1>1 DEF vars, Lifecycle!ledger, Stage, Fate
<1>2. CASE Next
  <2>1. \/ OrderStep
        \/ \E I \in SUBSET Items, o \in Orders, q \in Int : Arrival(I, o, q)
        \/ \E i \in Items : ItemNext(i)
        \/ \E u \in Units : CompleteUnitStep(u)
        \/ LotCompletion
    BY <1>2, Decomposition DEF IInv
  <2>2. CASE OrderStep
    BY <2>2, OrderStepMaps DEF Lifecycle!Next
  <2>3. CASE \E I \in SUBSET Items, o \in Orders, q \in Int : Arrival(I, o, q)
    <3>1. PICK I \in SUBSET Items, o \in Orders, q \in Int : Arrival(I, o, q)
      BY <2>3
    <3>2. Lifecycle!Join(I, o)
      BY <3>1, ArrivalMaps
    <3> QED
      BY <3>2 DEF Lifecycle!Next
  <2>4. CASE \E i \in Items : ItemNext(i)
    <3>1. PICK i \in Items : ItemNext(i)
      BY <2>4
    <3>2. Lifecycle!Settle(i) \/ UNCHANGED Lifecycle!ledger
      BY <3>1, ItemStepMaps
    <3> QED
      BY <3>2 DEF Lifecycle!Next
  <2>5. CASE (\E u \in Units : CompleteUnitStep(u)) \/ LotCompletion
    BY <2>5 DEF CompleteUnitStep, LotCompletion, CompleteLotStep, orderVars,
                Lifecycle!ledger, Stage, Fate
  <2> QED
    BY <2>1, <2>2, <2>3, <2>4, <2>5
<1> QED
  BY <1>1, <1>2

\* Orders and items live the life the abstract specification describes.
THEOREM Refinement == Spec => RefinesLifecycle
  BY InitMaps, NextMaps, Invariance, PTL DEF Spec, Lifecycle!Spec, RefinesLifecycle
==============================================================================
