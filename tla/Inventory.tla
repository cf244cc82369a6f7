------------------------------ MODULE Inventory ------------------------------
(***************************************************************************)
(* Stock (core/inventory and the lots of core/material), one request at a  *)
(* time.  The same pieces are counted three times: quantity_on_hand of the *)
(* material lot, the balances of the lot at its locations, and the audit   *)
(* trail of inventory transactions.  Consumption by units and lots is      *)
(* recorded a fourth time, as genealogy.  No constraint of the database    *)
(* ties the four together.                                                 *)
(*                                                                         *)
(* Quantities are whole numbers here, floats in the code.                  *)
(***************************************************************************)
EXTENDS Integers, FiniteSets, FiniteSetsExt

CONSTANTS
    MaterialLots,   \* material_lots rows that may be inserted
    Locations,      \* storage locations
    Rip,            \* the locations of type "rip" (raw in process)
    Nowhere,        \* from_location_id or to_location_id IS NULL
    Counts,         \* bound: quantities an adjustment or an edit may set
    MaxQuantity,    \* bound: quantities named in the other requests
    MaxStock,       \* bound: what is put at one location
    MaxReceipts,    \* bound: receipts of a lot
    MaxUsed         \* bound: pieces of a lot recorded in genealogy

ASSUME InventoryAssumption ==
    /\ IsFiniteSet(Locations)
    /\ Rip \subseteq Locations
    /\ Nowhere \notin Locations
    /\ Counts \subseteq Int
    /\ MaxQuantity \in Nat /\ MaxStock \in Nat
    /\ MaxReceipts \in Nat /\ MaxUsed \in Nat

VARIABLES
    status,     \* material_lots.status, "absent" before the insert
    unitTracked,\* the lots whose tracking_method is "unit"
    fixed,      \* the lots whose tracking_override is set
    onHand,     \* material_lots.quantity_on_hand
    balance,    \* inventory_balances.quantity_on_hand, 0 without a row
    ledger,     \* the sum of the transactions of a lot at a location
    used,       \* the sum of its material_consumptions
    open,       \* the storage locations not soft-deleted
    received,   \* the number of receive transactions of a lot
    synced,     \* ghost: lots whose on-hand was last set from the balances
    edited      \* ghost: lots whose status or tracking an operator changed

vars == <<status, unitTracked, fixed, onHand, balance, ledger, used, open,
          received, synced, edited>>

Statuses == {"available", "reserved", "consumed", "expired", "finished", "shipped"}

TypeOK ==
    /\ status \in [MaterialLots -> Statuses \cup {"absent"}]
    /\ unitTracked \subseteq MaterialLots /\ fixed \subseteq MaterialLots
    /\ onHand \in [MaterialLots -> Int]
    /\ balance \in [MaterialLots -> [Locations -> Int]]
    /\ ledger \in [MaterialLots -> [Locations -> Int]]
    /\ used \in [MaterialLots -> Nat]
    /\ open \subseteq Locations
    /\ received \in [MaterialLots -> Nat]
    /\ synced \subseteq MaterialLots /\ edited \subseteq MaterialLots

Empty == [l \in Locations |-> 0]

Init ==
    /\ status = [m \in MaterialLots |-> "absent"]
    /\ unitTracked = {} /\ fixed = {}
    /\ onHand = [m \in MaterialLots |-> 0]
    /\ balance = [m \in MaterialLots |-> Empty]
    /\ ledger = [m \in MaterialLots |-> Empty]
    /\ used = [m \in MaterialLots |-> 0]
    /\ open = Locations
    /\ received = [m \in MaterialLots |-> 0]
    /\ synced = {} /\ edited = {}

-----------------------------------------------------------------------------
Total(b) == MapThenSumSet(LAMBDA l : b[l], Locations)

Exists(m) == status[m] # "absent"

\* A unit-tracked lot moves one at a time, others need a quantity.
Quantities(m) == IF m \in unitTracked THEN {1} ELSE 1..MaxQuantity

\* The row of inventory_transactions that says q went from one place to another.
Record(m, from, to, q) ==
    ledger' = [ledger EXCEPT ![m] = [l \in Locations |->
                  @[l] + (IF l = to THEN q ELSE 0) - (IF l = from THEN q ELSE 0)]]

\* The balances become b; sync_lot_total sets the lot's on-hand to their sum.
SetBalances(m, b) ==
    /\ balance' = [balance EXCEPT ![m] = b]
    /\ onHand' = [onHand EXCEPT ![m] = Total(b)]
    /\ synced' = synced \cup {m}

\* Mutant of InStock: the sum of the balances is not asked for.
InStockByStatus(m) == m \in unitTracked /\ status[m] \in {"consumed", "shipped"}

\* Mutant of InStock: only the balances are looked at.
InStockNow(m) == m \in unitTracked /\ Total(balance[m]) > 0

\* _is_unit_in_stock: received before, or gone.
InStock(m) ==
    /\ m \in unitTracked
    /\ status[m] \in {"consumed", "shipped"} \/ Total(balance[m]) > 0

\* MaterialLotService.create_lot.
CreateLot(m, asUnit, q) ==
    /\ ~Exists(m)
    /\ status' = [status EXCEPT ![m] = "available"]
    /\ unitTracked' = IF asUnit THEN unitTracked \cup {m} ELSE unitTracked
    /\ onHand' = [onHand EXCEPT ![m] = IF asUnit THEN 1 ELSE q]
    /\ UNCHANGED <<fixed, balance, ledger, used, open, received, synced, edited>>

\* transfer_to_inventory: a lot created for a unit or lot of WIP, received at
\* the transfer location of its step, and finished.  Discrete and process
\* products set the override, other product types leave the material's tracking.
TransferIn(m, asUnit, l, q) ==
    /\ ~Exists(m)
    /\ l \in open
    /\ asUnit => q = 1
    /\ status' = [status EXCEPT ![m] = "finished"]
    /\ unitTracked' = IF asUnit THEN unitTracked \cup {m} ELSE unitTracked
    /\ \E x \in SUBSET {m} : fixed' = fixed \cup x
    /\ SetBalances(m, [balance[m] EXCEPT ![l] = @ + q])
    /\ Record(m, Nowhere, l, q)
    /\ received' = [received EXCEPT ![m] = @ + 1]
    /\ UNCHANGED <<used, open, edited>>

\* PATCH of a lot: the quantity of a lot, the status of any.
EditQuantity(m, q) ==
    /\ Exists(m) /\ m \notin unitTracked /\ q >= 0
    /\ onHand' = [onHand EXCEPT ![m] = q]
    /\ synced' = synced \ {m}
    /\ UNCHANGED <<status, unitTracked, fixed, balance, ledger, used, open, received, edited>>

EditStatus(m, s) ==
    /\ Exists(m)
    /\ status' = [status EXCEPT ![m] = s]
    /\ edited' = edited \cup {m}
    /\ UNCHANGED <<unitTracked, fixed, onHand, balance, ledger, used, open, received, synced>>

\* PATCH of the material: lots without an override follow.
EditTracking(m) ==
    /\ Exists(m) /\ m \notin fixed
    /\ unitTracked' = IF m \in unitTracked THEN unitTracked \ {m} ELSE unitTracked \cup {m}
    /\ edited' = edited \cup {m}
    /\ UNCHANGED <<status, fixed, onHand, balance, ledger, used, open, received, synced>>

DeleteLocation(l) ==
    /\ l \in open
    /\ open' = open \ {l}
    /\ UNCHANGED <<status, unitTracked, fixed, onHand, balance, ledger, used,
                   received, synced, edited>>

-----------------------------------------------------------------------------
(***************************************************************************)
(* Movements.                                                              *)
(***************************************************************************)

Receive(m, l, q) ==
    /\ Exists(m) /\ l \in open /\ ~InStock(m)
    /\ received[m] < MaxReceipts /\ balance[m][l] + q <= MaxStock
    /\ SetBalances(m, [balance[m] EXCEPT ![l] = @ + q])
    /\ Record(m, Nowhere, l, q)
    /\ received' = [received EXCEPT ![m] = @ + 1]
    /\ UNCHANGED <<status, unitTracked, fixed, used, open, edited>>

\* putaway, pick and move; the on-hand quantity is not touched.
Transfer(m, from, to, q) ==
    /\ Exists(m)
    /\ from # to /\ {from, to} \subseteq open
    /\ q <= balance[m][from] /\ balance[m][to] + q <= MaxStock
    /\ balance' = [balance EXCEPT ![m][from] = @ - q, ![m][to] = @ + q]
    /\ Record(m, from, to, q)
    /\ UNCHANGED <<status, unitTracked, fixed, onHand, used, open, received, synced, edited>>

\* The status after q pieces were taken for WIP.
Spent(m, q) == IF onHand[m] - q <= 0 THEN "consumed" ELSE status[m]

\* Mutant of UseFor: the genealogy is not written.
UseForUnrecorded(m, q) ==
    /\ status[m] \in {"available", "reserved", "finished"}
    /\ q <= onHand[m]
    /\ status' = [status EXCEPT ![m] = Spent(m, q)]
    /\ UNCHANGED used

\* The checks and the records of MaterialLotService.consume.
UseFor(m, q) ==
    /\ status[m] \in {"available", "reserved", "finished"}
    /\ q <= onHand[m] /\ used[m] + q <= MaxUsed
    /\ status' = [status EXCEPT ![m] = Spent(m, q)]
    /\ used' = [used EXCEPT ![m] = @ + q]

\* InventoryTransactionService.consume; for a unit or lot of WIP it records
\* the genealogy as well.
Consume(m, l, q, forWip) ==
    /\ Exists(m) /\ l \in open
    /\ q <= balance[m][l]
    /\ IF forWip THEN UseFor(m, q) ELSE UNCHANGED <<status, used>>
    /\ SetBalances(m, [balance[m] EXCEPT ![l] = @ - q])
    /\ Record(m, l, Nowhere, q)
    /\ UNCHANGED <<unitTracked, fixed, open, received, edited>>

Before(m, k, l) ==
    \/ k \in Rip /\ l \notin Rip
    \/ (k \in Rip <=> l \in Rip) /\ balance[m][k] > balance[m][l]

\* What _decrement_location_balances may take from each location: RIP first,
\* then the fullest, as much as there is, equal ones in any order.
Takings(m, q) ==
    LET full(t, l)  == t[l] = Max({balance[m][l], 0})
        none(t, l)  == t[l] = 0
        stock == Total([l \in Locations |-> Max({balance[m][l], 0})])
    IN  {t \in [Locations -> 0..q] :
            /\ \A l \in Locations : t[l] <= Max({balance[m][l], 0})
            /\ Total(t) = Min({q, stock})
            /\ \A k, l \in Locations : Before(m, k, l) => full(t, k) \/ none(t, l)
            /\ \A k, l \in Locations :
                  k # l => full(t, k) \/ none(t, k) \/ full(t, l) \/ none(t, l)}

\* Mutant of ConsumeLot: the balances are left to the caller.
ConsumeLotOnly(m, q) ==
    /\ Exists(m)
    /\ UseFor(m, q)
    /\ onHand' = [onHand EXCEPT ![m] = @ - q]
    /\ UNCHANGED <<unitTracked, fixed, balance, ledger, open, received, synced, edited>>

\* MaterialLotService.consume called by its own endpoint: the lot first, then
\* the balances; no transaction is recorded.
ConsumeLot(m, q) ==
    /\ Exists(m)
    /\ UseFor(m, q)
    /\ onHand' = [onHand EXCEPT ![m] = @ - q]
    /\ \E t \in Takings(m, q) :
          balance' = [balance EXCEPT ![m] = [l \in Locations |-> @[l] - t[l]]]
    /\ UNCHANGED <<unitTracked, fixed, ledger, open, received, synced, edited>>

\* The whole balance leaves; the lot is shipped when nothing remains.
Ship(m, l) ==
    /\ status[m] = "finished" /\ l \in open
    /\ balance[m][l] > 0
    /\ SetBalances(m, [balance[m] EXCEPT ![l] = 0])
    /\ Record(m, l, Nowhere, balance[m][l])
    /\ status' = [status EXCEPT ![m] =
                    IF Total([balance[m] EXCEPT ![l] = 0]) <= 0 THEN "shipped" ELSE @]
    /\ UNCHANGED <<unitTracked, fixed, used, open, received, edited>>

\* Mutant of Adjust: the transaction is entered the wrong way round.
AdjustReversed(m, l, q) ==
    /\ Exists(m) /\ m \notin unitTracked /\ l \in open
    /\ SetBalances(m, [balance[m] EXCEPT ![l] = q])
    /\ Record(m, l, Nowhere, q - balance[m][l])
    /\ UNCHANGED <<status, unitTracked, fixed, used, open, received, edited>>

\* The balance is set, to whatever was counted; the difference is recorded.
Adjust(m, l, q) ==
    /\ Exists(m) /\ m \notin unitTracked /\ l \in open
    /\ SetBalances(m, [balance[m] EXCEPT ![l] = q])
    /\ IF q < balance[m][l]
       THEN Record(m, l, Nowhere, balance[m][l] - q)
       ELSE Record(m, Nowhere, l, q - balance[m][l])
    /\ UNCHANGED <<status, unitTracked, fixed, used, open, received, edited>>

-----------------------------------------------------------------------------
LotNext(m) ==
    \/ \E b \in BOOLEAN, q \in 0..MaxQuantity : CreateLot(m, b, q)
    \/ \E b \in BOOLEAN, l \in Locations, q \in 1..MaxQuantity \cup Counts : TransferIn(m, b, l, q)
    \/ \E q \in Counts : EditQuantity(m, q)
    \/ \E s \in Statuses : EditStatus(m, s)
    \/ EditTracking(m)
    \/ \E l \in Locations, q \in Quantities(m) : Receive(m, l, q)
    \/ \E k, l \in Locations, q \in Quantities(m) : Transfer(m, k, l, q)
    \/ \E l \in Locations, q \in Quantities(m), b \in BOOLEAN : Consume(m, l, q, b)
    \/ \E q \in Quantities(m) : ConsumeLot(m, q)
    \/ \E l \in Locations : Ship(m, l)
    \/ \E l \in Locations, q \in Counts : Adjust(m, l, q)

Next ==
    \/ \E m \in MaterialLots : LotNext(m)
    \/ \E l \in Locations : DeleteLocation(l)

Spec == Init /\ [][Next]_vars

-----------------------------------------------------------------------------
(***************************************************************************)
(* Properties.                                                             *)
(***************************************************************************)

\* Once a movement has set the lot's on-hand quantity from its balances the two
\* agree, through every later movement and through both ways to consume, until
\* an operator overwrites the quantity by hand.
LotTotalsAgree == \A m \in synced : onHand[m] = Total(balance[m])

Untouched(m) == m \in unitTracked \ edited

\* As long as its status and its tracking are left alone, a unit exists once: in
\* exactly one location, in none when it is gone, and built into one item at most.
UnitsExistOnce ==
    \A m \in MaterialLots : Untouched(m) =>
        /\ \A l \in Locations : balance[m][l] \in {0, 1}
        /\ \A k, l \in Locations : balance[m][k] = 1 /\ balance[m][l] = 1 => k = l
        /\ status[m] \in {"consumed", "shipped"} => balance[m] = Empty
        /\ used[m] <= 1

\* The shelves and the books part in one direction only: no location holds more
\* than its transactions account for, whichever way pieces came and went.
BooksKept ==
    \A m \in MaterialLots, l \in Locations : balance[m][l] <= ledger[m][l]

\* ... and what the shelves hold less than the books say is in the genealogy.
ShortagesAreUse ==
    \A m \in MaterialLots : Total(ledger[m]) - Total(balance[m]) <= used[m]

\* A unit that was used or shipped never comes back.
GoneForGood ==
    [][\A m \in MaterialLots :
          Untouched(m) /\ m \notin edited' /\ status[m] \in {"consumed", "shipped"}
              => status'[m] = status[m] /\ balance'[m] = Empty]_vars

\* What the docstring of InventoryBalance says: the transactions of a lot at a
\* location add up to its balance.
LedgerMatchesBalance == \A m \in MaterialLots : ledger[m] = balance[m]
=============================================================================
