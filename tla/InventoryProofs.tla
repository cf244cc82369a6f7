--------------------------- MODULE InventoryProofs ---------------------------
(***************************************************************************)
(* Proofs about Inventory.                                                 *)
(*                                                                         *)
(* The books: each movement enters in the transactions what it does to the *)
(* balances, and only the consumption that bypasses them takes from the    *)
(* balances alone; so that a balance never exceeds what the transactions   *)
(* say.                                                                    *)
(*                                                                         *)
(* The totals: what holds of one lot (LotOK) is inductive, one lemma per   *)
(* request.  It says that a lot that does not exist is blank, that the     *)
(* on-hand quantity of a lot whose quantity nobody overwrote is the sum of *)
(* its balances, that balances and recorded use make up at least what the  *)
(* transactions say, and of a lot tracked by units that it is at one       *)
(* location at most and used once at most (UnitOK).  A sum over the        *)
(* locations is that of module Sums, which needs them to be finitely many. *)
(***************************************************************************)
EXTENDS Inventory, Sums, TLAPS

\* What the columns range over: a number per location, and that for each lot.
Shelves == [Locations -> Int]
Tables == [MaterialLots -> [Locations -> Int]]

\* The total of a lot is such a sum.
LEMMA TotalIsSum == ASSUME NEW b PROVE Total(b) = SumOver(b, Locations)
BY DEF Total, SumOver, MapThenSumSet, MapThenFoldSet

\* A total is a number.
LEMMA TotalIsInt == ASSUME NEW b \in Shelves PROVE Total(b) \in Int
BY InventoryAssumption, TotalIsSum, SumIsInt DEF Shelves

\* Where there is nothing at any location the total is zero.
LEMMA TotalOfEmpty == Empty \in Shelves /\ Total(Empty) = 0
<1>1. \A l \in Locations : Empty[l] \in Nat /\ Empty[l] = 0
  BY DEF Empty
<1>2. Empty \in Shelves
  BY DEF Empty, Shelves
<1>3. SumOver(Empty, Locations) = SumOver(Empty, Locations) + SumOver(Empty, Locations)
  BY <1>1, InventoryAssumption, SumsAdd
<1>4. SumOver(Empty, Locations) \in Nat
  BY <1>1, InventoryAssumption, SumNotNegative
<1>5. Total(Empty) = SumOver(Empty, Locations)
  BY TotalIsSum
<1>6. SumOver(Empty, Locations) = 0
  <2> DEFINE s == SumOver(Empty, Locations)
  <2>1. s = s + s /\ s \in Int
    BY <1>3, <1>4
  <2> HIDE DEF s
  <2>2. s = 0
    BY <2>1
  <2> QED BY <2>2 DEF s
<1> QED BY <1>2, <1>5, <1>6

\* More or less at one location is as much more or less in total.
LEMMA TotalOfChange ==
    ASSUME NEW b \in Shelves, NEW l \in Locations, NEW q \in Int
    PROVE  /\ [b EXCEPT ![l] = b[l] + q] \in Shelves
           /\ Total([b EXCEPT ![l] = b[l] + q]) = Total(b) + q
<1> DEFINE c == [b EXCEPT ![l] = b[l] + q]
<1>1. c \in Shelves /\ c[l] = b[l] + q /\ \A k \in Locations \ {l} : c[k] = b[k]
  BY DEF Shelves
<1>2. \A k \in Locations : b[k] \in Int
  BY DEF Shelves
<1> HIDE DEF c
<1>3. SumOver(c, Locations) = SumOver(b, Locations) + q
  BY <1>1, <1>2, InventoryAssumption, SumOfOneChange
<1> QED BY <1>1, <1>3, TotalIsSum DEF c

\* No location holds less than nothing and the total is at most one: nothing is
\* anywhere, or one piece at one location.
LEMMA OnePiece ==
    ASSUME NEW b \in Shelves, \A l \in Locations : b[l] >= 0, Total(b) <= 1
    PROVE  /\ \A l \in Locations : b[l] \in {0, 1}
           /\ \A k, l \in Locations : b[k] = 1 /\ b[l] = 1 => k = l
           /\ Total(b) \in Nat
           /\ Total(b) = 0 => b = Empty
<1>1. \A l \in Locations : b[l] \in Nat
  BY DEF Shelves
<1>2. SumOver(b, Locations) = Total(b)
  BY TotalIsSum
<1>3. Total(b) \in Nat /\ \A l \in Locations : b[l] <= Total(b)
  BY <1>1, <1>2, InventoryAssumption, SumNotNegative
<1>4. ASSUME NEW k \in Locations, NEW l \in Locations, b[k] = 1, b[l] = 1, k # l PROVE FALSE
  <2> DEFINE R == Locations \ {k}
  <2>1. IsFiniteSet(R) /\ l \in R /\ \A x \in R : b[x] \in Nat
    <3>1. R \in SUBSET Locations
      OBVIOUS
    <3>2. IsFiniteSet(R)
      <4> HIDE DEF R
      <4> QED BY <3>1, FS_Subset, InventoryAssumption
    <3> QED BY <1>1, <1>4, <3>2
  <2>2. \A x \in Locations : b[x] \in Int
    BY <1>1
  <2>3. SumOver(b, Locations) = b[k] + SumOver(b, R)
    BY <2>2, InventoryAssumption, SumTakesAway
  <2> HIDE DEF R
  <2>4. SumOver(b, R) \in Nat /\ b[l] <= SumOver(b, R)
    BY <2>1, SumNotNegative
  <2> QED BY <1>2, <1>3, <1>4, <2>3, <2>4
<1>5. Total(b) = 0 => b = Empty
  <2> SUFFICES ASSUME Total(b) = 0 PROVE b = Empty
    OBVIOUS
  <2>1. \A l \in Locations : b[l] = 0
    BY <1>1, <1>3
  <2> QED BY <2>1 DEF Empty, Shelves
<1>6. \A l \in Locations : b[l] \in {0, 1}
  BY <1>1, <1>3
<1> QED BY <1>3, <1>4, <1>5, <1>6

\* What the material endpoint takes from the locations: as much as was asked for, or
\* all there is.
LEMMA TakenFromShelves ==
    ASSUME NEW m \in MaterialLots, balance[m] \in Shelves, NEW q \in Nat, NEW t \in Takings(m, q)
    PROVE  LET b == balance[m]
               c == [l \in Locations |-> b[l] - t[l]]
           IN  /\ c \in Shelves /\ \A l \in Locations : b[l] >= 0 => c[l] >= 0
               /\ Total(c) >= Total(b) - q
               /\ Total(b) >= q => Total(c) = Total(b) - q
               /\ (\A l \in Locations : b[l] >= 0) =>
                     Total(c) = IF Total(b) >= q THEN Total(b) - q ELSE 0
<1> DEFINE b == balance[m]
           c == [l \in Locations |-> b[l] - t[l]]
           d == [l \in Locations |-> Max({b[l], 0})]
<1>1. /\ t \in [Locations -> 0..q]
      /\ \A l \in Locations : t[l] <= d[l]
      /\ Total(t) = Min({q, Total(d)})
  BY DEF Takings
<1>2. \A l \in Locations : b[l] \in Int /\ t[l] \in Nat /\ d[l] \in Nat /\ c[l] \in Int
                           /\ d[l] = IF b[l] >= 0 THEN b[l] ELSE 0
  BY <1>1, MaxOfTwo DEF Shelves
<1>3. c \in Shelves /\ t \in Shelves /\ d \in Shelves /\ b \in Shelves
  <2>1. t \in Shelves
    <3>1. 0..q \subseteq Int
      OBVIOUS
    <3> QED BY <1>1, <3>1 DEF Shelves
  <2> QED BY <1>2, <2>1 DEF Shelves
<1>4. Total(c) \in Int /\ Total(t) \in Int /\ Total(d) \in Int /\ Total(b) \in Int
  <2> HIDE DEF b, c, d
  <2> QED BY <1>3, TotalIsInt
<1>5. \A l \in Locations : /\ b[l] = c[l] + t[l] /\ b[l] <= d[l] /\ t[l] <= d[l]
                           /\ b[l] \in Int /\ t[l] \in Int /\ d[l] \in Int /\ c[l] \in Int
                           /\ b[l] >= 0 => c[l] >= 0 /\ d[l] = b[l]
  BY <1>1, <1>2
<1>6. Total(t) = IF q <= Total(d) THEN q ELSE Total(d)
  <2> HIDE DEF b, c, d
  <2>1. Min({q, Total(d)}) = IF q <= Total(d) THEN q ELSE Total(d)
    BY <1>4, MinOfTwo
  <2> QED BY <1>1, <2>1
<1>7. Total(b) = Total(c) + Total(t) /\ Total(b) <= Total(d)
  <2> HIDE DEF b, c, d
  <2>1. SumOver(b, Locations) = SumOver(c, Locations) + SumOver(t, Locations)
    BY <1>5, InventoryAssumption, SumsAdd
  <2>2. SumOver(b, Locations) <= SumOver(d, Locations)
    BY <1>5, InventoryAssumption, SumsOrdered
  <2> QED BY <2>1, <2>2, TotalIsSum
<1>8. (\A l \in Locations : b[l] >= 0) => Total(b) = Total(d)
  <2> HIDE DEF b, c, d
  <2> SUFFICES ASSUME \A l \in Locations : b[l] >= 0 PROVE Total(b) = Total(d)
    OBVIOUS
  <2>1. \A l \in Locations : b[l] = d[l]
    BY <1>5
  <2>2. SumOver(b, Locations) = SumOver(d, Locations)
    BY <2>1, InventoryAssumption, SumsSame
  <2> QED BY <2>2, TotalIsSum
<1>9. (\A l \in Locations : b[l] >= 0) => Total(c) = IF Total(b) >= q THEN Total(b) - q ELSE 0
  <2> HIDE DEF b, c, d
  <2> QED BY <1>4, <1>6, <1>7, <1>8
<1>10. Total(c) >= Total(b) - q /\ (Total(b) >= q => Total(c) = Total(b) - q)
  <2> HIDE DEF b, c, d
  <2> QED BY <1>4, <1>6, <1>7
<1> QED BY <1>3, <1>5, <1>9, <1>10


\* The typing the comparison needs, and the comparison.
Books == balance \in Tables /\ ledger \in Tables /\ BooksKept

\* Entering q pieces, and moving the balances by as many, keeps the books.
LEMMA RecordKeepsBooks ==
    ASSUME Books, NEW m \in MaterialLots,
           NEW from \in Locations \cup {Nowhere}, NEW to \in Locations \cup {Nowhere},
           NEW q \in Int, NEW b \in [Locations -> Int],
           Record(m, from, to, q), balance' = [balance EXCEPT ![m] = b],
           \A l \in Locations :
              b[l] <= balance[m][l] + (IF l = to THEN q ELSE 0) - (IF l = from THEN q ELSE 0)
    PROVE  Books'
<1>2. ledger' = [ledger EXCEPT ![m] =
                    [l \in Locations |-> ledger[m][l] + (IF l = to THEN q ELSE 0)
                                                      - (IF l = from THEN q ELSE 0)]]
  BY DEF Record
<1>3. /\ ledger \in Tables /\ balance \in Tables
      /\ \A l \in Locations : ledger[m][l] \in Int /\ balance[m][l] \in Int
  BY DEF Books, Tables
<1>4. [l \in Locations |-> ledger[m][l] + (IF l = to THEN q ELSE 0)
                                        - (IF l = from THEN q ELSE 0)] \in [Locations -> Int]
  BY <1>3
<1>5. ledger' \in Tables /\ balance' \in Tables
  BY <1>2, <1>3, <1>4 DEF Tables
<1>6. \A n \in MaterialLots, l \in Locations : balance'[n][l] <= ledger'[n][l]
  <2> SUFFICES ASSUME NEW n \in MaterialLots, NEW l \in Locations
               PROVE  balance'[n][l] <= ledger'[n][l]
    OBVIOUS
  <2>1. CASE n = m
    <3>1. balance'[n][l] = b[l]
      BY <2>1, <1>3 DEF Tables
    <3>2. ledger'[n][l] = ledger[m][l] + (IF l = to THEN q ELSE 0) - (IF l = from THEN q ELSE 0)
      BY <2>1, <1>2, <1>3 DEF Tables
    <3>3. balance[m][l] <= ledger[m][l]
      BY DEF Books, BooksKept
    <3> QED
      BY <3>1, <3>2, <3>3, <1>3
  <2>2. CASE n # m
    BY <2>2, <1>2, <1>3 DEF Books, BooksKept, Tables
  <2> QED
    BY <2>1, <2>2
<1> QED
  BY <1>5, <1>6 DEF Books, BooksKept

\* A balance is a number.
LEMMA BalanceIsInt ==
    ASSUME Books, NEW m \in MaterialLots, NEW l \in Locations
    PROVE  balance[m] \in [Locations -> Int] /\ balance[m][l] \in Int
BY DEF Books, Tables

\* Pieces that arrive at a location, entered as such.
LEMMA ArrivalKeepsBooks ==
    ASSUME Books, NEW m \in MaterialLots, NEW l \in Locations, NEW q \in Int,
           Record(m, Nowhere, l, q), SetBalances(m, [balance[m] EXCEPT ![l] = @ + q])
    PROVE  Books'
<1> DEFINE b == [balance[m] EXCEPT ![l] = balance[m][l] + q]
<1>1. balance' = [balance EXCEPT ![m] = b]
  BY DEF SetBalances
<1>2. Nowhere \notin Locations
  BY InventoryAssumption
<1>3. /\ b \in [Locations -> Int]
      /\ \A k \in Locations : b[k] <= balance[m][k] + (IF k = l THEN q ELSE 0)
                                                   - (IF k = Nowhere THEN q ELSE 0)
  <2>1. \A k \in Locations : balance[m][k] \in Int
    BY BalanceIsInt
  <2>2. balance[m] \in [Locations -> Int]
    BY BalanceIsInt
  <2> QED
    BY <2>1, <2>2, <1>2
<1> HIDE DEF b
<1> QED
  BY <1>1, <1>3, RecordKeepsBooks

\* Pieces that leave a location, entered as such.
LEMMA DepartureKeepsBooks ==
    ASSUME Books, NEW m \in MaterialLots, NEW l \in Locations, NEW q \in Int,
           Record(m, l, Nowhere, q), SetBalances(m, [balance[m] EXCEPT ![l] = @ - q])
    PROVE  Books'
<1> DEFINE b == [balance[m] EXCEPT ![l] = balance[m][l] - q]
<1>1. balance' = [balance EXCEPT ![m] = b]
  BY DEF SetBalances
<1>2. Nowhere \notin Locations
  BY InventoryAssumption
<1>3. /\ b \in [Locations -> Int]
      /\ \A k \in Locations : b[k] <= balance[m][k] + (IF k = Nowhere THEN q ELSE 0)
                                                   - (IF k = l THEN q ELSE 0)
  <2>1. \A k \in Locations : balance[m][k] \in Int
    BY BalanceIsInt
  <2>2. balance[m] \in [Locations -> Int]
    BY BalanceIsInt
  <2> QED
    BY <2>1, <2>2, <1>2
<1> HIDE DEF b
<1> QED
  BY <1>1, <1>3, RecordKeepsBooks

\* What a request may ask for is a number.
LEMMA QuantitiesAreInt ==
    ASSUME NEW m
    PROVE  Quantities(m) \subseteq Int
BY InventoryAssumption DEF Quantities

\* What an action does to one lot, it does to no other table entry.
LEMMA StepKeepsBooks ==
    ASSUME Books, [Next]_vars
    PROVE  Books'
<1> USE InventoryAssumption
<1>1. ASSUME NEW m \in MaterialLots, LotNext(m) PROVE Books'
  <2>1. CASE \E b \in BOOLEAN, q \in 0..MaxQuantity : CreateLot(m, b, q)
    BY <2>1 DEF CreateLot, Books, BooksKept
  <2>2. CASE \E b \in BOOLEAN, l \in Locations, q \in 1..MaxQuantity \cup Counts :
                TransferIn(m, b, l, q)
    <3>1. PICK b \in BOOLEAN, l \in Locations, q \in 1..MaxQuantity \cup Counts :
                TransferIn(m, b, l, q)
      BY <2>2
    <3>2. q \in Int
      OBVIOUS
    <3> QED
      BY <3>1, <3>2, ArrivalKeepsBooks DEF TransferIn
  <2>3. CASE \E q \in Counts : EditQuantity(m, q)
    BY <2>3 DEF EditQuantity, Books, BooksKept
  <2>4. CASE \E s \in Statuses : EditStatus(m, s)
    BY <2>4 DEF EditStatus, Books, BooksKept
  <2>5. CASE EditTracking(m)
    BY <2>5 DEF EditTracking, Books, BooksKept
  <2>6. CASE \E l \in Locations, q \in Quantities(m) : Receive(m, l, q)
    <3>1. PICK l \in Locations, q \in Quantities(m) : Receive(m, l, q)
      BY <2>6
    <3>2. q \in Int
      BY QuantitiesAreInt
    <3> QED
      BY <3>1, <3>2, ArrivalKeepsBooks DEF Receive
  <2>7. CASE \E k, l \in Locations, q \in Quantities(m) : Transfer(m, k, l, q)
    <3>1. PICK k \in Locations, l \in Locations, q \in Quantities(m) : Transfer(m, k, l, q)
      BY <2>7
    <3>2. q \in Int
      BY QuantitiesAreInt
    <3> DEFINE b == [balance[m] EXCEPT ![k] = balance[m][k] - q, ![l] = balance[m][l] + q]
    <3>3. k # l /\ Record(m, k, l, q)
      BY <3>1 DEF Transfer
    <3>4. balance' = [balance EXCEPT ![m] = b]
      <4>1. balance' = [balance EXCEPT ![m][k] = @ - q, ![m][l] = @ + q]
        BY <3>1 DEF Transfer
      <4>2. balance[m] \in [Locations -> Int]
        BY BalanceIsInt
      <4> QED
        BY <4>1, <4>2, <3>3 DEF Books, Tables
    <3>5. /\ b \in [Locations -> Int]
          /\ \A x \in Locations : b[x] <= balance[m][x] + (IF x = l THEN q ELSE 0)
                                                       - (IF x = k THEN q ELSE 0)
      <4>1. \A x \in Locations : balance[m][x] \in Int
        BY BalanceIsInt
      <4>2. balance[m] \in [Locations -> Int]
        BY BalanceIsInt
      <4> QED
        BY <4>1, <4>2, <3>2, <3>3
    <3> HIDE DEF b
    <3> QED
      BY <3>2, <3>3, <3>4, <3>5, RecordKeepsBooks
  <2>8. CASE \E l \in Locations, q \in Quantities(m), b \in BOOLEAN : Consume(m, l, q, b)
    <3>1. PICK l \in Locations, q \in Quantities(m), b \in BOOLEAN : Consume(m, l, q, b)
      BY <2>8
    <3>2. q \in Int
      BY QuantitiesAreInt
    <3> QED
      BY <3>1, <3>2, DepartureKeepsBooks DEF Consume
  <2>9. CASE \E q \in Quantities(m) : ConsumeLot(m, q)
    <3>0. PICK q \in Int : ConsumeLot(m, q)
      BY <2>9, QuantitiesAreInt
    <3>1. PICK t \in [Locations -> 0..q] :
              balance' = [balance EXCEPT ![m] = [l \in Locations |-> balance[m][l] - t[l]]]
      <4>1. PICK t \in Takings(m, q) :
                balance' = [balance EXCEPT ![m] = [l \in Locations |-> @[l] - t[l]]]
        BY <3>0 DEF ConsumeLot
      <4>2. t \in [Locations -> 0..q]
        BY <4>1 DEF Takings
      <4> QED
        BY <4>1, <4>2 DEF Books, Tables
    <3>a. ledger' = ledger
      BY <3>0 DEF ConsumeLot
    <3>2. \A l \in Locations : t[l] \in Nat
      BY <3>1
    <3>3. /\ [l \in Locations |-> balance[m][l] - t[l]] \in [Locations -> Int]
          /\ \A l \in Locations : balance[m][l] - t[l] <= balance[m][l]
      BY <3>2, BalanceIsInt
    <3>4. balance' \in Tables /\ ledger' \in Tables
      BY <3>1, <3>a, <3>3 DEF Books, Tables
    <3>5. ASSUME NEW n \in MaterialLots, NEW l \in Locations
          PROVE  balance'[n][l] <= ledger'[n][l]
      <4>1. balance'[n][l] <= balance[n][l]
        BY <3>1, <3>3, BalanceIsInt DEF Books, Tables
      <4>2. /\ balance[n][l] <= ledger[n][l]
            /\ balance[n][l] \in Int /\ ledger[n][l] \in Int /\ balance'[n][l] \in Int
        BY <3>4 DEF Books, BooksKept, Tables
      <4> QED
        BY <4>1, <4>2, <3>a
    <3> QED
      BY <3>4, <3>5 DEF Books, BooksKept
  <2>10. CASE \E l \in Locations : Ship(m, l)
    <3>1. PICK l \in Locations : Ship(m, l)
      BY <2>10
    <3>2. balance[m] \in [Locations -> Int] /\ balance[m][l] \in Int
      BY BalanceIsInt
    <3>3. balance[m][l] - balance[m][l] = 0
      BY <3>2
    <3>4. [balance[m] EXCEPT ![l] = @ - balance[m][l]] = [balance[m] EXCEPT ![l] = 0]
      BY <3>3
    <3> QED
      BY <3>1, <3>2, <3>4, DepartureKeepsBooks DEF Ship
  <2>11. CASE \E l \in Locations, q \in Counts : Adjust(m, l, q)
    <3>1. PICK l \in Locations, q \in Counts : Adjust(m, l, q)
      BY <2>11
    <3>2. q \in Int /\ balance[m][l] \in Int
      BY BalanceIsInt
    <3>3. SetBalances(m, [balance[m] EXCEPT ![l] = q])
      BY <3>1 DEF Adjust
    <3>4. CASE q < balance[m][l]
      <4>1. Record(m, l, Nowhere, balance[m][l] - q)
        BY <3>1, <3>4 DEF Adjust
      <4>2. balance[m][l] - (balance[m][l] - q) = q /\ balance[m][l] - q \in Int
        BY <3>2
      <4>3. [balance[m] EXCEPT ![l] = @ - (balance[m][l] - q)] = [balance[m] EXCEPT ![l] = q]
        BY <4>2
      <4> QED
        BY <3>3, <4>1, <4>2, <4>3, DepartureKeepsBooks
    <3>5. CASE ~(q < balance[m][l])
      <4>1. Record(m, Nowhere, l, q - balance[m][l])
        BY <3>1, <3>5 DEF Adjust
      <4>2. balance[m][l] + (q - balance[m][l]) = q /\ q - balance[m][l] \in Int
        BY <3>2
      <4>3. [balance[m] EXCEPT ![l] = @ + (q - balance[m][l])] = [balance[m] EXCEPT ![l] = q]
        BY <4>2
      <4> QED
        BY <3>3, <4>1, <4>2, <4>3, ArrivalKeepsBooks
    <3> QED
      BY <3>4, <3>5
  <2> QED
    BY <1>1, <2>1, <2>2, <2>3, <2>4, <2>5, <2>6, <2>7, <2>8, <2>9, <2>10, <2>11 DEF LotNext
<1>2. ASSUME NEW l \in Locations, DeleteLocation(l) PROVE Books'
  BY <1>2 DEF DeleteLocation, Books, BooksKept
<1>3. CASE UNCHANGED vars
  BY <1>3 DEF vars, Books, BooksKept
<1> QED
  BY <1>1, <1>2, <1>3 DEF Next

\* However stock is received, moved, consumed, shipped and counted, and however
\* often, a location never holds more than its transactions account for.
THEOREM BooksAreKept == Spec => []BooksKept
<1>1. Init => Books
  BY DEF Init, Books, BooksKept, Tables, Empty
<1>2. Books /\ [Next]_vars => Books'
  BY StepKeepsBooks
<1>3. Books => BooksKept
  BY DEF Books
<1> QED
  BY <1>1, <1>2, <1>3, PTL DEF Spec

-----------------------------------------------------------------------------
(***************************************************************************)
(* The invariant of the stock, lot by lot.                                 *)
(***************************************************************************)

\* A lot nobody inserted.
Blank(m) == /\ m \notin synced /\ m \notin unitTracked
            /\ balance[m] = Empty /\ ledger[m] = Empty /\ used[m] = 0

\* A unit that was left alone: one piece at most is anywhere, none once it is gone,
\* and one that was used is gone.
UnitOK(m) ==
    /\ \A l \in Locations : balance[m][l] >= 0
    /\ Total(balance[m]) <= 1 /\ onHand[m] <= 1 /\ used[m] <= 1
    /\ status[m] \in {"consumed", "shipped"} => Total(balance[m]) = 0
    /\ used[m] > 0 => status[m] = "consumed"

\* What holds of one lot.
LotOK(m) ==
    /\ Exists(m) \/ Blank(m)
    /\ m \in synced => onHand[m] = Total(balance[m])
    /\ Total(ledger[m]) - Total(balance[m]) <= used[m]
    /\ Untouched(m) => UnitOK(m)

\* The inductive invariant.
StockInv == TypeOK /\ \A m \in MaterialLots : LotOK(m)

\* What a request leaves alone of a lot.
Alike(n) ==
    /\ status'[n] = status[n] /\ onHand'[n] = onHand[n] /\ used'[n] = used[n]
    /\ balance'[n] = balance[n] /\ ledger'[n] = ledger[n]
    /\ (n \in synced') = (n \in synced)
    /\ (n \in unitTracked') = (n \in unitTracked)
    /\ (n \in edited') = (n \in edited)

\* A request is about one lot, and the others stay as they were.
LEMMA OneLot ==
    ASSUME StockInv, NEW m \in MaterialLots, TypeOK', LotOK(m)',
           \A n \in MaterialLots \ {m} : Alike(n)
    PROVE  StockInv'
<1>1. ASSUME NEW n \in MaterialLots \ {m} PROVE LotOK(n)'
  <2>1. LotOK(n) /\ Alike(n)
    BY DEF StockInv
  <2> QED BY <2>1 DEF LotOK, Alike, Blank, UnitOK, Untouched, Exists
<1> QED BY <1>1 DEF StockInv

\* The fields of a lot have their types.
LEMMA LotTypes ==
    ASSUME TypeOK, NEW m \in MaterialLots
    PROVE  /\ balance[m] \in Shelves /\ ledger[m] \in Shelves
           /\ onHand[m] \in Int /\ used[m] \in Nat /\ received[m] \in Nat
           /\ status[m] \in Statuses \cup {"absent"}
           /\ Total(balance[m]) \in Int /\ Total(ledger[m]) \in Int
           /\ \A l \in Locations : balance[m][l] \in Int /\ ledger[m][l] \in Int
<1>1. balance[m] \in Shelves /\ ledger[m] \in Shelves
  BY DEF TypeOK, Shelves
<1>2. Total(balance[m]) \in Int /\ Total(ledger[m]) \in Int
  BY <1>1, TotalIsInt
<1> QED BY <1>1, <1>2 DEF TypeOK, Shelves

\* A balance is set and the difference is entered in the books.
LEMMA Booked ==
    ASSUME TypeOK, NEW m \in MaterialLots, NEW l \in Locations, NEW v \in Int,
           SetBalances(m, [balance[m] EXCEPT ![l] = v]),
           \/ Record(m, Nowhere, l, v - balance[m][l])
           \/ Record(m, l, Nowhere, balance[m][l] - v)
    PROVE  /\ balance' \in [MaterialLots -> [Locations -> Int]]
           /\ ledger' \in [MaterialLots -> [Locations -> Int]]
           /\ onHand' \in [MaterialLots -> Int] /\ synced' = synced \cup {m}
           /\ balance'[m] = [balance[m] EXCEPT ![l] = v]
           /\ Total(balance'[m]) = Total(balance[m]) + (v - balance[m][l])
           /\ Total(ledger'[m]) = Total(ledger[m]) + (v - balance[m][l])
           /\ onHand'[m] = Total(balance'[m])
           /\ \A n \in MaterialLots \ {m} :
                 /\ onHand'[n] = onHand[n] /\ balance'[n] = balance[n] /\ ledger'[n] = ledger[n]
                 /\ (n \in synced') = (n \in synced)
<1> DEFINE q == v - balance[m][l]
           b == [balance[m] EXCEPT ![l] = v]
           d == [ledger[m] EXCEPT ![l] = ledger[m][l] + q]
<1>1. /\ balance[m] \in Shelves /\ ledger[m] \in Shelves /\ q \in Int
      /\ \A k \in Locations : balance[m][k] \in Int /\ ledger[m][k] \in Int
  BY LotTypes
<1>2. b = [balance[m] EXCEPT ![l] = balance[m][l] + q]
  BY <1>1
<1>3. b \in Shelves /\ Total(b) = Total(balance[m]) + q
  <2> HIDE DEF q, b
  <2> QED BY <1>1, <1>2, TotalOfChange
<1>4. d \in Shelves /\ Total(d) = Total(ledger[m]) + q
  <2> HIDE DEF q
  <2> QED BY <1>1, TotalOfChange
<1>5. ledger' = [ledger EXCEPT ![m] = d]
  <2> DEFINE e == [k \in Locations |-> ledger[m][k] + (IF k = l THEN q ELSE 0)
                                                    - (IF k = Nowhere THEN q ELSE 0)]
             f == [k \in Locations |-> ledger[m][k] + (IF k = Nowhere THEN balance[m][l] - v ELSE 0)
                                                    - (IF k = l THEN balance[m][l] - v ELSE 0)]
  <2>1. ledger' = [ledger EXCEPT ![m] = e] \/ ledger' = [ledger EXCEPT ![m] = f]
    BY DEF Record
  <2>2. e = d
    BY <1>1, InventoryAssumption DEF Shelves
  <2>3. f = d
    <3>1. \A k \in Locations : f[k] = IF k = l THEN ledger[m][k] + q ELSE ledger[m][k]
      BY <1>1, InventoryAssumption
    <3>2. \A k \in Locations : d[k] = IF k = l THEN ledger[m][k] + q ELSE ledger[m][k]
      BY <1>1 DEF Shelves
    <3>3. f = [k \in Locations |-> f[k]] /\ d = [k \in Locations |-> d[k]]
      BY <1>4 DEF Shelves
    <3> HIDE DEF f, d
    <3> QED BY <3>1, <3>2, <3>3
  <2> QED BY <2>1, <2>2, <2>3
<1>6. balance' = [balance EXCEPT ![m] = b] /\ onHand' = [onHand EXCEPT ![m] = Total(b)]
      /\ synced' = synced \cup {m}
  BY DEF SetBalances
<1> HIDE DEF q, b, d
<1>7. Total(b) \in Int
  BY <1>3, TotalIsInt
<1>8. balance'[m] = b /\ ledger'[m] = d /\ onHand'[m] = Total(b)
  BY <1>5, <1>6 DEF TypeOK
<1>9. /\ balance' \in [MaterialLots -> [Locations -> Int]]
      /\ ledger' \in [MaterialLots -> [Locations -> Int]]
      /\ onHand' \in [MaterialLots -> Int]
  BY <1>3, <1>4, <1>5, <1>6, <1>7 DEF TypeOK, Shelves
<1>10. \A n \in MaterialLots \ {m} :
                 /\ onHand'[n] = onHand[n] /\ balance'[n] = balance[n] /\ ledger'[n] = ledger[n]
                 /\ (n \in synced') = (n \in synced)
  BY <1>5, <1>6 DEF TypeOK
<1> QED BY <1>3, <1>4, <1>6, <1>8, <1>9, <1>10 DEF b, q

\* A lot that is created.
LEMMA CreateKept ==
    ASSUME StockInv, NEW m \in MaterialLots, NEW asUnit \in BOOLEAN, NEW q \in Int,
           CreateLot(m, asUnit, q)
    PROVE  StockInv'
<1>1. TypeOK /\ LotOK(m)
  BY DEF StockInv
<1>2. ~Exists(m) /\ Blank(m)
  BY <1>1 DEF LotOK, CreateLot
<1>3. /\ status' = [status EXCEPT ![m] = "available"]
      /\ unitTracked' = IF asUnit THEN unitTracked \cup {m} ELSE unitTracked
      /\ onHand' = [onHand EXCEPT ![m] = IF asUnit THEN 1 ELSE q]
      /\ UNCHANGED <<fixed, balance, ledger, used, open, received, synced, edited>>
  BY DEF CreateLot
<1>4. TypeOK'
  BY <1>1, <1>3 DEF TypeOK, Statuses
<1>5. \A n \in MaterialLots \ {m} : Alike(n)
  BY <1>1, <1>3 DEF TypeOK, Alike
<1>6. status'[m] = "available" /\ (m \in unitTracked' => onHand'[m] = 1)
  BY <1>1, <1>2, <1>3 DEF TypeOK, Blank
<1>7. LotOK(m)'
  <2>1. balance'[m] = Empty /\ ledger'[m] = Empty /\ used'[m] = 0 /\ m \notin synced'
    BY <1>2, <1>3 DEF Blank
  <2>2. Total(Empty) = 0 /\ \A l \in Locations : Empty[l] = 0
    BY TotalOfEmpty DEF Empty
  <2>3. Exists(m)'
    BY <1>6 DEF Exists
  <2>4. Untouched(m)' => UnitOK(m)'
    BY <1>6, <2>1, <2>2 DEF UnitOK, Untouched
  <2>5. Total(ledger'[m]) - Total(balance'[m]) <= used'[m]
    BY <2>1, <2>2
  <2> QED BY <2>1, <2>3, <2>4, <2>5 DEF LotOK
<1> QED BY <1>4, <1>5, <1>7, OneLot

\* A lot that comes from WIP; a unit arrives where nothing was.
LEMMA TransferInKept ==
    ASSUME StockInv, NEW m \in MaterialLots, NEW asUnit \in BOOLEAN, NEW l \in Locations,
           NEW q \in Int, TransferIn(m, asUnit, l, q)
    PROVE  StockInv'
<1>1. TypeOK /\ LotOK(m)
  BY DEF StockInv
<1>2. ~Exists(m) /\ Blank(m)
  BY <1>1 DEF LotOK, TransferIn
<1>3. /\ asUnit => q = 1
      /\ status' = [status EXCEPT ![m] = "finished"]
      /\ unitTracked' = IF asUnit THEN unitTracked \cup {m} ELSE unitTracked
      /\ \E x \in SUBSET {m} : fixed' = fixed \cup x
      /\ received' = [received EXCEPT ![m] = @ + 1]
      /\ UNCHANGED <<used, open, edited>>
  BY DEF TransferIn
<1> DEFINE v == balance[m][l] + q
<1>4. /\ balance[m] = Empty /\ ledger[m] = Empty /\ used[m] = 0 /\ m \notin unitTracked
      /\ balance[m][l] = 0 /\ v = q /\ v - balance[m][l] = q
  BY <1>2 DEF Blank, Empty
<1>5. SetBalances(m, [balance[m] EXCEPT ![l] = v]) /\ Record(m, Nowhere, l, v - balance[m][l]) /\ v \in Int
  BY <1>4 DEF TransferIn
<1> HIDE DEF v
<1>6. /\ balance' \in [MaterialLots -> [Locations -> Int]]
      /\ ledger' \in [MaterialLots -> [Locations -> Int]]
      /\ onHand' \in [MaterialLots -> Int] /\ synced' = synced \cup {m}
      /\ balance'[m] = [balance[m] EXCEPT ![l] = v]
      /\ Total(balance'[m]) = Total(balance[m]) + (v - balance[m][l])
      /\ Total(ledger'[m]) = Total(ledger[m]) + (v - balance[m][l])
      /\ onHand'[m] = Total(balance'[m])
      /\ \A n \in MaterialLots \ {m} :
             /\ onHand'[n] = onHand[n] /\ balance'[n] = balance[n] /\ ledger'[n] = ledger[n]
             /\ (n \in synced') = (n \in synced)
  BY <1>1, <1>5, Booked
<1>7. TypeOK'
  <2>1. status' \in [MaterialLots -> Statuses \cup {"absent"}]
    BY <1>1, <1>3 DEF TypeOK, Statuses
  <2>2. unitTracked' \subseteq MaterialLots /\ fixed' \subseteq MaterialLots /\ synced' \subseteq MaterialLots
    BY <1>1, <1>3, <1>6 DEF TypeOK
  <2>3. received' \in [MaterialLots -> Nat]
    BY <1>1, <1>3 DEF TypeOK
  <2> QED BY <1>1, <1>3, <1>6, <2>1, <2>2, <2>3 DEF TypeOK
<1>8. \A n \in MaterialLots \ {m} : Alike(n)
  BY <1>1, <1>3, <1>6 DEF TypeOK, Alike
<1>9. LotOK(m)'
  <2>1. status'[m] = "finished" /\ used'[m] = 0 /\ (m \in unitTracked' => q = 1)
    BY <1>1, <1>3, <1>4 DEF TypeOK
  <2>2. Total(balance'[m]) = q /\ Total(ledger'[m]) = q /\ onHand'[m] = q
    BY <1>4, <1>6, TotalOfEmpty
  <2>3. \A k \in Locations : balance'[m][k] = IF k = l THEN q ELSE 0
    BY <1>4, <1>6 DEF Empty
  <2>4. Untouched(m)' => UnitOK(m)'
    BY <2>1, <2>2, <2>3 DEF UnitOK, Untouched
  <2> QED BY <1>6, <2>1, <2>2, <2>4 DEF LotOK, Exists
<1> QED BY <1>7, <1>8, <1>9, OneLot

\* Operators edit the quantity of a lot, its status, or the tracking of its material.
LEMMA EditKept ==
    ASSUME StockInv, NEW m \in MaterialLots,
           \/ \E q \in Counts : EditQuantity(m, q)
           \/ \E s \in Statuses : EditStatus(m, s)
           \/ EditTracking(m)
    PROVE  StockInv'
<1>1. TypeOK /\ LotOK(m) /\ Exists(m)
  BY DEF StockInv, EditQuantity, EditStatus, EditTracking
<1>2. CASE \E q \in Counts : EditQuantity(m, q)
  <2>1. PICK q \in Int : EditQuantity(m, q)
    BY <1>2, InventoryAssumption
  <2>2. TypeOK'
    BY <1>1, <2>1 DEF EditQuantity, TypeOK
  <2>3. \A n \in MaterialLots \ {m} : Alike(n)
    BY <1>1, <2>1 DEF EditQuantity, TypeOK, Alike
  <2>4. LotOK(m)'
    BY <1>1, <2>1 DEF EditQuantity, LotOK, Untouched, Exists, Blank
  <2> QED BY <2>2, <2>3, <2>4, OneLot
<1>3. CASE \E s \in Statuses : EditStatus(m, s)
  <2>1. PICK s \in Statuses : EditStatus(m, s)
    BY <1>3
  <2>2. TypeOK'
    BY <1>1, <2>1 DEF EditStatus, TypeOK
  <2>3. \A n \in MaterialLots \ {m} : Alike(n)
    BY <1>1, <2>1 DEF EditStatus, TypeOK, Alike
  <2>4. status'[m] = s /\ s # "absent"
    BY <1>1, <2>1 DEF EditStatus, TypeOK, Statuses
  <2>5. LotOK(m)'
    BY <1>1, <2>1, <2>4 DEF EditStatus, LotOK, Untouched, Exists
  <2> QED BY <2>2, <2>3, <2>5, OneLot
<1>4. CASE EditTracking(m)
  <2>2. TypeOK'
    BY <1>1, <1>4 DEF EditTracking, TypeOK
  <2>3. \A n \in MaterialLots \ {m} : Alike(n)
    BY <1>1, <1>4 DEF EditTracking, TypeOK, Alike
  <2>5. LotOK(m)'
    BY <1>1, <1>4 DEF EditTracking, LotOK, Untouched, Exists
  <2> QED BY <2>2, <2>3, <2>5, OneLot
<1> QED BY <1>2, <1>3, <1>4

-----------------------------------------------------------------------------
(***************************************************************************)
(* Movements.                                                              *)
(***************************************************************************)

\* A unit moves one at a time.
LEMMA QuantitiesOf ==
    ASSUME NEW m, NEW q \in Quantities(m)
    PROVE  q \in Nat /\ q >= 1 /\ (m \in unitTracked => q = 1)
BY InventoryAssumption DEF Quantities

\* A unit that is received was nowhere.
LEMMA ReceiveKept ==
    ASSUME StockInv, NEW m \in MaterialLots, NEW l \in Locations, NEW q \in Quantities(m),
           Receive(m, l, q)
    PROVE  StockInv'
<1>1. TypeOK /\ LotOK(m) /\ Exists(m) /\ q \in Nat /\ (m \in unitTracked => q = 1)
  BY QuantitiesOf DEF StockInv, Receive
<1>2. /\ received' = [received EXCEPT ![m] = @ + 1] /\ ~InStock(m)
      /\ UNCHANGED <<status, unitTracked, fixed, used, open, edited>>
  BY DEF Receive
<1>3. /\ balance[m] \in Shelves /\ Total(balance[m]) \in Int /\ Total(ledger[m]) \in Int
      /\ balance[m][l] \in Int /\ used[m] \in Nat
      /\ \A k \in Locations : balance[m][k] \in Int
  BY <1>1, LotTypes
<1> DEFINE v == balance[m][l] + q
<1>4. v \in Int /\ v - balance[m][l] = q
  BY <1>1, <1>3
<1>5. SetBalances(m, [balance[m] EXCEPT ![l] = v]) /\ Record(m, Nowhere, l, v - balance[m][l])
  BY <1>4 DEF Receive
<1>6. /\ balance' \in [MaterialLots -> [Locations -> Int]]
      /\ ledger' \in [MaterialLots -> [Locations -> Int]]
      /\ onHand' \in [MaterialLots -> Int] /\ synced' = synced \cup {m}
      /\ balance'[m] = [balance[m] EXCEPT ![l] = v]
      /\ Total(balance'[m]) = Total(balance[m]) + (v - balance[m][l])
      /\ Total(ledger'[m]) = Total(ledger[m]) + (v - balance[m][l])
      /\ onHand'[m] = Total(balance'[m])
      /\ \A n \in MaterialLots \ {m} :
             /\ onHand'[n] = onHand[n] /\ balance'[n] = balance[n] /\ ledger'[n] = ledger[n]
             /\ (n \in synced') = (n \in synced)
  <2> HIDE DEF v
  <2> QED BY <1>1, <1>4, <1>5, Booked
<1>7. TypeOK'
  <2>1. received' \in [MaterialLots -> Nat]
    BY <1>1, <1>2 DEF TypeOK
  <2>2. synced' \subseteq MaterialLots
    BY <1>1, <1>6 DEF TypeOK
  <2> QED BY <1>1, <1>2, <1>6, <2>1, <2>2 DEF TypeOK
<1>8. \A n \in MaterialLots \ {m} : Alike(n)
  BY <1>2, <1>6 DEF Alike
<1>9. LotOK(m)'
  <2>1. Total(balance'[m]) = Total(balance[m]) + q /\ Total(ledger'[m]) = Total(ledger[m]) + q
    BY <1>4, <1>6
  <2>2. Untouched(m)' => UnitOK(m)'
    <3> SUFFICES ASSUME Untouched(m)' PROVE UnitOK(m)'
      OBVIOUS
    <3>1. Untouched(m) /\ UnitOK(m) /\ q = 1
      BY <1>1, <1>2 DEF Untouched, LotOK
    <3>2. status[m] \notin {"consumed", "shipped"} /\ ~(Total(balance[m]) > 0)
      BY <1>2, <3>1 DEF InStock, Untouched
    <3>3. \A k \in Locations : balance'[m][k] >= 0
      BY <1>3, <1>6, <3>1 DEF UnitOK, Shelves
    <3>4. Total(balance'[m]) <= 1 /\ onHand'[m] <= 1
      BY <1>3, <1>6, <2>1, <3>1, <3>2
    <3> QED BY <1>2, <3>1, <3>2, <3>3, <3>4 DEF UnitOK
  <2>3. Total(ledger'[m]) - Total(balance'[m]) <= used'[m]
    BY <1>1, <1>2, <1>3, <2>1 DEF LotOK
  <2> QED BY <1>1, <1>2, <1>6, <2>2, <2>3 DEF LotOK, Exists
<1> QED BY <1>7, <1>8, <1>9, OneLot

\* What leaves one location arrives at the other: in total nothing changes.
LEMMA TransferKept ==
    ASSUME StockInv, NEW m \in MaterialLots, NEW k \in Locations, NEW l \in Locations,
           NEW q \in Quantities(m), Transfer(m, k, l, q)
    PROVE  StockInv'
<1>1. TypeOK /\ LotOK(m) /\ Exists(m) /\ q \in Nat
  BY QuantitiesOf DEF StockInv, Transfer
<1>2. /\ k # l /\ q <= balance[m][k]
      /\ balance' = [balance EXCEPT ![m][k] = @ - q, ![m][l] = @ + q]
      /\ Record(m, k, l, q)
      /\ UNCHANGED <<status, unitTracked, fixed, onHand, used, open, received, synced, edited>>
  BY DEF Transfer
<1>3. /\ balance[m] \in Shelves /\ Total(balance[m]) \in Int /\ Total(ledger[m]) \in Int
      /\ ledger[m] \in Shelves
      /\ \A x \in Locations : balance[m][x] \in Int /\ ledger[m][x] \in Int
  BY <1>1, LotTypes
<1>4. ASSUME NEW b \in Shelves, NEW x \in Locations, NEW y \in Locations, x # y
      PROVE  /\ [b EXCEPT ![x] = b[x] + (0 - q), ![y] = b[y] + q] \in Shelves
             /\ Total([b EXCEPT ![x] = b[x] + (0 - q), ![y] = b[y] + q]) = Total(b)
  <2> DEFINE c == [b EXCEPT ![x] = b[x] + (0 - q)]
             d == [c EXCEPT ![y] = c[y] + q]
  <2>1. c \in Shelves /\ Total(c) = Total(b) + (0 - q)
    BY <1>1, TotalOfChange
  <2>2. d \in Shelves /\ Total(d) = Total(c) + q
    <3> HIDE DEF c
    <3> QED BY <1>1, <2>1, TotalOfChange
  <2>3. d = [b EXCEPT ![x] = b[x] + (0 - q), ![y] = b[y] + q]
    BY <1>4 DEF Shelves
  <2>4. Total(b) \in Int
    BY TotalIsInt
  <2>5. Total(d) = Total(b)
    <3> HIDE DEF c, d
    <3> QED BY <1>1, <2>1, <2>2, <2>4
  <2> QED BY <2>2, <2>3, <2>5
<1> DEFINE b == [balance[m] EXCEPT ![k] = balance[m][k] + (0 - q), ![l] = balance[m][l] + q]
           d == [ledger[m] EXCEPT ![k] = ledger[m][k] + (0 - q), ![l] = ledger[m][l] + q]
<1>5. /\ b \in Shelves /\ Total(b) = Total(balance[m])
      /\ d \in Shelves /\ Total(d) = Total(ledger[m])
  BY <1>2, <1>3, <1>4
<1>6. balance' = [balance EXCEPT ![m] = b]
  <2>1. balance' = [balance EXCEPT ![m] = [balance[m] EXCEPT ![k] = balance[m][k] - q, ![l] = balance[m][l] + q]]
    BY <1>1, <1>2, <1>3 DEF TypeOK, Shelves
  <2>2. balance[m][k] - q = balance[m][k] + (0 - q)
    BY <1>1, <1>3
  <2> QED BY <2>1, <2>2
<1>7. ledger' = [ledger EXCEPT ![m] = d]
  <2> DEFINE e == [x \in Locations |-> ledger[m][x] + (IF x = l THEN q ELSE 0)
                                                    - (IF x = k THEN q ELSE 0)]
  <2>1. ledger' = [ledger EXCEPT ![m] = e]
    BY <1>2 DEF Record
  <2>2. \A x \in Locations : e[x] = IF x = k THEN ledger[m][x] + (0 - q)
                                    ELSE IF x = l THEN ledger[m][x] + q ELSE ledger[m][x]
    BY <1>1, <1>2, <1>3
  <2>3. \A x \in Locations : d[x] = IF x = k THEN ledger[m][x] + (0 - q)
                                    ELSE IF x = l THEN ledger[m][x] + q ELSE ledger[m][x]
    BY <1>2, <1>3 DEF Shelves
  <2>4. e = [x \in Locations |-> e[x]] /\ d = [x \in Locations |-> d[x]]
    BY <1>5 DEF Shelves
  <2>5. e = d
    <3> HIDE DEF e, d
    <3> QED BY <2>2, <2>3, <2>4
  <2> QED BY <2>1, <2>5
<1>8. balance'[m] = b /\ ledger'[m] = d
  <2> HIDE DEF b, d
  <2> QED BY <1>1, <1>6, <1>7 DEF TypeOK
<1>9. TypeOK'
  <2> HIDE DEF b, d
  <2> QED BY <1>1, <1>2, <1>5, <1>6, <1>7 DEF TypeOK, Shelves
<1>10. \A n \in MaterialLots \ {m} : Alike(n)
  <2> HIDE DEF b, d
  <2> QED BY <1>1, <1>2, <1>6, <1>7 DEF Alike, TypeOK
<1>11. LotOK(m)'
  <2>1. (\A x \in Locations : balance[m][x] >= 0) => \A x \in Locations : b[x] >= 0
    <3>1. \A x \in Locations : b[x] = IF x = k THEN balance[m][x] + (0 - q)
                                      ELSE IF x = l THEN balance[m][x] + q ELSE balance[m][x]
      BY <1>2, <1>3 DEF Shelves
    <3> HIDE DEF b
    <3> QED BY <1>1, <1>2, <1>3, <3>1
  <2> HIDE DEF b, d
  <2> QED BY <1>1, <1>2, <1>5, <1>8, <2>1 DEF LotOK, Exists, Untouched, UnitOK
<1> QED BY <1>9, <1>10, <1>11, OneLot

\* What is used for WIP was usable, and a unit is gone with it.
LEMMA Use ==
    ASSUME TypeOK, NEW m \in MaterialLots, NEW q \in Nat, UseFor(m, q)
    PROVE  /\ status' \in [MaterialLots -> Statuses \cup {"absent"}]
           /\ used' \in [MaterialLots -> Nat]
           /\ status[m] \in {"available", "reserved", "finished"} /\ q <= onHand[m]
           /\ used'[m] = used[m] + q
           /\ status'[m] \in {status[m], "consumed"}
           /\ onHand[m] <= q => status'[m] = "consumed"
           /\ \A n \in MaterialLots \ {m} : status'[n] = status[n] /\ used'[n] = used[n]
<1>1. /\ status[m] \in {"available", "reserved", "finished"} /\ q <= onHand[m]
      /\ status' = [status EXCEPT ![m] = Spent(m, q)]
      /\ used' = [used EXCEPT ![m] = @ + q]
      /\ onHand[m] \in Int /\ used[m] \in Nat
  BY DEF UseFor, TypeOK
<1>2. Spent(m, q) \in {status[m], "consumed"} /\ (onHand[m] <= q => Spent(m, q) = "consumed")
  BY <1>1 DEF Spent
<1>3. Spent(m, q) \in Statuses
  BY <1>1, <1>2 DEF Statuses
<1> QED BY <1>1, <1>2, <1>3 DEF TypeOK

\* Pieces are taken from one location.
LEMMA ConsumeKept ==
    ASSUME StockInv, NEW m \in MaterialLots, NEW l \in Locations, NEW q \in Quantities(m),
           NEW forWip \in BOOLEAN, Consume(m, l, q, forWip)
    PROVE  StockInv'
<1>1. TypeOK /\ LotOK(m) /\ Exists(m) /\ q \in Nat /\ q >= 1 /\ (m \in unitTracked => q = 1)
  BY QuantitiesOf DEF StockInv, Consume
<1>2. /\ q <= balance[m][l]
      /\ UNCHANGED <<unitTracked, fixed, open, received, edited>>
  BY DEF Consume
<1>3. /\ balance[m] \in Shelves /\ Total(balance[m]) \in Int /\ Total(ledger[m]) \in Int
      /\ used[m] \in Nat /\ onHand[m] \in Int
      /\ \A k \in Locations : balance[m][k] \in Int
  BY <1>1, LotTypes
<1> DEFINE v == balance[m][l] - q
<1>4. v \in Int /\ v - balance[m][l] = 0 - q /\ balance[m][l] - v = q
  BY <1>1, <1>3
<1>5. SetBalances(m, [balance[m] EXCEPT ![l] = v]) /\ Record(m, l, Nowhere, balance[m][l] - v)
  BY <1>4 DEF Consume
<1>6. /\ balance' \in [MaterialLots -> [Locations -> Int]]
      /\ ledger' \in [MaterialLots -> [Locations -> Int]]
      /\ onHand' \in [MaterialLots -> Int] /\ synced' = synced \cup {m}
      /\ balance'[m] = [balance[m] EXCEPT ![l] = v]
      /\ Total(balance'[m]) = Total(balance[m]) + (v - balance[m][l])
      /\ Total(ledger'[m]) = Total(ledger[m]) + (v - balance[m][l])
      /\ onHand'[m] = Total(balance'[m])
      /\ \A n \in MaterialLots \ {m} :
             /\ onHand'[n] = onHand[n] /\ balance'[n] = balance[n] /\ ledger'[n] = ledger[n]
             /\ (n \in synced') = (n \in synced)
  <2> HIDE DEF v
  <2> QED BY <1>1, <1>4, <1>5, Booked
<1>7. /\ status' \in [MaterialLots -> Statuses \cup {"absent"}] /\ used' \in [MaterialLots -> Nat]
      /\ \A n \in MaterialLots \ {m} : status'[n] = status[n] /\ used'[n] = used[n]
      /\ \/ status'[m] = status[m] /\ used'[m] = used[m]
         \/ /\ status[m] \in {"available", "reserved", "finished"}
            /\ used'[m] = used[m] + q /\ status'[m] \in {status[m], "consumed"}
            /\ onHand[m] <= q => status'[m] = "consumed"
  <2>1. CASE forWip
    <3>1. UseFor(m, q)
      BY <2>1 DEF Consume
    <3> QED BY <1>1, <3>1, Use
  <2>2. CASE ~forWip
    BY <1>1, <2>2 DEF Consume, TypeOK
  <2> QED BY <2>1, <2>2
<1>8. TypeOK'
  <2>1. synced' \subseteq MaterialLots
    BY <1>1, <1>6 DEF TypeOK
  <2> QED BY <1>1, <1>2, <1>6, <1>7, <2>1 DEF TypeOK
<1>9. \A n \in MaterialLots \ {m} : Alike(n)
  BY <1>2, <1>6, <1>7 DEF Alike
<1>10. LotOK(m)'
  <2>1. Total(balance'[m]) = Total(balance[m]) - q /\ Total(ledger'[m]) = Total(ledger[m]) - q
    BY <1>1, <1>3, <1>4, <1>6
  <2>2. Untouched(m)' => UnitOK(m)'
    <3> SUFFICES ASSUME Untouched(m)' PROVE UnitOK(m)'
      OBVIOUS
    <3>1. Untouched(m) /\ UnitOK(m) /\ q = 1
      BY <1>1, <1>2 DEF Untouched, LotOK
    <3>2. Total(balance[m]) >= 1 /\ Total(balance[m]) <= 1
      <4>1. balance[m][l] \in {0, 1} /\ Total(balance[m]) \in Nat
            /\ (Total(balance[m]) = 0 => balance[m] = Empty) /\ Total(balance[m]) <= 1
        BY <1>3, <3>1, OnePiece DEF UnitOK
      <4>2. balance[m] # Empty
        BY <1>1, <1>2 DEF Empty
      <4> QED BY <4>1, <4>2
    <3>3. \A k \in Locations : balance'[m][k] >= 0
      BY <1>1, <1>2, <1>3, <1>6, <3>1 DEF UnitOK, Shelves
    <3>4. Total(balance'[m]) = 0 /\ onHand'[m] = 0
      BY <1>3, <1>6, <2>1, <3>1, <3>2
    <3>5. used'[m] <= 1 /\ (used'[m] > 0 => status'[m] = "consumed")
      BY <1>3, <1>7, <3>1 DEF UnitOK
    <3> QED BY <3>3, <3>4, <3>5 DEF UnitOK
  <2>3. Total(ledger'[m]) - Total(balance'[m]) <= used'[m]
    BY <1>1, <1>3, <1>7, <2>1 DEF LotOK
  <2>4. Exists(m)'
    BY <1>1, <1>7 DEF Exists
  <2> QED BY <1>6, <2>2, <2>3, <2>4 DEF LotOK
<1> QED BY <1>8, <1>9, <1>10, OneLot

\* The material endpoint takes the pieces from the lot first and then from the locations.
LEMMA ConsumeLotKept ==
    ASSUME StockInv, NEW m \in MaterialLots, NEW q \in Quantities(m), ConsumeLot(m, q)
    PROVE  StockInv'
<1>1. TypeOK /\ LotOK(m) /\ Exists(m) /\ q \in Nat /\ q >= 1 /\ (m \in unitTracked => q = 1)
  BY QuantitiesOf DEF StockInv, ConsumeLot
<1>2. /\ onHand' = [onHand EXCEPT ![m] = @ - q] /\ UseFor(m, q)
      /\ UNCHANGED <<unitTracked, fixed, ledger, open, received, synced, edited>>
  BY DEF ConsumeLot
<1>3. /\ balance[m] \in Shelves /\ Total(balance[m]) \in Int /\ Total(ledger[m]) \in Int
      /\ used[m] \in Nat /\ onHand[m] \in Int
      /\ \A k \in Locations : balance[m][k] \in Int
  BY <1>1, LotTypes
<1>4. PICK t \in Takings(m, q) :
          balance' = [balance EXCEPT ![m] = [l \in Locations |-> balance[m][l] - t[l]]]
  BY <1>1 DEF ConsumeLot, TypeOK
<1> DEFINE c == [l \in Locations |-> balance[m][l] - t[l]]
<1>5. /\ c \in Shelves /\ \A l \in Locations : balance[m][l] >= 0 => c[l] >= 0
      /\ Total(c) >= Total(balance[m]) - q
      /\ Total(balance[m]) >= q => Total(c) = Total(balance[m]) - q
      /\ (\A l \in Locations : balance[m][l] >= 0) =>
            Total(c) = IF Total(balance[m]) >= q THEN Total(balance[m]) - q ELSE 0
  BY <1>1, <1>3, TakenFromShelves
<1> HIDE DEF c
<1>6. /\ balance' = [balance EXCEPT ![m] = c] /\ Total(c) \in Int
  BY <1>4, <1>5, TotalIsInt DEF c
<1>7. balance'[m] = c /\ balance' \in [MaterialLots -> [Locations -> Int]]
  BY <1>1, <1>5, <1>6 DEF TypeOK, Shelves
<1>8. /\ status' \in [MaterialLots -> Statuses \cup {"absent"}] /\ used' \in [MaterialLots -> Nat]
      /\ status[m] \in {"available", "reserved", "finished"} /\ q <= onHand[m]
      /\ used'[m] = used[m] + q
      /\ status'[m] \in {status[m], "consumed"}
      /\ onHand[m] <= q => status'[m] = "consumed"
      /\ \A n \in MaterialLots \ {m} : status'[n] = status[n] /\ used'[n] = used[n]
  BY <1>1, <1>2, Use
<1>9. onHand'[m] = onHand[m] - q /\ onHand' \in [MaterialLots -> Int]
  BY <1>1, <1>2, <1>3 DEF TypeOK
<1>10. TypeOK'
  BY <1>1, <1>2, <1>7, <1>8, <1>9 DEF TypeOK
<1>11. \A n \in MaterialLots \ {m} : Alike(n)
  BY <1>1, <1>2, <1>6, <1>8 DEF Alike, TypeOK
<1>12. LotOK(m)'
  <2>1. m \in synced' => onHand'[m] = Total(balance'[m])
    BY <1>1, <1>2, <1>3, <1>5, <1>7, <1>8, <1>9 DEF LotOK
  <2>2. Total(ledger'[m]) - Total(balance'[m]) <= used'[m]
    BY <1>1, <1>2, <1>3, <1>5, <1>6, <1>7, <1>8 DEF LotOK
  <2>3. Untouched(m)' => UnitOK(m)'
    <3> SUFFICES ASSUME Untouched(m)' PROVE UnitOK(m)'
      OBVIOUS
    <3>1. Untouched(m) /\ UnitOK(m) /\ q = 1
      BY <1>1, <1>2 DEF Untouched, LotOK
    <3>2. /\ \A l \in Locations : balance[m][l] >= 0
          /\ Total(balance[m]) <= 1 /\ onHand[m] <= 1 /\ used[m] <= 1
          /\ used[m] > 0 => status[m] = "consumed"
      BY <3>1 DEF UnitOK
    <3>3. Total(balance'[m]) = 0
      <4>1. Total(c) = IF Total(balance[m]) >= 1 THEN Total(balance[m]) - 1 ELSE 0
        BY <1>5, <3>1, <3>2
      <4> QED BY <1>3, <1>7, <3>2, <4>1
    <3>4. \A l \in Locations : balance'[m][l] >= 0
      BY <1>5, <1>7, <3>2
    <3>5. used[m] = 0 /\ used'[m] = 1 /\ status'[m] = "consumed" /\ onHand'[m] <= 1
      BY <1>3, <1>8, <1>9, <3>1, <3>2
    <3> QED BY <3>3, <3>4, <3>5 DEF UnitOK
  <2>4. Exists(m)'
    BY <1>1, <1>8 DEF Exists
  <2> QED BY <2>1, <2>2, <2>3, <2>4 DEF LotOK
<1> QED BY <1>10, <1>11, <1>12, OneLot

\* A location is emptied.
LEMMA ShipKept ==
    ASSUME StockInv, NEW m \in MaterialLots, NEW l \in Locations, Ship(m, l)
    PROVE  StockInv'
<1>1. TypeOK /\ LotOK(m) /\ Exists(m)
  BY DEF StockInv, Ship, Exists
<1>2. /\ status[m] = "finished" /\ balance[m][l] > 0
      /\ status' = [status EXCEPT ![m] =
                    IF Total([balance[m] EXCEPT ![l] = 0]) <= 0 THEN "shipped" ELSE "finished"]
      /\ UNCHANGED <<unitTracked, fixed, used, open, received, edited>>
  BY <1>1 DEF Ship, TypeOK
<1>3. /\ balance[m] \in Shelves /\ Total(balance[m]) \in Int /\ Total(ledger[m]) \in Int
      /\ used[m] \in Nat
      /\ \A k \in Locations : balance[m][k] \in Int
  BY <1>1, LotTypes
<1>4. balance[m][l] - 0 = balance[m][l] /\ 0 \in Int
  BY <1>3
<1>5. SetBalances(m, [balance[m] EXCEPT ![l] = 0]) /\ Record(m, l, Nowhere, balance[m][l] - 0)
  BY <1>4 DEF Ship
<1>6. /\ balance' \in [MaterialLots -> [Locations -> Int]]
      /\ ledger' \in [MaterialLots -> [Locations -> Int]]
      /\ onHand' \in [MaterialLots -> Int] /\ synced' = synced \cup {m}
      /\ balance'[m] = [balance[m] EXCEPT ![l] = 0]
      /\ Total(balance'[m]) = Total(balance[m]) + (0 - balance[m][l])
      /\ Total(ledger'[m]) = Total(ledger[m]) + (0 - balance[m][l])
      /\ onHand'[m] = Total(balance'[m])
      /\ \A n \in MaterialLots \ {m} :
             /\ onHand'[n] = onHand[n] /\ balance'[n] = balance[n] /\ ledger'[n] = ledger[n]
             /\ (n \in synced') = (n \in synced)
  BY <1>1, <1>4, <1>5, Booked
<1>7. /\ status' \in [MaterialLots -> Statuses \cup {"absent"}]
      /\ status'[m] \in {"finished", "shipped"}
      /\ \A n \in MaterialLots \ {m} : status'[n] = status[n]
  BY <1>1, <1>2 DEF TypeOK, Statuses
<1>8. TypeOK'
  <2>1. synced' \subseteq MaterialLots
    BY <1>1, <1>6 DEF TypeOK
  <2> QED BY <1>1, <1>2, <1>6, <1>7, <2>1 DEF TypeOK
<1>9. \A n \in MaterialLots \ {m} : Alike(n)
  BY <1>2, <1>6, <1>7 DEF Alike
<1>10. LotOK(m)'
  <2>1. Untouched(m)' => UnitOK(m)'
    <3> SUFFICES ASSUME Untouched(m)' PROVE UnitOK(m)'
      OBVIOUS
    <3>1. Untouched(m) /\ UnitOK(m)
      BY <1>1, <1>2 DEF Untouched, LotOK
    <3>2. balance[m][l] = 1 /\ Total(balance[m]) = 1
      <4>1. balance[m][l] \in {0, 1} /\ Total(balance[m]) \in Nat
            /\ (Total(balance[m]) = 0 => balance[m] = Empty) /\ Total(balance[m]) <= 1
        BY <1>3, <3>1, OnePiece DEF UnitOK
      <4>2. balance[m] # Empty
        BY <1>2 DEF Empty
      <4> QED BY <1>2, <4>1, <4>2
    <3>3. \A k \in Locations : balance'[m][k] >= 0
      BY <1>3, <1>6, <3>1 DEF UnitOK, Shelves
    <3>4. Total(balance'[m]) = 0 /\ onHand'[m] = 0
      BY <1>6, <3>2
    <3>5. used'[m] = 0
      BY <1>2, <1>3, <3>1 DEF UnitOK
    <3> QED BY <3>3, <3>4, <3>5 DEF UnitOK
  <2>2. Total(ledger'[m]) - Total(balance'[m]) <= used'[m]
    BY <1>1, <1>2, <1>3, <1>6 DEF LotOK
  <2> QED BY <1>6, <1>7, <2>1, <2>2 DEF LotOK, Exists
<1> QED BY <1>8, <1>9, <1>10, OneLot

\* A balance is set to what was counted; never that of a unit.
LEMMA AdjustKept ==
    ASSUME StockInv, NEW m \in MaterialLots, NEW l \in Locations, NEW q \in Counts,
           Adjust(m, l, q)
    PROVE  StockInv'
<1>1. TypeOK /\ LotOK(m) /\ Exists(m) /\ m \notin unitTracked /\ q \in Int
  BY InventoryAssumption DEF StockInv, Adjust
<1>2. UNCHANGED <<status, unitTracked, fixed, used, open, received, edited>>
  BY DEF Adjust
<1>3. /\ Total(balance[m]) \in Int /\ Total(ledger[m]) \in Int
      /\ used[m] \in Nat /\ balance[m][l] \in Int
  BY <1>1, LotTypes
<1>4. /\ SetBalances(m, [balance[m] EXCEPT ![l] = q])
      /\ Record(m, Nowhere, l, q - balance[m][l]) \/ Record(m, l, Nowhere, balance[m][l] - q)
  BY DEF Adjust
<1>5. /\ balance' \in [MaterialLots -> [Locations -> Int]]
      /\ ledger' \in [MaterialLots -> [Locations -> Int]]
      /\ onHand' \in [MaterialLots -> Int] /\ synced' = synced \cup {m}
      /\ Total(balance'[m]) = Total(balance[m]) + (q - balance[m][l])
      /\ Total(ledger'[m]) = Total(ledger[m]) + (q - balance[m][l])
      /\ onHand'[m] = Total(balance'[m])
      /\ \A n \in MaterialLots \ {m} :
             /\ onHand'[n] = onHand[n] /\ balance'[n] = balance[n] /\ ledger'[n] = ledger[n]
             /\ (n \in synced') = (n \in synced)
  BY <1>1, <1>4, Booked
<1>6. TypeOK'
  <2>1. synced' \subseteq MaterialLots
    BY <1>1, <1>5 DEF TypeOK
  <2> QED BY <1>1, <1>2, <1>5, <2>1 DEF TypeOK
<1>7. \A n \in MaterialLots \ {m} : Alike(n)
  BY <1>2, <1>5 DEF Alike
<1>8. LotOK(m)'
  <2>1. Total(ledger'[m]) - Total(balance'[m]) <= used'[m]
    BY <1>1, <1>2, <1>3, <1>5 DEF LotOK
  <2> QED BY <1>1, <1>2, <1>5, <2>1 DEF LotOK, Exists, Untouched
<1> QED BY <1>6, <1>7, <1>8, OneLot

\* Nothing was inserted yet.
LEMMA StockBegins == Init => StockInv
<1> SUFFICES ASSUME Init PROVE StockInv
  OBVIOUS
<1>1. Empty \in [Locations -> Int] /\ Total(Empty) = 0
  BY TotalOfEmpty DEF Shelves
<1>2. TypeOK
  BY <1>1 DEF Init, TypeOK
<1>3. ASSUME NEW m \in MaterialLots PROVE LotOK(m)
  BY <1>1 DEF Init, LotOK, Blank, Untouched
<1> QED BY <1>2, <1>3 DEF StockInv

\* Every request keeps the invariant.
LEMMA StockSteps == StockInv /\ [Next]_vars => StockInv'
<1> SUFFICES ASSUME StockInv, [Next]_vars PROVE StockInv'
  OBVIOUS
<1>1. ASSUME NEW m \in MaterialLots, LotNext(m) PROVE StockInv'
  <2>1. CASE \E b \in BOOLEAN, q \in 0..MaxQuantity : CreateLot(m, b, q)
    <3>1. PICK b \in BOOLEAN, q \in 0..MaxQuantity : CreateLot(m, b, q)
      BY <2>1
    <3> QED BY <3>1, CreateKept
  <2>2. CASE \E b \in BOOLEAN, l \in Locations, q \in 1..MaxQuantity \cup Counts :
                 TransferIn(m, b, l, q)
    <3>1. PICK b \in BOOLEAN, l \in Locations, q \in 1..MaxQuantity \cup Counts :
                 TransferIn(m, b, l, q)
      BY <2>2
    <3>2. q \in Int
      BY InventoryAssumption
    <3> QED BY <3>1, <3>2, TransferInKept
  <2>3. CASE \/ \E q \in Counts : EditQuantity(m, q)
             \/ \E s \in Statuses : EditStatus(m, s)
             \/ EditTracking(m)
    BY <2>3, EditKept
  <2>4. CASE \E l \in Locations, q \in Quantities(m) : Receive(m, l, q)
    BY <2>4, ReceiveKept
  <2>5. CASE \E k, l \in Locations, q \in Quantities(m) : Transfer(m, k, l, q)
    BY <2>5, TransferKept
  <2>6. CASE \E l \in Locations, q \in Quantities(m), b \in BOOLEAN : Consume(m, l, q, b)
    BY <2>6, ConsumeKept
  <2>7. CASE \E q \in Quantities(m) : ConsumeLot(m, q)
    BY <2>7, ConsumeLotKept
  <2>8. CASE \E l \in Locations : Ship(m, l)
    BY <2>8, ShipKept
  <2>9. CASE \E l \in Locations, q \in Counts : Adjust(m, l, q)
    BY <2>9, AdjustKept
  <2> QED BY <1>1, <2>1, <2>2, <2>3, <2>4, <2>5, <2>6, <2>7, <2>8, <2>9 DEF LotNext
<1>2. ASSUME NEW l \in Locations, DeleteLocation(l) PROVE StockInv'
  <2>1. open' \subseteq Locations
    BY <1>2 DEF DeleteLocation, StockInv, TypeOK
  <2>2. UNCHANGED <<status, unitTracked, fixed, onHand, balance, ledger, used, received, synced, edited>>
    BY <1>2 DEF DeleteLocation
  <2>3. TypeOK'
    BY <2>1, <2>2 DEF StockInv, TypeOK
  <2>4. ASSUME NEW m \in MaterialLots PROVE LotOK(m)'
    BY <2>2 DEF StockInv, LotOK, Exists, Blank, Untouched, UnitOK
  <2> QED BY <2>3, <2>4 DEF StockInv
<1>3. CASE UNCHANGED vars
  BY <1>3 DEF vars, StockInv, TypeOK, LotOK, Exists, Blank, Untouched, UnitOK
<1> QED BY <1>1, <1>2, <1>3 DEF Next

\* Every reachable state is well typed, and what is said of one lot holds of every lot.
THEOREM StockIsInductive == Spec => []StockInv
BY StockBegins, StockSteps, PTL DEF Spec

\* The on-hand quantity of a lot, once set from its balances, is their sum through every
\* later movement and both ways to consume (sync_lot_total, MaterialLotService.consume),
\* until an operator overwrites it.
THEOREM TotalsAgree == Spec => []LotTotalsAgree
<1>1. StockInv => LotTotalsAgree
  BY DEF StockInv, LotOK, LotTotalsAgree, TypeOK
<1> QED BY <1>1, StockIsInductive, PTL

\* A unit nobody edited is at one location at most, at none once it is gone, and is built
\* into one item at most (_is_unit_in_stock and the checks of consume).
LEMMA UnitOnce == StockInv => UnitsExistOnce
<1> SUFFICES ASSUME StockInv, NEW m \in MaterialLots, Untouched(m)
             PROVE  /\ \A l \in Locations : balance[m][l] \in {0, 1}
                    /\ \A k, l \in Locations : balance[m][k] = 1 /\ balance[m][l] = 1 => k = l
                    /\ status[m] \in {"consumed", "shipped"} => balance[m] = Empty
                    /\ used[m] <= 1
  BY DEF UnitsExistOnce
<1>1. UnitOK(m) /\ balance[m] \in Shelves
  BY LotTypes DEF StockInv, LotOK
<1>2. /\ \A l \in Locations : balance[m][l] \in {0, 1}
      /\ \A k, l \in Locations : balance[m][k] = 1 /\ balance[m][l] = 1 => k = l
      /\ Total(balance[m]) = 0 => balance[m] = Empty
  BY <1>1, OnePiece DEF UnitOK
<1> QED BY <1>1, <1>2 DEF UnitOK

\* A unit nobody edited exists once, for any lots, locations and sequence of requests.
THEOREM UnitsOnce == Spec => []UnitsExistOnce
BY UnitOnce, StockIsInductive, PTL

\* What the locations hold less than the transactions say is in the genealogy: the
\* material endpoint (core/material/service.py), which enters no transaction, enters that.
THEOREM ShortagesAreRecorded == Spec => []ShortagesAreUse
<1>1. StockInv => ShortagesAreUse
  BY DEF StockInv, LotOK, ShortagesAreUse
<1> QED BY <1>1, StockIsInductive, PTL

\* A unit that was used or shipped has no way back but an edit by hand.
THEOREM GoneUnitsStay == Spec => GoneForGood
<1> DEFINE Stays == \A m \in MaterialLots :
          Untouched(m) /\ m \notin edited' /\ status[m] \in {"consumed", "shipped"}
              => status'[m] = status[m] /\ balance'[m] = Empty
<1>1. StockInv /\ UnitsExistOnce /\ UnitsExistOnce' /\ [Next]_vars => Stays
  <2> SUFFICES ASSUME StockInv, UnitsExistOnce', Next, NEW m \in MaterialLots,
                      Untouched(m), m \notin edited', status[m] \in {"consumed", "shipped"}
               PROVE  status'[m] = status[m] /\ balance'[m] = Empty
    <3>1. ASSUME UnitsExistOnce, UNCHANGED vars PROVE Stays
      BY <3>1 DEF vars, UnitsExistOnce
    <3> QED BY <3>1
  <2>1. TypeOK
    BY DEF StockInv
  <2>2. status'[m] = status[m] /\ (m \in unitTracked')
    <3>1. ASSUME NEW n \in MaterialLots, LotNext(n) PROVE status'[m] = status[m] /\ (m \in unitTracked')
      <4>1. CASE \E b \in BOOLEAN, q \in 0..MaxQuantity : CreateLot(n, b, q)
        BY <2>1, <4>1 DEF CreateLot, Exists, TypeOK, Untouched
      <4>2. CASE \E b \in BOOLEAN, l \in Locations, q \in 1..MaxQuantity \cup Counts :
                     TransferIn(n, b, l, q)
        BY <2>1, <4>2 DEF TransferIn, Exists, TypeOK, Untouched
      <4>3. CASE \E q \in Counts : EditQuantity(n, q)
        BY <4>3 DEF EditQuantity, Untouched
      <4>4. CASE \E s \in Statuses : EditStatus(n, s)
        <5>1. PICK s \in Statuses : EditStatus(n, s)
          BY <4>4
        <5>2. n # m
          BY <5>1 DEF EditStatus
        <5> QED BY <2>1, <5>1, <5>2 DEF EditStatus, TypeOK, Untouched
      <4>5. CASE EditTracking(n)
        BY <4>5 DEF EditTracking, Untouched
      <4>6. CASE \E l \in Locations, q \in Quantities(n) : Receive(n, l, q)
        BY <4>6 DEF Receive, Untouched
      <4>7. CASE \E k, l \in Locations, q \in Quantities(n) : Transfer(n, k, l, q)
        BY <4>7 DEF Transfer, Untouched
      <4>8. ASSUME NEW q, UseFor(n, q) PROVE status'[m] = status[m]
        BY <2>1, <4>8 DEF UseFor, TypeOK
      <4>9. CASE \E l \in Locations, q \in Quantities(n), b \in BOOLEAN : Consume(n, l, q, b)
        <5>1. PICK l \in Locations, q \in Quantities(n), b \in BOOLEAN : Consume(n, l, q, b)
          BY <4>9
        <5>2. unitTracked' = unitTracked /\ (UseFor(n, q) \/ status' = status)
          BY <5>1 DEF Consume
        <5> QED BY <4>8, <5>2 DEF Untouched
      <4>10. CASE \E q \in Quantities(n) : ConsumeLot(n, q)
        BY <4>8, <4>10 DEF ConsumeLot, Untouched
      <4>11. CASE \E l \in Locations : Ship(n, l)
        BY <2>1, <4>11 DEF Ship, TypeOK, Untouched
      <4>12. CASE \E l \in Locations, q \in Counts : Adjust(n, l, q)
        BY <4>12 DEF Adjust, Untouched
      <4> QED BY <3>1, <4>1, <4>2, <4>3, <4>4, <4>5, <4>6, <4>7, <4>9, <4>10, <4>11, <4>12 DEF LotNext
    <3>2. ASSUME NEW l \in Locations, DeleteLocation(l)
          PROVE  status'[m] = status[m] /\ (m \in unitTracked')
      BY <3>2 DEF DeleteLocation, Untouched
    <3> QED BY <3>1, <3>2 DEF Next
  <2>3. Untouched(m)'
    BY <2>2 DEF Untouched
  <2> QED BY <2>2, <2>3 DEF UnitsExistOnce
<1>2. StockInv /\ UnitsExistOnce /\ UnitsExistOnce' /\ [Next]_vars => [Stays]_vars
  BY <1>1
<1>3. Spec => [][Stays]_vars
  <2> HIDE DEF Stays
  <2> QED BY <1>2, StockIsInductive, UnitsOnce, PTL DEF Spec
<1> QED BY <1>3 DEF GoneForGood
==============================================================================
