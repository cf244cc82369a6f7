---------------------------- MODULE OrderRequests ----------------------------
(***************************************************************************)
(* The requests of Wip as the database sees them: transactions that        *)
(* interleave.  A request runs in a session of its own, at READ COMMITTED, *)
(* and takes no row lock when it reads.  It keeps the values it read (the  *)
(* session does not refresh a row it has loaded), decides on them, and     *)
(* flushes: an UPDATE waits for the row's lock and holds it to the end,    *)
(* and writes what was computed from the values read, whatever the row     *)
(* holds by then.  Commit makes the writes visible; an exception, or a     *)
(* lost connection, rolls them back.                                       *)
(***************************************************************************)
EXTENDS Naturals, FiniteSets

CONSTANTS
    Requests,    \* requests that may be made, each in a session of its own
    Units,       \* unit rows that may exist
    Orders,      \* operations requests
    Home,        \* the order of each unit
    Nobody       \* the holder of a row lock that is free

ASSUME RequestAssumption ==
    /\ Home \in [Units -> Orders]
    /\ Units \cap Orders = {}
    /\ Nobody \notin Requests
    /\ IsFiniteSet(Requests) /\ IsFiniteSet(Units)

VARIABLES
    unitStatus,   \* units.status, as committed
    orderStatus,  \* operations_requests.status, as committed
    count,        \* its quantity_completed and quantity_scrapped
    op,           \* what each request was asked to do
    about,        \* the unit, or for "close" the order, it is about
    pc,           \* where each request is
    seenStatus,   \* the unit's status as the request read it
    seenCount,    \* the order's counters as the request read them
    lock,         \* the request that has written a row and not ended yet
    overlapped,   \* ghost: requests in flight together with another on their order
    settled       \* ghost: committed requests that settled a unit

orderRows == <<unitStatus, orderStatus, count>>
sessionSeen == <<seenStatus, seenCount>>
sessionAsked == <<op, about>>
orderVars == <<unitStatus, orderStatus, count, op, about, pc,
               seenStatus, seenCount, lock, overlapped, settled>>

Counters      == {"completed", "scrapped"}
UnitOps       == Counters \cup {"on_hold"}
UnitStatuses  == {"absent", "queued", "on_hold"} \cup Counters
OrderStatuses == {"released", "in_progress", "closed"}
Stages == {"idle", "insert", "read_order", "flush_unit", "flush_order", "commit", "done"}

OrdersTypeOK ==
    /\ unitStatus \in [Units -> UnitStatuses]
    /\ orderStatus \in [Orders -> OrderStatuses]
    /\ count \in [Orders -> [Counters -> Nat]]
    /\ op \in [Requests -> UnitOps \cup {"none", "create", "close"}]
    /\ about \in [Requests -> Units \cup Orders \cup {Nobody}]
    /\ pc \in [Requests -> Stages]
    /\ seenStatus \in [Requests -> UnitStatuses]
    /\ seenCount \in [Requests -> [Counters -> Nat]]
    /\ lock \in [Units \cup Orders -> Requests \cup {Nobody}]
    /\ overlapped \subseteq Requests
    /\ settled \subseteq Requests

Zero == [c \in Counters |-> 0]

\* Some units were created before, which made their orders be in progress.
OrdersInit ==
    /\ unitStatus \in [Units -> {"absent", "queued"}]
    /\ orderStatus = [o \in Orders |->
          IF \E u \in Units : Home[u] = o /\ unitStatus[u] = "queued"
          THEN "in_progress" ELSE "released"]
    /\ count = [o \in Orders |-> Zero]
    /\ op = [r \in Requests |-> "none"]
    /\ about = [r \in Requests |-> Nobody]
    /\ pc = [r \in Requests |-> "idle"]
    /\ seenStatus = [r \in Requests |-> "absent"]
    /\ seenCount = [r \in Requests |-> Zero]
    /\ lock = [x \in Units \cup Orders |-> Nobody]
    /\ overlapped = {}
    /\ settled = {}

-----------------------------------------------------------------------------
OrderAt(x) == IF x \in Orders THEN x ELSE Home[x]

OrderOf(r) == OrderAt(about[r])

InFlight == {r \in Requests : pc[r] \notin {"idle", "done"}}

OnOrder(o) == {r \in InFlight : OrderOf(r) = o}

\* The status an operation gives its unit.
Target(o) == IF o = "create" THEN "queued" ELSE o

\* Mutant of Admits: the scrap does not look for a completed unit.
AdmitsScrapOfCompleted(o, s) ==
    CASE o = "completed" -> s = "queued"
      [] o = "scrapped"  -> s \notin {"absent", "scrapped"}
      [] o = "on_hold"   -> s \notin Counters \cup {"absent"}

\* The statuses a move, a scrap and a hold start from.
Admits(o, s) ==
    CASE o = "completed" -> s = "queued"
      [] o = "scrapped"  -> s \notin Counters \cup {"absent"}
      [] o = "on_hold"   -> s \notin Counters \cup {"absent"}

\* A request arrives: the ghost notes whom it runs together with.
Arrive(r, o, x) ==
    /\ pc[r] = "idle"
    /\ op' = [op EXCEPT ![r] = o]
    /\ about' = [about EXCEPT ![r] = x]
    /\ LET others == OnOrder(OrderAt(x))
       IN  overlapped' = IF others = {} THEN overlapped ELSE overlapped \cup others \cup {r}

\* get_unit, first query: the unit.
ReadUnit(r, o, u) ==
    /\ unitStatus[u] # "absent"
    /\ Arrive(r, o, u)
    /\ seenStatus' = [seenStatus EXCEPT ![r] = unitStatus[u]]
    /\ pc' = [pc EXCEPT ![r] = "read_order"]
    /\ UNCHANGED <<orderRows, seenCount, lock, settled>>

\* create_unit, first query: the serial number is not taken.
CheckSerial(r, u) ==
    /\ unitStatus[u] = "absent"
    /\ Arrive(r, "create", u)
    /\ pc' = [pc EXCEPT ![r] = "insert"]
    /\ UNCHANGED <<orderRows, sessionSeen, lock, settled>>

\* close_order.
AskToClose(r, o) ==
    /\ Arrive(r, "close", o)
    /\ pc' = [pc EXCEPT ![r] = "read_order"]
    /\ UNCHANGED <<orderRows, sessionSeen, lock, settled>>

\* The INSERT of a serial number waits for one that is not committed yet, and
\* raises if it is.
Insert(r) ==
    /\ pc[r] = "insert"
    /\ lock[about[r]] = Nobody
    /\ unitStatus[about[r]] = "absent"
    /\ lock' = [lock EXCEPT ![about[r]] = r]
    /\ pc' = [pc EXCEPT ![r] = "read_order"]
    /\ UNCHANGED <<orderRows, sessionAsked, sessionSeen, overlapped, settled>>

\* Mutant of Checked: units are created for closed orders too.
CheckedWithoutOrder(r) ==
    CASE op[r] = "create" ->
           IF orderStatus[OrderOf(r)] = "in_progress" THEN "commit" ELSE "flush_order"
      [] op[r] = "close" ->
           IF orderStatus[OrderOf(r)] = "closed" THEN "done" ELSE "flush_order"
      [] OTHER ->
           IF ~Admits(op[r], seenStatus[r]) THEN "done"
           ELSE IF seenStatus[r] = op[r] THEN "commit"
           ELSE "flush_unit"

\* Where a request goes when it has read its order: a guard that fails ends it
\* ("done"), a row that would not change is not written.
Checked(r) ==
    CASE op[r] = "create" ->
           (CASE orderStatus[OrderOf(r)] = "in_progress" -> "commit"
              [] orderStatus[OrderOf(r)] = "released"    -> "flush_order"
              [] orderStatus[OrderOf(r)] = "closed"      -> "done")
      [] op[r] = "close" ->
           IF orderStatus[OrderOf(r)] = "closed" THEN "done" ELSE "flush_order"
      [] OTHER ->
           IF ~Admits(op[r], seenStatus[r]) THEN "done"
           ELSE IF seenStatus[r] = op[r] THEN "commit"
           ELSE "flush_unit"

\* The end of a session: its locks are free, the rows it loaded forgotten.
EndSession(r) ==
    /\ lock' = [x \in DOMAIN lock |-> IF lock[x] = r THEN Nobody ELSE lock[x]]
    /\ seenStatus' = [seenStatus EXCEPT ![r] = "absent"]
    /\ seenCount' = [seenCount EXCEPT ![r] = Zero]
    /\ pc' = [pc EXCEPT ![r] = "done"]

\* The order's row: loaded with the unit by get_unit, by start_order after the
\* insert, or by close_order.
ReadOrder(r) ==
    /\ pc[r] = "read_order"
    /\ \/ /\ Checked(r) = "done"
          /\ EndSession(r)
       \/ /\ Checked(r) # "done"
          /\ pc' = [pc EXCEPT ![r] = Checked(r)]
          /\ seenCount' = [seenCount EXCEPT ![r] = count[OrderOf(r)]]
          /\ UNCHANGED <<seenStatus, lock>>
    /\ UNCHANGED <<orderRows, sessionAsked, overlapped, settled>>

\* UPDATE units SET status.
FlushUnit(r) ==
    /\ pc[r] = "flush_unit"
    /\ lock[about[r]] = Nobody
    /\ lock' = [lock EXCEPT ![about[r]] = r]
    /\ pc' = [pc EXCEPT ![r] = IF op[r] \in Counters THEN "flush_order" ELSE "commit"]
    /\ UNCHANGED <<orderRows, sessionAsked, sessionSeen, overlapped, settled>>

\* UPDATE operations_requests: the status, or the counter read plus one.
FlushOrder(r) ==
    /\ pc[r] = "flush_order"
    /\ lock[OrderOf(r)] = Nobody
    /\ lock' = [lock EXCEPT ![OrderOf(r)] = r]
    /\ pc' = [pc EXCEPT ![r] = "commit"]
    /\ UNCHANGED <<orderRows, sessionAsked, sessionSeen, overlapped, settled>>

\* The rows written become visible, with the columns that were written.
Commit(r) ==
    /\ pc[r] = "commit"
    /\ unitStatus' = [u \in Units |-> IF lock[u] = r THEN Target(op[r]) ELSE unitStatus[u]]
    /\ orderStatus' = [o \in Orders |->
          IF lock[o] # r THEN orderStatus[o]
          ELSE CASE op[r] = "create" -> "in_progress"
                 [] op[r] = "close"  -> "closed"
                 [] OTHER            -> orderStatus[o]]
    /\ count' = [o \in Orders |->
          IF lock[o] = r /\ op[r] \in Counters
          THEN [count[o] EXCEPT ![op[r]] = seenCount[r][op[r]] + 1]
          ELSE count[o]]
    /\ settled' = IF op[r] \in Counters THEN settled \cup {r} ELSE settled
    /\ EndSession(r)
    /\ UNCHANGED <<sessionAsked, overlapped>>

\* Mutant of Rollback: the transaction of a failed request stays open.
RollbackWithoutRelease(r) ==
    /\ r \in InFlight
    /\ pc' = [pc EXCEPT ![r] = "done"]
    /\ UNCHANGED <<orderRows, sessionAsked, sessionSeen, lock, overlapped, settled>>

\* An exception anywhere before the commit, or a client or server that is gone.
Rollback(r) ==
    /\ r \in InFlight
    /\ EndSession(r)
    /\ UNCHANGED <<orderRows, sessionAsked, overlapped, settled>>

\* The INSERT of a serial number committed in the meantime.
DuplicateSerial(r) ==
    /\ pc[r] = "insert"
    /\ lock[about[r]] = Nobody
    /\ unitStatus[about[r]] # "absent"
    /\ Rollback(r)

-----------------------------------------------------------------------------
Ask(r) ==
    \/ \E o \in UnitOps, u \in Units : ReadUnit(r, o, u)
    \/ \E u \in Units : CheckSerial(r, u)
    \/ \E o \in Orders : AskToClose(r, o)

Proceed(r) ==
    \/ Insert(r)
    \/ DuplicateSerial(r)
    \/ ReadOrder(r)
    \/ FlushUnit(r)
    \/ FlushOrder(r)
    \/ Commit(r)

OrdersNext == \E r \in Requests : Ask(r) \/ Proceed(r) \/ Rollback(r)

\* The server goes on with a request it has begun; nobody has to make one.
OrdersSpec == OrdersInit /\ [][OrdersNext]_orderVars /\ \A r \in Requests : WF_orderVars(Proceed(r))

-----------------------------------------------------------------------------
(***************************************************************************)
(* Properties.                                                             *)
(***************************************************************************)

Settling(o, c, R) == {r \in R : op[r] = c /\ OrderOf(r) = o}

Alone(o) == \A r \in overlapped : OrderOf(r) # o

\* A counter may fall behind, but only at the expense of requests that ran
\* together with another one on their order: every settlement committed alone
\* stays counted, whatever later requests wrote over it, and none is counted
\* twice.  As long as the requests on an order come one after the other, its
\* counters are the numbers of its completed and scrapped units, whatever
\* happens to other orders and however many requests fail half way.
CountersExplained ==
    \A o \in Orders, c \in Counters :
        /\ Cardinality(Settling(o, c, settled \ overlapped)) <= count[o][c]
        /\ count[o][c] <= Cardinality(Settling(o, c, settled))
        /\ Alone(o) => count[o][c] = Cardinality({u \in Units : Home[u] = o /\ unitStatus[u] = c})

\* An order whose requests come one after the other goes through the transitions of
\* ORDER_TRANSITIONS only.
OrderMoves == {<<"released", "in_progress">>, <<"released", "closed">>,
               <<"in_progress", "closed">>}

TransitionsWhenAlone ==
    [][\A o \in Orders :
          orderStatus'[o] # orderStatus[o] /\ Alone(o)
              => <<orderStatus[o], orderStatus'[o]>> \in OrderMoves]_orderVars

\* No two requests wait for each other's row locks: every request begun ends, and a
\* request is made once, so that in the end none is left.
EveryRequestEnds == <>[](InFlight = {})

\* What the docstrings of increment_completed and increment_scrapped say: they
\* increment the counter.
CountersAgree ==
    InFlight = {} =>
        \A o \in Orders, c \in Counters :
            count[o][c] = Cardinality(Settling(o, c, settled))
=============================================================================
