------------------------------ MODULE ErpInbound ------------------------------
(***************************************************************************)
(* From an order of the ERP to the pieces on the floor                     *)
(* (adapters/erp/inbound_queue.py, core/demo/order_processors.py and       *)
(* core/operations/wip_generator.py).                                      *)
(*                                                                         *)
(* A sync or a push puts a copy of an ERP order in the inbound queue.      *)
(* Every server process runs a loop that turns due copies into an order    *)
(* with its pieces, and another one that makes the pieces of orders that   *)
(* are released and have none.  A pass of either loop is one database      *)
(* session: what it writes is seen by itself at once and by everybody else *)
(* after its commit, and is lost as a whole when the session is.  Serial   *)
(* numbers and order numbers are unique in the database, so that a session *)
(* that inserts one another session has not committed yet waits for it.    *)
(*                                                                         *)
(* An order is named by its reference, a piece by its sequence number: the *)
(* processor and the generator both call it SN-<reference>-<sequence>.     *)
(***************************************************************************)
EXTENDS Naturals, FiniteSets, FiniteSetsExt

CONSTANTS
    References,     \* erp_reference, which becomes the order_number
    Syncs,          \* requests that enqueue orders
    InboundLoops,   \* one per server process, and POST /inbound/queue/process
    Generators,     \* the WIP generator loops, one per server process
    Nothing,        \* a request or a loop with nothing in hand
    Pieces,         \* quantity_ordered
    InboundAttempts,    \* max_attempts
    InboundBatch,   \* batch_size
    MaxCopies,      \* bound: copies in the queue
    MaxRequests     \* bound: copies asked for again

ASSUME ErpInboundAssumption ==
    /\ Pieces \in Nat \ {0}
    /\ InboundAttempts \in Nat \ {0} /\ InboundBatch \in Nat \ {0}
    /\ MaxCopies \in Nat /\ MaxRequests \in Nat
    /\ Nothing \notin References
    /\ InboundLoops \cap Generators = {}

Copies == 1..MaxCopies          \* in the order of their created_at
Sessions == InboundLoops \cup Generators

VARIABLES
    copyOf,     \* the reference of a copy, Nothing before its insert
    copyStatus, \* its status
    tried,      \* its attempts
    order,      \* status of the order, "none" before it is committed
    deleted,    \* the orders that were soft-deleted
    pieces,     \* the committed pieces of an order
    sync,       \* the reference a sync has found no open copy of
    todo,       \* what a session has read and has still to work on
    read,       \* the attempts an inbound loop read, per copy
    result,     \* what became of a copy, not yet committed
    looked,     \* the inbound loops about to insert an order
    serial,     \* the number a generator is about to insert for an order, 0 for none
    newOrder,   \* what a session has written of an order, uncommitted
    newPieces,  \* the pieces it has inserted, uncommitted
    raced,      \* ghost: references whose copies could be doubled
    half,       \* ghost: orders whose processor stopped between two pieces
    late,       \* ghost: orders a generator took up that had pieces already
    requests    \* bound counter

queueVars == <<copyOf, copyStatus, tried>>
orderVars == <<order, deleted, pieces>>
loopVars == <<todo, read, result, looked, serial, newOrder, newPieces>>
inboundVars == <<copyOf, copyStatus, tried, order, deleted, pieces, sync,
                 todo, read, result, looked, serial, newOrder, newPieces,
                 raced, half, late, requests>>

Serials == Nat \ {0}
OpenCopy == {"pending", "retry"}
CopyStatuses == OpenCopy \cup {"processed", "failed"}

InboundTypeOK ==
    /\ copyOf \in [Copies -> References \cup {Nothing}]
    /\ copyStatus \in [Copies -> CopyStatuses]
    /\ tried \in [Copies -> 0..InboundAttempts]
    /\ order \in [References -> {"none", "released", "started"}]
    /\ deleted \subseteq References
    /\ pieces \in [References -> SUBSET Serials]
    /\ sync \in [Syncs -> References \cup {Nothing}]
    /\ todo \in [Sessions -> SUBSET (Copies \cup References)]
    /\ \A i \in InboundLoops : todo[i] \subseteq Copies
    /\ \A g \in Generators : todo[g] \subseteq References
    /\ read \in [InboundLoops -> [Copies -> 0..InboundAttempts]]
    /\ result \in [InboundLoops -> [Copies -> CopyStatuses \cup {"none"}]]
    /\ looked \subseteq InboundLoops
    /\ serial \in [Generators -> [References -> Nat]]
    /\ newOrder \in [Sessions -> [References -> {"none", "released", "started"}]]
    /\ newPieces \in [Sessions -> [References -> SUBSET Serials]]
    /\ raced \cup half \cup late \subseteq References
    /\ requests \in 0..MaxRequests

Unwritten == [r \in References |-> "none"]
NoPieces == [r \in References |-> {}]
NoSerial == [r \in References |-> 0]

InboundInit ==
    /\ copyOf = [c \in Copies |-> Nothing]
    /\ copyStatus = [c \in Copies |-> "pending"]
    /\ tried = [c \in Copies |-> 0]
    /\ order = Unwritten
    /\ deleted = {}
    /\ pieces = NoPieces
    /\ sync = [y \in Syncs |-> Nothing]
    /\ todo = [s \in Sessions |-> {}]
    /\ read = [i \in InboundLoops |-> [c \in Copies |-> 0]]
    /\ result = [i \in InboundLoops |-> [c \in Copies |-> "none"]]
    /\ looked = {}
    /\ serial = [g \in Generators |-> NoSerial]
    /\ newOrder = [s \in Sessions |-> Unwritten]
    /\ newPieces = [s \in Sessions |-> NoPieces]
    /\ raced = {} /\ half = {} /\ late = {}
    /\ requests = 0

-----------------------------------------------------------------------------
(***************************************************************************)
(* The queue: a sync looks for an open copy and inserts one if there is    *)
(* none; an operator may ask for any copy again.                           *)
(***************************************************************************)

\* Rows are numbered in the order of their inserts.
NextCopy(c) == copyOf[c] = Nothing /\ \A k \in 1..(c - 1) : copyOf[k] # Nothing

OpenCopies(r) == {c \in Copies : copyOf[c] = r /\ copyStatus[c] \in OpenCopy}

\* Mutant of SyncLook: the copies that are queued already are not looked at.
SyncLookBlindly(y, r) ==
    /\ sync[y] = Nothing
    /\ sync' = [sync EXCEPT ![y] = r]
    /\ raced' = IF \E z \in Syncs : sync[z] = r THEN raced \cup {r} ELSE raced
    /\ UNCHANGED <<queueVars, orderVars, loopVars, half, late, requests>>

\* With one open copy the order is skipped, with two of them scalar_one_or_none
\* raises and the request fails.
SyncLook(y, r) ==
    /\ sync[y] = Nothing
    /\ OpenCopies(r) = {}
    /\ sync' = [sync EXCEPT ![y] = r]
    /\ raced' = IF \E z \in Syncs : sync[z] = r THEN raced \cup {r} ELSE raced
    /\ UNCHANGED <<queueVars, orderVars, loopVars, half, late, requests>>

\* enqueue, and the commit of the request.
SyncInsert(y) ==
    LET r == sync[y] IN
    /\ r # Nothing
    /\ \E c \in Copies :
        /\ NextCopy(c)
        /\ copyOf' = [copyOf EXCEPT ![c] = r]
    /\ sync' = [sync EXCEPT ![y] = Nothing]
    /\ UNCHANGED <<copyStatus, tried, orderVars, loopVars, raced, half, late, requests>>

\* Whatever the status of the copy.
RetryCopy(c) ==
    /\ copyOf[c] # Nothing
    /\ requests < MaxRequests
    /\ copyStatus' = [copyStatus EXCEPT ![c] = "pending"]
    /\ tried' = [tried EXCEPT ![c] = 0]
    /\ raced' = raced \cup {copyOf[c]}
    /\ requests' = requests + 1
    /\ UNCHANGED <<copyOf, orderVars, sync, loopVars, half, late>>

\* A soft delete keeps the order number taken; it waits for a session that has
\* written the order.
OrderDeleted(r) ==
    /\ order[r] # "none" /\ \A s \in Sessions : newOrder[s][r] = "none"
    /\ deleted' = deleted \cup {r}
    /\ UNCHANGED <<queueVars, order, pieces, sync, loopVars, raced, half, late, requests>>

-----------------------------------------------------------------------------
(***************************************************************************)
(* Sessions.                                                               *)
(***************************************************************************)

\* Another session has written the order or the pieces: the unique index or the
\* row lock makes this one wait.
HeldElsewhere(s, r) ==
    \E t \in Sessions \ {s} : newOrder[t][r] # "none" \/ newPieces[t][r] # {}

Discard(s) ==
    /\ todo' = [todo EXCEPT ![s] = {}]
    /\ newOrder' = [newOrder EXCEPT ![s] = Unwritten]
    /\ newPieces' = [newPieces EXCEPT ![s] = NoPieces]

\* The orders and the pieces of a session become visible.
Publish(s) ==
    /\ order' = [r \in References |->
                   IF newOrder[s][r] = "none" THEN order[r] ELSE newOrder[s][r]]
    /\ pieces' = [r \in References |-> pieces[r] \cup newPieces[s][r]]

-----------------------------------------------------------------------------
(***************************************************************************)
(* The inbound loop.                                                       *)
(***************************************************************************)

\* A pass that ends in an error leaves nothing behind it.
InboundAbort(i) ==
    /\ Discard(i)
    /\ read' = [read EXCEPT ![i] = [c \in Copies |-> 0]]
    /\ result' = [result EXCEPT ![i] = [c \in Copies |-> "none"]]
    /\ looked' = looked \ {i}
    /\ UNCHANGED serial

InboundIdle(i) == todo[i] = {} /\ \A c \in Copies : result[i][c] = "none"

CopiesWith(status) == {c \in Copies : copyOf[c] # Nothing /\ copyStatus[c] = status}

\* The oldest due copies, at most a batch of them; which of the copies in retry
\* are due is a matter of their next_retry_at.
Poll(i) ==
    /\ InboundIdle(i)
    /\ \E elapsed \in SUBSET CopiesWith("retry") :
       LET due == CopiesWith("pending") \cup elapsed
           batch == {c \in due : Cardinality({k \in due : k < c}) < InboundBatch} IN
        /\ batch # {}
        /\ todo' = [todo EXCEPT ![i] = batch]
        /\ read' = [read EXCEPT ![i] = [c \in Copies |-> IF c \in batch THEN tried[c] ELSE 0]]
    /\ UNCHANGED <<queueVars, orderVars, sync, result, looked, serial,
                   newOrder, newPieces, raced, half, late, requests>>

\* The copy is done with, one way or the other; the row is written at the commit.
Settle(i, c, status) ==
    /\ result' = [result EXCEPT ![i][c] = status]
    /\ todo' = [todo EXCEPT ![i] = @ \ {c}]

\* Mutant of Failed: one attempt too many.
FailedLate(i, c) == IF read[i][c] + 1 > InboundAttempts THEN "failed" ELSE "retry"

\* The attempt is counted; after the last one the copy is given up.
Failed(i, c) == IF read[i][c] + 1 >= InboundAttempts THEN "failed" ELSE "retry"

InSession(i, r) == order[r] # "none" \/ newOrder[i][r] # "none"
ActiveOrder(i, r) == InSession(i, r) /\ r \notin deleted

\* process_order up to the insert: an order that is there already is enough
\* (unless its route is missing and so is the product); otherwise the product
\* must exist and the number must not be taken by a deleted order.
LookUp(i) ==
    LET c == Min(todo[i])  r == copyOf[c] IN
    /\ todo[i] # {} /\ i \notin looked
    /\ \/ /\ ActiveOrder(i, r)
          /\ Settle(i, c, "processed")
          /\ UNCHANGED looked
       \/ /\ Settle(i, c, Failed(i, c))
          /\ UNCHANGED looked
       \/ /\ ~InSession(i, r)
          /\ looked' = looked \cup {i}
          /\ UNCHANGED <<todo, result>>
    /\ UNCHANGED <<queueVars, orderVars, sync, read, serial, newOrder, newPieces,
                   raced, half, late, requests>>

\* create_order, release_order and create_unit for the first n pieces; when a
\* piece fails, what was flushed stays in the session.
MakeOrder(i, n) ==
    LET c == Min(todo[i])  r == copyOf[c] IN
    /\ i \in looked
    /\ order[r] = "none" /\ ~HeldElsewhere(i, r)
    /\ newOrder' = [newOrder EXCEPT ![i][r] = IF n = 0 THEN "released" ELSE "started"]
    /\ newPieces' = [newPieces EXCEPT ![i][r] = 1..n]
    /\ Settle(i, c, IF n = Pieces THEN "processed" ELSE Failed(i, c))
    /\ looked' = looked \ {i}
    /\ half' = IF n \in 1..(Pieces - 1) THEN half \cup {r} ELSE half
    /\ UNCHANGED <<queueVars, orderVars, sync, read, serial, raced, late, requests>>

\* Another session committed the number in between: the insert fails, and with
\* it everything the session does afterwards.
NumberTaken(i) ==
    /\ i \in looked
    /\ order[copyOf[Min(todo[i])]] # "none"
    /\ InboundAbort(i)
    /\ UNCHANGED <<queueVars, orderVars, sync, raced, half, late, requests>>

\* Mutant of CommitBatch: each copy in a transaction of its own, the orders in
\* that of the last one, which fails.
CommitRowsOnly(i) ==
    LET done == {c \in Copies : result[i][c] # "none"} IN
    /\ todo[i] = {} /\ done # {}
    /\ copyStatus' = [c \in Copies |-> IF c \in done THEN result[i][c] ELSE copyStatus[c]]
    /\ tried' = [c \in Copies |-> IF c \in done THEN read[i][c] + 1 ELSE tried[c]]
    /\ InboundAbort(i)
    /\ UNCHANGED <<copyOf, orderVars, sync, raced, half, late, requests>>

\* The loop commits the session: statuses and attempts as computed from what the
\* loop had read, whoever has written the rows since.
CommitBatch(i) ==
    LET done == {c \in Copies : result[i][c] # "none"} IN
    /\ todo[i] = {} /\ done # {}
    /\ copyStatus' = [c \in Copies |-> IF c \in done THEN result[i][c] ELSE copyStatus[c]]
    /\ tried' = [c \in Copies |-> IF c \in done THEN read[i][c] + 1 ELSE tried[c]]
    /\ Publish(i)
    /\ InboundAbort(i)
    /\ raced' = raced \cup
         {copyOf[c] : c \in {d \in done : copyStatus[d] \notin OpenCopy /\ result[i][d] \in OpenCopy}}
    /\ UNCHANGED <<copyOf, deleted, sync, half, late, requests>>

\* The process stops, or the commit fails.
LoseBatch(i) ==
    /\ ~InboundIdle(i)
    /\ InboundAbort(i)
    /\ UNCHANGED <<queueVars, orderVars, sync, raced, half, late, requests>>

-----------------------------------------------------------------------------
(***************************************************************************)
(* The WIP generator.                                                      *)
(***************************************************************************)

GeneratorAbort(g) ==
    /\ Discard(g)
    /\ serial' = [serial EXCEPT ![g] = NoSerial]
    /\ UNCHANGED <<read, result, looked>>

GeneratorIdle(g) == todo[g] = {} /\ newOrder[g] = Unwritten /\ newPieces[g] = NoPieces

ReleasedOrders == {r \in References : order[r] = "released" /\ r \notin deleted}

FindReleased(g) ==
    /\ GeneratorIdle(g)
    /\ ReleasedOrders # {}
    /\ todo' = [todo EXCEPT ![g] = ReleasedOrders]
    /\ UNCHANGED <<queueVars, orderVars, sync, read, result, looked, serial,
                   newOrder, newPieces, raced, half, late, requests>>

\* The order in hand: the one it has begun, or any of those it has read.
InHand(g, r) ==
    /\ r \in todo[g]
    /\ \A q \in todo[g] \ {r} : newPieces[g][q] = {} /\ serial[g][q] = 0

\* generate_serial_number: the number of units of the order, plus one.
NextSerial(g, r) == Cardinality(pieces[r] \cup newPieces[g][r]) + 1

CountPieces(g, r) ==
    /\ InHand(g, r) /\ serial[g][r] = 0
    /\ serial' = [serial EXCEPT ![g][r] = NextSerial(g, r)]
    /\ late' = IF pieces[r] # {} THEN late \cup {r} ELSE late
    /\ UNCHANGED <<queueVars, orderVars, sync, todo, read, result, looked,
                   newOrder, newPieces, raced, half, requests>>

\* Mutant of InsertPiece: the loop runs once too often.
InsertOneMore(g, r) ==
    LET mine == newPieces[g][r] \cup {serial[g][r]} IN
    /\ InHand(g, r) /\ serial[g][r] # 0
    /\ serial[g][r] \notin pieces[r]
    /\ ~HeldElsewhere(g, r)
    /\ newPieces' = [newPieces EXCEPT ![g][r] = mine]
    /\ newOrder' = [newOrder EXCEPT ![g][r] = "started"]
    /\ todo' = IF Cardinality(mine) > Pieces THEN [todo EXCEPT ![g] = @ \ {r}] ELSE todo
    /\ serial' = [serial EXCEPT ![g] = NoSerial]
    /\ UNCHANGED <<queueVars, orderVars, sync, read, result, looked,
                   raced, half, late, requests>>

\* create_unit, and start_order with the first piece; an order deleted meanwhile
\* is not found by start_order, after the piece has been flushed.
InsertPiece(g, r) ==
    LET mine == newPieces[g][r] \cup {serial[g][r]} IN
    /\ InHand(g, r) /\ serial[g][r] # 0
    /\ serial[g][r] \notin pieces[r]
    /\ ~HeldElsewhere(g, r)
    /\ newPieces' = [newPieces EXCEPT ![g][r] = mine]
    /\ newOrder' = IF r \in deleted THEN newOrder
                                    ELSE [newOrder EXCEPT ![g][r] = "started"]
    /\ todo' = IF r \in deleted \/ Cardinality(mine) = Pieces
               THEN [todo EXCEPT ![g] = @ \ {r}] ELSE todo
    /\ serial' = [serial EXCEPT ![g] = NoSerial]
    /\ UNCHANGED <<queueVars, orderVars, sync, read, result, looked,
                   raced, half, late, requests>>

\* The number was committed since the count: seen by the check the order is
\* skipped, seen by the index the session is of no use any more.
SerialTaken(g, r) ==
    /\ InHand(g, r) /\ serial[g][r] \in pieces[r]
    /\ \/ /\ todo' = [todo EXCEPT ![g] = @ \ {r}]
          /\ serial' = [serial EXCEPT ![g] = NoSerial]
          /\ UNCHANGED <<read, result, looked, newOrder, newPieces>>
       \/ GeneratorAbort(g)
    /\ UNCHANGED <<queueVars, orderVars, sync, raced, half, late, requests>>

\* Mutant of CommitPieces: a commit after every piece.
CommitEarly(g) ==
    /\ newPieces[g] # NoPieces
    /\ Publish(g)
    /\ GeneratorAbort(g)
    /\ UNCHANGED <<queueVars, deleted, sync, raced, half, late, requests>>

CommitPieces(g) ==
    /\ todo[g] = {} /\ ~GeneratorIdle(g)
    /\ Publish(g)
    /\ GeneratorAbort(g)
    /\ UNCHANGED <<queueVars, deleted, sync, raced, half, late, requests>>

LosePieces(g) ==
    /\ ~GeneratorIdle(g)
    /\ GeneratorAbort(g)
    /\ UNCHANGED <<queueVars, orderVars, sync, raced, half, late, requests>>

-----------------------------------------------------------------------------
InboundNext ==
    \/ \E y \in Syncs : (\E r \in References : SyncLook(y, r)) \/ SyncInsert(y)
    \/ \E c \in Copies : RetryCopy(c)
    \/ \E r \in References : OrderDeleted(r)
    \/ \E i \in InboundLoops :
        \/ Poll(i) \/ LookUp(i) \/ NumberTaken(i) \/ CommitBatch(i) \/ LoseBatch(i)
        \/ \E n \in 0..Pieces : MakeOrder(i, n)
    \/ \E g \in Generators :
        \/ FindReleased(g) \/ CommitPieces(g) \/ LosePieces(g)
        \/ \E r \in References :
            CountPieces(g, r) \/ InsertPiece(g, r) \/ SerialTaken(g, r)

InboundSpec == InboundInit /\ [][InboundNext]_inboundVars

-----------------------------------------------------------------------------
\* A copy is only ever called processed when its order is in the database: no
\* session that is lost, and none that loses the race for the number, leaves a
\* copy behind that says otherwise.
ProcessedMeansOrder ==
    \A c \in Copies : copyStatus[c] = "processed" => order[copyOf[c]] # "none"

\* An order that has been started has at least the pieces it was ordered for,
\* unless its processor failed between two of them: such an order is no longer
\* released, so that no loop completes it, and the retry of its copy finds the
\* order and is content with it.
StartedOrdersComplete ==
    \A r \in References :
        order[r] = "started" => Cardinality(pieces[r]) >= Pieces \/ r \in half

\* More pieces than were ordered come from one cause only: a generator that read
\* the order as released and counted its pieces after another session had
\* committed some.  Retried copies, lost sessions and doubled copies add none.
SurplusExplained ==
    \A r \in References : Cardinality(pieces[r]) > Pieces => r \in late

\* Both: how the pieces of an order come to differ from what was ordered.
PiecesExplained == StartedOrdersComplete /\ SurplusExplained

\* Two open copies of one order, which make every later sync of it fail, come
\* from two syncs that overlapped, or from a copy that was asked for again or
\* written back by a loop that had read it earlier.
DoubledCopiesExplained ==
    \A r \in References : Cardinality(OpenCopies(r)) > 1 => r \in raced
=============================================================================
