----------------------------- MODULE ErpOutbound -----------------------------
(***************************************************************************)
(* The queue of reports to the ERP (adapters/erp/queue.py, and the loop in *)
(* main.py that drains it).                                                *)
(*                                                                         *)
(* Every server process runs its own loop (the service starts four of      *)
(* them), with its own copy of the ERP plugin and nothing that keeps two   *)
(* loops apart: a loop reads the oldest due rows, sends them to the ERP    *)
(* one by one, and only then writes and commits what became of each.  In   *)
(* between the process may stop or the commit fail, the ERP may take a     *)
(* report without its answer arriving, another loop may read the same      *)
(* rows, and an operator may ask for a failed report again.                *)
(*                                                                         *)
(* The clock is abstracted: a row waits for its next_retry_at until an     *)
(* action says that the time has come.                                     *)
(***************************************************************************)
EXTENDS Naturals, FiniteSets

CONSTANTS
    Workers,        \* the server processes
    Reports,        \* erp_outbound_queue rows that may be inserted
    MaxAttempts,    \* max_attempts
    BatchSize,      \* batch_size
    MaxFaults,      \* bound: lost batches, lost answers and stopped plugins
    MaxResets       \* bound: retry requests of operators

ASSUME ErpOutboundAssumption ==
    /\ IsFiniteSet(Workers) /\ IsFiniteSet(Reports)
    /\ MaxAttempts \in Nat \ {0} /\ BatchSize \in Nat \ {0}
    /\ MaxFaults \in Nat /\ MaxResets \in Nat

VARIABLES
    status,     \* status of a row, "absent" before the insert
    attempts,   \* its attempts
    waiting,    \* the rows whose next_retry_at is in the future
    born,       \* its place in the order of created_at
    batch,      \* the rows a loop has read and not yet committed
    seen,       \* the status and the attempts it read
    outcome,    \* what became of each, "none" before it is sent
    asked,      \* retry requests that have read the row as failed
    plugged,    \* the processes with an active ERP outbound plugin
    accepted,   \* ghost: how often the ERP took the report
    lapses,     \* ghost: how often it could be taken once more, see below
    faults,     \* bound counter
    resets      \* bound counter

rows == <<status, attempts, waiting, born>>
vars == <<status, attempts, waiting, born, batch, seen, outcome, asked, plugged,
          accepted, lapses, faults, resets>>

Open == {"pending", "retry"}
Statuses == Open \cup {"sent", "failed"}

Unread == [status |-> "absent", attempts |-> 0]

TypeOK ==
    /\ status \in [Reports -> Statuses \cup {"absent"}]
    /\ attempts \in [Reports -> 0..MaxAttempts]
    /\ waiting \subseteq Reports
    /\ born \in [Reports -> Nat]
    /\ batch \in [Workers -> SUBSET Reports]
    /\ seen \in [Workers -> [Reports ->
                    [status : Open \cup {"absent"}, attempts : 0..MaxAttempts]]]
    /\ outcome \in [Workers -> [Reports -> {"none", "sent", "retry", "failed"}]]
    /\ asked \in [Reports -> Nat]
    /\ plugged \subseteq Workers
    /\ accepted \in [Reports -> Nat] /\ lapses \in [Reports -> Nat]
    /\ faults \in Nat /\ resets \in Nat

Init ==
    /\ status = [r \in Reports |-> "absent"]
    /\ attempts = [r \in Reports |-> 0]
    /\ waiting = {}
    /\ born = [r \in Reports |-> 0]
    /\ batch = [w \in Workers |-> {}]
    /\ seen = [w \in Workers |-> [r \in Reports |-> Unread]]
    /\ outcome = [w \in Workers |-> [r \in Reports |-> "none"]]
    /\ asked = [r \in Reports |-> 0]
    /\ plugged = Workers
    /\ accepted = [r \in Reports |-> 0] /\ lapses = [r \in Reports |-> 0]
    /\ faults = 0 /\ resets = 0

-----------------------------------------------------------------------------
(***************************************************************************)
(* The loop.                                                               *)
(***************************************************************************)

\* enqueue: a handler of a completed event inserts the report.
Enqueue(r) ==
    /\ status[r] = "absent"
    /\ status' = [status EXCEPT ![r] = "pending"]
    /\ born' = [born EXCEPT ![r] = Cardinality({o \in Reports : status[o] # "absent"})]
    /\ UNCHANGED <<attempts, waiting, batch, seen, outcome, asked, plugged,
                   accepted, lapses, faults, resets>>

\* Mutant of Due: the filter on the status is lost.
DueWhatever == {r \in Reports : status[r] # "absent" /\ r \notin waiting}

\* The rows process_queue asks for.
Due == {r \in Reports : status[r] = "pending" \/ (status[r] = "retry" /\ r \notin waiting)}

\* The oldest of them, up to the batch size.
OldestDue(B) ==
    /\ B \subseteq Due
    /\ Cardinality(B) <= BatchSize
    /\ \A r \in Due \ B : Cardinality(B) = BatchSize /\ \A b \in B : born[b] < born[r]

Holders(r) == {w \in Workers : r \in batch[w]}

\* The loop wakes up, finds a plugin, and reads a batch.
Select(w) ==
    /\ w \in plugged /\ batch[w] = {} /\ Due # {}
    /\ \E B \in SUBSET Reports :
          /\ OldestDue(B)
          /\ batch' = [batch EXCEPT ![w] = B]
          /\ seen' = [seen EXCEPT ![w] = [r \in Reports |->
                         IF r \in B THEN [status |-> status[r], attempts |-> attempts[r]]
                                    ELSE Unread]]
          /\ lapses' = [r \in Reports |->
                         IF r \in B /\ Holders(r) # {} THEN lapses[r] + 1 ELSE lapses[r]]
    /\ UNCHANGED <<status, attempts, waiting, born, outcome, asked, plugged,
                   accepted, faults, resets>>

AfterFailure(w, r) ==
    IF seen[w][r].attempts + 1 >= MaxAttempts THEN "failed" ELSE "retry"

\* The next report of the batch, in the order it was read.
Turn(w, r) ==
    /\ r \in batch[w] /\ outcome[w][r] = "none"
    /\ \A o \in batch[w] : outcome[w][o] = "none" => born[r] <= born[o]

\* _dispatch_report returns a confirmation.
SendAccepted(w, r) ==
    /\ Turn(w, r)
    /\ outcome' = [outcome EXCEPT ![w][r] = "sent"]
    /\ accepted' = [accepted EXCEPT ![r] = @ + 1]
    /\ UNCHANGED <<rows, batch, seen, asked, plugged, lapses, faults, resets>>

\* Mutant of SendRefused: the error is not looked at.
SendRefusedUnseen(w, r) ==
    /\ Turn(w, r)
    /\ outcome' = [outcome EXCEPT ![w][r] = "sent"]
    /\ UNCHANGED <<rows, batch, seen, asked, plugged, accepted, lapses, faults, resets>>

\* It raises, and the ERP has not taken the report ...
SendRefused(w, r) ==
    /\ Turn(w, r)
    /\ outcome' = [outcome EXCEPT ![w][r] = AfterFailure(w, r)]
    /\ UNCHANGED <<rows, batch, seen, asked, plugged, accepted, lapses, faults, resets>>

\* ... or it has, and only the answer was lost.
SendUnanswered(w, r) ==
    /\ Turn(w, r) /\ faults < MaxFaults
    /\ outcome' = [outcome EXCEPT ![w][r] = AfterFailure(w, r)]
    /\ accepted' = [accepted EXCEPT ![r] = @ + 1]
    /\ lapses' = [lapses EXCEPT ![r] = @ + 1]
    /\ faults' = faults + 1
    /\ UNCHANGED <<rows, batch, seen, asked, plugged, resets>>

Forget(w) ==
    /\ batch' = [batch EXCEPT ![w] = {}]
    /\ seen' = [seen EXCEPT ![w] = [r \in Reports |-> Unread]]
    /\ outcome' = [outcome EXCEPT ![w] = [r \in Reports |-> "none"]]

\* Mutant of Attempted: the attempts are not counted.
AttemptedNever(w, r) == attempts[r]

Attempted(w, r) == IF r \in batch[w] THEN seen[w][r].attempts + 1 ELSE attempts[r]

\* Flush and commit of the whole batch.  Only columns that changed since they
\* were read are written: a row read in status retry that is to be retried
\* keeps the status it has by now.
Save(w) ==
    /\ batch[w] # {} /\ \A r \in batch[w] : outcome[w][r] # "none"
    /\ status' = [r \in Reports |->
                    IF r \in batch[w] /\ outcome[w][r] # seen[w][r].status
                    THEN outcome[w][r] ELSE status[r]]
    /\ attempts' = [r \in Reports |-> Attempted(w, r)]
    /\ waiting' = waiting \cup {r \in batch[w] : outcome[w][r] = "retry"}
    /\ Forget(w)
    /\ UNCHANGED <<born, asked, plugged, accepted, lapses, faults, resets>>

\* The process stops, or the flush or the commit fails: nothing is written.
Lose(w) ==
    /\ batch[w] # {} /\ faults < MaxFaults
    /\ lapses' = [r \in Reports |->
                    IF r \in batch[w] /\ outcome[w][r] = "sent" THEN lapses[r] + 1 ELSE lapses[r]]
    /\ Forget(w)
    /\ faults' = faults + 1
    /\ UNCHANGED <<rows, asked, plugged, accepted, resets>>

-----------------------------------------------------------------------------
(***************************************************************************)
(* The clock, the operators, the plugin.                                   *)
(***************************************************************************)

\* next_retry_at has come.
Elapse(r) ==
    /\ r \in waiting
    /\ waiting' = waiting \ {r}
    /\ UNCHANGED <<status, attempts, born, batch, seen, outcome, asked, plugged,
                   accepted, lapses, faults, resets>>

\* retry_item reads the row and sees that it failed.
AskRetry(r) ==
    /\ status[r] = "failed" /\ resets < MaxResets
    /\ asked' = [asked EXCEPT ![r] = @ + 1]
    /\ resets' = resets + 1
    /\ UNCHANGED <<rows, batch, seen, outcome, plugged, accepted, lapses, faults>>

\* It writes the row back, whatever happened to it since.
Retry(r) ==
    /\ asked[r] > 0
    /\ asked' = [asked EXCEPT ![r] = @ - 1]
    /\ status' = [status EXCEPT ![r] = "pending"]
    /\ attempts' = [attempts EXCEPT ![r] = 0]
    /\ waiting' = waiting \ {r}
    /\ lapses' = IF status[r] = "sent" THEN [lapses EXCEPT ![r] = @ + 1] ELSE lapses
    /\ UNCHANGED <<born, batch, seen, outcome, plugged, accepted, faults, resets>>

\* The plugin of one process is stopped or started.
Unplug(w) ==
    /\ w \in plugged /\ faults < MaxFaults
    /\ plugged' = plugged \ {w}
    /\ faults' = faults + 1
    /\ UNCHANGED <<rows, batch, seen, outcome, asked, accepted, lapses, resets>>

Plug(w) ==
    /\ w \notin plugged
    /\ plugged' = plugged \cup {w}
    /\ UNCHANGED <<rows, batch, seen, outcome, asked, accepted, lapses, faults, resets>>

-----------------------------------------------------------------------------
Send(w) ==
    \E r \in Reports : SendAccepted(w, r) \/ SendRefused(w, r) \/ SendUnanswered(w, r)

Loop(w) == Select(w) \/ Send(w) \/ Save(w) \/ Lose(w)

Next ==
    \/ \E w \in Workers : Loop(w) \/ Unplug(w) \/ Plug(w)
    \/ \E r \in Reports : Enqueue(r) \/ Elapse(r) \/ AskRetry(r) \/ Retry(r)

\* The loops keep running and the clock keeps going.  Nobody has to complete
\* steps, to ask for a retry or to start a plugin, and no failure has to happen.
Fairness ==
    /\ \A w \in Workers : WF_vars(Select(w) \/ Send(w) \/ Save(w))
    /\ \A r \in Reports : WF_vars(Elapse(r))

Spec == Init /\ [][Next]_vars /\ Fairness

-----------------------------------------------------------------------------
(***************************************************************************)
(* Properties.                                                             *)
(***************************************************************************)

\* A report marked as sent has reached the ERP, whatever failed on the way.
SentMeansAccepted == \A r \in Reports : status[r] = "sent" => accepted[r] > 0

\* The ERP gets a report twice only for one of four reasons, once for each: the
\* result was lost after the report was taken, the answer was lost, two loops
\* read the row at the same time, or a retry overwrote the row once it was sent.
DuplicatesExplained == \A r \in Reports : accepted[r] <= 1 + lapses[r]

\* Refinement of ReportDelivery: a report is delivered exactly once, is sent only if it
\* arrived, and is settled for good, until one of the four things happens to it; then it
\* may arrive once more for each, but it is never lost and still not called sent before.
Stage == [r \in Reports |-> IF status[r] \in Open THEN "waiting" ELSE status[r]]
Delivery == INSTANCE ReportDelivery WITH stage <- Stage, copies <- accepted, excuses <- lapses
RefinesDelivery == Delivery!Spec

\* As long as the plugin of one process stays active, no report waits for ever:
\* it is sent, or given up after its attempts.
QueueDrains ==
    \A w \in Workers :
        <>[](w \in plugged) => \A r \in Reports : (status[r] \in Open) ~> (status[r] \notin Open)
=============================================================================
