-------------------------- MODULE CompletionReports --------------------------
(***************************************************************************)
(* From the completion of a step to the report for the ERP                 *)
(* (core/wip/service.py, adapters/erp/handlers.py), for one visit of one   *)
(* unit or lot to one step.  The request closes the history row, writes    *)
(* the actuals, and awaits the handlers of the completed event; the        *)
(* handler inserts the report in a session of its own and commits it; only *)
(* then does the request commit.  Completing changes no status, so nothing *)
(* keeps a second completion out until the item has moved on.              *)
(***************************************************************************)
EXTENDS Naturals, FiniteSets

CONSTANTS
    Completions,    \* completion requests, and retries of them
    MaxReported     \* bound on the reports of the visit

ASSUME CompletionAssumption == MaxReported \in Nat

VARIABLES
    visit,       \* "open": exited_at is null; "closed"; "left" for the next step
    actuals,     \* sets of EquipmentActual and MaterialActual rows
    reported,    \* rows in erp_outbound_queue
    completion,  \* what each request is doing
    completed,   \* ghost: the requests that committed
    strays       \* ghost: what came in between

completionVars == <<visit, actuals, reported, completion, completed, strays>>

CompletionStages == {"none", "admitted", "looked", "flushed", "heard", "ended"}

CompletionTypeOK ==
    /\ visit \in {"open", "closed", "left"}
    /\ actuals \in Nat /\ reported \in 0..MaxReported
    /\ completion \in [Completions -> [at : CompletionStages, row : BOOLEAN, told : BOOLEAN]]
    /\ completed \subseteq Completions
    /\ strays \subseteq {"unheard", "rolledBack", "overlapped", "repeated"}

CompletionInit ==
    /\ visit = "open" /\ actuals = 0 /\ reported = 0
    /\ completion = [c \in Completions |-> [at |-> "none", row |-> FALSE, told |-> FALSE]]
    /\ completed = {} /\ strays = {}

\* The requests that have read the history row as theirs to close, and those of them
\* that hold its lock.
RowReaders == {c \in Completions : completion[c].row /\ completion[c].at \in {"looked", "flushed", "heard"}}

RowHolders == {c \in Completions : completion[c].row /\ completion[c].at \in {"flushed", "heard"}}

\* The unit is read: it must be in process.
Admit(c) ==
    /\ completion[c].at = "none" /\ visit # "left"
    /\ completion' = [completion EXCEPT ![c].at = "admitted"]
    /\ UNCHANGED <<visit, actuals, reported, completed, strays>>

\* Mutant of OpenRow: the row is taken whether it is closed or not.
AnyRow == TRUE

\* The row of the step with exited_at null.
OpenRow == visit = "open"

LookForRow(c) ==
    /\ completion[c].at = "admitted"
    /\ completion' = [completion EXCEPT ![c].at = "looked", ![c].row = OpenRow]
    /\ strays' = strays \cup (IF visit # "open" THEN {"repeated"} ELSE {})
                         \cup (IF RowReaders # {} THEN {"overlapped"} ELSE {})
    /\ UNCHANGED <<visit, actuals, reported, completed>>

\* The row is closed, at the latest when the actuals are looked for, and they are
\* written.  A request without a row goes on without.
CloseVisit(c) ==
    /\ completion[c].at = "looked"
    /\ completion[c].row => RowHolders = {}
    /\ completion' = [completion EXCEPT ![c].at = "flushed"]
    /\ UNCHANGED <<visit, actuals, reported, completed, strays>>

\* The handler of the unit or the lot commits its report.
EnqueueCompletion(c) ==
    /\ reported < MaxReported
    /\ reported' = reported + 1
    /\ completion' = [completion EXCEPT ![c].at = "heard", ![c].told = TRUE]
    /\ UNCHANGED strays

\* An error of the handler is logged, and the request goes on.
Hear(c) ==
    /\ completion[c].at = "flushed"
    /\ \/ EnqueueCompletion(c)
       \/ /\ completion' = [completion EXCEPT ![c].at = "heard"]
          /\ strays' = strays \cup {"unheard"}
          /\ UNCHANGED reported
    /\ UNCHANGED <<visit, actuals, completed>>

CommitCompletion(c) ==
    /\ completion[c].at = "heard"
    /\ completion' = [completion EXCEPT ![c].at = "ended"]
    /\ IF completion[c].row
       THEN /\ visit' = (IF visit = "open" THEN "closed" ELSE visit)
            /\ actuals' = actuals + 1
       ELSE UNCHANGED <<visit, actuals>>
    /\ completed' = completed \cup {c}
    /\ UNCHANGED <<reported, strays>>

\* The session closes without a commit, or the process ends.
AbandonCompletion(c) ==
    /\ completion[c].at \in {"admitted", "looked", "flushed", "heard"}
    /\ completion' = [completion EXCEPT ![c].at = "ended"]
    /\ strays' = strays \cup (IF completion[c].told THEN {"rolledBack"} ELSE {})
    /\ UNCHANGED <<visit, actuals, reported, completed>>

\* move_unit and move_lot close an open row as well; they report nothing.
MoveOn ==
    /\ visit # "left" /\ RowHolders = {}
    /\ visit' = "left"
    /\ UNCHANGED <<actuals, reported, completion, completed, strays>>

CompletionNext ==
    \/ MoveOn
    \/ \E c \in Completions :
         \/ Admit(c) \/ LookForRow(c) \/ CloseVisit(c)
         \/ Hear(c) \/ CommitCompletion(c) \/ AbandonCompletion(c)

CompletionSpec == CompletionInit /\ [][CompletionNext]_completionVars

-----------------------------------------------------------------------------
\* Every committed completion has its report, unless the handler failed; there is no
\* report more, unless a request was rolled back after its handler had committed.  The
\* visit is reported twice only if that happened, if it was completed again, or if two
\* requests had the open row in hand; only in this last case are its actuals there twice.
CompletionsReported ==
    LET working == \E c \in Completions : completion[c].told /\ completion[c].at = "heard" IN
    /\ reported < Cardinality(completed) => "unheard" \in strays
    /\ reported > Cardinality(completed) => working \/ "rolledBack" \in strays
    /\ reported > 1 => working \/ strays \cap {"rolledBack", "overlapped", "repeated"} # {}
    /\ actuals > 1 => "overlapped" \in strays
=============================================================================
