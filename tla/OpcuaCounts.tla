----------------------------- MODULE OpcuaCounts -----------------------------
(***************************************************************************)
(* How the PackML OPC-UA plugin turns the absolute counts of a machine     *)
(* into increments (server/plugins/system/packml_opcua_counters).          *)
(*                                                                         *)
(* A start forgets the last-known counts, connects and subscribes; when    *)
(* the subscription fails it polls for good.  A notification carries one   *)
(* count, the handler holds the other, and both are compared with the      *)
(* last-known pair.  The increments are written by CounterRows.            *)
(***************************************************************************)
EXTENDS Integers

CONSTANTS MaxMachine    \* bound on the counts a machine shows

ASSUME OpcuaCountsAssumption == MaxMachine \in Nat

VARIABLES
    tag,        \* per kind: the absolute count of the machine
    link,       \* what the subscription loop is doing
    due,        \* kinds whose value the OPC-UA server has to notify
    handler,    \* _good_value and _reject_value of the handler
    last,       \* last_good and last_reject
    counted,    \* ghost: increments handed over since the start
    made,       \* ghost: units the machine made since the start
    atStart,    \* ghost: the counts of the machine at the start
    first       \* ghost: the kind notified first

opcuaVars == <<tag, link, due, handler, last, counted, made, atStart, first>>

Kinds == {"good", "reject"}
Counts == [Kinds -> 0..MaxMachine]
Zero == [k \in Kinds |-> 0]
Forgotten == [k \in Kinds |-> -1]   \* None in both fields

OpcuaTypeOK ==
    /\ {tag, handler, counted, made, atStart} \subseteq Counts
    /\ link \in {"stopped", "connecting", "subscribed", "polling"}
    /\ due \subseteq Kinds
    /\ last \in Counts \cup {Forgotten}
    /\ first \in Kinds \cup {"none"}

OpcuaInit ==
    /\ tag \in Counts
    /\ link = "stopped" /\ due = {}
    /\ handler = Zero /\ last = Forgotten
    /\ counted = Zero /\ made = Zero /\ atStart = Zero /\ first = "none"

\* start(): the discovered equipment gets a state of its own and a task.
StartCounting ==
    /\ link = "stopped"
    /\ link' = "connecting"
    /\ last' = Forgotten
    /\ counted' = Zero /\ made' = Zero /\ atStart' = tag /\ first' = "none"
    /\ UNCHANGED <<tag, due, handler>>

\* The subscription of both nodes: the server answers with their values.
Subscribe ==
    /\ link = "connecting"
    /\ link' = "subscribed" /\ due' = Kinds /\ handler' = Zero
    /\ UNCHANGED <<tag, last, counted, made, atStart, first>>

FallBack ==
    /\ link = "connecting"
    /\ link' = "polling"
    /\ UNCHANGED <<tag, due, handler, last, counted, made, atStart, first>>

\* stop() cancels the task and clears the states.
StopCounting ==
    /\ link # "stopped"
    /\ link' = "stopped" /\ due' = {} /\ last' = Forgotten
    /\ UNCHANGED <<tag, handler, counted, made, atStart, first>>

\* What a comparison finds new: nothing against a count it does not know.
Increase(seen, k) ==
    IF last[k] # -1 /\ seen[k] > last[k] THEN seen[k] - last[k] ELSE 0

\* Mutant of ProcessValues: the last-known counts are set once.
ProcessAgainstFirst(seen) ==
    /\ counted' = [k \in Kinds |-> counted[k] + Increase(seen, k)]
    /\ last' = IF last = Forgotten THEN seen ELSE last

\* _process_values, up to the session it opens for the increment.
ProcessValues(seen) ==
    /\ counted' = [k \in Kinds |-> counted[k] + Increase(seen, k)]
    /\ last' = seen

\* datachange_notification and the task it schedules; tasks start in order, and
\* nothing else of the loop writes what they read.
Notify(k) ==
    /\ link = "subscribed" /\ k \in due
    /\ due' = due \ {k}
    /\ handler' = [handler EXCEPT ![k] = tag[k]]
    /\ ProcessValues([handler EXCEPT ![k] = tag[k]])
    /\ first' = IF first = "none" THEN k ELSE first
    /\ UNCHANGED <<tag, link, made, atStart>>

\* One round of the polling fallback.
PollTags ==
    /\ link = "polling"
    /\ ProcessValues(tag)
    /\ UNCHANGED <<tag, link, due, handler, made, atStart, first>>

\* The machine counts a unit; the server samples the node and notifies it later,
\* with the value it has then.
Produce(k) ==
    /\ tag[k] < MaxMachine
    /\ tag' = [tag EXCEPT ![k] = @ + 1]
    /\ made' = IF link = "stopped" THEN made ELSE [made EXCEPT ![k] = @ + 1]
    /\ due' = IF link = "subscribed" THEN due \cup {k} ELSE due
    /\ UNCHANGED <<link, handler, last, counted, atStart, first>>

\* The operator resets the counters of the machine, or one of them rolls over.
ResetTag(k) ==
    /\ tag[k] > 0
    /\ tag' = [tag EXCEPT ![k] = 0]
    /\ due' = IF link = "subscribed" THEN due \cup {k} ELSE due
    /\ UNCHANGED <<link, handler, last, counted, made, atStart, first>>

\* The bounds of this model: the ghosts stay in the range of the counts.
Bounded == \A k \in Kinds : counted'[k] <= MaxMachine /\ made'[k] <= MaxMachine

OpcuaNext ==
    /\ \/ StartCounting \/ Subscribe \/ FallBack \/ StopCounting \/ PollTags
       \/ \E k \in Kinds : Notify(k) \/ Produce(k) \/ ResetTag(k)
    /\ Bounded

OpcuaSpec == OpcuaInit /\ [][OpcuaNext]_opcuaVars

-----------------------------------------------------------------------------
\* The plugin says of itself that it only increments the counter by the difference,
\* so that it would never count more than the machine made since the start; this is
\* what holds instead: the kind notified first after a start, and both when polling, are
\* never overcounted, and the other kind by no more than the machine showed at the
\* start, which the handler took for zero.
OvercountExplained ==
    \A k \in Kinds :
        counted[k] <= made[k] + (IF first \in {"none", k} THEN 0 ELSE atStart[k])
=============================================================================
