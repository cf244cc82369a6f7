--------------------------- MODULE EquipmentState ---------------------------
(***************************************************************************)
(* The state log of the equipment (core/performance/service.py and         *)
(* engine.py) and the state models that plugins register.                  *)
(*                                                                         *)
(* A change of state closes the open row of the equipment and inserts an   *)
(* open one.  It comes from the machine, checked against the state model,  *)
(* or by hand, unchecked.  Requests overlap: each reads the log and writes *)
(* it later, when the other may have written it too; and the log is capped *)
(* over all equipment together, by age, whether a row is open or not.      *)
(* The open row is what dispatch and the OEE calculation go by.            *)
(***************************************************************************)
EXTENDS Naturals, FiniteSets

CONSTANTS
    Equipment,
    Modelled,       \* those with a state_model_id
    ModelStates,    \* the states of that model
    Legal,          \* its transitions, pairs of states
    ReasonNames,    \* states set by hand: the name of a reason
    StateRequests,  \* requests and plugin callbacks that may overlap
    NoState,        \* no change yet
    LogCap,         \* _MAX_STATE_LOG_ROWS
    MaxClock        \* bound on the time

ASSUME EquipmentStateAssumption ==
    /\ Modelled \subseteq Equipment
    /\ IsFiniteSet(Equipment)
    /\ Legal \subseteq ModelStates \X ModelStates
    /\ LogCap \in Nat \ {0} /\ MaxClock \in Nat
    /\ IsFiniteSet(StateRequests)

VARIABLES
    stateLog,   \* the rows of equipment_state_logs
    clock,      \* the time of day
    change,     \* per request: the change it is about to write, or none
    latest,       \* ghost: per equipment, the row of its latest change as it was written
    overlooked       \* ghost: ... and how many of its changes came after one they had not read

stateVars == <<stateLog, clock, change, latest, overlooked>>

Names == ModelStates \cup ReasonNames
Times == 0..MaxClock
\* Ids only tell rows apart: that of a deleted row nobody remembers is used again.
Ids == 1..(LogCap + Cardinality(StateRequests) + 1)
Rows == [id : Ids, equip : Equipment, state : Names, start : Times, open : BOOLEAN]
\* late: another change of the equipment was committed since this one read the log.
Changes == [equip : Equipment, state : Names, start : Times, prev : Ids \cup {0}, late : BOOLEAN]
None == [prev |-> 0]

StateTypeOK ==
    /\ stateLog \subseteq Rows
    /\ \A r, s \in stateLog : r.id = s.id => r = s
    /\ Cardinality(stateLog) <= LogCap
    /\ clock \in Times
    /\ change \in [StateRequests -> Changes \cup {None}]
    /\ latest \in [Equipment -> Rows \cup {NoState}]
    /\ overlooked \in [Equipment -> 0..LogCap]

StateInit ==
    /\ stateLog = {}
    /\ clock = 0
    /\ change = [q \in StateRequests |-> None]
    /\ latest = [e \in Equipment |-> NoState]
    /\ overlooked = [e \in Equipment |-> 0]

OpenRowsOf(e) == {r \in stateLog : r.equip = e /\ r.open}

\* ORDER BY started_at DESC LIMIT 1: among equals, any.
Newest(R) == {r \in R : \A s \in R : s.start <= r.start}

-----------------------------------------------------------------------------
(***************************************************************************)
(* A request reads the open row it is going to close.                      *)
(***************************************************************************)

\* Mutant of Prepare: the row to close is looked for over all equipment.
PrepareAnywhere(q, e, name, t) ==
    /\ change[q] = None
    /\ \E p \in {r.id : r \in Newest({r \in stateLog : r.open})} \cup
                (IF \E r \in stateLog : r.open THEN {} ELSE {0}) :
         change' = [change EXCEPT ![q] = [equip |-> e, state |-> name, start |-> t, prev |-> p, late |-> FALSE]]
    /\ UNCHANGED <<stateLog, clock, latest, overlooked>>

\* record_state_change, up to the flush.
Prepare(q, e, name, t) ==
    /\ change[q] = None
    /\ \E p \in {r.id : r \in Newest(OpenRowsOf(e))} \cup
                (IF OpenRowsOf(e) = {} THEN {0} ELSE {}) :
         change' = [change EXCEPT ![q] = [equip |-> e, state |-> name, start |-> t, prev |-> p, late |-> FALSE]]
    /\ UNCHANGED <<stateLog, clock, latest, overlooked>>

\* _is_transition_valid; without an open row any state of the model will do.
Admissible(e, name) ==
    /\ name \in ModelStates
    /\ \/ OpenRowsOf(e) = {}
       \/ \E r \in Newest(OpenRowsOf(e)) : <<r.state, name>> \in Legal

\* transition_equipment, for a machine that reports its state.
Report(q, e, name) ==
    /\ e \in Modelled => Admissible(e, name)
    /\ Prepare(q, e, name, clock)

\* manual_transition_equipment: no model is asked.
ManualTransition(q, e, name) ==
    /\ name \in ReasonNames
    /\ Prepare(q, e, name, clock)

\* POST /equipment-states: any state, and the client says since when.
PostState(q, e, name, t) == Prepare(q, e, name, t)

-----------------------------------------------------------------------------
(***************************************************************************)
(* The flush and the commit.                                               *)
(***************************************************************************)

\* Mutant of Close: the row before is left open.
CloseNothing(log, p) == log

Close(log, p) ==
    {IF r.id = p THEN [r EXCEPT !.open = FALSE] ELSE r : r \in log}

Known(k) == (\E r \in stateLog : r.id = k) \/ (\E q \in StateRequests : change[q].prev = k)

\* The rows above the cap that may be deleted: the oldest by their start.
Capped(log) ==
    {D \in SUBSET log :
        /\ Cardinality(D) = IF Cardinality(log) > LogCap THEN Cardinality(log) - LogCap ELSE 0
        /\ \A d \in D, r \in log \ D : d.start <= r.start}

PrevGone(q) == change[q].prev # 0 /\ \A r \in stateLog : r.id # change[q].prev

\* Who else has a change of the equipment in hand read the log too early.
Outrun(q) ==
    change' = [p \in StateRequests |->
        IF p = q THEN None
        ELSE IF change[p] # None /\ change[p].equip = change[q].equip
             THEN [change[p] EXCEPT !.late = TRUE] ELSE change[p]]

WriteChange(q) ==
    /\ change[q] # None /\ ~PrevGone(q)
    /\ \E k \in Ids :
       LET c   == change[q]
           row == [id |-> k, equip |-> c.equip, state |-> c.state,
                   start |-> c.start, open |-> TRUE]
           log == Close(stateLog, c.prev) \cup {row} IN
       /\ ~Known(k) /\ \A i \in 1..(k - 1) : Known(i)
       /\ \E D \in Capped(log) : stateLog' = log \ D
       /\ latest' = [latest EXCEPT ![c.equip] = row]
       /\ overlooked' = [overlooked EXCEPT ![c.equip] = IF c.late /\ @ < LogCap THEN @ + 1 ELSE @]
    /\ Outrun(q)
    /\ UNCHANGED clock

\* The row to close was deleted by the cap meanwhile: its UPDATE matches nothing
\* and the flush fails; or the request ends before its commit.
GiveUpChange(q) ==
    /\ change[q] # None
    /\ change' = [change EXCEPT ![q] = None]
    /\ UNCHANGED <<stateLog, clock, latest, overlooked>>

TimePasses ==
    /\ clock < MaxClock
    /\ clock' = clock + 1
    /\ UNCHANGED <<stateLog, change, latest, overlooked>>

StateNext ==
    \/ \E q \in StateRequests :
        \/ \E e \in Equipment, name \in Names :
            \/ Report(q, e, name)
            \/ ManualTransition(q, e, name)
            \/ \E t \in Times : PostState(q, e, name, t)
        \/ WriteChange(q) \/ GiveUpChange(q)
    \/ TimePasses

StateSpec == StateInit /\ [][StateNext]_stateVars

-----------------------------------------------------------------------------
\* The row of the latest change of an equipment stands in the log, open, unless the log is
\* full of rows that started no earlier; and no other of its rows is open, but for one
\* after each change that was committed without having read the one before it.
\* Back-dated changes, changes by hand and refused ones do not break it.
LogFollowsEquipment ==
    \A e \in Equipment :
        /\ latest[e] \notin stateLog \cup {NoState} =>
              Cardinality(stateLog) = LogCap /\ \A r \in stateLog : latest[e].start <= r.start
        /\ Cardinality({r \in OpenRowsOf(e) : r # latest[e]}) <= overlooked[e]

-----------------------------------------------------------------------------
(***************************************************************************)
(* The state models of the two availability plugins.                       *)
(***************************************************************************)

Pairs(A, B) == {<<a, b>> : a \in A, b \in B}

PackMLStates ==
    {"Stopped", "Idle", "Complete", "Held", "Suspended", "Aborted",
     "Resetting", "Starting", "Execute", "Completing", "Holding", "Unholding",
     "Suspending", "Unsuspending", "Stopping", "Aborting", "Clearing"}

PackMLStoppable ==
    PackMLStates \ {"Stopped", "Stopping", "Aborting", "Aborted", "Clearing"}

PackML ==
    [initial |-> "Stopped",
     states  |-> PackMLStates,
     legal   |->
        {<<"Stopped", "Resetting">>, <<"Resetting", "Idle">>, <<"Idle", "Starting">>,
         <<"Starting", "Execute">>, <<"Execute", "Completing">>,
         <<"Completing", "Complete">>, <<"Complete", "Resetting">>,
         <<"Execute", "Holding">>, <<"Holding", "Held">>, <<"Held", "Unholding">>,
         <<"Unholding", "Execute">>, <<"Execute", "Suspending">>,
         <<"Suspending", "Suspended">>, <<"Suspended", "Unsuspending">>,
         <<"Unsuspending", "Execute">>, <<"Stopping", "Stopped">>,
         <<"Aborting", "Aborted">>, <<"Aborted", "Clearing">>, <<"Clearing", "Stopped">>}
        \cup Pairs(PackMLStoppable, {"Stopping"})
        \cup Pairs(PackMLStoppable \cup {"Stopped", "Stopping"}, {"Aborting"})]

SemiE10States ==
    {"Productive", "Standby", "Engineering", "Scheduled Downtime",
     "Unscheduled Downtime", "Non-Scheduled"}

SemiE10 ==
    [initial |-> "Standby",
     states  |-> SemiE10States,
     legal   |-> {p \in Pairs(SemiE10States, SemiE10States) : p[1] # p[2]}]

\* No state of a model is a trap: a set of states that no transition leaves is
\* the set of all, so from every state every other can be reached.
NoTrap(model) ==
    /\ model.initial \in model.states
    /\ \A p \in model.legal : p[1] \in model.states /\ p[2] \in model.states
    /\ \A T \in SUBSET model.states :
         (T # {} /\ \A p \in model.legal : p[1] \in T => p[2] \in T) => T = model.states
=============================================================================
