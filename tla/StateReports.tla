---------------------------- MODULE StateReports ----------------------------
(***************************************************************************)
(* How the state of a machine gets into the log of the server: an          *)
(* equipment plugin with its adapter (plugins/system/opcua_equipment,      *)
(* modbus_equipment and aveva_historian with adapters/equipment/opcua,     *)
(* adapters/equipment/modbus and adapters/historian/aveva).                *)
(*                                                                         *)
(* A subscription tells the plugin of a new value of the state tag; the    *)
(* plugin drops what it was told last, remembers the rest and only then    *)
(* records it.  Callbacks of OPC UA run side by side, each after a read of *)
(* the equipment's id; the pollers of the other two wait for theirs.       *)
(*                                                                         *)
(* One machine, one server process.  The log is its open row, which module *)
(* EquipmentState keeps.                                                   *)
(***************************************************************************)
EXTENDS FiniteSets

CONSTANTS
    MachineStates,
    Moves,      \* transitions of the state model the plugin is given
    Calls,      \* callbacks that may be in flight
    NoReport    \* nothing heard, remembered or recorded yet

ASSUME StateReportsAssumption ==
    NoReport \notin MachineStates /\ Moves \subseteq MachineStates \X MachineStates

VARIABLES
    protocol,   \* of the plugin the machine is attached to
    machine,    \* the state it is in
    plugin,     \* "up", "down", or "deaf": subscribed in a session that is gone
    heard,      \* the last value the subscription delivered
    lastState,  \* _last_state, last_state[0], tracker.last_state
    call,       \* the callbacks in flight
    logged,     \* the state in the log
    why         \* ghost: why the log may differ from the machine

reportVars == <<protocol, machine, plugin, heard, lastState, call, logged, why>>

Maybe == MachineStates \cup {NoReport}
Resting == [at |-> "rest"]

\* alone: nothing else has been under way since the callback began.
Flights == [at : {"id", "check", "write"}, state : MachineStates, alone : BOOLEAN]

Causes == {"none", "refused", "unread", "overlapped", "byHand", "noMethod"}

ReportTypeOK ==
    /\ protocol \in {"opcua", "modbus", "aveva"}
    /\ machine \in MachineStates
    /\ plugin \in {"up", "down", "deaf"}
    /\ heard \in Maybe /\ lastState \in Maybe /\ logged \in Maybe
    /\ call \in [Calls -> Flights \cup {Resting}]
    /\ why \in Causes

ReportInit ==
    /\ protocol \in {"opcua", "modbus", "aveva"}
    /\ machine \in MachineStates
    /\ plugin = "down"
    /\ heard = NoReport /\ lastState = NoReport /\ logged = NoReport
    /\ call = [q \in Calls |-> Resting]
    /\ why = "none"

Flying == {q \in Calls : call[q] # Resting}

\* Every callback in flight has company from now on.
Disturbed == [q \in Calls |-> IF q \in Flying THEN [call[q] EXCEPT !.alone = FALSE] ELSE call[q]]

-----------------------------------------------------------------------------
(***************************************************************************)
(* The machine, and the people at it.                                      *)
(***************************************************************************)

MachineMoves(s) ==
    /\ machine' = s
    /\ UNCHANGED <<protocol, plugin, heard, lastState, call, logged, why>>

\* A state set by hand is recorded whatever the machine says.
SetByHand(s) ==
    /\ logged' = s
    /\ why' = "byHand"
    /\ call' = Disturbed
    /\ UNCHANGED <<protocol, machine, plugin, heard, lastState>>

-----------------------------------------------------------------------------
(***************************************************************************)
(* start, stop, and what ends without them.                                *)
(***************************************************************************)

\* A new subscription delivers the value of the tag.  Enabling a plugin again
\* initialises it: only the OPC UA plugin keeps what it remembers.
StartPlugin ==
    /\ plugin = "down"
    /\ plugin' = "up"
    /\ heard' = NoReport
    /\ lastState' = IF protocol = "opcua" THEN lastState ELSE NoReport
    /\ UNCHANGED <<protocol, machine, call, logged, why>>

\* A callback that is cut short has committed or has not.
CutShort ==
    /\ call' = [q \in Calls |-> Resting]
    /\ \/ UNCHANGED logged
       \/ \E q \in Flying : call[q].at = "write" /\ logged' = call[q].state

\* The pollers are cancelled, with the callback they wait for; the callbacks of
\* OPC UA are tasks of their own and go on.
StopPlugin ==
    /\ plugin # "down"
    /\ plugin' = "down"
    /\ \/ protocol = "opcua" /\ UNCHANGED <<call, logged, why>>
       \/ protocol # "opcua" /\ CutShort /\ UNCHANGED why
    /\ UNCHANGED <<protocol, machine, heard, lastState>>

\* The process ends, and is started with its plugins.
ProcessEnds ==
    /\ plugin' = "down"
    /\ lastState' = NoReport
    /\ CutShort
    /\ UNCHANGED <<protocol, machine, heard, why>>

\* The session of OPC UA ends without disconnect: nothing connects it again.  The
\* pollers only miss a poll.
SessionLost ==
    /\ protocol = "opcua" /\ plugin = "up"
    /\ plugin' = "deaf"
    /\ UNCHANGED <<protocol, machine, heard, lastState, call, logged, why>>

-----------------------------------------------------------------------------
(***************************************************************************)
(* A value arrives.                                                        *)
(***************************************************************************)

\* Skip duplicate transitions; the rest is remembered before it is recorded.
Receive(q, s, calls, alone) ==
    IF s = lastState
    THEN /\ call' = [calls EXCEPT ![q] = Resting]
         /\ UNCHANGED lastState
    ELSE /\ call' = [calls EXCEPT ![q] = [at |-> "check", state |-> s, alone |-> alone]]
         /\ lastState' = s

\* Mutant of Notified: a change that comes during a callback starts none.
NotifiedAtRest(q) ==
    /\ protocol = "opcua" /\ plugin = "up" /\ heard # machine
    /\ q \notin Flying
    /\ heard' = machine
    /\ call' = IF Flying = {}
               THEN [call EXCEPT ![q] = [at |-> "id", state |-> machine, alone |-> TRUE]]
               ELSE call
    /\ UNCHANGED <<protocol, machine, plugin, lastState, logged, why>>

\* datachange_notification: a task for each change, whatever is under way.
Notified(q) ==
    /\ protocol = "opcua" /\ plugin = "up" /\ heard # machine
    /\ q \notin Flying
    /\ heard' = machine
    /\ call' = [Disturbed EXCEPT
                 ![q] = [at |-> "id", state |-> machine, alone |-> Flying = {}]]
    /\ why' = IF Flying = {} THEN why ELSE "overlapped"
    /\ UNCHANGED <<protocol, machine, plugin, lastState, logged>>

\* The equipment's id is read from the machine; without it the change is dropped.
ReadId(q) ==
    /\ q \in Flying /\ call[q].at = "id"
    /\ \/ /\ call' = [call EXCEPT ![q] = Resting]
          /\ why' = "unread"
          /\ UNCHANGED lastState
       \/ /\ Receive(q, call[q].state, call, call[q].alone)
          /\ UNCHANGED why
    /\ UNCHANGED <<protocol, machine, plugin, heard, logged>>

\* The poll loops: Modbus hands over every value, AVEVA the one that differs from
\* the poll before.
Polled(q) ==
    /\ protocol # "opcua" /\ plugin = "up"
    /\ Flying = {}
    /\ protocol = "aveva" => heard # machine
    /\ heard' = machine
    /\ Receive(q, machine, call, TRUE)
    /\ UNCHANGED <<protocol, machine, plugin, logged, why>>

-----------------------------------------------------------------------------
(***************************************************************************)
(* It is recorded.                                                         *)
(***************************************************************************)

Lost(q, w) ==
    /\ call' = [call EXCEPT ![q] = Resting]
    /\ why' = w
    /\ UNCHANGED logged

Possible(s) == logged = NoReport \/ <<logged, s>> \in Moves

\* transition_equipment up to the write; the method the Modbus plugin calls is not
\* one of the engine's.  Whatever fails is logged and forgotten.
Check(q) ==
    /\ q \in Flying /\ call[q].at = "check"
    /\ \/ protocol = "modbus" /\ Lost(q, "noMethod")
       \/ protocol # "modbus" /\ Lost(q, "refused")
       \/ /\ protocol # "modbus" /\ Possible(call[q].state)
          /\ call' = [call EXCEPT ![q].at = "write"]
          /\ UNCHANGED <<logged, why>>
    /\ UNCHANGED <<protocol, machine, plugin, heard, lastState>>

Write(q) ==
    /\ q \in Flying /\ call[q].at = "write"
    /\ \/ /\ logged' = call[q].state
          /\ call' = [call EXCEPT ![q] = Resting]
          /\ why' = IF call[q].alone THEN "none" ELSE why
       \/ Lost(q, "refused")
    /\ UNCHANGED <<protocol, machine, plugin, heard, lastState>>

ReportNext ==
    \/ \E s \in MachineStates : MachineMoves(s) \/ SetByHand(s)
    \/ StartPlugin \/ StopPlugin \/ ProcessEnds \/ SessionLost
    \/ \E q \in Calls : Notified(q) \/ ReadId(q) \/ Polled(q) \/ Check(q) \/ Write(q)

ReportSpec == ReportInit /\ [][ReportNext]_reportVars

-----------------------------------------------------------------------------
\* The plugin has been told of the state the machine is in, and is done with it.
Settled == plugin = "up" /\ heard = machine /\ Flying = {}

\* Once the reports have settled the log shows the state the machine is in.  It
\* shows another only if the last change was refused or failed, which is not tried
\* again; if its equipment could not be read; if callbacks overlapped; if the state
\* was set by hand; or, from a Modbus machine, always.  Restarts of the plugin and
\* of the process and lost sessions add no cause of their own.
LogFollowsMachine ==
    Settled => \/ logged = machine
               \/ why \notin {"none", "noMethod"}
               \/ protocol = "modbus" /\ why = "noMethod"

\* What the Modbus plugin says of itself: changes are fed into the engine, so that
\* availability is tracked.  A change is lost for reasons of the machine, of the
\* model or of people only.
TrackedAutomatically == Settled => logged = machine \/ why \notin {"none", "noMethod"}
=============================================================================
