------------------------------- MODULE Plugins -------------------------------
(***************************************************************************)
(* The plugins of one server process: the manager with what runs           *)
(* (framework/plugin/manager.py) and the requests of the administrators    *)
(* with the row of each plugin in the database (framework/plugin/routes.py).*)
(*                                                                         *)
(* A request reads the row, may change it, which keeps it locked until the *)
(* request ends, and awaits the plugin's initialize, start or stop: what   *)
(* it checked may have changed by then.  A restart starts what the rows    *)
(* say, and what fails stays in its row.                                   *)
(***************************************************************************)
EXTENDS Naturals, FiniteSets

CONSTANTS
    PluginIds,
    ErpPlugins,     \* with an ERP extension point, and no simulator
    Admins,         \* requests that may overlap
    MaxLoads        \* bound: instances made of one plugin

ASSUME PluginsAssumption ==
    ErpPlugins \subseteq PluginIds /\ IsFiniteSet(Admins) /\ MaxLoads \in Nat \ {0}

VARIABLES
    config,     \* per plugin: installed and enabled, as committed
    loaded,     \* per plugin: the current instance, 0 before the first load
    running,    \* plugins with is_running
    alive,      \* instances that were started and not stopped
    hearing,    \* instances whose handlers the event bus knows
    req,        \* per request: where it is
    cause       \* ghost: plugins, and why a row may differ from what runs

pluginVars == <<config, loaded, running, alive, hearing, req, cause>>

Instances == PluginIds \X (1..MaxLoads)
Stages == {"read", "row", "initialize", "load", "start", "stop", "commit"}
Ops == {"install", "uninstall", "enable", "disable"}
Rest == [at |-> "rest"]

ConfigRow == [installed : BOOLEAN, enabled : BOOLEAN]

\* sees: the row as the request read it; holds: the request has changed it, and the
\* database keeps it for the request until it ends.
InFlight ==
    [at : Stages, op : Ops, plugin : PluginIds, sees : ConfigRow, holds : BOOLEAN,
     inst : 0..MaxLoads]

PluginTypeOK ==
    /\ config \in [PluginIds -> ConfigRow]
    /\ loaded \in [PluginIds -> 0..MaxLoads]
    /\ running \subseteq PluginIds
    /\ alive \cup hearing \subseteq Instances
    /\ req \in [Admins -> InFlight \cup {Rest}]
    /\ cause \subseteq PluginIds \X {"reinstalled", "failed", "lost", "crossed"}

PluginInit ==
    /\ config = [p \in PluginIds |-> [installed |-> FALSE, enabled |-> FALSE]]
    /\ loaded = [p \in PluginIds |-> 0]
    /\ running = {} /\ alive = {} /\ hearing = {}
    /\ req = [a \in Admins |-> Rest]
    /\ cause = {}

Process == <<loaded, running, alive, hearing>>

At(a, step) == req[a].at = step
GoTo(a, step) == req' = [req EXCEPT ![a].at = step]
Others(a, p) == {b \in Admins \ {a} : req[b] # Rest /\ req[b].plugin = p}

-----------------------------------------------------------------------------
(***************************************************************************)
(* The beginning of a request: the row is read, and the checks are made.   *)
(***************************************************************************)

\* The rule of a single active ERP plugin.
NoOtherErp(p) == p \in ErpPlugins => running \cap ErpPlugins \subseteq {p}

Allowed(op, p) == op = "enable" => config[p].installed /\ NoOtherErp(p)

\* An uninstall stops the plugin before it reads the row.
Begin(a, op, p) ==
    /\ req[a] = Rest
    /\ Allowed(op, p)
    /\ cause' = IF Others(a, p) # {} THEN cause \cup {<<p, "crossed">>} ELSE cause
    /\ req' = [req EXCEPT ![a] =
         [at |-> IF op # "uninstall" THEN "row" ELSE IF p \in running THEN "stop" ELSE "read",
          op |-> op, plugin |-> p, sees |-> config[p], holds |-> FALSE, inst |-> 0]]
    /\ UNCHANGED <<config, Process>>

ReadRow(a) ==
    /\ At(a, "read")
    /\ req' = [req EXCEPT ![a].sees = config[req[a].plugin], ![a].at = "row"]
    /\ UNCHANGED <<config, Process, cause>>

\* The row as the request makes it.
Made(a) ==
    [installed |-> CASE req[a].op = "install" -> TRUE [] req[a].op = "uninstall" -> FALSE
                     [] OTHER -> req[a].sees.installed,
     enabled   |-> req[a].op = "enable"]

\* Of the row, a session writes the columns that differ from what it read.
Merged(a) ==
    [c \in {"installed", "enabled"} |->
        IF Made(a)[c] # req[a].sees[c] THEN Made(a)[c] ELSE config[req[a].plugin][c]]

\* The flush: a row that changes is waited for.
WriteRow(a) ==
    /\ At(a, "row")
    /\ LET p == req[a].plugin
           changes == Made(a) # req[a].sees
           next == CASE req[a].op = "enable"  -> IF p \in running THEN "commit"
                                                 ELSE IF loaded[p] = 0 THEN "load" ELSE "initialize"
                     [] req[a].op = "disable" -> IF p \in running THEN "stop" ELSE "commit"
                     [] OTHER -> "commit"
       IN  /\ changes => \A b \in Others(a, p) : ~req[b].holds
           /\ req' = [req EXCEPT ![a].holds = changes, ![a].at = next]
    /\ UNCHANGED <<config, Process, cause>>

-----------------------------------------------------------------------------
(***************************************************************************)
(* The manager.                                                            *)
(***************************************************************************)

Serial(p) == Cardinality({i \in hearing : i[1] = p}) + 1

\* _load_plugin, after the new instance was initialized: it replaces the one
\* another load may have made meanwhile, whose handlers stay registered.
Load(a) ==
    /\ At(a, "load")
    /\ LET p == req[a].plugin  i == Serial(p) IN
       /\ i <= MaxLoads
       /\ loaded' = [loaded EXCEPT ![p] = i]
       /\ hearing' = hearing \cup {<<p, i>>}
       /\ req' = [req EXCEPT ![a].at = IF p \in running THEN "commit" ELSE "start", ![a].inst = i]
    /\ UNCHANGED <<config, running, alive, cause>>

\* An instance that was disabled is initialized again with the new configuration.
Reinitialize(a) ==
    /\ At(a, "initialize")
    /\ LET p == req[a].plugin IN
       req' = [req EXCEPT ![a].at = IF p \in running THEN "commit" ELSE "start",
                          ![a].inst = loaded[p]]
    /\ UNCHANGED <<config, Process, cause>>

\* _start_plugin, after the instance's start.
Start(a) ==
    /\ At(a, "start")
    /\ running' = running \cup {req[a].plugin}
    /\ alive' = alive \cup {<<req[a].plugin, req[a].inst>>}
    /\ GoTo(a, "commit")
    /\ UNCHANGED <<config, loaded, hearing, cause>>

\* Mutant of Stop: is_running is forgotten.
StopHalf(a) ==
    /\ At(a, "stop")
    /\ alive' = alive \ {<<req[a].plugin, loaded[req[a].plugin]>>}
    /\ GoTo(a, IF req[a].op = "uninstall" THEN "read" ELSE "commit")
    /\ UNCHANGED <<config, loaded, running, hearing, cause>>

\* stop_plugin, after the instance's stop.
Stop(a) ==
    /\ At(a, "stop")
    /\ running' = running \ {req[a].plugin}
    /\ alive' = alive \ {<<req[a].plugin, loaded[req[a].plugin]>>}
    /\ GoTo(a, IF req[a].op = "uninstall" THEN "read" ELSE "commit")
    /\ UNCHANGED <<config, loaded, hearing, cause>>

\* stop_plugin logs the exception of a stop and goes on: the plugin counts as running.
StopFails(a) ==
    /\ At(a, "stop")
    /\ GoTo(a, IF req[a].op = "uninstall" THEN "read" ELSE "commit")
    /\ cause' = cause \cup {<<req[a].plugin, "failed">>}
    /\ UNCHANGED <<config, Process>>

-----------------------------------------------------------------------------
(***************************************************************************)
(* The end of a request, and the restart of the process.                   *)
(***************************************************************************)

CommitRow(a) ==
    /\ At(a, "commit")
    /\ LET p == req[a].plugin IN
       /\ config' = IF req[a].holds THEN [config EXCEPT ![p] = Merged(a)] ELSE config
       /\ cause' = IF req[a].op = "install" /\ p \in running
                   THEN cause \cup {<<p, "reinstalled">>} ELSE cause
    /\ req' = [req EXCEPT ![a] = Rest]
    /\ UNCHANGED Process

\* initialize or start raises, or the row cannot be written: the row keeps what it was.
Fail(a) ==
    /\ req[a].at \in {"read", "row", "load", "initialize", "start"}
    /\ cause' = IF At(a, "row") /\ req[a].op # "uninstall" THEN cause
                ELSE cause \cup {<<req[a].plugin, "failed">>}
    /\ req' = [req EXCEPT ![a] = Rest]
    /\ UNCHANGED <<config, Process>>

\* The commit fails after the process did its part.
LoseRow(a) ==
    /\ At(a, "commit")
    /\ cause' = cause \cup {<<req[a].plugin, "lost">>}
    /\ req' = [req EXCEPT ![a] = Rest]
    /\ UNCHANGED <<config, Process>>

\* lifespan of a new process: what is installed and enabled is loaded and started,
\* except for what fails; no rule is asked.
Reboot(failing) ==
    LET wanted == {p \in PluginIds : config[p] = [installed |-> TRUE, enabled |-> TRUE]} IN
    /\ failing \subseteq wanted
    /\ running' = wanted \ failing
    /\ loaded' = [p \in PluginIds |-> IF p \in wanted \ failing THEN 1 ELSE 0]
    /\ alive' = (wanted \ failing) \X {1}
    /\ hearing' = (wanted \ failing) \X {1}
    /\ req' = [a \in Admins |-> Rest]
    /\ cause' = failing \X {"failed"}
    /\ UNCHANGED config

PluginNext ==
    \/ \E a \in Admins :
        \/ \E op \in Ops, p \in PluginIds : Begin(a, op, p)
        \/ ReadRow(a) \/ WriteRow(a) \/ Load(a) \/ Reinitialize(a) \/ Start(a) \/ Stop(a) \/ StopFails(a)
        \/ CommitRow(a) \/ Fail(a) \/ LoseRow(a)
    \/ \E failing \in SUBSET PluginIds : Reboot(failing)

PluginSpec == PluginInit /\ [][PluginNext]_pluginVars

-----------------------------------------------------------------------------
Quiet(p) == \A a \in Admins : req[a] # Rest => req[a].plugin # p

Recorded(p) == config[p].installed /\ config[p].enabled

\* With no request on a plugin, it runs if and only if its row says so, unless a
\* start or a stop failed, it was installed while it ran, a commit was lost, or two
\* requests on it overlapped; and unless two overlapped, no instance runs that the
\* manager has lost and would never stop.
RunsAsRecorded ==
    \A p \in PluginIds :
        /\ Quiet(p) /\ (p \in running) # Recorded(p) => \E c \in cause : c[1] = p
        /\ <<p, "crossed">> \notin cause => \A i \in alive : i[1] = p => i[2] = loaded[p]
=============================================================================
