-------------------------------- MODULE Bridge --------------------------------
(***************************************************************************)
(* The process of a native bridge and its supervisor                       *)
(* (framework/plugin/base.py, used by plugins/system/kafka_java_bridge).   *)
(*                                                                         *)
(* A monitor task waits for the process, starts it again when it exits     *)
(* with an error, and gives up after three quick exits in a row or when    *)
(* the port is taken.  Processes are started in a thread that a            *)
(* cancellation does not stop.  A process that nobody holds keeps the      *)
(* port, and no bridge can be started until somebody kills it.             *)
(***************************************************************************)
EXTENDS Naturals, FiniteSets

CONSTANTS
    Procs,          \* processes of the operating system, by pid
    NoProc,
    MaxQuickExits   \* _MAX_QUICK_EXITS

ASSUME BridgeAssumption == NoProc \notin Procs /\ MaxQuickExits \in Nat \ {0}

VARIABLES
    up,         \* the processes that run
    handle,     \* _bridge_proc
    exit,       \* how the process of the handle ended, or "none"
    monitor,    \* where the monitor task is
    quick,      \* quick_exit_count
    threads,    \* Popen calls under way, by who waits for them
    user,       \* the plugin: "stopped", "starting", "started", "stopping"
    orphaned    \* ghost: a crash or a cancelled start left a process behind

bridgeVars == <<up, handle, exit, monitor, quick, threads, user, orphaned>>

Exits == {"none", "clean", "port", "quick", "late"}

BridgeTypeOK ==
    /\ up \subseteq Procs
    /\ handle \in Procs \cup {NoProc}
    /\ exit \in Exits
    /\ monitor \in {"none", "waiting", "sleeping", "launching", "gone", "blocked"}
    /\ quick \in 0..MaxQuickExits
    /\ threads \subseteq {"start", "monitor", "nobody"}
    /\ user \in {"stopped", "starting", "started", "stopping"}
    /\ orphaned \in BOOLEAN

BridgeInit ==
    /\ up = {} /\ handle = NoProc /\ exit = "none"
    /\ monitor = "none" /\ quick = 0 /\ threads = {}
    /\ user = "stopped" /\ orphaned = FALSE

\* _check_port_available; the one port of the plugin.
PortFree == up = {}

-----------------------------------------------------------------------------
(***************************************************************************)
(* The plugin's start and stop.                                            *)
(***************************************************************************)

\* _start_bridge; with the port taken the start fails and nothing changes.
StartBridge ==
    /\ user = "stopped" /\ PortFree
    /\ user' = "starting"
    /\ threads' = threads \cup {"start"}
    /\ UNCHANGED <<up, handle, exit, monitor, quick, orphaned>>

\* The thread returns the process; if its port was taken it exits by itself.
StartLaunched(p) ==
    /\ "start" \in threads /\ p \notin up \cup {handle}
    /\ threads' = threads \ {"start"}
    /\ up' = up \cup {p} /\ handle' = p /\ exit' = "none"
    /\ monitor' = "waiting" /\ quick' = 0
    /\ UNCHANGED <<user, orphaned>>

\* _wait_for_healthy finds the bridge up.
Healthy ==
    /\ user = "starting" /\ threads \cap {"start"} = {}
    /\ user' = "started"
    /\ UNCHANGED <<up, handle, exit, monitor, quick, threads, orphaned>>

\* _stop_bridge, first half: the monitor is cancelled wherever it is; a stop of the
\* plugin, or a start that did not become healthy.  The thread goes on.
CancelMonitor ==
    /\ user = "started" \/ (user = "starting" /\ "start" \notin threads)
    /\ user' = "stopping"
    /\ monitor' = "none"
    /\ threads' = IF "monitor" \in threads THEN (threads \ {"monitor"}) \cup {"nobody"} ELSE threads
    /\ UNCHANGED <<up, handle, exit, quick, orphaned>>

\* Mutant of Terminate: the process is left to itself.
TerminateNobody ==
    /\ user = "stopping"
    /\ user' = "stopped"
    /\ handle' = NoProc /\ exit' = "none"
    /\ UNCHANGED <<up, monitor, quick, threads, orphaned>>

\* Second half: the process of the handle is terminated, or killed.
Terminate ==
    /\ user = "stopping"
    /\ user' = "stopped"
    /\ up' = up \ {handle} /\ handle' = NoProc /\ exit' = "none"
    /\ UNCHANGED <<monitor, quick, threads, orphaned>>

-----------------------------------------------------------------------------
(***************************************************************************)
(* The process, the monitor and the thread.                                *)
(***************************************************************************)

\* The process ends; one whose port another holds does so soon.
Exit(how) ==
    /\ handle \in up /\ exit = "none"
    /\ how # "none" /\ (how = "port" => Cardinality(up) > 1)
    /\ up' = up \ {handle} /\ exit' = how
    /\ UNCHANGED <<handle, monitor, quick, threads, user, orphaned>>

GivesUp == exit \in {"clean", "port"} \/ (exit = "quick" /\ quick + 1 >= MaxQuickExits)

\* Mutant of NoticeExit: the monitor never comes back.
NoticeAndGo ==
    /\ monitor = "waiting" /\ exit # "none"
    /\ quick' = quick /\ monitor' = "gone"
    /\ UNCHANGED <<up, handle, exit, threads, user, orphaned>>

NoticeExit ==
    /\ monitor = "waiting" /\ exit # "none"
    /\ quick' = CASE exit = "quick" -> quick + 1 [] exit = "late" -> 0 [] OTHER -> quick
    /\ monitor' = IF GivesUp THEN "gone" ELSE "sleeping"
    /\ UNCHANGED <<up, handle, exit, threads, user, orphaned>>

\* After three seconds: the port is looked at again.
Relaunch ==
    /\ monitor = "sleeping"
    /\ monitor' = IF PortFree THEN "launching" ELSE "blocked"
    /\ threads' = IF PortFree THEN threads \cup {"monitor"} ELSE threads
    /\ UNCHANGED <<up, handle, exit, quick, user, orphaned>>

MonitorLaunched(p) ==
    /\ "monitor" \in threads /\ p \notin up \cup {handle}
    /\ threads' = threads \ {"monitor"}
    /\ up' = up \cup {p} /\ handle' = p /\ exit' = "none"
    /\ monitor' = "waiting"
    /\ UNCHANGED <<quick, user, orphaned>>

\* The thread of a cancelled relaunch starts the process all the same.
NobodyLaunched(p) ==
    /\ "nobody" \in threads /\ p \notin up \cup {handle}
    /\ threads' = threads \ {"nobody"}
    /\ up' = up \cup {p} /\ orphaned' = TRUE
    /\ UNCHANGED <<handle, exit, monitor, quick, user>>

\* The server process dies, its children need not.
ServerCrash ==
    /\ up' \in SUBSET up /\ orphaned' = (up' # {})
    /\ handle' = NoProc /\ exit' = "none" /\ monitor' = "none" /\ quick' = 0
    /\ threads' = {} /\ user' = "stopped"

\* Somebody kills what holds the port, or it ends.
KillOrphans ==
    /\ orphaned
    /\ up' = up \cap {handle} /\ orphaned' = FALSE
    /\ UNCHANGED <<handle, exit, monitor, quick, threads, user>>

BridgeNext ==
    \/ StartBridge \/ Healthy \/ CancelMonitor \/ Terminate
    \/ NoticeExit \/ Relaunch \/ ServerCrash \/ KillOrphans
    \/ \E how \in Exits : Exit(how)
    \/ \E p \in Procs : StartLaunched(p) \/ MonitorLaunched(p) \/ NobodyLaunched(p)

BridgeSpec == BridgeInit /\ [][BridgeNext]_bridgeVars

-----------------------------------------------------------------------------
\* What runs is the process that the plugin holds, and a stopped plugin has none,
\* unless the server crashed or a relaunch was under way when the plugin stopped.
OrphansExplained ==
    ~orphaned => /\ up \subseteq {handle}
                 /\ user = "stopped" => up = {}

\* While the bridge is down and the plugin started, the monitor is bringing it up,
\* or it gave up for a reason: a clean exit, a taken port or too many quick exits.
DownExplained ==
    user = "started" /\ up = {} =>
        \/ monitor \in {"waiting", "sleeping", "launching"}
        \/ monitor = "blocked"
        \/ monitor = "gone" /\ (exit \in {"clean", "port"} \/ quick = MaxQuickExits)

\* Both: the process follows the plugin.
BridgeFollowsPlugin == OrphansExplained /\ DownExplained
=============================================================================
