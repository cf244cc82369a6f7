------------------------------ MODULE MCServer ------------------------------
(***************************************************************************)
(* Instances for TLC of the parts of the server that share no state, one   *)
(* part in a behaviour: the queue of inbound orders with the generator,    *)
(* the states of equipment and the reports of machines, the production     *)
(* counters and the counts read from OPC UA, the plugins, the bridge       *)
(* process, the event gateway, the files of test equipment, the reports of *)
(* completed steps and those clients post to the ERP.                      *)
(***************************************************************************)
EXTENDS ErpInbound, EquipmentState, StateReports, CounterRows, OpcuaCounts, Plugins, Bridge, Events, FileDrop,
        CompletionReports, ErpCalls, TLC

VARIABLE part    \* the part that runs

\* A model with a state nothing leads to but the first report.
MCMoves == {<<"Run", "Idle">>, <<"Idle", "Run">>, <<"Down", "Idle">>}

ASSUME NoTrap(PackML) /\ NoTrap(SemiE10)

Parts == {"inbound", "states", "reports", "counters", "opcua", "plugins", "bridge", "events", "files",
          "completions", "calls"}

\* The parts that do not run start in one state.
ServerInit ==
    /\ part \in Parts
    /\ InboundInit /\ StateInit /\ ReportInit /\ CounterInit /\ OpcuaInit
    /\ part # "opcua" => tag = Zero
    /\ part # "reports" => protocol = "opcua" /\ machine = "Run"
    /\ PluginInit /\ BridgeInit /\ EventInit /\ DropInit
    /\ CompletionInit /\ ErpCallInit
    /\ part # "calls" => erp = "sap"

ServerNext ==
    /\ \/ part = "inbound" /\ InboundNext
       \/ part # "inbound" /\ UNCHANGED inboundVars
    /\ \/ part = "states" /\ StateNext
       \/ part # "states" /\ UNCHANGED stateVars
    /\ \/ part = "reports" /\ ReportNext
       \/ part # "reports" /\ UNCHANGED reportVars
    /\ \/ part = "counters" /\ CounterNext
       \/ part # "counters" /\ UNCHANGED counterVars
    /\ \/ part = "opcua" /\ OpcuaNext
       \/ part # "opcua" /\ UNCHANGED opcuaVars
    /\ \/ part = "plugins" /\ PluginNext
       \/ part # "plugins" /\ UNCHANGED pluginVars
    /\ \/ part = "bridge" /\ BridgeNext
       \/ part # "bridge" /\ UNCHANGED bridgeVars
    /\ \/ part = "events" /\ EventNext
       \/ part # "events" /\ UNCHANGED eventVars
    /\ \/ part = "files" /\ DropNext
       \/ part # "files" /\ UNCHANGED dropVars
    /\ \/ part = "completions" /\ CompletionNext
       \/ part # "completions" /\ UNCHANGED completionVars
    /\ \/ part = "calls" /\ ErpCallNext
       \/ part # "calls" /\ UNCHANGED erpCallVars
    /\ UNCHANGED part

ServerVars == <<part, inboundVars, stateVars, reportVars, counterVars, opcuaVars,
                pluginVars, bridgeVars, eventVars, dropVars, completionVars, erpCallVars>>

ServerSpec == ServerInit /\ [][ServerNext]_ServerVars

\* Every variable has its type.
ServerTypeOK ==
    CASE part = "inbound"  -> InboundTypeOK
      [] part = "states"   -> StateTypeOK
      [] part = "reports"  -> ReportTypeOK
      [] part = "counters" -> CounterTypeOK
      [] part = "opcua"    -> OpcuaTypeOK
      [] part = "plugins"  -> PluginTypeOK
      [] part = "bridge"   -> BridgeTypeOK
      [] part = "events"   -> EventTypeOK
      [] part = "files"    -> DropTypeOK
      [] part = "completions" -> CompletionTypeOK
      [] part = "calls"    -> ErpCallTypeOK

\* Bound: the log is followed through one change that was written without having read
\* the one before.
BoundRaces ==
    part = "states" =>
        /\ \A e \in Equipment : overlooked[e] <= 1
        /\ \A e, f \in Equipment : overlooked[e] = 1 /\ overlooked[f] = 1 => e = f
\* Bound: a second copy of the order is followed while the generators rest and
\* at most one of the inbound loops works.
BoundCopies ==
    part = "inbound" /\ copyOf[2] # Nothing =>
        (\A g \in Generators : GeneratorIdle(g)) /\ (\E i \in InboundLoops : InboundIdle(i))

Symmetry == Permutations(Equipment) \cup Permutations(Generators)
=============================================================================
