----------------------------- MODULE MCEngineering ---------------------------
(***************************************************************************)
(* Instances for TLC of what engineers and planners edit, one part in a    *)
(* behaviour: the steps of a route, the default route of a product, the    *)
(* tables of master data, the windows of capabilities; the materials       *)
(* pulled from the ERP; the working time computed from a schedule; and the *)
(* demonstration data, one key or one lot.  The parts share no state here. *)
(***************************************************************************)
EXTENDS RouteEditing, RouteDefaults, MasterData, Capabilities, WorkTime, ErpSync, DemoSeed, TLC

VARIABLE part    \* the part that runs

MCSteps == {"a", "b", "c"}
MCSequence == [s \in MCSteps |-> CASE s = "a" -> 30 [] s = "b" -> 10 [] s = "c" -> 20]

\* A day of four ticks; rotations with a night shift, a day off, a shift of a whole day,
\* a deleted shift, and without a segment.
Day == [start |-> 1, length |-> 2]
Night == [start |-> 3, length |-> 2]
Late == [start |-> 3, length |-> 4]
Round == [start |-> 0, length |-> 4]
On(s) == [shift |-> s, on |-> 1, off |-> 0]
OnOff(s) == [shift |-> s, on |-> 1, off |-> 1]
MCRotations == {<<On(Day)>>, <<OnOff(Night)>>, <<On(Day), On(Late)>>,
                <<OnOff(Round), On(Night)>>, <<On(NoShift), On(Round)>>, <<>>}
\* No holiday, one, two that overlap, and two that start together.
Holiday(from, to) == [start |-> from, length |-> to - from]
MCHolidays == {{}, {Holiday(13, 15)}, {Holiday(12, 16), Holiday(14, 18), Holiday(15, 17)},
               {Holiday(14, 16), Holiday(14, 20)}}

Parts == {"routes", "defaults", "tables", "windows", "worktime", "materials", "seeds", "lots"}

\* The parts that do not run start in one state.
EngineeringInit ==
    /\ part \in Parts
    /\ part = "materials" \/ (origin = "sap" /\ material = [m \in MaterialCodes |-> NoMaterial])
    /\ part = "tables" \/ mdTable = Rules(SiteService, SiteRoutes, SiteForms, SiteIndex)
    /\ part = "seeds" \/ seedTable = SiteSeed
    /\ part = "worktime" \/ plan = [rotation |-> <<>>, from |-> 4, to |-> 8, holidays |-> {}]
    /\ Init /\ RouteDefaultsInit /\ CapabilityInit
    /\ SyncInit /\ MasterDataInit /\ DemoInit /\ WorkInit

EngineeringNext ==
    /\ \/ part = "routes" /\ Next
       \/ part # "routes" /\ UNCHANGED vars
    /\ \/ part = "defaults" /\ RouteDefaultsNext
       \/ part # "defaults" /\ UNCHANGED defaultVars
    /\ \/ part = "tables" /\ MasterDataNext
       \/ part # "tables" /\ UNCHANGED mdVars
    /\ \/ part = "windows" /\ CapabilityNext
       \/ part # "windows" /\ UNCHANGED capVars
    /\ \/ part = "worktime" /\ WorkNext
       \/ part # "worktime" /\ UNCHANGED workVars
    /\ \/ part = "materials" /\ SyncNext
       \/ part # "materials" /\ UNCHANGED syncVars
    /\ \/ part = "seeds" /\ Reseeds
       \/ part = "lots" /\ Receives
       \/ part \notin {"seeds", "lots"} /\ UNCHANGED demoVars
    /\ UNCHANGED part

EngineeringVars == <<part, vars, defaultVars, mdVars, capVars, workVars, syncVars, demoVars>>

EngineeringSpec == EngineeringInit /\ [][EngineeringNext]_EngineeringVars

\* Every variable has its type.
EngineeringTypeOK ==
    CASE part = "routes"   -> TypeOK
      [] part = "defaults" -> RouteDefaultsTypeOK
      [] part = "tables"   -> MasterDataTypeOK
      [] part = "windows"  -> CapabilityTypeOK
      [] part = "worktime" -> WorkTypeOK
      [] part = "materials" -> SyncTypeOK
      [] OTHER -> DemoTypeOK

\* Bound: versions change, and two syncs overlap, only while the ERP lists at most one
\* material and the other one has no row.
BoundPulls ==
    part = "materials" =>
        \/ (\A m \in MaterialCodes : erpVersion[m] = 0) /\ (\E s \in Pulls : pull[s].at = "idle")
        \/ \E m \in MaterialCodes : ~material[m].there /\ ~Contains(erpList, m)

\* Bound: a route that is imported without the flag is imported while no other request
\* on routes is under way.
BoundImports ==
    (\E q \in RouteEditors : editing[q].op = "importNext") =>
        \E q \in RouteEditors : editing[q].op = "none"

\* Bound: the lists of a deleted step, which nothing reads, are empty.
BoundSteps == \A s \in gone : route.inputs[s] = {} /\ route.outputs[s] = {}

Symmetry == Permutations(Codes)
=============================================================================
