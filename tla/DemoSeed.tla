------------------------------ MODULE DemoSeed ------------------------------
(***************************************************************************)
(* The demonstration data (core/demo/service.py), whose seeds are said to  *)
(* be idempotent and safe to run many times.  A seed is one transaction:   *)
(* in each table it looks for a row with its key and creates one if it     *)
(* finds none; what the look-up covers, what the service checks and what   *)
(* the unique index covers differ from table to table.  A plant seed then  *)
(* receives the lots that have no balance at their storage location.  This *)
(* module follows one key of one table, and one lot, through seeds that    *)
(* are repeated, overlap, and meet what users have done to the rows.       *)
(***************************************************************************)
EXTENDS TableRules, Naturals, FiniteSets

CONSTANTS SeedRows,      \* primary keys of the table at hand
          Seeders,       \* requests to seed, each of which can be repeated
          NoSeedRow

ASSUME SeedAssumption == NoSeedRow \notin SeedRows

VARIABLES seedTable,   \* the table at hand
          keyRow,      \* what each row is to the key of the seed
          seeding,     \* what each seed is doing in the table
          keyHistory,  \* ghost: what happened to the key
          pile,        \* pieces of the lot at the dock, at its storage location, elsewhere
          booked,      \* the locations with a balance row of the lot
          counted,     \* quantity_on_hand of the lot
          stocking,    \* what each plant seed is doing with the lot
          goods,       \* ghost: pieces of the lot there are
          pileHistory  \* ghost: why the books may say more

seedVars == <<seedTable, keyRow, seeding, keyHistory>>
pileVars == <<pile, booked, counted, stocking, goods, pileHistory>>
demoVars == <<seedVars, pileVars>>

-----------------------------------------------------------------------------
(***************************************************************************)
(* The tables: the rows the look-up covers, whether it fails on several of *)
(* them, and what becomes of the row it finds.                             *)
(***************************************************************************)
SeedOf(rules, among, several, found) ==
    [rules |-> rules, among |-> among, several |-> several, found |-> found]

UnitSeed == SeedOf(Rules(UnitService, UnitRoutes, UnitForms, UnitIndex), "all", "fine", "kept")
MaterialSeed == SeedOf(Rules(MaterialService, MaterialRoutes, MaterialForms, MaterialIndex), "all", "error", "kept")
ProductSeed == SeedOf(Rules(ProductService, ProductRoutes, ProductForms, ProductIndex), "all", "error", "kept")
BomSeed == SeedOf(Rules(BomService, BomRoutes, BomForms, BomIndex), "active", "error", "kept")
StepSeed == SeedOf(Rules(StepService, StepRoutes, StepForms, StepIndex), "active", "error", "kept")
DispositionSeed ==
    SeedOf(Rules(DispositionService, DispositionRoutes, DispositionForms, DispositionIndex), "all", "error", "kept")
DataDefinitionSeed ==
    SeedOf(Rules(DataDefinitionService, DataDefinitionRoutes, DataDefinitionForms, DataDefinitionIndex),
           "all", "error", "kept")
ReasonSeed == SeedOf(Rules(ReasonService, ReasonRoutes, ReasonForms, ReasonIndex), "all", "error", "revived")
StepMaterialSeed ==
    SeedOf(Rules(StepMaterialService, StepMaterialRoutes, StepMaterialForms, StepMaterialIndex), "all", "error", "kept")
RouteMaterialSeed ==
    SeedOf(Rules(RouteMaterialService, RouteMaterialRoutes, RouteMaterialForms, RouteMaterialIndex),
           "active", "error", "kept")
SiteSeed == SeedOf(Rules(SiteService, SiteRoutes, SiteForms, SiteIndex), "active", "error", "kept")
AreaSeed == SeedOf(Rules(AreaService, AreaRoutes, AreaForms, AreaIndex), "active", "error", "kept")
LineSeed == SeedOf(Rules(LineService, LineRoutes, LineForms, LineIndex), "active", "error", "kept")
WorkCellSeed == SeedOf(Rules(WorkCellService, WorkCellRoutes, WorkCellForms, WorkCellIndex), "active", "error", "kept")
EquipmentSeed ==
    SeedOf(Rules(EquipmentService, EquipmentRoutes, EquipmentForms, EquipmentIndex), "active", "error", "kept")
SetupSeed == SeedOf(Rules(SetupService, SetupRoutes, SetupForms, SetupIndex), "active", "error", "kept")
ClassSeed == SeedOf(Rules(ClassService, ClassRoutes, ClassForms, ClassIndex), "active", "error", "kept")
PropertySeed == SeedOf(Rules(PropertyService, PropertyRoutes, PropertyForms, PropertyIndex), "active", "error", "kept")
StepEquipmentSeed ==
    SeedOf(Rules(StepEquipmentService, StepEquipmentRoutes, StepEquipmentForms, StepEquipmentIndex),
           "all", "error", "kept")
LocationSeed == SeedOf(Rules(LocationService, LocationRoutes, LocationForms, LocationIndex), "all", "error", "kept")
ScheduleSeed == SeedOf(Rules(ScheduleService, ScheduleRoutes, ScheduleForms, ScheduleIndex), "all", "error", "revived")

\* What each seed touches: the side of the ERP, and the plant.  Routes, lots, orders and
\* capabilities are looked for in the same way and are left out.
CpgErp == {UnitSeed, MaterialSeed, ProductSeed, DispositionSeed, StepSeed, BomSeed, DataDefinitionSeed,
           ReasonSeed, StepMaterialSeed, RouteMaterialSeed}
ElectronicsErp == CpgErp
PharmaErp == CpgErp

CpgPlant == {UnitSeed, SiteSeed, AreaSeed, LineSeed, WorkCellSeed, EquipmentSeed, SetupSeed, ClassSeed, PropertySeed,
             StepEquipmentSeed, LocationSeed, ScheduleSeed}
ElectronicsPlant == CpgPlant
PharmaPlant == CpgPlant

SeedTables == UNION {CpgErp, ElectronicsErp, PharmaErp, CpgPlant, ElectronicsPlant, PharmaPlant}

-----------------------------------------------------------------------------
SeedResting == [at |-> "resting", row |-> NoSeedRow, was |-> "other", late |-> FALSE, why |-> "none"]
StockResting == [at |-> "resting", quantity |-> 0, saw |-> [dock |-> 0, storage |-> 0, elsewhere |-> 0],
                 rows |-> {}, late |-> FALSE]

RowStates == {"other", "active", "deleted"}
LotPlaces == {"dock", "storage", "elsewhere"}

DemoTypeOK ==
    /\ seedTable \in SeedTables
    /\ keyRow \in [SeedRows -> RowStates]
    /\ seeding \in [Seeders -> [at : {"resting", "looked", "seeded", "failed"},
                                row : SeedRows \cup {NoSeedRow}, was : RowStates, late : BOOLEAN,
                                why : {"none", "several", "index"}]]
    /\ keyHistory \subseteq {"removed", "added", "together"}
    /\ pile \in [LotPlaces -> Nat] /\ booked \subseteq LotPlaces
    /\ counted \in Nat /\ goods \in Nat
    /\ stocking \in [Seeders -> [at : {"resting", "counted", "booked"}, quantity : Nat,
                                 saw : [LotPlaces -> Nat], rows : SUBSET LotPlaces, late : BOOLEAN]]
    /\ pileHistory \subseteq {"elsewhere", "together"}

\* The lot was created by the seed of the ERP side: one piece on hand, and at no location.
DemoInit ==
    /\ seedTable \in SeedTables
    /\ keyRow = [r \in SeedRows |-> "other"]
    /\ seeding = [s \in Seeders |-> SeedResting]
    /\ keyHistory = {}
    /\ pile = [p \in LotPlaces |-> 0] /\ booked = {} /\ counted = 1
    /\ stocking = [s \in Seeders |-> StockResting]
    /\ goods = 1 /\ pileHistory = {}

Keyed(among) == {r \in SeedRows : keyRow[r] = "active" \/ (among = "all" /\ keyRow[r] = "deleted")}

IndexRefuses == seedTable.rules.index # "no" /\ Keyed(seedTable.rules.index) # {}

\* A row was written while other seeds had looked.
OvertakeSeeds(own) ==
    [t \in Seeders |-> IF t \notin own /\ seeding[t].at = "looked"
                       THEN [seeding[t] EXCEPT !.late = TRUE] ELSE seeding[t]]

Hits == Keyed(seedTable.among)

\* The look-up fails on several rows; that of the service of route materials, which
\* comes next, covers deleted ones and fails as well.
TooMany ==
    \/ seedTable.several = "error" /\ Cardinality(Hits) > 1
    \/ seedTable = RouteMaterialSeed /\ Hits = {} /\ Cardinality(Keyed("all")) > 1

SeedLook(s) ==
    /\ seeding[s].at # "looked"
    /\ \/ /\ TooMany
          /\ seeding' = [seeding EXCEPT ![s] = [SeedResting EXCEPT !.at = "failed", !.why = "several"]]
       \/ /\ ~TooMany
          /\ \/ /\ Hits = {}
                /\ seeding' = [seeding EXCEPT ![s] = [SeedResting EXCEPT !.at = "looked"]]
             \/ \E r \in Hits :
                   seeding' = [seeding EXCEPT
                     ![s] = [SeedResting EXCEPT !.at = "looked", !.row = r, !.was = keyRow[r]]]
    /\ UNCHANGED <<seedTable, keyRow, keyHistory, pileVars>>

SeedKeeps(s) ==
    LET r == seeding[s].row IN
    /\ seeding[s].at = "looked" /\ r # NoSeedRow
    /\ keyRow' = IF seedTable.found = "revived" /\ seeding[s].was = "deleted" /\ keyRow[r] = "deleted"
                 THEN [keyRow EXCEPT ![r] = "active"] ELSE keyRow
    /\ keyHistory' = IF keyRow' # keyRow /\ seeding[s].late THEN keyHistory \cup {"together"} ELSE keyHistory
    /\ seeding' = [OvertakeSeeds({s}) EXCEPT ![s] = [SeedResting EXCEPT !.at = "seeded"]]
    /\ UNCHANGED <<seedTable, pileVars>>

\* The service of route materials revives a deleted row; the others insert one, and so
\* do the seeds that use no service.
Takes(r) ==
    IF seedTable = RouteMaterialSeed /\ Keyed("all") \ Keyed("active") # {}
    THEN keyRow[r] = "deleted" ELSE keyRow[r] = "other"

SeedCreates(s) ==
    /\ seeding[s].at = "looked" /\ seeding[s].row = NoSeedRow
    /\ \/ /\ IndexRefuses
          /\ seeding' = [seeding EXCEPT ![s].at = "failed", ![s].why = "index"]
          /\ UNCHANGED <<keyRow, keyHistory>>
       \/ /\ ~IndexRefuses
          /\ \E r \in SeedRows : Takes(r) /\ keyRow' = [keyRow EXCEPT ![r] = "active"]
          /\ keyHistory' = IF seeding[s].late THEN keyHistory \cup {"together"} ELSE keyHistory
          /\ seeding' = [OvertakeSeeds({s}) EXCEPT ![s] = [SeedResting EXCEPT !.at = "seeded"]]
    /\ UNCHANGED <<seedTable, pileVars>>

\* Another table fails, or the client goes away: the whole seed is rolled back.
SeedCut(s) ==
    /\ seeding[s].at = "looked"
    /\ seeding' = [seeding EXCEPT ![s] = SeedResting]
    /\ UNCHANGED <<seedTable, keyRow, keyHistory, pileVars>>

-----------------------------------------------------------------------------
(***************************************************************************)
(* What users do to a row with the key, one request at a time.             *)
(***************************************************************************)
ByUser(r, was, becomes, how) ==
    /\ keyRow[r] = was
    /\ keyRow' = [keyRow EXCEPT ![r] = becomes]
    /\ keyHistory' = keyHistory \cup {how}
    /\ seeding' = OvertakeSeeds({})
    /\ UNCHANGED <<seedTable, pileVars>>

Unrefused(rule) ==
    /\ CASE rule = "active"  -> Keyed("active") = {}
         [] rule = "revives" -> Keyed("active") = {}
         [] rule = "all"     -> Keyed("all") = {}
         [] OTHER            -> TRUE
    /\ ~IndexRefuses

UserDeletes(r) == ByUser(r, "active", "deleted", "removed")

UserCreates(r) ==
    \/ /\ Unrefused(seedTable.rules.create)
       /\ seedTable.rules.create = "revives" => Keyed("all") = {}
       /\ ByUser(r, "other", "active", "added")
    \/ /\ seedTable.rules.create = "revives" /\ Keyed("active") = {} /\ Keyed("all") = {r}
       /\ ByUser(r, "deleted", "active", "added")

UserRenames(r) ==
    /\ seedTable.rules.update # "absent"
    /\ \/ ByUser(r, "active", "other", "removed")
       \/ Unrefused(seedTable.rules.update) /\ ByUser(r, "other", "active", "added")

-----------------------------------------------------------------------------
(***************************************************************************)
(* The lot.                                                                *)
(***************************************************************************)
AtPlaces(f) == f["dock"] + f["storage"] + f["elsewhere"]

\* Mutant of ToReceive: the balance at the storage location is not looked for.
ToReceiveAlways == counted > 0

\* A lot with pieces on hand and no balance at its storage location.
ToReceive == counted > 0 /\ "storage" \notin booked

CountLot(s) ==
    /\ stocking[s].at = "resting" /\ ToReceive
    /\ stocking' = [stocking EXCEPT ![s] = [StockResting EXCEPT !.at = "counted", !.quantity = counted]]
    /\ UNCHANGED <<seedVars, pile, booked, counted, goods, pileHistory>>

\* receive at the dock and putaway: the balances are read here.
BookLot(s) ==
    /\ stocking[s].at = "counted"
    /\ stocking' = [stocking EXCEPT ![s].at = "booked", ![s].saw = pile, ![s].rows = booked]
    /\ UNCHANGED <<seedVars, pile, booked, counted, goods, pileHistory>>

\* The rows that were not there are inserted, which their unique key refuses if they
\* are there by now; the total is that of the balances as they were read.
CommitLot(s) ==
    LET q == stocking[s].quantity
        rows == {"dock", "storage"}
        saw == stocking[s].saw
    IN
    /\ stocking[s].at = "booked"
    /\ booked \cap rows \subseteq stocking[s].rows
    /\ pile' = [pile EXCEPT !["dock"] = saw["dock"], !["storage"] = saw["storage"] + q]
    /\ booked' = booked \cup rows
    /\ counted' = AtPlaces(saw) + q
    /\ pileHistory' = pileHistory \cup (IF stocking[s].late THEN {"together"} ELSE {})
                                  \cup (IF saw["dock"] + saw["elsewhere"] > 0 THEN {"elsewhere"} ELSE {})
    /\ stocking' = [t \in Seeders |-> IF t = s THEN StockResting ELSE [stocking[t] EXCEPT !.late = @ \/ stocking[t].at # "resting"]]
    /\ UNCHANGED <<seedVars, goods>>

RollBackLot(s) ==
    /\ stocking[s].at # "resting"
    /\ stocking' = [stocking EXCEPT ![s] = StockResting]
    /\ UNCHANGED <<seedVars, pile, booked, counted, goods, pileHistory>>

UserMoves(change, left) ==
    /\ pile' = change
    /\ booked' = booked \cup {p \in LotPlaces : change[p] # pile[p]}
    /\ counted' = AtPlaces(change)
    /\ goods' = left
    /\ stocking' = [t \in Seeders |-> [stocking[t] EXCEPT !.late = @ \/ stocking[t].at # "resting"]]
    /\ UNCHANGED <<seedVars, pileHistory>>

\* The piece is received at a location of the user's choice, moved, or used up.
UserReceives(p) == booked = {} /\ UserMoves([pile EXCEPT ![p] = 1], goods)
UserMovesPiece(p, q) ==
    p # q /\ pile[p] > 0 /\ UserMoves([pile EXCEPT ![p] = @ - 1, ![q] = @ + 1], goods)
UserTakes(p) == pile[p] > 0 /\ goods > 0 /\ UserMoves([pile EXCEPT ![p] = @ - 1], goods - 1)

Reseeds ==
    \/ \E s \in Seeders : SeedLook(s) \/ SeedKeeps(s) \/ SeedCreates(s) \/ SeedCut(s)
    \/ \E r \in SeedRows : UserDeletes(r) \/ UserCreates(r) \/ UserRenames(r)

Receives ==
    \/ \E s \in Seeders : CountLot(s) \/ BookLot(s) \/ CommitLot(s) \/ RollBackLot(s)
    \/ \E p \in LotPlaces :
         UserReceives(p) \/ UserTakes(p) \/ \E q \in LotPlaces : UserMovesPiece(p, q)

DemoNext == Reseeds \/ Receives

DemoSpec == DemoInit /\ [][DemoNext]_demoVars

\* A seed fails on several rows, for it and every later one, only where a user added a
\* row to the key or two seeds overlapped; for two rows to be found the key needs no
\* active twin where the look-up covers deleted rows: a disposition that was deleted
\* and entered again is enough.
SeveralExplained ==
    \A s \in Seeders : seeding[s].why = "several" => keyHistory \cap {"added", "together"} # {}

\* The index refuses what a seed found missing only when another request came between,
\* or where the index covers deleted rows and the look-up does not: a material that was
\* taken off an equipment stops every later seed of the plant.
RefusedExplained ==
    \A s \in Seeders :
        seeding[s].why = "index" =>
            \/ seeding[s].late
            \/ "removed" \in keyHistory /\ seedTable.rules.index = "all" /\ seedTable.among = "active"

\* After a seed its key has an active row unless a user took it away, and more than
\* one only in a table without an index, added by hand or by seeds that overlapped.
KeyExplained ==
    /\ \A s \in Seeders :
          seeding[s].at = "seeded" => Keyed("active") # {} \/ "removed" \in keyHistory
    /\ Cardinality(Keyed("active")) > 1 =>
          seedTable.rules.index = "no" /\ keyHistory \cap {"added", "together"} # {}

\* The books hold more of the lot than there is only where a seed received it though it
\* was in stock at another location, or two requests moved it at once.
LotExplained == AtPlaces(pile) > goods => pileHistory # {}

\* Seeding again does what the module promises, with these exceptions.
SeedsExplained == SeveralExplained /\ RefusedExplained /\ KeyExplained /\ LotExplained
=============================================================================
