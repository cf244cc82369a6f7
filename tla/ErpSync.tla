------------------------------- MODULE ErpSync -------------------------------
(***************************************************************************)
(* Materials pulled from the ERP (adapters/erp/routes.py): the list is     *)
(* fetched page by page, then every material of it is looked up by its     *)
(* code and updated, all in one transaction.  Oracle is asked for pages by *)
(* an offset into a list that may change meanwhile; SAP is given $top with *)
(* the first request, which limits the whole answer; a simulator holds the *)
(* list in the memory of its server process (one of them is modelled) and  *)
(* answers at once.                                                        *)
(*                                                                         *)
(* A material with a code that is not in the database is never inserted:   *)
(* MaterialService.create_material is called with uom, which is no column  *)
(* of MaterialDefinition (it has uom_id), and the request fails there.     *)
(***************************************************************************)
EXTENDS Naturals, Sequences, SequencesExt, FiniteSets

CONSTANTS
    MaterialCodes, \* codes of materials
    Pulls,         \* sync requests
    PageSize,
    MaxVersions    \* bound on the changes of a material in the ERP

ASSUME SyncAssumption == PageSize \in Nat \ {0} /\ MaxVersions \in Nat

VARIABLES
    origin,      \* the plugin the list comes from
    erpList,     \* the codes in the ERP, in the order it lists them
    erpVersion,  \* the version of each code in the ERP
    material,    \* the row of each code in material_definitions
    pull,        \* what each sync is doing
    newest,      \* ghost: the newest version a row has had
    crossed      \* ghost: codes a sync set back while another one was at work

syncVars == <<origin, erpList, erpVersion, material, pull, newest, crossed>>

Versions == 0..MaxVersions
MaterialRow == [there : BOOLEAN, active : BOOLEAN, version : Versions]
NoMaterial == [there |-> FALSE, active |-> FALSE, version |-> 0]

\* steady and moved are ghosts: the codes listed all along, and whether the list
\* changed while its pages were read.
IdlePull == [at |-> "idle", offset |-> 0, got |-> << >>, steady |-> {}, moved |-> FALSE,
             done |-> {}, alone |-> TRUE]

SyncTypeOK ==
    /\ origin \in {"sap", "oracle", "simulator"}
    /\ erpList \in Seq(MaterialCodes) /\ erpVersion \in [MaterialCodes -> Versions]
    /\ material \in [MaterialCodes -> MaterialRow] /\ newest \in [MaterialCodes -> Versions]
    /\ \A s \in Pulls :
          /\ pull[s].at \in {"idle", "fetching", "applying", "committed"}
          /\ pull[s].offset \in Nat /\ pull[s].got \in Seq(MaterialCodes \X Versions)
          /\ pull[s].steady \subseteq MaterialCodes /\ pull[s].done \subseteq MaterialCodes
          /\ pull[s].moved \in BOOLEAN /\ pull[s].alone \in BOOLEAN
    /\ crossed \subseteq MaterialCodes

\* The rows are those engineers have entered, and perhaps removed.
SyncInit ==
    /\ origin \in {"sap", "oracle", "simulator"}
    /\ erpList = << >> /\ erpVersion = [m \in MaterialCodes |-> 0]
    /\ material \in [MaterialCodes -> {NoMaterial, [NoMaterial EXCEPT !.there = TRUE],
                                      [NoMaterial EXCEPT !.there = TRUE, !.active = TRUE]}]
    /\ newest = [m \in MaterialCodes |-> 0]
    /\ pull = [s \in Pulls |-> IdlePull]
    /\ crossed = {}

Busy(s) == pull[s].at \in {"fetching", "applying"}

\* A sync has updated the row and not committed: it is locked.
UpdatedBySync(m) == \E s \in Pulls : pull[s].at = "applying" /\ m \in pull[s].done

-----------------------------------------------------------------------------
(* The ERP, or the simulator of the process.                               *)

\* What a change of the list means for the syncs that read its pages.
Shift(left) ==
    pull' = [s \in Pulls |-> IF pull[s].at = "fetching"
                             THEN [pull[s] EXCEPT !.moved = TRUE, !.steady = @ \cap left]
                             ELSE pull[s]]

\* add_material, build_material_record: create_simulator_material keeps the record in
\* memory although the insert into the database then fails.
ListMaterial(m) ==
    /\ ~Contains(erpList, m)
    /\ \E i \in 1..(Len(erpList) + 1) : erpList' = InsertAt(erpList, i, m)
    /\ Shift(MaterialCodes)
    /\ UNCHANGED <<origin, erpVersion, material, newest, crossed>>

\* update_simulator_material then updates an active row of the code, if its
\* commit succeeds.
ChangeMaterial(m) ==
    /\ Contains(erpList, m) /\ erpVersion[m] < MaxVersions
    /\ erpVersion' = [erpVersion EXCEPT ![m] = @ + 1]
    /\ \/ UNCHANGED <<material, newest>>
       \/ /\ origin = "simulator" /\ material[m].active /\ ~UpdatedBySync(m)
          /\ material' = [material EXCEPT ![m].version = erpVersion[m] + 1]
          /\ newest' = [newest EXCEPT ![m] = erpVersion[m] + 1]
    /\ UNCHANGED <<origin, erpList, pull, crossed>>

\* delete_simulator_material then deletes an active row, if its commit succeeds.
UnlistMaterial(m) ==
    /\ \E i \in DOMAIN erpList : erpList[i] = m /\ erpList' = RemoveAt(erpList, i)
    /\ \/ UNCHANGED material
       \/ /\ origin = "simulator" /\ ~UpdatedBySync(m)
          /\ material' = [material EXCEPT ![m].active = FALSE]
    /\ Shift(MaterialCodes \ {m})
    /\ UNCHANGED <<origin, erpVersion, newest, crossed>>

-----------------------------------------------------------------------------
(* The sync.                                                               *)

BeginPull(s) ==
    /\ pull[s].at = "idle"
    /\ pull' = [t \in Pulls |->
                  IF t = s THEN [IdlePull EXCEPT !.at = "fetching", !.steady = ToSet(erpList),
                                                 !.alone = \A u \in Pulls \ {s} : ~Busy(u)]
                  ELSE IF Busy(t) THEN [pull[t] EXCEPT !.alone = FALSE] ELSE pull[t]]
    /\ UNCHANGED <<origin, erpList, erpVersion, material, newest, crossed>>

Readings(part) == [i \in DOMAIN part |-> <<part[i], erpVersion[part[i]]>>]

\* The page at an offset.
Page(offset) ==
    SubSeq(erpList, offset + 1,
           IF offset + PageSize < Len(erpList) THEN offset + PageSize ELSE Len(erpList))

\* Mutant of PageAt: the offset counts the pages from one.
PageAtNext(s) == Page(pull[s].offset + 1)

PageAt(s) == Page(pull[s].offset)

Collect(s, part, at) ==
    /\ pull[s].at = "fetching"
    /\ pull' = [pull EXCEPT ![s].got = @ \o Readings(part), ![s].offset = @ + Len(part),
                            ![s].at = at]
    /\ UNCHANGED <<origin, erpList, erpVersion, material, newest, crossed>>

\* The first page, which $top makes the only one.
FetchFromSap(s) == origin = "sap" /\ Collect(s, PageAt(s), "applying")

\* One page after the other, while the ERP says that there are more.
FetchFromOracle(s) ==
    /\ origin = "oracle"
    /\ LET more == pull[s].offset + PageSize < Len(erpList) /\ PageAt(s) # << >>
       IN Collect(s, PageAt(s), IF more THEN "fetching" ELSE "applying")

FetchFromSimulator(s) == origin = "simulator" /\ Collect(s, erpList, "applying")

NextDto(s) == CHOOSE i \in DOMAIN pull[s].got :
                 /\ pull[s].got[i][1] \notin pull[s].done
                 /\ \A j \in 1..(i - 1) : pull[s].got[j][1] \in pull[s].done

Pending(s) == {m \in MaterialCodes \ pull[s].done : \E i \in DOMAIN pull[s].got : pull[s].got[i][1] = m}

\* The row of the next material is looked up, revived and updated; without a row the
\* request ends, and with it everything it had updated.
ApplyMaterial(s) ==
    LET m == pull[s].got[NextDto(s)][1] IN
    /\ pull[s].at = "applying" /\ Pending(s) # {} /\ ~UpdatedBySync(m)
    /\ pull' = IF material[m].there THEN [pull EXCEPT ![s].done = @ \cup {m}]
               ELSE [pull EXCEPT ![s] = IdlePull]
    /\ UNCHANGED <<origin, erpList, erpVersion, material, newest, crossed>>

\* A code that was read twice ends with the version of its last reading.
Got(s, m) == LET i == CHOOSE i \in DOMAIN pull[s].got :
                         /\ pull[s].got[i][1] = m
                         /\ \A j \in DOMAIN pull[s].got : pull[s].got[j][1] = m => j <= i
             IN pull[s].got[i][2]

CommitPull(s) ==
    /\ pull[s].at = "applying" /\ Pending(s) = {}
    /\ material' = [m \in MaterialCodes |-> IF m \in pull[s].done
                               THEN [there |-> TRUE, active |-> TRUE, version |-> Got(s, m)]
                               ELSE material[m]]
    /\ newest' = [m \in MaterialCodes |-> IF m \in pull[s].done /\ Got(s, m) > newest[m]
                                  THEN Got(s, m) ELSE newest[m]]
    /\ crossed' = crossed \cup {m \in pull[s].done : Got(s, m) < newest[m] /\ ~pull[s].alone}
    /\ pull' = [pull EXCEPT ![s].at = "committed", ![s].got = << >>, ![s].offset = 0,
                            ![s].alone = TRUE]
    /\ UNCHANGED <<origin, erpList, erpVersion>>

\* The ERP is not reached, the commit fails, the process ends, or two syncs wait for each
\* other's rows.
RollBackPull(s) ==
    /\ Busy(s)
    /\ pull' = [pull EXCEPT ![s] = IdlePull]
    /\ UNCHANGED <<origin, erpList, erpVersion, material, newest, crossed>>

SyncNext ==
    \/ \E m \in MaterialCodes : \/ ListMaterial(m) \/ ChangeMaterial(m) \/ UnlistMaterial(m)
    \/ \E s \in Pulls : \/ BeginPull(s) \/ ApplyMaterial(s)
                        \/ FetchFromSap(s) \/ FetchFromOracle(s) \/ FetchFromSimulator(s)
                        \/ CommitPull(s) \/ RollBackPull(s)

SyncSpec == SyncInit /\ [][SyncNext]_syncVars

-----------------------------------------------------------------------------
\* A sync that committed has updated every material the ERP listed all along, unless the
\* list changed between two pages or SAP cut it at $top.  A row goes back to an older
\* version only if two syncs overlapped, or the simulator's own update came in between.
SyncExplained ==
    /\ \A s \in Pulls :
          pull[s].at = "committed" =>
             \/ pull[s].steady \subseteq pull[s].done
             \/ pull[s].moved
             \/ origin = "sap" /\ Cardinality(pull[s].steady) > PageSize
    /\ \A m \in MaterialCodes : material[m].there /\ material[m].version < newest[m] =>
                            m \in crossed \/ origin = "simulator"
=============================================================================
