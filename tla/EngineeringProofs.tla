-------------------------- MODULE EngineeringProofs --------------------------
(***************************************************************************)
(* What engineers edit at the same time - rows of master data, windows of  *)
(* capabilities, default routes - and what repeated seeds of demonstration *)
(* data add to it goes wrong for the named causes only, for any number of  *)
(* rows, keys and requests; and the working time of a schedule is what its *)
(* shifts say but for the named additions, for any rotation, window and    *)
(* holidays.                                                               *)
(*                                                                         *)
(* The arguments of the former are one: a request that no commit overtook  *)
(* still sees what it looked up, so that its write keeps the keys, the     *)
(* windows, the flags and the lots apart; a request that was overtaken     *)
(* leaves its mark on the row it writes.  That of the latter is an account *)
(* of the walk: what it has added is what the days so far have in the      *)
(* window, less what is left of the last shift.                            *)
(***************************************************************************)
EXTENDS RouteEditing, MasterData, RouteDefaults, Capabilities, DemoSeed, WorkTime,
        Sums, SequenceTheorems

(***************************************************************************)
(* Master data.                                                            *)
(***************************************************************************)

\* The rules of the 33 tables: only a table that revives rows needs more than its index
\* on active rows, and none of those has one.
LEMMA RulesOfTables ==
    \A t \in Tables :
        /\ t.index \in {"no", "active", "all"}
        /\ t.create \in {"active", "all", "revives", "unchecked"}
        /\ t.update \in {"active", "all", "unchecked", "absent"}
        /\ t.create = "revives" => t.index # "active"
<1> USE DEF Rules, LookUp, Maintained, AddedAndRemoved, OnBoth, OnCreate, Root, Child
<1> QED
  BY DEF Tables,
     SiteService, SiteRoutes, SiteForms, SiteIndex,
     AreaService, AreaRoutes, AreaForms, AreaIndex,
     LineService, LineRoutes, LineForms, LineIndex,
     WorkCellService, WorkCellRoutes, WorkCellForms, WorkCellIndex,
     EquipmentService, EquipmentRoutes, EquipmentForms, EquipmentIndex,
     SetupService, SetupRoutes, SetupForms, SetupIndex,
     ClassService, ClassRoutes, ClassForms, ClassIndex,
     PropertyService, PropertyRoutes, PropertyForms, PropertyIndex,
     ProductService, ProductRoutes, ProductForms, ProductIndex,
     BomService, BomRoutes, BomForms, BomIndex,
     BomItemService, BomItemRoutes, BomItemForms, BomItemIndex,
     StepService, StepRoutes, StepForms, StepIndex,
     ParameterService, ParameterRoutes, ParameterForms, ParameterIndex,
     DispositionService, DispositionRoutes, DispositionForms, DispositionIndex,
     RouteProductService, RouteProductRoutes, RouteProductForms, RouteProductIndex,
     RouteMaterialService, RouteMaterialRoutes, RouteMaterialForms, RouteMaterialIndex,
     StepEquipmentService, StepEquipmentRoutes, StepEquipmentForms, StepEquipmentIndex,
     StepMaterialService, StepMaterialRoutes, StepMaterialForms, StepMaterialIndex,
     ScheduleService, ScheduleRoutes, ScheduleForms, ScheduleIndex,
     ShiftService, ShiftRoutes, ShiftForms, ShiftIndex,
     BreakService, BreakRoutes, BreakForms, BreakIndex,
     RotationService, RotationRoutes, RotationForms, RotationIndex,
     SegmentService, SegmentRoutes, SegmentForms, SegmentIndex,
     TeamService, TeamRoutes, TeamForms, TeamIndex,
     MemberService, MemberRoutes, MemberForms, MemberIndex,
     ExceptionService, ExceptionRoutes, ExceptionForms, ExceptionIndex,
     PeriodService, PeriodRoutes, PeriodForms, PeriodIndex,
     MaterialService, MaterialRoutes, MaterialForms, MaterialIndex,
     UnitService, UnitRoutes, UnitForms, UnitIndex,
     LocationService, LocationRoutes, LocationForms, LocationIndex,
     DataDefinitionService, DataDefinitionRoutes, DataDefinitionForms, DataDefinitionIndex,
     ReasonService, ReasonRoutes, ReasonForms, ReasonIndex,
     AlertRuleService, AlertRuleRoutes, AlertRuleForms, AlertRuleIndex

\* A request no commit overtook, whose key was looked up, still finds it free.
KeyStillFree(m) ==
    m.op \in {"create", "update"} /\ ~m.late /\ mdTable[m.op] # "unchecked" =>
        \A r \in RowIds \ {m.row} :
            mdRow[r].code = m.code =>
                /\ mdRow[r].state # "active"
                /\ mdTable[m.op] \in {"all", "revives"} => mdRow[r].state # "deleted"

\* The same for the row it revives, with the key that row has.
RevivedStillFree(m) ==
    m.op = "revive" =>
        /\ mdTable.create = "revives"
        /\ ~m.late => \A r \in RowIds \ {m.row} :
                          mdRow[r].code = mdRow[m.row].code => mdRow[r].state # "active"

\* The row it changes, deletes or revives exists, the table serves what it asks, and
\* the parent it found is there.
RequestSound(m) ==
    /\ KeyStillFree(m) /\ RevivedStillFree(m)
    /\ m.op \in {"revive", "update", "delete"} => mdRow[m.row].state # "free"
    /\ m.op = "update" => mdTable.update # "absent"
    /\ mdTable.under /\ m.op \in {"create", "revive"} /\ ~m.late => mdParent

RequestsSound == \A q \in MdRequests : RequestSound(mdRequest[q])

\* The rows the unique index compares have keys of their own.
Compared == {r \in RowIds : \/ mdRow[r].state = "active"
                            \/ mdTable.index = "all" /\ mdRow[r].state = "deleted"}
IndexKept ==
    mdTable.index # "no" => \A r, s \in Compared : mdRow[r].code = mdRow[s].code => r = s

KeysMarked ==
    \A r, s \in ActiveRows :
        r # s /\ mdRow[r].code = mdRow[s].code =>
            "unchecked" \in {mdTable.create, mdTable.update} \/ {r, s} \cap racedRows # {}

NobodyAdopted == mdTable.under => adopted = {}

MasterDataInv == MasterDataTypeOK /\ RequestsSound /\ IndexKept /\ KeysMarked /\ NobodyAdopted

LEMMA MasterDataInitHolds == MasterDataInit => MasterDataInv
BY DEF MasterDataInit, MasterDataInv, MasterDataTypeOK, RequestsSound, RequestSound, KeyStillFree,
       RevivedStillFree, Compared, IndexKept, KeysMarked, NobodyAdopted, ActiveRows, MdRows, States,
       MdIdle, MdRequestRecords

\* What a request says, once it is known to be one.
LEMMA RequestShape ==
    ASSUME NEW m \in MdRequestRecords, m.op # "none"
    PROVE  /\ m.op \in MdOps \ {"none"} /\ m.row \in RowIds /\ m.code \in Codes /\ m.late \in BOOLEAN
           /\ [m EXCEPT !.late = TRUE] \in MdRequestRecords
           /\ [m EXCEPT !.late = TRUE].op = m.op /\ [m EXCEPT !.late = TRUE].row = m.row
           /\ [m EXCEPT !.late = TRUE].code = m.code /\ [m EXCEPT !.late = TRUE].late = TRUE
<1>1. \A f \in [op : MdOps \ {"none"}, row : RowIds, code : Codes, late : BOOLEAN] :
        /\ [f EXCEPT !.late = TRUE]
              \in [op : MdOps \ {"none"}, row : RowIds, code : Codes, late : BOOLEAN]
        /\ [f EXCEPT !.late = TRUE].op = f.op /\ [f EXCEPT !.late = TRUE].row = f.row
        /\ [f EXCEPT !.late = TRUE].code = f.code /\ [f EXCEPT !.late = TRUE].late = TRUE
  OBVIOUS
<1>2. m \in [op : MdOps \ {"none"}, row : RowIds, code : Codes, late : BOOLEAN]
  BY DEF MdRequestRecords, MdIdle
<1>3. m.op \in MdOps \ {"none"} /\ m.row \in RowIds /\ m.code \in Codes /\ m.late \in BOOLEAN
  BY <1>2
<1> QED
  BY <1>1, <1>2, <1>3, Zenon DEF MdRequestRecords

\* A commit leaves no request that has not been overtaken.
Overtaken(p) ==
    \/ mdRequest'[p] = MdIdle
    \/ /\ mdRequest[p].op # "none"
       /\ mdRequest'[p].op = mdRequest[p].op /\ mdRequest'[p].row = mdRequest[p].row
       /\ mdRequest'[p].late = TRUE

LEMMA AllOvertaken ==
    ASSUME MasterDataTypeOK, NEW Q \in SUBSET MdRequests,
           mdRequest' = [p \in MdRequests |->
               IF p \in Q THEN MdIdle
               ELSE IF mdRequest[p].op = "none" THEN MdIdle
               ELSE [mdRequest[p] EXCEPT !.late = TRUE]]
    PROVE  /\ mdRequest' \in [MdRequests -> MdRequestRecords]
           /\ \A p \in MdRequests : Overtaken(p)
<1>1. \A p \in MdRequests : mdRequest[p] \in MdRequestRecords
  BY DEF MasterDataTypeOK
<1>2. MdIdle \in MdRequestRecords
  BY DEF MdRequestRecords
<1>3. ASSUME NEW p \in MdRequests
      PROVE  mdRequest'[p] \in MdRequestRecords /\ Overtaken(p)
  <2>1. CASE mdRequest'[p] = MdIdle
    BY <2>1, <1>2 DEF Overtaken
  <2>2. CASE mdRequest'[p] # MdIdle
    <3>1. mdRequest[p].op # "none" /\ mdRequest'[p] = [mdRequest[p] EXCEPT !.late = TRUE]
      BY <2>2, Zenon
    <3>2. mdRequest[p] \in MdRequestRecords
      BY <1>1
    <3> DEFINE n == [mdRequest[p] EXCEPT !.late = TRUE]
    <3>3. /\ n \in MdRequestRecords /\ n.op = mdRequest[p].op
          /\ n.row = mdRequest[p].row /\ n.late = TRUE
      BY <3>1, <3>2, RequestShape, Zenon
    <3>4. mdRequest'[p] = n
      BY <3>1
    <3> HIDE DEF n
    <3> QED
      BY <3>1, <3>3, <3>4 DEF Overtaken
  <2> QED
    BY <2>1, <2>2
<1> QED
  BY <1>3, Zenon

\* A request that is made or given up.
LEMMA OneRequestChanges ==
    ASSUME MasterDataInv, NEW q \in MdRequests, NEW n \in MdRequestRecords, RequestSound(n),
           mdRequest' = [mdRequest EXCEPT ![q] = n],
           UNCHANGED <<mdTable, mdRow, mdParent, racedRows, adopted>>
    PROVE  MasterDataInv'
<1>1. MasterDataTypeOK'
  BY DEF MasterDataInv, MasterDataTypeOK
<1>2. RequestsSound'
  <2>1. SUFFICES ASSUME NEW p \in MdRequests
                 PROVE  RequestSound(mdRequest[p])'
    BY DEF RequestsSound
  <2>2. mdRequest'[p] \in {mdRequest[p], n} /\ RequestSound(mdRequest[p])
    BY DEF MasterDataInv, MasterDataTypeOK, RequestsSound
  <2>3. \A m : RequestSound(m) =>
            /\ (KeyStillFree(m) /\ RevivedStillFree(m))'
            /\ RequestSound(m)'
    BY DEF RequestSound, KeyStillFree, RevivedStillFree
  <2> QED
    BY <2>2, <2>3 DEF RequestSound
<1>3. (IndexKept /\ KeysMarked /\ NobodyAdopted)'
  BY DEF MasterDataInv, IndexKept, Compared, KeysMarked, ActiveRows, NobodyAdopted
<1> QED
  BY <1>1, <1>2, <1>3 DEF MasterDataInv

LEMMA AskKeeps ==
    ASSUME MasterDataInv, NEW q \in MdRequests,
           \/ \E r \in RowIds, c \in Codes : AskCreate(q, r, c) \/ AskUpdate(q, r, c)
           \/ \E r \in RowIds : AskDelete(q, r)
           \/ Abandon(q)
    PROVE  MasterDataInv'
<1> DEFINE New(op, r, c) == [op |-> op, row |-> r, code |-> c, late |-> FALSE]
<1>0. mdTable \in Tables /\ mdRow \in [RowIds -> MdRows]
  BY DEF MasterDataInv, MasterDataTypeOK
<1>1. ASSUME NEW op \in MdOps \ {"none"}, NEW r \in RowIds, NEW c \in Codes,
             RequestSound(New(op, r, c)), Ask(q, op, r, c)
      PROVE  MasterDataInv'
  <2>1. New(op, r, c) \in MdRequestRecords
    BY DEF MdRequestRecords
  <2> QED
    BY <1>1, <2>1, OneRequestChanges DEF Ask
<1>2. ASSUME NEW r \in RowIds, NEW c \in Codes, AskCreate(q, r, c)
      PROVE  MasterDataInv'
  <2>1. mdTable.create \in {"active", "all", "revives", "unchecked"}
    BY <1>0, RulesOfTables
  <2>2. LookedUp(mdTable.create, c) = {} /\ (mdTable.under => mdParent)
    BY <1>2 DEF AskCreate, ParentFound
  <2>3. CASE /\ mdTable.create = "revives" => WithCode(c, {"deleted"}) = {}
             /\ Ask(q, "create", r, c)
    <3>1. KeyStillFree(New("create", r, c))
      BY <2>1, <2>2, <2>3 DEF KeyStillFree, LookedUp, WithCode
    <3>2. RequestSound(New("create", r, c))
      BY <3>1, <2>2 DEF RequestSound, RevivedStillFree
    <3> QED
      BY <2>3, <3>2, <1>1 DEF MdOps
  <2>4. CASE /\ mdTable.create = "revives" /\ WithCode(c, {"deleted"}) = {r}
             /\ Ask(q, "revive", r, c)
    <3>1. mdRow[r].code = c /\ mdRow[r].state = "deleted"
      BY <2>4 DEF WithCode
    <3>2. RevivedStillFree(New("revive", r, c))
      BY <2>2, <2>4, <3>1 DEF RevivedStillFree, LookedUp, WithCode
    <3>3. RequestSound(New("revive", r, c))
      BY <3>1, <3>2, <2>2 DEF RequestSound, KeyStillFree
    <3> QED
      BY <2>4, <3>3, <1>1 DEF MdOps
  <2> QED
    BY <1>2, <2>3, <2>4 DEF AskCreate
<1>3. ASSUME NEW r \in RowIds, NEW c \in Codes, AskUpdate(q, r, c)
      PROVE  MasterDataInv'
  <2>1. mdTable.update \in {"active", "all", "unchecked", "absent"}
    BY <1>0, RulesOfTables
  <2>2. /\ mdTable.update # "absent" /\ mdRow[r].state = "active"
        /\ LookedUp(mdTable.update, c) \ {r} = {} /\ Ask(q, "update", r, c)
    BY <1>3 DEF AskUpdate, ActiveRows
  <2>3. KeyStillFree(New("update", r, c))
    BY <2>1, <2>2 DEF KeyStillFree, LookedUp, WithCode
  <2>4. RequestSound(New("update", r, c))
    BY <2>2, <2>3 DEF RequestSound, RevivedStillFree
  <2> QED
    BY <2>2, <2>4, <1>1 DEF MdOps
<1>4. ASSUME NEW r \in RowIds, AskDelete(q, r)
      PROVE  MasterDataInv'
  <2>1. mdRow[r].state = "active" /\ mdRow[r].code \in Codes /\ Ask(q, "delete", r, mdRow[r].code)
    BY <1>4, <1>0 DEF AskDelete, ActiveRows, MdRows
  <2>2. RequestSound(New("delete", r, mdRow[r].code))
    BY <2>1 DEF RequestSound, KeyStillFree, RevivedStillFree
  <2> QED
    BY <2>1, <2>2, <1>1 DEF MdOps
<1>5. CASE Abandon(q)
  <2>1. RequestSound(MdIdle) /\ MdIdle \in MdRequestRecords
    BY DEF RequestSound, KeyStillFree, RevivedStillFree, MdIdle, MdRequestRecords
  <2> QED
    BY <1>5, <2>1, OneRequestChanges DEF Abandon
<1> QED
  BY <1>2, <1>3, <1>4, <1>5

\* A commit of another request, or the deletion of the parent, while a row changes that
\* does not vanish.
LEMMA OthersStaySound ==
    ASSUME MasterDataInv, \A p \in MdRequests : Overtaken(p), mdTable' = mdTable,
           \A r \in RowIds : mdRow[r].state # "free" => mdRow'[r].state # "free"
    PROVE  RequestsSound'
<1> SUFFICES ASSUME NEW p \in MdRequests
             PROVE  RequestSound(mdRequest[p])'
  BY DEF RequestsSound
<1>1. Overtaken(p) /\ RequestSound(mdRequest[p]) /\ mdRequest[p] \in MdRequestRecords
  BY DEF MasterDataInv, RequestsSound, MasterDataTypeOK
<1>2. CASE mdRequest'[p] = MdIdle
  BY <1>2 DEF RequestSound, KeyStillFree, RevivedStillFree, MdIdle
<1>3. CASE mdRequest'[p] # MdIdle
  <2>1. /\ mdRequest[p].op # "none" /\ mdRequest'[p].op = mdRequest[p].op
        /\ mdRequest'[p].row = mdRequest[p].row /\ mdRequest'[p].late = TRUE
    BY <1>1, <1>3 DEF Overtaken
  <2>2. mdRequest[p].row \in RowIds
    BY <1>1, <2>1, RequestShape
  <2> QED
    BY <1>1, <2>1, <2>2 DEF RequestSound, KeyStillFree, RevivedStillFree
<1> QED
  BY <1>2, <1>3

\* A request that writes its row and commits.
LEMMA WriteKeeps ==
    ASSUME MasterDataInv, NEW q \in MdRequests, NEW m, m = mdRequest[q], m.op # "none",
           NEW w \in MdRows, w.state # "free",
           mdRow' = [mdRow EXCEPT ![m.row] = w],
           mdTable' = mdTable, mdParent' = mdParent, Committed(q),
           racedRows' \subseteq RowIds, adopted' \subseteq RowIds
    PROVE  MasterDataTypeOK' /\ RequestsSound'
<1>1. /\ mdRequest' \in [MdRequests -> MdRequestRecords]
      /\ \A p \in MdRequests : Overtaken(p)
  <2>1. mdRequest' = [p \in MdRequests |->
               IF p \in {q} THEN MdIdle
               ELSE IF mdRequest[p].op = "none" THEN MdIdle
               ELSE [mdRequest[p] EXCEPT !.late = TRUE]]
    BY Zenon DEF Committed
  <2> QED
    BY <2>1, AllOvertaken, {q} \in SUBSET MdRequests, Zenon DEF MasterDataInv
<1>2. m.row \in RowIds
  BY RequestShape DEF MasterDataInv, MasterDataTypeOK
<1>3. MasterDataTypeOK'
  BY <1>1, <1>2 DEF MasterDataInv, MasterDataTypeOK
<1>4. \A r \in RowIds : mdRow[r].state # "free" => mdRow'[r].state # "free"
  BY <1>2 DEF MasterDataInv, MasterDataTypeOK
<1> QED
  BY <1>1, <1>3, <1>4, OthersStaySound

\* A row that is created, revived or renamed, if the index allows its key and the
\* request found it free or has marked it.
LEMMA NewKeyKeeps ==
    ASSUME MasterDataInv, NEW r \in RowIds, NEW w \in MdRows, w.state # "free",
           mdRow' = [mdRow EXCEPT ![r] = w], mdTable' = mdTable,
           mdTable.index # "no" =>
               \A s \in Compared \ {r} : w.state = "active" \/ mdTable.index = "all" => mdRow[s].code # w.code,
           \/ racedRows' = racedRows \cup {r}
           \/ /\ racedRows' = racedRows \ {r}
              /\ "unchecked" \in {mdTable.create, mdTable.update}
           \/ /\ racedRows' = racedRows \ {r}
              /\ \A s \in ActiveRows \ {r} : mdRow[s].code # w.code
    PROVE  IndexKept' /\ KeysMarked'
<1>1. mdRow \in [RowIds -> MdRows] /\ mdTable.index \in {"no", "active", "all"}
  BY RulesOfTables DEF MasterDataInv, MasterDataTypeOK
<1>2. \A s \in RowIds : mdRow'[s] = IF s = r THEN w ELSE mdRow[s]
  BY <1>1
<1>3. w.state \in {"active", "deleted"}
  BY DEF MdRows, States
<1>4. IndexKept'
  BY <1>1, <1>2, <1>3 DEF MasterDataInv, IndexKept, Compared
<1>5. KeysMarked'
  <2> SUFFICES ASSUME NEW s \in RowIds, NEW t \in RowIds, s # t,
                      mdRow'[s].state = "active", mdRow'[t].state = "active", mdRow'[s].code = mdRow'[t].code,
                      "unchecked" \notin {mdTable.create, mdTable.update}
               PROVE  {s, t} \cap racedRows' # {}
    BY DEF KeysMarked, ActiveRows
  <2>1. CASE r \in {s, t}
    BY <2>1, <1>2 DEF ActiveRows
  <2>2. CASE r \notin {s, t}
    BY <2>2, <1>2 DEF MasterDataInv, KeysMarked, ActiveRows
  <2> QED
    BY <2>1, <2>2
<1> QED
  BY <1>4, <1>5

LEMMA PartsOfRows ==
    ASSUME NEW x \in MdRows
    PROVE  /\ [x EXCEPT !.state = "deleted"] = [state |-> "deleted", code |-> x.code]
           /\ \A c \in Codes : [x EXCEPT !.code = c] = [state |-> x.state, code |-> c]
BY DEF MdRows

LEMMA CommitKeeps ==
    ASSUME MasterDataInv, NEW q \in MdRequests,
           WriteCreate(q) \/ WriteRevive(q) \/ WriteUpdate(q) \/ WriteDelete(q)
    PROVE  MasterDataInv'
<1> DEFINE m == mdRequest[q]
<1>0. /\ mdTable \in Tables /\ mdRow \in [RowIds -> MdRows] /\ RequestSound(m)
      /\ racedRows \subseteq RowIds /\ adopted \subseteq RowIds /\ m \in MdRequestRecords
  BY DEF MasterDataInv, MasterDataTypeOK, RequestsSound
<1>1. /\ mdTable.create \in {"active", "all", "revives", "unchecked"}
      /\ mdTable.update \in {"active", "all", "unchecked", "absent"}
      /\ mdTable.index \in {"no", "active", "all"}
      /\ mdTable.create = "revives" => mdTable.index # "active"
  BY <1>0, RulesOfTables
<1>2. m.op # "none" => m.row \in RowIds /\ m.code \in Codes /\ m.late \in BOOLEAN /\ mdRow[m.row] \in MdRows
  BY <1>0, RequestShape
<1>3. CASE WriteCreate(q)
  <2> DEFINE w == [state |-> "active", code |-> m.code]
  <2>1. m.op = "create" /\ Indexed(m.code, "active") = {} /\ BringToLife(q, m.code)
    BY <1>3 DEF WriteCreate
  <2>2. w \in MdRows /\ mdRow' = [mdRow EXCEPT ![m.row] = w]
    BY <1>2, <2>1 DEF BringToLife, MdRows, States
  <2>3. MasterDataTypeOK' /\ RequestsSound'
    <3>1. /\ mdTable' = mdTable /\ mdParent' = mdParent /\ Committed(q)
          /\ racedRows' \subseteq RowIds /\ adopted' \subseteq RowIds
      BY <1>0, <1>2, <2>1 DEF BringToLife, Mark
    <3>2. w.state # "free" /\ m.op # "none"
      BY <2>1
    <3> HIDE DEF w, m
    <3> QED
      BY <2>2, <3>1, <3>2, WriteKeeps DEF m
  <2>4. mdTable.index # "no" => \A s \in Compared \ {m.row} : mdRow[s].code # m.code
    BY <1>1, <2>1 DEF Indexed, WithCode, Compared
  <2>5. m.late \/ mdTable.create = "unchecked" \/ \A s \in ActiveRows \ {m.row} : mdRow[s].code # m.code
    BY <1>0, <2>1 DEF RequestSound, KeyStillFree, ActiveRows
  <2>6. IndexKept' /\ KeysMarked'
    <3>1. /\ mdTable' = mdTable
          /\ racedRows' = IF m.late THEN racedRows \cup {m.row} ELSE racedRows \ {m.row}
      BY <2>1 DEF BringToLife, Mark
    <3>2. w.state # "free" /\ w.code = m.code /\ m.row \in RowIds
      BY <1>2, <2>1
    <3> HIDE DEF w, m
    <3> QED
      BY <2>2, <2>4, <2>5, <3>1, <3>2, NewKeyKeeps
  <2>7. NobodyAdopted'
    BY <1>0, <2>1 DEF BringToLife, NobodyAdopted, RequestSound, MasterDataInv
  <2> QED
    BY <2>3, <2>6, <2>7 DEF MasterDataInv
<1>4. CASE WriteRevive(q)
  <2> DEFINE c == mdRow[m.row].code
             w == [state |-> "active", code |-> c]
  <2>1. m.op = "revive" /\ BringToLife(q, c) /\ mdTable.create = "revives" /\ mdRow[m.row].state # "free"
    BY <1>4, <1>0 DEF WriteRevive, RequestSound, RevivedStillFree
  <2>2. w \in MdRows /\ mdRow' = [mdRow EXCEPT ![m.row] = w]
    BY <1>2, <2>1 DEF BringToLife, MdRows, States
  <2>3. MasterDataTypeOK' /\ RequestsSound'
    <3>1. /\ mdTable' = mdTable /\ mdParent' = mdParent /\ Committed(q)
          /\ racedRows' \subseteq RowIds /\ adopted' \subseteq RowIds
      BY <1>0, <1>2, <2>1 DEF BringToLife, Mark
    <3>2. w.state # "free" /\ m.op # "none"
      BY <2>1
    <3> HIDE DEF w, m
    <3> QED
      BY <2>2, <3>1, <3>2, WriteKeeps DEF m
  <2>4. mdTable.index # "no" => \A s \in Compared \ {m.row} : mdRow[s].code # c
    <3>1. mdTable.index # "no" => m.row \in Compared
      BY <1>1, <1>2, <2>1 DEF Compared, MdRows, States
    <3> QED
      BY <3>1 DEF IndexKept, MasterDataInv
  <2>5. m.late \/ \A s \in ActiveRows \ {m.row} : mdRow[s].code # c
    BY <1>0, <2>1 DEF RequestSound, RevivedStillFree, ActiveRows
  <2>6. IndexKept' /\ KeysMarked'
    <3>1. /\ mdTable' = mdTable
          /\ racedRows' = IF m.late THEN racedRows \cup {m.row} ELSE racedRows \ {m.row}
      BY <2>1 DEF BringToLife, Mark
    <3>2. w.state # "free" /\ w.code = c /\ m.row \in RowIds
      BY <1>2, <2>1
    <3> HIDE DEF w, m
    <3> QED
      BY <2>2, <2>4, <2>5, <3>1, <3>2, NewKeyKeeps
  <2>7. NobodyAdopted'
    BY <1>0, <2>1 DEF BringToLife, NobodyAdopted, RequestSound, MasterDataInv
  <2> QED
    BY <2>3, <2>6, <2>7 DEF MasterDataInv
<1>5. CASE WriteUpdate(q)
  <2> DEFINE w == [state |-> mdRow[m.row].state, code |-> m.code]
  <2>1. /\ m.op = "update" /\ mdRow[m.row].state # "free"
        /\ Indexed(m.code, mdRow[m.row].state) \ {m.row} = {}
        /\ Mark(q, m.row) /\ Committed(q) /\ UNCHANGED <<mdTable, mdParent, adopted>>
    BY <1>5, <1>0 DEF WriteUpdate, RequestSound
  <2>2. w \in MdRows /\ mdRow' = [mdRow EXCEPT ![m.row] = w]
    <3>1. m.row \in RowIds /\ m.code \in Codes /\ mdRow[m.row] \in MdRows
      BY <1>2, <2>1
    <3>2. [mdRow[m.row] EXCEPT !.code = m.code] = w
      BY <3>1, PartsOfRows, Zenon
    <3>3. w \in MdRows
      BY <3>1 DEF MdRows
    <3>4. mdRow' = [mdRow EXCEPT ![m.row] = [mdRow[m.row] EXCEPT !.code = m.code]]
      BY <1>5 DEF WriteUpdate
    <3> QED
      BY <3>2, <3>3, <3>4, Zenon
  <2>3. MasterDataTypeOK' /\ RequestsSound'
    BY <1>0, <1>2, <2>1, <2>2, WriteKeeps DEF Mark
  <2>4. mdTable.index # "no" =>
            \A s \in Compared \ {m.row} :
                w.state = "active" \/ mdTable.index = "all" => mdRow[s].code # m.code
    BY <1>1, <2>1 DEF Indexed, WithCode, Compared
  <2>5. m.late \/ mdTable.update = "unchecked" \/ \A s \in ActiveRows \ {m.row} : mdRow[s].code # m.code
    BY <1>0, <2>1 DEF RequestSound, KeyStillFree, ActiveRows
  <2>6. IndexKept' /\ KeysMarked'
    <3>1. racedRows' = IF m.late THEN racedRows \cup {m.row} ELSE racedRows \ {m.row}
      BY <2>1 DEF Mark
    <3>2. /\ w.state # "free" /\ w.code = m.code /\ m.row \in RowIds
          /\ mdTable' = mdTable
      BY <1>2, <2>1
    <3>3. \/ racedRows' = racedRows \cup {m.row}
          \/ /\ racedRows' = racedRows \ {m.row}
             /\ "unchecked" \in {mdTable.create, mdTable.update}
          \/ /\ racedRows' = racedRows \ {m.row}
             /\ \A s \in ActiveRows \ {m.row} : mdRow[s].code # w.code
      <4> HIDE DEF w, m
      <4> QED
        BY <2>5, <3>1, <3>2
    <3> HIDE DEF w, m
    <3> QED
      BY <2>2, <2>4, <3>2, <3>3, NewKeyKeeps
  <2>7. NobodyAdopted'
    BY <2>1 DEF NobodyAdopted, MasterDataInv
  <2> QED
    BY <2>3, <2>6, <2>7 DEF MasterDataInv
<1>6. CASE WriteDelete(q)
  <2> DEFINE w == [state |-> "deleted", code |-> mdRow[m.row].code]
  <2>1. /\ m.op = "delete" /\ mdRow[m.row].state # "free"
        /\ Committed(q) /\ UNCHANGED <<mdTable, mdParent, racedRows, adopted>>
    BY <1>6, <1>0 DEF WriteDelete, RequestSound
  <2>2. w \in MdRows /\ mdRow' = [mdRow EXCEPT ![m.row] = w]
    <3>1. m.row \in RowIds /\ mdRow[m.row] \in MdRows
      BY <1>2, <2>1
    <3>2. [mdRow[m.row] EXCEPT !.state = "deleted"] = w
      BY <3>1, PartsOfRows, Zenon
    <3>3. w \in MdRows
      BY <3>1 DEF MdRows, States
    <3>4. mdRow' = [mdRow EXCEPT ![m.row] = [mdRow[m.row] EXCEPT !.state = "deleted"]]
      BY <1>6 DEF WriteDelete
    <3> QED
      BY <3>2, <3>3, <3>4, Zenon
  <2>3. MasterDataTypeOK' /\ RequestsSound'
    BY <1>0, <1>2, <2>1, <2>2, WriteKeeps
  <2>4. \A s \in RowIds : mdRow'[s].code = mdRow[s].code
                          /\ (mdRow'[s].state = "active" => mdRow[s].state = "active")
                          /\ (mdRow'[s].state = "deleted" => mdRow[s].state = "deleted" \/ s = m.row)
    BY <1>0, <1>2, <2>1, <2>2
  <2>5. mdRow[m.row].state \in {"active", "deleted"}
    BY <1>2, <2>1 DEF MdRows, States
  <2>6. Compared' \subseteq Compared
    BY <2>1, <2>4, <2>5, <1>2 DEF Compared
  <2>7. IndexKept' /\ KeysMarked'
    BY <2>1, <2>4, <2>6, Compared \subseteq RowIds DEF IndexKept, KeysMarked, ActiveRows, MasterDataInv, Compared
  <2>8. NobodyAdopted'
    BY <2>1 DEF NobodyAdopted, MasterDataInv
  <2> QED
    BY <2>3, <2>7, <2>8 DEF MasterDataInv
<1> QED
  BY <1>3, <1>4, <1>5, <1>6

LEMMA MasterDataInvKept == MasterDataInv /\ [MasterDataNext]_mdVars => MasterDataInv'
<1> SUFFICES ASSUME MasterDataInv, [MasterDataNext]_mdVars
             PROVE  MasterDataInv'
  OBVIOUS
<1>1. ASSUME NEW q \in MdRequests,
             \/ \E r \in RowIds, c \in Codes : AskCreate(q, r, c) \/ AskUpdate(q, r, c)
             \/ \E r \in RowIds : AskDelete(q, r)
             \/ Abandon(q)
      PROVE  MasterDataInv'
  BY <1>1, AskKeeps
<1>2. ASSUME NEW q \in MdRequests,
             WriteCreate(q) \/ WriteRevive(q) \/ WriteUpdate(q) \/ WriteDelete(q)
      PROVE  MasterDataInv'
  BY <1>2, CommitKeeps
<1>3. CASE DeleteParent
  <2>1. mdRequest' = [p \in MdRequests |->
               IF p \in {} THEN MdIdle
               ELSE IF mdRequest[p].op = "none" THEN MdIdle
               ELSE [mdRequest[p] EXCEPT !.late = TRUE]]
    BY <1>3, Zenon DEF DeleteParent
  <2>2. /\ mdRequest' \in [MdRequests -> MdRequestRecords]
        /\ \A p \in MdRequests : Overtaken(p)
    BY <2>1, AllOvertaken, {} \in SUBSET MdRequests, Zenon DEF MasterDataInv
  <2>3. mdParent' = FALSE /\ UNCHANGED <<mdTable, mdRow, racedRows, adopted>>
    BY <1>3 DEF DeleteParent
  <2>4. RequestsSound'
    BY <2>2, <2>3, OthersStaySound
  <2> QED
    BY <2>2, <2>3, <2>4 DEF MasterDataInv, MasterDataTypeOK, IndexKept, KeysMarked, Compared, ActiveRows, NobodyAdopted
<1>4. CASE UNCHANGED mdVars
  BY <1>4 DEF mdVars, MasterDataInv, MasterDataTypeOK, RequestsSound, RequestSound, KeyStillFree, RevivedStillFree,
              IndexKept, KeysMarked, Compared, ActiveRows, NobodyAdopted
<1> QED
  BY <1>1, <1>2, <1>3, <1>4, Zenon DEF MasterDataNext

\* In any of the tables, with any number of rows and requests: two active rows share a
\* key, an undisturbed request is refused, or a row comes to life under a deleted parent,
\* only where the services, the routes and the index of that table leave room for it
\* (core/physical_model, core/product_def, core/work_schedule and others).
THEOREM TablesKeepKeys == MasterDataSpec => []MasterDataExplained
<1>1. MasterDataInv => MasterDataExplained
  <2> SUFFICES ASSUME MasterDataInv
               PROVE  KeysExplained /\ RefusalsExplained /\ NobodyAdopted
    BY DEF MasterDataExplained, NobodyAdopted
  <2>0. mdTable \in Tables /\ mdRow \in [RowIds -> MdRows]
    BY DEF MasterDataInv, MasterDataTypeOK
  <2>1. /\ mdTable.create \in {"active", "all", "revives", "unchecked"}
        /\ mdTable.update \in {"active", "all", "unchecked", "absent"}
        /\ mdTable.index \in {"no", "active", "all"}
        /\ mdTable.create = "revives" => mdTable.index # "active"
    BY <2>0, RulesOfTables
  <2>2. KeysExplained
    <3> SUFFICES ASSUME NEW r \in ActiveRows, NEW s \in ActiveRows, r # s, mdRow[r].code = mdRow[s].code
                 PROVE  /\ mdTable.index = "no"
                        /\ \/ "unchecked" \in {mdTable.create, mdTable.update}
                           \/ {r, s} \cap racedRows # {}
      BY DEF KeysExplained
    <3>1. r \in Compared /\ s \in Compared
      BY DEF ActiveRows, Compared
    <3> QED
      BY <3>1 DEF MasterDataInv, IndexKept, KeysMarked
  <2>3. RefusalsExplained
    <3> SUFFICES ASSUME NEW q \in MdRequests, mdRequest[q].op \in {"create", "update"}, ~mdRequest[q].late,
                        Indexed(mdRequest[q].code, "active") \ {mdRequest[q].row} # {},
                        mdTable[mdRequest[q].op] # "unchecked"
                 PROVE  mdTable.index = "all" /\ mdTable[mdRequest[q].op] = "active"
      BY DEF RefusalsExplained
    <3>1. KeyStillFree(mdRequest[q]) /\ (mdRequest[q].op = "update" => mdTable.update # "absent")
      BY DEF MasterDataInv, RequestsSound, RequestSound
    <3>2. mdTable[mdRequest[q].op] \in {"active", "all", "revives"}
      BY <2>1, <3>1
    <3> QED
      BY <2>1, <3>1, <3>2 DEF KeyStillFree, Indexed, WithCode
  <2> QED
    BY <2>2, <2>3 DEF MasterDataInv
<1> QED
  BY <1>1, MasterDataInitHolds, MasterDataInvKept, PTL DEF MasterDataSpec

(***************************************************************************)
(* Windows of capabilities.                                                *)
(***************************************************************************)

\* A window the check passed is apart from every other, or overlooked.
Apart(v, w) == Overlap(v, w) => Overlooked(v, w) \/ Overlooked(w, v)

\* A request no commit overtook would pass its check again.
CapSound(m) ==
    m.op \in {"create", "update"} /\ ~m.late =>
        /\ Conflicts(m.window, m.from, m.until) = {}
        /\ m.op = "update" => window[m.window].state = "active"

WindowsMarked ==
    \A v, w \in ActiveWindows : v # w => {v, w} \cap lateWindow # {} \/ Apart(v, w)

CapInv ==
    /\ CapabilityTypeOK /\ WindowsMarked
    /\ \A q \in CapRequests : CapSound(capRequest[q])

LEMMA CapShape ==
    ASSUME NEW m \in CapRecords, m.op # "none"
    PROVE  /\ m.op \in {"create", "update", "delete"} /\ m.window \in Windows
           /\ m.from \in Ends /\ m.until \in Ends /\ m.late \in BOOLEAN
           /\ [m EXCEPT !.late = TRUE] \in CapRecords
           /\ [m EXCEPT !.late = TRUE].late = TRUE
<1> DEFINE R == [op : {"create", "update", "delete"}, window : Windows, from : Ends, until : Ends,
                 late : BOOLEAN]
<1>1. \A f \in R : /\ [f EXCEPT !.late = TRUE] \in R /\ [f EXCEPT !.late = TRUE].late = TRUE
                   /\ f.op \in {"create", "update", "delete"} /\ f.window \in Windows
                   /\ f.from \in Ends /\ f.until \in Ends /\ f.late \in BOOLEAN
  OBVIOUS
<1>2. m \in R
  BY DEF CapRecords, CapIdle
<1> QED
  BY <1>1, <1>2, Zenon DEF CapRecords

\* What the check lets pass, in whatever state the other window is.
LEMMA CheckedApart ==
    ASSUME CapabilityTypeOK, NEW v \in ActiveWindows, NEW w \in Windows, v # w,
           NEW from \in Ends, NEW until \in Ends, v \notin Conflicts(w, from, until),
           window'[w].from = from, window'[w].until = until, window'[v] = window[v]
    PROVE  Apart(v, w)' /\ Apart(w, v)'
<1>1. Ends \subseteq Nat
  BY InstantsAreNumbers DEF Ends, Open
<1>2. window[v].from \in Nat /\ window[v].until \in Nat /\ from \in Nat /\ until \in Nat
  BY <1>1 DEF CapabilityTypeOK, WindowRecords, ActiveWindows
<1>3. \/ window[v].until # Open /\ (from = Open \/ ~(from < window[v].until))
      \/ window[v].from # Open /\ (until = Open \/ ~(window[v].from < until))
  BY DEF Conflicts
<1> QED
  BY <1>2, <1>3 DEF Apart, Overlap, Overlooked, Before, Open

LEMMA CapSettled ==
    ASSUME CapabilityTypeOK, NEW q \in CapRequests, SettleWindow(q)
    PROVE  /\ capRequest' \in [CapRequests -> CapRecords]
           /\ \A p \in CapRequests : capRequest'[p] = CapIdle \/ capRequest'[p].late = TRUE
<1>1. \A p \in CapRequests : capRequest[p] \in CapRecords
  BY DEF CapabilityTypeOK
<1>2. \A p \in CapRequests : capRequest'[p] = IF p = q \/ capRequest[p].op = "none" THEN CapIdle
                                              ELSE [capRequest[p] EXCEPT !.late = TRUE]
  BY Zenon DEF SettleWindow
<1>3. ASSUME NEW p \in CapRequests
      PROVE  /\ capRequest'[p] \in CapRecords
             /\ capRequest'[p] = CapIdle \/ capRequest'[p].late = TRUE
  <2>1. CASE p = q \/ capRequest[p].op = "none"
    BY <1>2, <2>1 DEF CapRecords
  <2>2. CASE ~(p = q \/ capRequest[p].op = "none")
    <3> DEFINE n == [capRequest[p] EXCEPT !.late = TRUE]
    <3>1. n \in CapRecords /\ n.late = TRUE
      BY <1>1, <2>2, CapShape, Zenon
    <3>2. capRequest'[p] = n
      BY <1>2, <2>2, Zenon
    <3> HIDE DEF n
    <3> QED
      BY <3>1, <3>2
  <2> QED
    BY <2>1, <2>2
<1>4. DOMAIN capRequest' = CapRequests /\ capRequest' = [p \in CapRequests |-> capRequest'[p]]
  BY Zenon DEF SettleWindow
<1> QED
  BY <1>3, <1>4, Zenon

LEMMA CapInitHolds == CapabilityInit => CapInv
BY DEF CapabilityInit, CapInv, CapabilityTypeOK, WindowsMarked, CapSound, ActiveWindows, WindowRecords,
       CapRecords, CapIdle, Ends, Open

LEMMA CapInvKept == CapInv /\ [CapabilityNext]_capVars => CapInv'
<1> SUFFICES ASSUME CapInv, [CapabilityNext]_capVars
             PROVE  CapInv'
  OBVIOUS
<1>0. /\ window \in [Windows -> WindowRecords] /\ lateWindow \subseteq Windows
      /\ \A p \in CapRequests : capRequest[p] \in CapRecords /\ CapSound(capRequest[p])
  BY DEF CapInv, CapabilityTypeOK
<1>1. ASSUME NEW q \in CapRequests, NEW n \in CapRecords, CapSound(n),
             capRequest' = [capRequest EXCEPT ![q] = n], UNCHANGED <<window, lateWindow>>
      PROVE  CapInv'
  <2>1. CapabilityTypeOK' /\ WindowsMarked'
    BY <1>1 DEF CapInv, CapabilityTypeOK, WindowsMarked, ActiveWindows, Apart, Overlap, Overlooked
  <2>2. \A m : CapSound(m) => CapSound(m)'
    BY <1>1 DEF CapSound, Conflicts, ActiveWindows
  <2>3. \A p \in CapRequests : capRequest'[p] \in {capRequest[p], n}
    BY <1>1 DEF CapInv, CapabilityTypeOK
  <2>4. ASSUME NEW p \in CapRequests
        PROVE  CapSound(capRequest[p])'
    BY <1>0, <1>1, <2>2, <2>3 DEF CapSound
  <2> QED
    BY <2>1, <2>4 DEF CapInv
<1>2. ASSUME NEW q \in CapRequests, NEW w \in Windows, NEW from \in Ends, NEW until \in Ends,
             AskCreateWindow(q, w, from, until) \/ AskUpdateWindow(q, w, from, until)
      PROVE  CapInv'
  <2>1. PICK op \in {"create", "update"} :
            /\ AskWindow(q, op, w, from, until)
            /\ op = "update" => window[w].state = "active"
    BY <1>2 DEF AskCreateWindow, AskUpdateWindow, ActiveWindows
  <2> DEFINE n == [op |-> op, window |-> w, from |-> from, until |-> until, late |-> FALSE]
  <2>2. n \in CapRecords /\ CapSound(n)
    BY <2>1 DEF CapRecords, CapSound, AskWindow
  <2> QED
    BY <1>1, <2>1, <2>2 DEF AskWindow
<1>3. ASSUME NEW q \in CapRequests, NEW w \in Windows, AskDeleteWindow(q, w)
      PROVE  CapInv'
  <2> DEFINE n == [op |-> "delete", window |-> w, from |-> Open, until |-> Open, late |-> FALSE]
  <2>1. n \in CapRecords /\ CapSound(n)
    BY DEF CapRecords, CapSound, Ends
  <2> QED
    BY <1>1, <1>3, <2>1 DEF AskDeleteWindow
<1>4. ASSUME NEW q \in CapRequests, GiveUpWindow(q)
      PROVE  CapInv'
  <2>1. CapIdle \in CapRecords /\ CapSound(CapIdle)
    BY DEF CapRecords, CapSound, CapIdle
  <2> QED
    BY <1>1, <1>4, <2>1 DEF GiveUpWindow
<1>5. ASSUME NEW q \in CapRequests, WriteWindow(q)
      PROVE  CapInv'
  <2>1. PICK m \in CapRecords : m = capRequest[q]
    BY <1>0
  <2>0. /\ m.op \in {"create", "update"} /\ m.window \in Windows /\ m.from \in Ends /\ m.until \in Ends
        /\ m.late \in BOOLEAN /\ SettleWindow(q) /\ CapSound(m)
    BY <1>0, <1>5, <2>1, CapShape DEF WriteWindow
  <2>2. PICK x \in WindowRecords :
            /\ window' = [window EXCEPT ![m.window] = x]
            /\ \/ x = [state |-> "active", from |-> m.from, until |-> m.until]
               \/ m.op = "update" /\ window[m.window].state # "active" /\ x = window[m.window]
    <3>1. [state |-> "active", from |-> m.from, until |-> m.until] \in WindowRecords
      BY <2>0 DEF WindowRecords
    <3> QED
      BY <1>0, <1>5, <2>0, <2>1, <3>1 DEF WriteWindow
  <2>3. lateWindow' = IF m.late THEN lateWindow \cup {m.window} ELSE lateWindow \ {m.window}
    BY <1>5, <2>1 DEF WriteWindow
  <2>4. \A v \in Windows : window'[v] = IF v = m.window THEN x ELSE window[v]
    BY <1>0, <2>0, <2>2
  <2>5. CapabilityTypeOK'
    BY <1>0, <2>0, <2>2, <2>3, CapSettled DEF CapInv, CapabilityTypeOK
  <2>6. \A p \in CapRequests : CapSound(capRequest[p])'
    <3>1. \A p \in CapRequests : capRequest'[p] = CapIdle \/ capRequest'[p].late = TRUE
      BY <2>0, CapSettled DEF CapInv
    <3> QED
      BY <3>1 DEF CapSound, CapIdle
  <2>7. WindowsMarked'
    <3> SUFFICES ASSUME NEW v \in Windows, NEW w \in Windows, v # w,
                        window'[v].state = "active", window'[w].state = "active"
                 PROVE  {v, w} \cap lateWindow' # {} \/ Apart(v, w)'
      BY DEF WindowsMarked, ActiveWindows
    <3>1. CASE m.window \notin {v, w}
      <4>1. window'[v] = window[v] /\ window'[w] = window[w]
        BY <2>4, <3>1
      <4>2. {v, w} \cap lateWindow # {} \/ Apart(v, w)
        BY <4>1 DEF CapInv, WindowsMarked, ActiveWindows
      <4> QED
        BY <2>3, <3>1, <4>1, <4>2 DEF Apart, Overlap, Overlooked
    <3>2. CASE m.window \in {v, w} /\ m.late
      BY <2>3, <3>2
    <3>3. CASE m.window \in {v, w} /\ ~m.late
      <4>1. Conflicts(m.window, m.from, m.until) = {} /\ x = [state |-> "active", from |-> m.from, until |-> m.until]
        BY <2>0, <2>2, <3>3 DEF CapSound
      <4>2. ASSUME NEW u \in Windows, u # m.window, window'[u].state = "active"
            PROVE  Apart(u, m.window)' /\ Apart(m.window, u)'
        <5>1. window'[u] = window[u] /\ u \in ActiveWindows
          BY <2>4, <4>2 DEF ActiveWindows
        <5>2. window'[m.window].from = m.from /\ window'[m.window].until = m.until
          BY <2>0, <2>4, <4>1
        <5> QED
          BY <2>0, <4>1, <4>2, <5>1, <5>2, CheckedApart DEF CapInv
      <4> QED
        BY <3>3, <4>2
    <3> QED
      BY <2>0, <3>1, <3>2, <3>3
  <2> QED
    BY <2>5, <2>6, <2>7 DEF CapInv
<1>6. ASSUME NEW q \in CapRequests, WriteDeletion(q)
      PROVE  CapInv'
  <2> DEFINE d == capRequest[q].window
             x == [state |-> "deleted", from |-> Open, until |-> Open]
  <2>1. d \in Windows /\ SettleWindow(q) /\ x \in WindowRecords /\ window' = [window EXCEPT ![d] = x]
        /\ lateWindow' = lateWindow
    BY <1>0, <1>6, CapShape DEF WriteDeletion, WindowRecords, Ends
  <2>2. CapabilityTypeOK'
    BY <1>0, <2>1, CapSettled DEF CapInv, CapabilityTypeOK
  <2>3. \A p \in CapRequests : CapSound(capRequest[p])'
    <3>1. \A p \in CapRequests : capRequest'[p] = CapIdle \/ capRequest'[p].late = TRUE
      BY <2>1, CapSettled DEF CapInv
    <3> QED
      BY <3>1 DEF CapSound, CapIdle
  <2>4. \A v \in ActiveWindows' : window'[v] = window[v] /\ v \in ActiveWindows
    BY <1>0, <2>1 DEF ActiveWindows
  <2>5. WindowsMarked'
    BY <2>1, <2>4 DEF CapInv, WindowsMarked, Apart, Overlap, Overlooked
  <2> QED
    BY <2>2, <2>3, <2>5 DEF CapInv
<1>7. CASE UNCHANGED capVars
  <2>1. \A m : CapSound(m) => CapSound(m)'
    BY <1>7 DEF CapSound, Conflicts, ActiveWindows, capVars
  <2>2. CapabilityTypeOK' /\ WindowsMarked' /\ capRequest' = capRequest
    BY <1>7 DEF capVars, CapInv, CapabilityTypeOK, WindowsMarked, ActiveWindows, Apart, Overlap, Overlooked
  <2>3. ASSUME NEW p \in CapRequests
        PROVE  CapSound(capRequest[p])'
    BY <1>0, <2>1, <2>2 DEF CapSound
  <2> QED
    BY <2>2, <2>3 DEF CapInv
<1> QED
  BY <1>2, <1>3, <1>4, <1>5, <1>6, <1>7, Zenon DEF CapabilityNext

\* Windows of a capability overlap only when two requests did, or where the check of an
\* open end overlooks it (core/physical_model/service.py), for any number of windows,
\* requests and instants.
THEOREM WindowsKeptApart == CapabilitySpec => []OverlapsExplained
<1>1. CapInv => OverlapsExplained
  BY DEF CapInv, WindowsMarked, Apart, OverlapsExplained
<1> QED
  BY <1>1, CapInitHolds, CapInvKept, PTL DEF CapabilitySpec

(***************************************************************************)
(* Default routes.                                                         *)
(***************************************************************************)

\* A request no commit overtook still clears the flags it must clear.
EditSound(m) ==
    m.op # "none" /\ ~m.late =>
        /\ m.op # "importNext" => \A p \in m.products : DefaultsOf(p) \subseteq m.clear
        /\ m.op = "set" => \A p \in ProductIds : <<m.route, p>> \in serves => p \in m.products
        /\ m.op # "set" => m.route \notin routesMade

FlagsMarked ==
    \A p \in ProductIds : \A r, s \in DefaultsOf(p) :
        r # s => \E t \in {r, s} : <<t, p>> \in arrived \/ t \in overtaken

DefaultsInv ==
    /\ RouteDefaultsTypeOK /\ FlagsMarked
    /\ \A q \in RouteEditors : EditSound(editing[q])

LEMMA EditShape ==
    ASSUME NEW m \in Edits, m.op # "none"
    PROVE  /\ m.op \in {"create", "standalone", "set", "importFirst", "importNext"} /\ m.route \in RouteIds
           /\ m.products \subseteq ProductIds /\ m.clear \subseteq RouteIds /\ m.late \in BOOLEAN
           /\ [m EXCEPT !.late = TRUE] \in Edits
           /\ [m EXCEPT !.late = TRUE].late = TRUE
<1> DEFINE R == [op : {"create", "standalone", "set", "importFirst", "importNext"}, route : RouteIds,
                 products : SUBSET ProductIds, clear : SUBSET RouteIds, late : BOOLEAN]
<1>1. \A f \in R : /\ [f EXCEPT !.late = TRUE] \in R /\ [f EXCEPT !.late = TRUE].late = TRUE
                   /\ f.op \in {"create", "standalone", "set", "importFirst", "importNext"}
                   /\ f.route \in RouteIds /\ f.products \subseteq ProductIds
                   /\ f.clear \subseteq RouteIds /\ f.late \in BOOLEAN
  OBVIOUS
<1>2. m \in R
  BY DEF Edits, Resting
<1> QED
  BY <1>1, <1>2, Zenon DEF Edits

\* A commit leaves no request that has not been overtaken.
LEMMA EditsOvertaken ==
    ASSUME RouteDefaultsTypeOK, NEW Q \in SUBSET RouteEditors,
           editing' = [p \in RouteEditors |->
               IF p \in Q \/ editing[p].op = "none" THEN Resting ELSE [editing[p] EXCEPT !.late = TRUE]]
    PROVE  /\ editing' \in [RouteEditors -> Edits]
           /\ \A p \in RouteEditors : EditSound(editing[p])'
<1>1. \A p \in RouteEditors : editing[p] \in Edits
  BY DEF RouteDefaultsTypeOK
<1>2. ASSUME NEW p \in RouteEditors
      PROVE  editing'[p] \in Edits /\ (editing'[p] = Resting \/ editing'[p].late = TRUE)
  <2>1. CASE p \in Q \/ editing[p].op = "none"
    BY <2>1 DEF Edits
  <2>2. CASE ~(p \in Q \/ editing[p].op = "none")
    <3> DEFINE n == [editing[p] EXCEPT !.late = TRUE]
    <3>1. n \in Edits /\ n.late = TRUE
      BY <1>1, <2>2, EditShape, Zenon
    <3>2. editing'[p] = n
      BY <2>2, Zenon
    <3> HIDE DEF n
    <3> QED
      BY <3>1, <3>2
  <2> QED
    BY <2>1, <2>2
<1>3. \A p \in RouteEditors : EditSound(editing[p])'
  BY <1>2 DEF EditSound, Resting
<1>4. editing' = [p \in RouteEditors |-> editing'[p]]
  BY Zenon
<1> QED
  BY <1>2, <1>3, <1>4, Zenon

LEMMA DefaultsInitHolds == RouteDefaultsInit => DefaultsInv
BY DEF RouteDefaultsInit, DefaultsInv, RouteDefaultsTypeOK, FlagsMarked, EditSound, DefaultsOf, Edits, Resting

\* A request that is made or rolled back.
LEMMA OneEditChanges ==
    ASSUME DefaultsInv, NEW q \in RouteEditors, NEW n \in Edits, EditSound(n),
           editing' = [editing EXCEPT ![q] = n],
           UNCHANGED <<routesMade, default, serves, arrived, overtaken>>
    PROVE  DefaultsInv'
<1>1. RouteDefaultsTypeOK' /\ FlagsMarked'
  BY DEF DefaultsInv, RouteDefaultsTypeOK, FlagsMarked, DefaultsOf
<1>2. \A m : EditSound(m) => EditSound(m)'
  BY DEF EditSound, DefaultsOf
<1>3. \A p \in RouteEditors : editing'[p] \in {editing[p], n} /\ EditSound(editing[p])
  BY DEF DefaultsInv, RouteDefaultsTypeOK
<1>4. ASSUME NEW p \in RouteEditors
      PROVE  EditSound(editing[p])'
  BY <1>2, <1>3 DEF EditSound
<1> QED
  BY <1>1, <1>4 DEF DefaultsInv

LEMMA AskDefaultKeeps ==
    ASSUME DefaultsInv, NEW q \in RouteEditors, NEW r \in RouteIds,
           \/ \E p \in ProductIds : AskCreateDefault(q, r, p) \/ AskImport(q, r, p)
           \/ AskCreateStandalone(q, r)
           \/ AskSetDefault(q, r)
    PROVE  DefaultsInv'
<1>0. \A x : DefaultsOf(x) \subseteq RouteIds
  BY DEF DefaultsInv, RouteDefaultsTypeOK, DefaultsOf
<1>1. ASSUME NEW op \in {"create", "standalone", "set"}, NEW products \in SUBSET ProductIds,
             AskDefault(q, op, r, products),
             op = "set" => \A x \in ProductIds : <<r, x>> \in serves => x \in products,
             op # "set" => r \notin routesMade
      PROVE  DefaultsInv'
  <2> DEFINE n == [op |-> op, route |-> r, products |-> products,
                   clear |-> UNION {DefaultsOf(x) : x \in products}, late |-> FALSE]
  <2>1. n \in Edits
    BY <1>0 DEF Edits
  <2>2. EditSound(n)
    BY <1>1 DEF EditSound
  <2>3. /\ editing' = [editing EXCEPT ![q] = n]
        /\ UNCHANGED <<routesMade, default, serves, arrived, overtaken>>
    BY <1>1 DEF AskDefault
  <2> HIDE DEF n
  <2> QED
    BY <2>1, <2>2, <2>3, OneEditChanges
<1>2. ASSUME NEW p \in ProductIds, AskCreateDefault(q, r, p)
      PROVE  DefaultsInv'
  <2>1. r \notin routesMade /\ AskDefault(q, "create", r, {p}) /\ {p} \in SUBSET ProductIds
    BY <1>2 DEF AskCreateDefault, NewRoute
  <2> QED
    BY <1>1, <2>1
<1>3. CASE AskCreateStandalone(q, r)
  <2>1. r \notin routesMade /\ AskDefault(q, "standalone", r, {}) /\ {} \in SUBSET ProductIds
    BY <1>3 DEF AskCreateStandalone, NewRoute
  <2> QED
    BY <1>1, <2>1
<1>4. CASE AskSetDefault(q, r)
  <2>1. AskDefault(q, "set", r, ProductsOf(r)) /\ ProductsOf(r) \in SUBSET ProductIds
    BY <1>4 DEF AskSetDefault, ProductsOf
  <2>2. \A x \in ProductIds : <<r, x>> \in serves => x \in ProductsOf(r)
    BY DEF ProductsOf
  <2> QED
    BY <1>1, <2>1, <2>2
<1>5. ASSUME NEW p \in ProductIds, AskImport(q, r, p)
      PROVE  DefaultsInv'
  <2> DEFINE others == {s \in routesMade : <<s, p>> \in serves}
             n == [op |-> IF others = {} THEN "importFirst" ELSE "importNext", route |-> r,
                   products |-> {p}, clear |-> {}, late |-> FALSE]
  <2>1. n \in Edits
    BY DEF Edits
  <2>2. EditSound(n)
    BY <1>5 DEF EditSound, AskImport, NewRoute, DefaultsOf
  <2>3. /\ editing' = [editing EXCEPT ![q] = n]
        /\ UNCHANGED <<routesMade, default, serves, arrived, overtaken>>
    BY <1>5 DEF AskImport
  <2> HIDE DEF n
  <2> QED
    BY <2>1, <2>2, <2>3, OneEditChanges
<1> QED
  BY <1>2, <1>3, <1>4, <1>5

LEMMA WriteDefaultKeeps ==
    ASSUME DefaultsInv, NEW q \in RouteEditors, WriteDefault(q)
    PROVE  DefaultsInv'
<1>1. PICK m \in Edits : m = editing[q]
  BY DEF DefaultsInv, RouteDefaultsTypeOK
<1>2. /\ m.op \in {"create", "standalone", "set", "importFirst", "importNext"} /\ m.route \in RouteIds
      /\ m.products \subseteq ProductIds /\ m.clear \subseteq RouteIds /\ m.late \in BOOLEAN /\ EditSound(m)
  BY <1>1, EditShape DEF WriteDefault, DefaultsInv
<1>3. /\ OthersLate(q) /\ arrived' = arrived
      /\ overtaken' = IF m.late THEN overtaken \cup {m.route} ELSE overtaken \ {m.route}
  BY <1>1 DEF WriteDefault
<1>5. /\ m.op = "set" => /\ default' = (default \ m.clear) \cup ({m.route} \cap routesMade)
                         /\ routesMade' = routesMade /\ serves' = serves
      /\ m.op = "importNext" => default' = default \ m.clear
      /\ m.op \notin {"set", "importNext"} => default' = (default \ m.clear) \cup {m.route}
      /\ m.op # "set" => /\ routesMade' = routesMade \cup {m.route}
                         /\ serves' = serves \cup ({m.route} \X m.products)
  BY <1>1, <1>2 DEF WriteDefault
<1>6. /\ editing' \in [RouteEditors -> Edits]
      /\ \A p \in RouteEditors : EditSound(editing[p])'
  <2>1. editing' = [p \in RouteEditors |->
               IF p \in {q} \/ editing[p].op = "none" THEN Resting ELSE [editing[p] EXCEPT !.late = TRUE]]
    BY <1>3, Zenon DEF OthersLate
  <2> QED
    BY <2>1, EditsOvertaken, {q} \in SUBSET RouteEditors, Zenon DEF DefaultsInv
<1>7. RouteDefaultsTypeOK'
  BY <1>2, <1>3, <1>5, <1>6 DEF DefaultsInv, RouteDefaultsTypeOK
<1>8. FlagsMarked'
  <2> SUFFICES ASSUME NEW p \in ProductIds, NEW r \in DefaultsOf(p)', NEW s \in DefaultsOf(p)', r # s
               PROVE  \E t \in {r, s} : <<t, p>> \in arrived' \/ t \in overtaken'
    BY DEF FlagsMarked
  <2>1. \A x \in DefaultsOf(p)' : x # m.route => x \in DefaultsOf(p) /\ x \notin m.clear
    BY <1>2, <1>5 DEF DefaultsOf, DefaultsInv, RouteDefaultsTypeOK
  <2>2. CASE m.route \notin {r, s}
    <3>1. PICK t \in {r, s} : <<t, p>> \in arrived \/ t \in overtaken
      BY <2>1, <2>2 DEF DefaultsInv, FlagsMarked
    <3> QED
      BY <1>2, <1>3, <2>2, <3>1
  <2>3. CASE m.route \in {r, s} /\ m.late
    BY <1>3, <2>3
  <2>4. CASE m.route \in {r, s} /\ ~m.late
    <3>1. m.route \in DefaultsOf(p)'
      BY <2>4
    <3>2. m.op # "importNext" /\ p \in m.products
      BY <1>2, <1>5, <2>4, <3>1 DEF EditSound, DefaultsOf, DefaultsInv, RouteDefaultsTypeOK
    <3>3. DefaultsOf(p) \subseteq m.clear
      BY <1>2, <2>4, <3>2 DEF EditSound
    <3> QED
      BY <2>1, <2>4, <3>3
  <2> QED
    BY <1>2, <2>2, <2>3, <2>4
<1> QED
  BY <1>6, <1>7, <1>8 DEF DefaultsInv

\* The edits of one step: the flags and the assignments that are left are marked as before.
LEMMA FewerFlagsKeep ==
    ASSUME DefaultsInv, overtaken' = overtaken,
           \A p \in ProductIds : DefaultsOf(p)' \subseteq DefaultsOf(p),
           \A p \in ProductIds : \A r \in DefaultsOf(p)' : <<r, p>> \in arrived => <<r, p>> \in arrived'
    PROVE  FlagsMarked'
BY DEF DefaultsInv, FlagsMarked

LEMMA QuickEditKeeps ==
    ASSUME DefaultsInv, NEW r \in RouteIds,
           \/ ClearDefault(r) \/ DeleteRoute(r)
           \/ \E p \in ProductIds : Assign(r, p) \/ Unassign(r, p)
    PROVE  DefaultsInv'
<1>1. Overtake /\ overtaken' = overtaken
  BY DEF ClearDefault, DeleteRoute, Assign, Unassign
<1>2. editing' \in [RouteEditors -> Edits] /\ \A p \in RouteEditors : EditSound(editing[p])'
  <2>1. editing' = [p \in RouteEditors |->
               IF p \in {} \/ editing[p].op = "none" THEN Resting ELSE [editing[p] EXCEPT !.late = TRUE]]
    BY <1>1, Zenon DEF Overtake
  <2> QED
    BY <2>1, EditsOvertaken, {} \in SUBSET RouteEditors, Zenon DEF DefaultsInv
<1>3. RouteDefaultsTypeOK'
  <2>1. RouteDefaultsTypeOK
    BY DEF DefaultsInv
  <2>2. CASE ClearDefault(r)
    BY <1>1, <1>2, <2>1, <2>2 DEF ClearDefault, RouteDefaultsTypeOK
  <2>3. CASE DeleteRoute(r)
    BY <1>1, <1>2, <2>1, <2>3 DEF DeleteRoute, RouteDefaultsTypeOK
  <2>4. ASSUME NEW p \in ProductIds, Assign(r, p)
        PROVE  RouteDefaultsTypeOK'
    BY <1>1, <1>2, <2>1, <2>4 DEF Assign, RouteDefaultsTypeOK
  <2>5. ASSUME NEW p \in ProductIds, Unassign(r, p)
        PROVE  RouteDefaultsTypeOK'
    BY <1>1, <1>2, <2>1, <2>5 DEF Unassign, RouteDefaultsTypeOK
  <2> QED
    BY <2>2, <2>3, <2>4, <2>5
<1>4. CASE ClearDefault(r)
  <2>1. /\ default' = default \ {r} /\ UNCHANGED <<routesMade, serves, arrived>>
    BY <1>4 DEF ClearDefault
  <2>2. FlagsMarked'
    BY <1>1, <2>1, FewerFlagsKeep DEF DefaultsOf
  <2> QED
    BY <1>2, <1>3, <2>2 DEF DefaultsInv
<1>5. CASE DeleteRoute(r)
  <2>1. /\ routesMade' = routesMade \ {r} /\ default' = default \ {r}
        /\ serves' = serves \ ({r} \X ProductIds) /\ arrived' = arrived \ ({r} \X ProductIds)
    BY <1>5 DEF DeleteRoute
  <2>2. \A p \in ProductIds : \A s \in DefaultsOf(p)' : s # r /\ s \in DefaultsOf(p)
    BY <2>1 DEF DefaultsOf
  <2>3. FlagsMarked'
    BY <1>1, <2>1, <2>2, FewerFlagsKeep
  <2> QED
    BY <1>2, <1>3, <2>3 DEF DefaultsInv
<1>6. ASSUME NEW p \in ProductIds, Unassign(r, p)
      PROVE  DefaultsInv'
  <2>1. /\ serves' = serves \ {<<r, p>>} /\ arrived' = arrived \ {<<r, p>>}
        /\ UNCHANGED <<routesMade, default>>
    BY <1>6 DEF Unassign
  <2>2. FlagsMarked'
    BY <1>1, <2>1, FewerFlagsKeep DEF DefaultsOf
  <2> QED
    BY <1>2, <1>3, <2>2 DEF DefaultsInv
<1>7. ASSUME NEW p \in ProductIds, Assign(r, p)
      PROVE  DefaultsInv'
  <2>1. /\ serves' = serves \cup {<<r, p>>} /\ UNCHANGED <<routesMade, default>>
        /\ arrived \subseteq arrived' /\ (r \in default => <<r, p>> \in arrived')
    BY <1>7 DEF Assign
  <2>2. FlagsMarked'
    <3> SUFFICES ASSUME NEW x \in ProductIds, NEW s \in DefaultsOf(x)', NEW t \in DefaultsOf(x)', s # t
                 PROVE  \E u \in {s, t} : <<u, x>> \in arrived' \/ u \in overtaken'
      BY DEF FlagsMarked
    <3>1. CASE s \in DefaultsOf(x) /\ t \in DefaultsOf(x)
      BY <1>1, <2>1, <3>1 DEF DefaultsInv, FlagsMarked
    <3>2. CASE s \notin DefaultsOf(x)
      BY <2>1, <3>2 DEF DefaultsOf
    <3>3. CASE t \notin DefaultsOf(x)
      BY <2>1, <3>3 DEF DefaultsOf
    <3> QED
      BY <3>1, <3>2, <3>3
  <2> QED
    BY <1>2, <1>3, <2>2 DEF DefaultsInv
<1> QED
  BY <1>4, <1>5, <1>6, <1>7

LEMMA DefaultsInvKept == DefaultsInv /\ [RouteDefaultsNext]_defaultVars => DefaultsInv'
<1> SUFFICES ASSUME DefaultsInv, [RouteDefaultsNext]_defaultVars
             PROVE  DefaultsInv'
  OBVIOUS
<1>1. ASSUME NEW q \in RouteEditors, RollBackEdit(q)
      PROVE  DefaultsInv'
  <2>1. Resting \in Edits /\ EditSound(Resting)
    BY DEF Edits, EditSound, Resting
  <2> QED
    BY <1>1, <2>1, OneEditChanges DEF RollBackEdit
<1>2. CASE UNCHANGED defaultVars
  BY <1>2 DEF defaultVars, DefaultsInv, RouteDefaultsTypeOK, FlagsMarked, EditSound, DefaultsOf
<1> QED
  BY <1>1, <1>2, AskDefaultKeeps, WriteDefaultKeeps, QuickEditKeeps DEF RouteDefaultsNext

\* Two default routes of one product have a cause: an assignment of a route that was the
\* default already, or a request that overtook another (core/product_def/service.py), for
\* any number of routes, products and requests.
THEOREM DefaultsHaveCauses == RouteDefaultsSpec => []DefaultsExplained
<1>1. DefaultsInv => DefaultsExplained
  <2> SUFFICES ASSUME DefaultsInv, NEW p \in ProductIds, Cardinality(DefaultsOf(p)) > 1
               PROVE  \E r \in DefaultsOf(p) : <<r, p>> \in arrived \/ r \in overtaken
    BY DEF DefaultsExplained
  <2>1. \E r, s \in DefaultsOf(p) : r # s
    <3> SUFFICES ASSUME \A r, s \in DefaultsOf(p) : r = s
                 PROVE  FALSE
      OBVIOUS
    <3>1. CASE DefaultsOf(p) = {}
      BY <3>1, FS_EmptySet
    <3>2. ASSUME NEW r \in DefaultsOf(p)
          PROVE  FALSE
      <4>1. DefaultsOf(p) = {r}
        BY <3>2
      <4> QED
        BY <4>1, FS_Singleton
    <3> QED
      BY <3>1, <3>2
  <2> QED
    BY <2>1 DEF DefaultsInv, FlagsMarked
<1> QED
  BY <1>1, DefaultsInitHolds, DefaultsInvKept, PTL DEF RouteDefaultsSpec

-----------------------------------------------------------------------------
(***************************************************************************)
(* Routes: what validation guarantees, for every route over every finite   *)
(* set of steps, and for a route under every sequence of edits.            *)
(***************************************************************************)

\* A finite set with at most one element, stated with Cardinality.
LEMMA AtMostOne ==
    ASSUME NEW S, IsFiniteSet(S), Cardinality(S) <= 1, NEW x \in S
    PROVE  S = {x}
<1>1. ASSUME NEW y \in S, y # x PROVE FALSE
  <2>1. IsFiniteSet({x}) /\ Cardinality({x}) = 1
    BY FS_Singleton
  <2>2. IsFiniteSet({x} \cup {y}) /\ Cardinality({x} \cup {y}) = 2
    <3>1. y \notin {x}
      BY <1>1
    <3>2. Cardinality({x} \cup {y}) = Cardinality({x}) + 1
      BY <2>1, <3>1, FS_AddElement
    <3>3. IsFiniteSet({x} \cup {y})
      BY <2>1, FS_AddElement
    <3> QED
      BY <2>1, <3>2, <3>3
  <2>3. Cardinality({x} \cup {y}) <= Cardinality(S)
    BY <1>1, FS_Subset
  <2>4. Cardinality(S) \in Nat
    BY FS_CardinalityType
  <2> QED
    BY <2>2, <2>3, <2>4
<1> QED
  BY <1>1

LEMMA FiniteRoute ==
    ASSUME NEW r \in Routes
    PROVE  /\ r.steps \subseteq Steps /\ IsFiniteSet(r.steps)
           /\ \A S : S \subseteq r.steps => IsFiniteSet(S)
<1>1. r.steps \subseteq Steps
  BY DEF Routes
<1> QED
  BY <1>1, RoutingAssumption, FS_Subset

\* In a valid route whose dispositions are all active, every disposition a
\* step offers leads to exactly one step.
THEOREM ValidRouteNavigates == \A r \in Routes : Navigable(r)
<1> SUFFICES ASSUME NEW r \in Routes, ValidRoute(r), Current(r),
                    NEW s \in r.steps, NEW d \in r.outputs[s]
             PROVE  \E t \in r.steps : NextSteps(r, s, d) = {t}
  BY DEF Navigable
<1>1. r.steps \subseteq Steps /\ NoStep \notin r.steps /\ s # NoStep
  BY FiniteRoute, RoutingAssumption
<1>2. d \in Dispositions /\ d # NoDisposition
  BY <1>1, RoutingAssumption DEF Routes
<1>3. d \in Raised(r)
  BY DEF Raised
<1>4. d \in Fed(r) /\ InputsUnique(r)
  BY <1>3 DEF ValidRoute, Connected
<1>5. PICK t \in r.steps : t \in Destinations(r, d)
  BY <1>4 DEF Fed, Destinations
<1>6. Destinations(r, d) = {t}
  <2>1. IsFiniteSet(Destinations(r, d))
    BY FiniteRoute DEF Destinations
  <2>2. Cardinality(Destinations(r, d)) <= 1
    BY <1>2, <1>4 DEF InputsUnique
  <2> QED
    BY <2>1, <2>2, <1>5, AtMostOne
<1>7. d \in Offered(r, s) /\ Chosen(r, s, d) = {d}
  BY <1>2 DEF Current, Offered, Chosen
<1>8. NextSteps(r, s, d) = {u \in r.steps \cup {NoStep} :
                              Destinations(r, d) = (IF u = NoStep THEN {} ELSE {u})}
  BY <1>1, <1>7 DEF NextSteps
<1>9. NextSteps(r, s, d) = {t}
  BY <1>1, <1>5, <1>6, <1>8
<1> QED
  BY <1>5, <1>9

\* The entry step the engine starts items at is the one validation explored
\* the route from.
THEOREM EntryAgrees == \A r \in Routes : EntryAgreed(r)
<1> SUFFICES ASSUME NEW r \in Routes, ValidRoute(r), r.steps # {}
             PROVE  \E s \in r.steps : FirstSteps(r) = {s} /\ ValidationEntry(r) = {s}
  BY DEF EntryAgreed
<1>1. OneEntry(r)
  BY DEF ValidRoute
<1>2. \A s \in r.steps : Lowest(r, {s}) = {s}
  BY FiniteRoute DEF Lowest, Routes
<1>3. CASE Flagged(r) # {}
  <2>1. PICK s : s \in Flagged(r)
    BY <1>3
  <2>2. Flagged(r) = {s}
    BY <1>1, <2>1, FiniteRoute, AtMostOne DEF OneEntry, Flagged
  <2>3. s \in r.steps
    BY <2>1 DEF Flagged
  <2>4. Lowest(r, Flagged(r)) = {s}
    BY <1>2, <2>2, <2>3
  <2> QED
    BY <1>3, <2>3, <2>4 DEF FirstSteps, EntryCandidates, ValidationEntry
<1>4. CASE Flagged(r) = {}
  <2>1. Unfed(r) \subseteq r.steps /\ IsFiniteSet(Unfed(r)) /\ Cardinality(Unfed(r)) = 1
    BY <1>1, <1>4, FiniteRoute DEF OneEntry, Unfed
  <2>2. Unfed(r) # {}
    BY <2>1, FS_EmptySet
  <2>3. PICK s : s \in Unfed(r)
    BY <2>2
  <2>4. Unfed(r) = {s}
    BY <2>1, <2>3, AtMostOne
  <2>5. Lowest(r, Unfed(r)) = {s} /\ s \in r.steps
    BY <1>2, <2>1, <2>3, <2>4
  <2> QED
    BY <1>4, <2>2, <2>4, <2>5 DEF FirstSteps, EntryCandidates, ValidationEntry
<1> QED
  BY <1>3, <1>4

-----------------------------------------------------------------------------
\* The saved route stays a route, and the item at a step of it.
THEOREM RouteTyped == Spec => []TypeOK
<1>1. Init => TypeOK
  BY EditingAssumption, RoutingAssumption DEF Init, TypeOK, Routes
<1>2. TypeOK /\ [Next]_vars => TypeOK'
  <2> SUFFICES ASSUME TypeOK, [Next]_vars PROVE TypeOK'
    OBVIOUS
  <2> USE DEF TypeOK
  <2>1. CASE \E s \in Steps, ins, outs \in Lists, flags \in SUBSET Flaggable :
                flags \subseteq {s} /\ CreateStep(s, ins, outs, flags)
    <3>1. PICK s \in Steps, ins \in Lists, outs \in Lists, flags \in SUBSET Flaggable :
              CreateStep(s, ins, outs, flags)
      BY <2>1
    <3>2. /\ route.steps \cup {s} \subseteq Steps
          /\ route.initial \cup flags \subseteq Steps
          /\ [route.inputs EXCEPT ![s] = ins] \in [Steps -> SUBSET Dispositions]
          /\ [route.outputs EXCEPT ![s] = outs] \in [Steps -> SUBSET Dispositions]
      BY EditingAssumption DEF Lists, Routes
    <3>3. route' = [route EXCEPT !.steps = route.steps \cup {s},
                                 !.inputs = [route.inputs EXCEPT ![s] = ins],
                                 !.outputs = [route.outputs EXCEPT ![s] = outs],
                                 !.initial = route.initial \cup flags]
      BY <3>1 DEF CreateStep
    <3> HIDE DEF TypeOK
    <3>4. route \in Routes
      BY DEF TypeOK
    <3>5. route' \in Routes
      BY <3>2, <3>3, <3>4 DEF Routes
    <3>6. UNCHANGED <<gone, phase, at>>
      BY <3>1 DEF CreateStep
    <3> QED
      BY <3>5, <3>6 DEF TypeOK
  <2>2. CASE \E s \in Steps, L \in Lists : SetInputs(s, L) \/ SetOutputs(s, L)
    BY <2>2 DEF SetInputs, SetOutputs, Lists, Routes
  <2>3. CASE \E s \in Flaggable : SetInitial(s)
    BY <2>3, EditingAssumption DEF SetInitial, Routes
  <2>4. CASE \E s \in Deletable : DeleteStep(s)
    BY <2>4, EditingAssumption DEF DeleteStep, Routes
  <2>5. CASE \E d \in Retirable : DeleteDisposition(d)
    BY <2>5, EditingAssumption DEF DeleteDisposition, Routes
  <2>6. CASE Enter
    <3>1. FirstSteps(route) \subseteq Steps
      BY DEF FirstSteps, Lowest, EntryCandidates, Flagged, Unfed, Routes
    <3> QED
      BY <2>6, <3>1 DEF Enter
  <2>7. CASE \E d \in Dispositions \cup {NoDisposition} : Walk(d)
    <3>1. PICK d \in Dispositions \cup {NoDisposition} : Walk(d)
      BY <2>7
    <3>2. at \in Steps /\ at # NoStep
      BY <3>1, RoutingAssumption DEF Walk
    <3>3. NextSteps(route, at, d) \subseteq Steps \cup {NoStep}
      BY <3>2 DEF NextSteps, Routes
    <3> QED
      BY <3>1, <3>3, RoutingAssumption DEF Walk
  <2>8. CASE UNCHANGED vars
    BY <2>8 DEF vars
  <2> QED
    BY <2>1, <2>2, <2>3, <2>4, <2>5, <2>6, <2>7, <2>8 DEF Next
<1> QED
  BY <1>1, <1>2, PTL DEF Spec

\* Validation means the same after any edits: at every moment, if the saved
\* route is valid and its dispositions active, then it can be navigated.
THEOREM EditedRoutesNavigate == Spec => []ValidRoutesNavigate
<1>1. TypeOK => ValidRoutesNavigate
  BY ValidRouteNavigates DEF TypeOK, ValidRoutesNavigate
<1> QED
  BY <1>1, RouteTyped, PTL

\* ... and engine and validator agree on its entry.
THEOREM EditedRoutesAgree == Spec => []ValidRoutesAgreeOnEntry
<1>1. TypeOK => ValidRoutesAgreeOnEntry
  BY EntryAgrees DEF TypeOK, ValidRoutesAgreeOnEntry
<1> QED
  BY <1>1, RouteTyped, PTL

(***************************************************************************)
(* Demonstration data.  A seed no other request overtook still finds what  *)
(* it looked up, and rows with the key are apart as far as the look-up or  *)
(* the index keeps them so; of a lot there is no more than there was while *)
(* the plant seeds saw it as it is.                                        *)
(***************************************************************************)

\* At most one row has the key.
OneAtMost(rows) == \A a, b \in rows : a = b

\* Neither users nor overlapping seeds have added a row.
OnlySeeds == keyHistory \cap {"added", "together"} = {}

SeedState == [at : {"resting", "looked", "seeded", "failed"}, row : SeedRows \cup {NoSeedRow},
              was : RowStates, late : BOOLEAN, why : {"none", "several", "index"}]

KeysTyped ==
    /\ seedTable \in SeedTables
    /\ keyRow \in [SeedRows -> RowStates]
    /\ seeding \in [Seeders -> SeedState]
    /\ keyHistory \subseteq {"removed", "added", "together"}

\* Rows are doubled only as far as look-ups and index leave room.
KeysApart ==
    /\ OnlySeeds => OneAtMost(Keyed("active"))
    /\ OnlySeeds /\ (seedTable.among = "all" \/ seedTable = RouteMaterialSeed) => OneAtMost(Keyed("all"))
    /\ seedTable.rules.index = "all" => OneAtMost(Keyed("all"))
    /\ seedTable.rules.index = "active" => OneAtMost(Keyed("active"))

\* Only users delete rows.
DeletedByUsers == (\E r \in SeedRows : keyRow[r] = "deleted") => "removed" \in keyHistory

\* A seed no other request overtook still finds what it looked up, and what a seed found
\* is active as long as users take nothing away.
SeedSees(s) ==
    seeding[s].at = "looked" =>
        /\ seeding[s].row = NoSeedRow /\ ~seeding[s].late => Keyed(seedTable.among) = {}
        /\ seeding[s].row # NoSeedRow => keyRow[seeding[s].row] = "active" \/ "removed" \in keyHistory

SeedKnows(s) ==
    /\ seeding[s].why = "several" => ~OnlySeeds
    /\ seeding[s].why = "index" =>
          \/ seeding[s].late
          \/ "removed" \in keyHistory /\ seedTable.rules.index = "all" /\ seedTable.among = "active"
    /\ seeding[s].at = "seeded" => Keyed("active") # {} \/ "removed" \in keyHistory

KeysInv ==
    /\ KeysTyped /\ KeysApart /\ DeletedByUsers
    /\ \A s \in Seeders : SeedSees(s) /\ SeedKnows(s)

\* The seeds of the 21 tables: one that revives what it finds looks at all rows, and its
\* table has no index on active rows only.
LEMMA RulesOfSeeds ==
    \A t \in SeedTables :
        /\ t.rules.index \in {"no", "active", "all"}
        /\ t.among \in {"active", "all"}
        /\ t.found = "revived" => t.among = "all" /\ t.rules.index # "active"
<1> USE DEF Rules, LookUp, Maintained, AddedAndRemoved, OnBoth, OnCreate, Root, Child, SeedOf
<1> QED
  BY DEF SeedTables, CpgErp, ElectronicsErp, PharmaErp, CpgPlant, ElectronicsPlant, PharmaPlant,
     UnitSeed, MaterialSeed, ProductSeed, DispositionSeed, StepSeed, BomSeed, DataDefinitionSeed,
     ReasonSeed, StepMaterialSeed, RouteMaterialSeed, SiteSeed, AreaSeed, LineSeed, WorkCellSeed,
     EquipmentSeed, SetupSeed, ClassSeed, PropertySeed, StepEquipmentSeed, LocationSeed, ScheduleSeed,
     SiteIndex, AreaIndex, LineIndex, WorkCellIndex, EquipmentIndex, SetupIndex, ClassIndex, PropertyIndex,
     UnitIndex, MaterialIndex, ProductIndex, BomIndex, StepIndex, DispositionIndex, DataDefinitionIndex,
     ReasonIndex, StepMaterialIndex, RouteMaterialIndex, StepEquipmentIndex, LocationIndex, ScheduleIndex

\* A set with at most one element.
LEMMA OneAtMostCounts ==
    ASSUME NEW S, OneAtMost(S)
    PROVE  ~(Cardinality(S) > 1)
<1>1. CASE S = {}
  <2>1. Cardinality(S) = 0
    BY <1>1, FS_EmptySet
  <2> QED BY <2>1
<1>2. CASE S # {}
  <2>1. PICK a \in S : TRUE
    BY <1>2
  <2>2. S = {a}
    BY <2>1 DEF OneAtMost
  <2>3. Cardinality(S) = 1
    BY <2>2, FS_Singleton
  <2> QED BY <2>3
<1> QED BY <1>1, <1>2

\* While the rows stay, they stay apart.
LEMMA RowsAsBefore ==
    ASSUME KeysInv, UNCHANGED <<seedTable, keyRow, keyHistory>>
    PROVE  /\ KeysApart' /\ DeletedByUsers'
           /\ \A t \in Seeders : seeding'[t] = seeding[t] => SeedSees(t)' /\ SeedKnows(t)'
<1>1. KeysApart' /\ DeletedByUsers'
  BY DEF KeysInv, KeysApart, DeletedByUsers, OnlySeeds, Keyed, OneAtMost
<1>2. ASSUME NEW t \in Seeders, seeding'[t] = seeding[t]
      PROVE  SeedSees(t)' /\ SeedKnows(t)'
  BY <1>2 DEF KeysInv, SeedSees, SeedKnows, OnlySeeds, Keyed
<1> QED BY <1>1, <1>2

\* A row that is written overtakes the seeds that have looked; what they found stays
\* active where nothing is taken away.
LEMMA OvertakenSeeds ==
    ASSUME KeysInv, NEW own, NEW t \in Seeders, t \notin own, seeding'[t] = OvertakeSeeds(own)[t],
           seedTable' = seedTable, keyHistory \subseteq keyHistory',
           \A r \in SeedRows : keyRow[r] = "active" => keyRow'[r] = "active" \/ "removed" \in keyHistory'
    PROVE  seeding'[t] \in SeedState /\ SeedSees(t)' /\ SeedKnows(t)'
<1>1. seeding[t] \in SeedState /\ SeedSees(t) /\ SeedKnows(t)
  BY DEF KeysInv, KeysTyped
<1>2. seeding'[t] = IF seeding[t].at = "looked" THEN [seeding[t] EXCEPT !.late = TRUE] ELSE seeding[t]
  BY DEF OvertakeSeeds
<1>3. /\ seeding'[t] \in SeedState
      /\ seeding'[t].at = seeding[t].at /\ seeding'[t].row = seeding[t].row /\ seeding'[t].why = seeding[t].why
      /\ seeding[t].late => seeding'[t].late
      /\ seeding[t].at = "looked" => seeding'[t].late
  BY <1>1, <1>2 DEF SeedState
<1>4. SeedSees(t)'
  BY <1>1, <1>3 DEF SeedSees, SeedState
<1>5. Keyed("active") # {} => Keyed("active")' # {} \/ "removed" \in keyHistory'
  BY DEF Keyed
<1>6. ~OnlySeeds => ~OnlySeeds'
  BY DEF OnlySeeds
<1>7. SeedKnows(t)'
  BY <1>1, <1>3, <1>5, <1>6 DEF SeedKnows
<1> QED BY <1>3, <1>4, <1>7

\* A seed looks.
LEMMA SeedLookStep ==
    ASSUME KeysInv, NEW s \in Seeders, SeedLook(s)
    PROVE  KeysInv'
<1>1. KeysTyped /\ KeysApart /\ DeletedByUsers /\ UNCHANGED <<seedTable, keyRow, keyHistory>>
  BY DEF KeysInv, SeedLook
<1>2. TooMany => ~OnlySeeds
  <2>1. seedTable \in SeedTables
    BY <1>1 DEF KeysTyped
  <2>2. seedTable.among \in {"active", "all"}
    BY <2>1, RulesOfSeeds
  <2>3. OnlySeeds => OneAtMost(Hits)
    BY <1>1, <2>2 DEF KeysApart, Hits
  <2>4. OnlySeeds /\ seedTable = RouteMaterialSeed => OneAtMost(Keyed("all"))
    BY <1>1 DEF KeysApart
  <2> QED BY <2>3, <2>4, OneAtMostCounts DEF TooMany
<1>3. PICK next : /\ seeding' = [seeding EXCEPT ![s] = next]
                  /\ \/ TooMany /\ next = [SeedResting EXCEPT !.at = "failed", !.why = "several"]
                     \/ Hits = {} /\ next = [SeedResting EXCEPT !.at = "looked"]
                     \/ \E r \in Hits : next = [SeedResting EXCEPT !.at = "looked", !.row = r, !.was = keyRow[r]]
  BY DEF SeedLook
<1>4. /\ next \in SeedState
      /\ next.at \in {"failed", "looked"} /\ next.why \in {"none", "several"}
      /\ next.why = "several" => TooMany
      /\ next.at = "looked" => \/ Hits = {} /\ next.row = NoSeedRow
                               \/ next.row \in Hits
  <2>1. CASE TooMany /\ next = [SeedResting EXCEPT !.at = "failed", !.why = "several"]
    BY <2>1 DEF SeedResting, SeedState, RowStates
  <2>2. CASE Hits = {} /\ next = [SeedResting EXCEPT !.at = "looked"]
    BY <2>2 DEF SeedResting, SeedState, RowStates
  <2>3. CASE \E r \in Hits : next = [SeedResting EXCEPT !.at = "looked", !.row = r, !.was = keyRow[r]]
    <3>1. PICK r \in Hits : next = [SeedResting EXCEPT !.at = "looked", !.row = r, !.was = keyRow[r]]
      BY <2>3
    <3>2. r \in SeedRows /\ keyRow[r] \in RowStates
      BY <1>1 DEF Hits, Keyed, KeysTyped
    <3>3. next = [at |-> "looked", row |-> r, was |-> keyRow[r], late |-> FALSE, why |-> "none"]
      BY <3>1 DEF SeedResting
    <3> QED BY <3>2, <3>3 DEF SeedState
  <2> QED BY <1>3, <2>1, <2>2, <2>3
<1>5. seeding'[s] = next /\ \A t \in Seeders \ {s} : seeding'[t] = seeding[t]
  BY <1>1, <1>3 DEF KeysTyped
<1>6. seeding' \in [Seeders -> SeedState]
  BY <1>1, <1>3, <1>4 DEF KeysTyped
<1>7. SeedSees(s)'
  <2>1. Hits \subseteq SeedRows /\ Keyed(seedTable.among)' = Hits
    BY <1>1 DEF Hits, Keyed
  <2>2. \A r \in Hits : keyRow[r] = "active" \/ keyRow[r] = "deleted"
    BY DEF Hits, Keyed
  <2>3. \A r \in Hits : keyRow[r] = "active" \/ "removed" \in keyHistory
    BY <1>1, <2>1, <2>2 DEF DeletedByUsers
  <2>4. next.at = "looked" => /\ next.row = NoSeedRow => Hits = {}
                              /\ next.row # NoSeedRow => next.row \in Hits
    BY <1>4, <2>1, SeedAssumption
  <2> QED BY <1>1, <1>5, <2>1, <2>3, <2>4 DEF SeedSees
<1>8. SeedKnows(s)'
  BY <1>1, <1>2, <1>4, <1>5 DEF SeedKnows, OnlySeeds
<1>9. \A t \in Seeders \ {s} : SeedSees(t)' /\ SeedKnows(t)'
  BY <1>1, <1>5, RowsAsBefore
<1>10. KeysApart' /\ DeletedByUsers'
  BY <1>1, RowsAsBefore
<1>11. KeysTyped'
  BY <1>1, <1>6 DEF KeysTyped
<1> QED BY <1>7, <1>8, <1>9, <1>10, <1>11 DEF KeysInv

\* A seed that ends leaves nothing to remember.
LEMMA SeedResets ==
    ASSUME NEW s \in Seeders,
           \/ seeding'[s] = SeedResting
           \/ /\ seeding'[s] = [SeedResting EXCEPT !.at = "seeded"]
              /\ Keyed("active")' # {} \/ "removed" \in keyHistory'
    PROVE  seeding'[s] \in SeedState /\ SeedSees(s)' /\ SeedKnows(s)'
<1>1. SeedResting \in SeedState /\ SeedResting.at = "resting" /\ SeedResting.why = "none"
  BY DEF SeedResting, SeedState, RowStates
<1>2. /\ [SeedResting EXCEPT !.at = "seeded"] \in SeedState
      /\ [SeedResting EXCEPT !.at = "seeded"].at = "seeded" /\ [SeedResting EXCEPT !.at = "seeded"].why = "none"
  BY <1>1 DEF SeedState
<1>3. seeding'[s] \in SeedState /\ seeding'[s].why = "none"
  BY <1>1, <1>2
<1>4. /\ seeding'[s].at \in {"resting", "seeded"}
      /\ seeding'[s].at = "seeded" => Keyed("active")' # {} \/ "removed" \in keyHistory'
  BY <1>1, <1>2
<1>5. SeedSees(s)' /\ SeedKnows(s)'
  BY <1>3, <1>4 DEF SeedSees, SeedKnows
<1> QED BY <1>3, <1>5

\* A seed keeps the row it found, or revives it.
LEMMA SeedKeepsStep ==
    ASSUME KeysInv, NEW s \in Seeders, SeedKeeps(s)
    PROVE  KeysInv'
<1>1. KeysTyped /\ KeysApart /\ DeletedByUsers /\ seeding[s] \in SeedState /\ SeedSees(s) /\ seedTable' = seedTable
  BY DEF KeysInv, KeysTyped, SeedKeeps
<1>2. PICK r : r = seeding[s].row
  OBVIOUS
<1>3. /\ seeding[s].at = "looked" /\ r \in SeedRows /\ r # NoSeedRow
      /\ keyRow' = IF seedTable.found = "revived" /\ seeding[s].was = "deleted" /\ keyRow[r] = "deleted"
                   THEN [keyRow EXCEPT ![r] = "active"] ELSE keyRow
      /\ keyHistory' = IF keyRow' # keyRow /\ seeding[s].late THEN keyHistory \cup {"together"} ELSE keyHistory
      /\ seeding' = [OvertakeSeeds({s}) EXCEPT ![s] = [SeedResting EXCEPT !.at = "seeded"]]
  BY <1>1, <1>2 DEF SeedKeeps, SeedState
<1>4. /\ keyRow' \in [SeedRows -> RowStates] /\ keyHistory \subseteq keyHistory'
      /\ keyHistory' \subseteq {"removed", "added", "together"}
      /\ \A q \in SeedRows : keyRow[q] = "active" => keyRow'[q] = "active"
      /\ \A q \in SeedRows : keyRow'[q] = "deleted" => keyRow[q] = "deleted"
  BY <1>1, <1>3 DEF KeysTyped, RowStates
<1>5. /\ seeding'[s] = [SeedResting EXCEPT !.at = "seeded"]
      /\ \A t \in Seeders \ {s} : seeding'[t] = OvertakeSeeds({s})[t]
  BY <1>3 DEF OvertakeSeeds
<1>6. Keyed("active")' # {} \/ "removed" \in keyHistory'
  <2>1. keyRow'[r] = "active" \/ "removed" \in keyHistory'
    BY <1>1, <1>2, <1>3, <1>4 DEF SeedSees
  <2> QED BY <1>3, <2>1 DEF Keyed
<1>7. seeding'[s] \in SeedState /\ SeedSees(s)' /\ SeedKnows(s)'
  BY <1>5, <1>6, SeedResets
<1>8. \A t \in Seeders \ {s} : seeding'[t] \in SeedState /\ SeedSees(t)' /\ SeedKnows(t)'
  BY <1>1, <1>4, <1>5, OvertakenSeeds
<1>9. seeding' \in [Seeders -> SeedState]
  <2>1. \A t \in Seeders : seeding'[t] \in SeedState
    BY <1>7, <1>8
  <2> QED BY <1>3, <2>1 DEF OvertakeSeeds
<1>10. KeysApart'
  <2>1. Keyed("all")' = Keyed("all")
    BY <1>1, <1>3 DEF Keyed, KeysTyped
  <2>2. OneAtMost(Keyed("all")) => OneAtMost(Keyed("all"))' /\ OneAtMost(Keyed("active"))'
    BY <2>1 DEF OneAtMost, Keyed
  <2>3. OnlySeeds' => OnlySeeds
    BY <1>4 DEF OnlySeeds
  <2>4. CASE keyRow' = keyRow
    <3>1. Keyed("active")' = Keyed("active")
      BY <2>4 DEF Keyed
    <3> QED BY <1>1, <2>1, <2>3, <3>1 DEF KeysApart, OneAtMost
  <2>5. CASE keyRow' # keyRow
    <3>1. seedTable.found = "revived"
      BY <1>3, <2>5
    <3>2. seedTable.among = "all" /\ seedTable.rules.index # "active"
      BY <1>1, <3>1, RulesOfSeeds DEF KeysTyped
    <3> QED BY <1>1, <2>2, <2>3, <3>2 DEF KeysApart
  <2> QED BY <2>4, <2>5
<1>11. DeletedByUsers'
  BY <1>1, <1>4 DEF DeletedByUsers
<1>12. KeysTyped'
  BY <1>1, <1>4, <1>9 DEF KeysTyped
<1> QED BY <1>7, <1>8, <1>10, <1>11, <1>12 DEF KeysInv

\* A seed creates the row it did not find, or is refused.
LEMMA SeedCreatesStep ==
    ASSUME KeysInv, NEW s \in Seeders, SeedCreates(s)
    PROVE  KeysInv'
<1>1. KeysTyped /\ KeysApart /\ DeletedByUsers /\ seeding[s] \in SeedState /\ SeedSees(s) /\ seedTable' = seedTable
  BY DEF KeysInv, KeysTyped, SeedCreates
<1>2. /\ seeding[s].at = "looked" /\ seeding[s].row = NoSeedRow
      /\ ~seeding[s].late => Keyed(seedTable.among) = {}
  BY <1>1 DEF SeedCreates, SeedSees
<1>3. seedTable.among \in {"active", "all"} /\ seedTable.rules.index \in {"no", "active", "all"}
  BY <1>1, RulesOfSeeds DEF KeysTyped
<1>4. CASE IndexRefuses /\ seeding' = [seeding EXCEPT ![s].at = "failed", ![s].why = "index"]
           /\ UNCHANGED <<keyRow, keyHistory>>
  <2>1. seeding'[s] = [seeding[s] EXCEPT !.at = "failed", !.why = "index"]
    BY <1>1, <1>4 DEF KeysTyped
  <2>2. /\ seeding'[s] \in SeedState /\ seeding'[s].at = "failed" /\ seeding'[s].why = "index"
        /\ seeding'[s].late = seeding[s].late
    BY <1>1, <2>1 DEF SeedState
  <2>3. ASSUME ~seeding[s].late
        PROVE  "removed" \in keyHistory /\ seedTable.rules.index = "all" /\ seedTable.among = "active"
    <3>1. Keyed(seedTable.among) = {} /\ Keyed(seedTable.rules.index) # {} /\ seedTable.rules.index # "no"
      BY <1>2, <1>4, <2>3 DEF IndexRefuses
    <3>2. Keyed("active") \subseteq Keyed("all")
      BY DEF Keyed
    <3>3. seedTable.rules.index = "all" /\ seedTable.among = "active"
      BY <1>3, <3>1, <3>2
    <3>4. PICK r \in Keyed("all") : r \notin Keyed("active")
      BY <3>1, <3>3
    <3>5. r \in SeedRows /\ keyRow[r] = "deleted"
      BY <3>4 DEF Keyed
    <3> QED BY <1>1, <3>3, <3>5 DEF DeletedByUsers
  <2>4. SeedKnows(s)'
    BY <1>1, <1>4, <2>2, <2>3 DEF SeedKnows
  <2>5. SeedSees(s)'
    BY <2>2 DEF SeedSees
  <2>6. seeding' \in [Seeders -> SeedState] /\ \A t \in Seeders \ {s} : seeding'[t] = seeding[t]
    BY <1>1, <1>4, <2>2 DEF KeysTyped
  <2>7. /\ KeysApart' /\ DeletedByUsers'
        /\ \A t \in Seeders \ {s} : SeedSees(t)' /\ SeedKnows(t)'
    BY <1>1, <1>4, <2>6, RowsAsBefore
  <2>8. KeysTyped'
    BY <1>1, <1>4, <2>6 DEF KeysTyped
  <2> QED BY <2>4, <2>5, <2>7, <2>8 DEF KeysInv
<1>5. CASE /\ ~IndexRefuses
           /\ \E r \in SeedRows : Takes(r) /\ keyRow' = [keyRow EXCEPT ![r] = "active"]
           /\ keyHistory' = IF seeding[s].late THEN keyHistory \cup {"together"} ELSE keyHistory
           /\ seeding' = [OvertakeSeeds({s}) EXCEPT ![s] = [SeedResting EXCEPT !.at = "seeded"]]
  <2>1. PICK r \in SeedRows : Takes(r) /\ keyRow' = [keyRow EXCEPT ![r] = "active"]
    BY <1>5
  <2>2. /\ keyRow' \in [SeedRows -> RowStates] /\ keyHistory \subseteq keyHistory'
        /\ keyHistory' \subseteq {"removed", "added", "together"}
        /\ \A q \in SeedRows : keyRow[q] = "active" => keyRow'[q] = "active"
        /\ \A q \in SeedRows : keyRow'[q] = "deleted" => keyRow[q] = "deleted"
    BY <1>1, <1>5, <2>1 DEF KeysTyped, RowStates
  <2>3. /\ seeding'[s] = [SeedResting EXCEPT !.at = "seeded"]
        /\ \A t \in Seeders \ {s} : seeding'[t] = OvertakeSeeds({s})[t]
    BY <1>5 DEF OvertakeSeeds
  <2>4. /\ Keyed("active")' = Keyed("active") \cup {r} /\ Keyed("all")' = Keyed("all") \cup {r}
        /\ Keyed("active") \subseteq Keyed("all")
    BY <1>1, <2>1 DEF Keyed, KeysTyped
  <2>5. seeding'[s] \in SeedState /\ SeedSees(s)' /\ SeedKnows(s)'
    BY <2>3, <2>4, SeedResets
  <2>6. \A t \in Seeders \ {s} : seeding'[t] \in SeedState /\ SeedSees(t)' /\ SeedKnows(t)'
    BY <1>1, <2>2, <2>3, OvertakenSeeds
  <2>7. seeding' \in [Seeders -> SeedState]
    <3>1. \A t \in Seeders : seeding'[t] \in SeedState
      BY <2>5, <2>6
    <3> QED BY <1>5, <3>1 DEF OvertakeSeeds
  <2>8. OnlySeeds' => OnlySeeds /\ Keyed(seedTable.among) = {}
    BY <1>2, <1>5, <2>2 DEF OnlySeeds
  <2>9. /\ seedTable.rules.index = "all" => Keyed("all") = {}
        /\ seedTable.rules.index = "active" => Keyed("active") = {}
    BY <1>5 DEF IndexRefuses
  <2>10. seedTable = RouteMaterialSeed /\ Keyed("active") = {} =>
            Keyed("all") = {} \/ r \in Keyed("all")
    <3>1. ASSUME seedTable = RouteMaterialSeed, Keyed("active") = {}, Keyed("all") # {}
          PROVE  r \in Keyed("all")
      <4>1. keyRow[r] = "deleted"
        BY <2>1, <3>1 DEF Takes
      <4> QED BY <2>1, <4>1 DEF Keyed
    <3> QED BY <3>1
  <2>11. KeysApart'
    <3>1. OnlySeeds' => OneAtMost(Keyed("active"))'
      <4>1. OnlySeeds' => Keyed("active") = {}
        BY <1>3, <2>4, <2>8
      <4> QED BY <2>4, <4>1 DEF OneAtMost
    <3>2. OnlySeeds' /\ seedTable.among = "all" => OneAtMost(Keyed("all"))'
      BY <2>4, <2>8 DEF OneAtMost
    <3>3. OnlySeeds' /\ seedTable = RouteMaterialSeed => OneAtMost(Keyed("all"))'
      <4>1. OnlySeeds' => Keyed("active") = {} /\ OnlySeeds
        BY <1>3, <2>4, <2>8
      <4>2. OnlySeeds /\ seedTable = RouteMaterialSeed => OneAtMost(Keyed("all"))
        BY <1>1 DEF KeysApart
      <4>3. r \in Keyed("all") => Keyed("all")' = Keyed("all")
        BY <2>4
      <4> QED BY <2>4, <2>10, <4>1, <4>2, <4>3 DEF OneAtMost
    <3>4. /\ seedTable.rules.index = "all" => OneAtMost(Keyed("all"))'
          /\ seedTable.rules.index = "active" => OneAtMost(Keyed("active"))'
      BY <2>4, <2>9 DEF OneAtMost
    <3> QED BY <1>1, <3>1, <3>2, <3>3, <3>4 DEF KeysApart
  <2>12. DeletedByUsers'
    BY <1>1, <2>2 DEF DeletedByUsers
  <2>13. KeysTyped'
    BY <1>1, <2>2, <2>7 DEF KeysTyped
  <2> QED BY <2>5, <2>6, <2>11, <2>12, <2>13 DEF KeysInv
<1> QED BY <1>4, <1>5 DEF SeedCreates

\* A seed is rolled back.
LEMMA SeedCutStep ==
    ASSUME KeysInv, NEW s \in Seeders, SeedCut(s)
    PROVE  KeysInv'
<1>1. KeysTyped /\ UNCHANGED <<seedTable, keyRow, keyHistory>> /\ seeding' = [seeding EXCEPT ![s] = SeedResting]
  BY DEF KeysInv, SeedCut
<1>2. seeding'[s] = SeedResting /\ \A t \in Seeders \ {s} : seeding'[t] = seeding[t]
  BY <1>1 DEF KeysTyped
<1>4. seeding'[s] \in SeedState /\ SeedSees(s)' /\ SeedKnows(s)'
  BY <1>2, SeedResets
<1>5. /\ KeysApart' /\ DeletedByUsers'
      /\ \A t \in Seeders \ {s} : SeedSees(t)' /\ SeedKnows(t)'
  BY <1>1, <1>2, RowsAsBefore
<1>6. KeysTyped'
  BY <1>1, <1>2, <1>4 DEF KeysTyped
<1> QED BY <1>4, <1>5, <1>6 DEF KeysInv

\* A user takes a row away from the key, or adds one where the index lets him.
LEMMA UserStep ==
    ASSUME KeysInv, NEW r \in SeedRows, NEW was \in RowStates, NEW becomes \in RowStates,
           NEW how \in {"removed", "added"}, ByUser(r, was, becomes, how),
           how = "removed" => was = "active" /\ becomes # "active",
           how = "added" =>
              /\ becomes = "active"
              /\ seedTable.rules.index = "all" => Keyed("all") \subseteq {r}
              /\ seedTable.rules.index = "active" => Keyed("active") = {}
    PROVE  KeysInv'
<1>1. KeysTyped /\ KeysApart /\ DeletedByUsers /\ seedTable' = seedTable
  BY DEF KeysInv, ByUser
<1>2. /\ keyRow[r] = was /\ keyRow' = [keyRow EXCEPT ![r] = becomes] /\ keyHistory' = keyHistory \cup {how}
      /\ seeding' = OvertakeSeeds({})
  BY DEF ByUser
<1>3. /\ keyRow' \in [SeedRows -> RowStates] /\ keyHistory' \subseteq {"removed", "added", "together"}
      /\ keyRow'[r] = becomes /\ \A q \in SeedRows \ {r} : keyRow'[q] = keyRow[q]
  BY <1>1, <1>2 DEF KeysTyped
<1>4. \A q \in SeedRows : keyRow[q] = "active" => keyRow'[q] = "active" \/ "removed" \in keyHistory'
  BY <1>2, <1>3
<1>5. \A t \in Seeders : seeding'[t] \in SeedState /\ SeedSees(t)' /\ SeedKnows(t)'
  BY <1>1, <1>2, <1>4, OvertakenSeeds
<1>6. seeding' \in [Seeders -> SeedState]
  BY <1>2, <1>5 DEF OvertakeSeeds
<1>7. CASE how = "removed"
  <2>1. Keyed("active")' \subseteq Keyed("active") /\ Keyed("all")' \subseteq Keyed("all")
    BY <1>2, <1>3, <1>7 DEF Keyed
  <2>2. OnlySeeds' => OnlySeeds
    BY <1>2 DEF OnlySeeds
  <2>3. KeysApart'
    BY <1>1, <2>1, <2>2 DEF KeysApart, OneAtMost
  <2>4. DeletedByUsers'
    BY <1>2, <1>7 DEF DeletedByUsers
  <2> QED BY <2>3, <2>4, <1>1, <1>3, <1>5, <1>6 DEF KeysInv, KeysTyped
<1>8. CASE how = "added"
  <2>1. /\ Keyed("active")' = Keyed("active") \cup {r}
        /\ Keyed("all")' = Keyed("all") \cup {r}
    BY <1>3, <1>8 DEF Keyed
  <2>2. ~OnlySeeds'
    BY <1>2, <1>8 DEF OnlySeeds
  <2>3. KeysApart'
    BY <1>1, <1>8, <2>1, <2>2 DEF KeysApart, OneAtMost
  <2>4. DeletedByUsers'
    BY <1>1, <1>2, <1>3, <1>8 DEF DeletedByUsers
  <2> QED BY <2>3, <2>4, <1>1, <1>3, <1>5, <1>6 DEF KeysInv, KeysTyped
<1> QED BY <1>7, <1>8

\* Every request on the key keeps the invariant.
LEMMA KeysStep == KeysInv /\ (Reseeds \/ UNCHANGED seedVars) => KeysInv'
<1> SUFFICES ASSUME KeysInv, Reseeds \/ UNCHANGED seedVars
             PROVE  KeysInv'
  OBVIOUS
<1>1. ASSUME NEW s \in Seeders, SeedLook(s) \/ SeedKeeps(s) \/ SeedCreates(s) \/ SeedCut(s)
      PROVE  KeysInv'
  BY <1>1, SeedLookStep, SeedKeepsStep, SeedCreatesStep, SeedCutStep
<1>2. ASSUME NEW r \in SeedRows, UserDeletes(r) \/ UserCreates(r) \/ UserRenames(r)
      PROVE  KeysInv'
  <2> DEFINE Free == ~IndexRefuses
  <2>1. Free => /\ seedTable.rules.index = "all" => Keyed("all") \subseteq {r}
                /\ seedTable.rules.index = "active" => Keyed("active") = {}
    BY DEF IndexRefuses
  <2>2. {"other", "active", "deleted"} \subseteq RowStates
    BY DEF RowStates
  <2>3. CASE ByUser(r, "active", "deleted", "removed") \/ ByUser(r, "active", "other", "removed")
    BY <2>2, <2>3, UserStep
  <2>4. CASE Free /\ ByUser(r, "other", "active", "added")
    BY <2>1, <2>2, <2>4, UserStep
  <2>5. CASE Keyed("active") = {} /\ Keyed("all") = {r} /\ ByUser(r, "deleted", "active", "added")
    BY <2>2, <2>5, UserStep
  <2>6. \A rule : Unrefused(rule) => Free
    BY DEF Unrefused
  <2> HIDE DEF Free
  <2> QED BY <1>2, <2>3, <2>4, <2>5, <2>6 DEF UserDeletes, UserCreates, UserRenames
<1>3. CASE UNCHANGED seedVars
  <2>1. UNCHANGED <<seedTable, keyRow, keyHistory>> /\ seeding' = seeding
    BY <1>3 DEF seedVars
  <2>2. KeysTyped'
    BY <2>1 DEF KeysInv, KeysTyped
  <2> QED BY <2>1, <2>2, RowsAsBefore DEF KeysInv
<1> QED BY <1>1, <1>2, <1>3 DEF Reseeds

\* The first states.
LEMMA KeysBegin == DemoInit => KeysInv
<1> SUFFICES ASSUME DemoInit
             PROVE  KeysInv
  OBVIOUS
<1>1. SeedResting \in SeedState /\ SeedResting.at = "resting" /\ SeedResting.why = "none"
  BY DEF SeedResting, SeedState, RowStates
<1>2. \A s \in Seeders : seeding[s] = SeedResting
  BY DEF DemoInit
<1>3. KeysTyped
  BY <1>1 DEF DemoInit, KeysTyped, RowStates
<1>4. Keyed("active") = {} /\ Keyed("all") = {} /\ \A r \in SeedRows : keyRow[r] = "other"
  BY DEF DemoInit, Keyed
<1>5. KeysApart /\ DeletedByUsers
  BY <1>4 DEF KeysApart, DeletedByUsers, OneAtMost
<1>6. \A s \in Seeders : SeedSees(s) /\ SeedKnows(s)
  BY <1>1, <1>2 DEF SeedSees, SeedKnows
<1> QED BY <1>3, <1>5, <1>6 DEF KeysInv

StockState == [at : {"resting", "counted", "booked"}, quantity : Nat, saw : [LotPlaces -> Nat],
               rows : SUBSET LotPlaces, late : BOOLEAN]

LotTyped ==
    /\ pile \in [LotPlaces -> Nat] /\ booked \subseteq LotPlaces
    /\ counted \in Nat /\ goods \in Nat
    /\ stocking \in [Seeders -> StockState]
    /\ pileHistory \subseteq {"elsewhere", "together"}

\* The lot as the seed of the ERP side left it, until somebody receives it.
LotUntouched == booked = {} => counted = 1 /\ goods = 1

\* Pieces are at booked locations only, and as long as nothing went wrong there are no
\* more of them than there should be.
LotBooked ==
    /\ \A p \in LotPlaces \ booked : pile[p] = 0
    /\ pileHistory = {} => counted <= goods /\ AtPlaces(pile) <= goods

\* A plant seed no other request overtook still sees the lot as it is.
StockSees(s) ==
    stocking[s].at # "resting" /\ ~stocking[s].late =>
        /\ stocking[s].quantity = counted /\ "storage" \notin booked
        /\ stocking[s].at = "booked" => stocking[s].saw = pile /\ stocking[s].rows = booked

LotInv == LotTyped /\ LotUntouched /\ LotBooked /\ \A s \in Seeders : StockSees(s)

\* What happens to the lot marks the plant seeds that have begun.
Marked(t) == [stocking[t] EXCEPT !.late = @ \/ stocking[t].at # "resting"]

\* A marked seed is of no further concern.
LEMMA MarkedSeeds ==
    ASSUME LotInv, NEW t \in Seeders, stocking'[t] = Marked(t)
    PROVE  stocking'[t] \in StockState /\ StockSees(t)'
<1>1. stocking[t] \in StockState
  BY DEF LotInv, LotTyped
<1>2. /\ stocking'[t] \in StockState /\ stocking'[t].at = stocking[t].at
      /\ stocking[t].at # "resting" => stocking'[t].late
  BY <1>1 DEF Marked, StockState
<1> QED BY <1>2 DEF StockSees

\* The pieces of a lot.
LEMMA PiecesAreCounted ==
    ASSUME NEW f \in [LotPlaces -> Nat]
    PROVE  /\ f["dock"] \in Nat /\ f["storage"] \in Nat /\ f["elsewhere"] \in Nat
           /\ AtPlaces(f) \in Nat /\ AtPlaces(f) = f["dock"] + f["storage"] + f["elsewhere"]
BY DEF LotPlaces, AtPlaces

\* A plant seed that begins, reads or is rolled back.
LEMMA StockReads ==
    ASSUME LotInv, NEW s \in Seeders, CountLot(s) \/ BookLot(s) \/ RollBackLot(s)
    PROVE  LotInv'
<1>1. /\ LotTyped /\ LotUntouched /\ LotBooked /\ stocking[s] \in StockState /\ StockSees(s)
      /\ UNCHANGED <<pile, booked, counted, goods, pileHistory>>
  BY DEF LotInv, LotTyped, CountLot, BookLot, RollBackLot
<1>2. PICK next : stocking' = [stocking EXCEPT ![s] = next]
  BY DEF CountLot, BookLot, RollBackLot
<1>3. stocking'[s] = next /\ \A t \in Seeders \ {s} : stocking'[t] = stocking[t]
  BY <1>1, <1>2 DEF LotTyped
<1>4. /\ next \in StockState
      /\ next.at # "resting" /\ ~next.late =>
           /\ next.quantity = counted /\ "storage" \notin booked
           /\ next.at = "booked" => next.saw = pile /\ next.rows = booked
  <2>1. /\ StockResting \in StockState /\ StockResting.at = "resting" /\ StockResting.late = FALSE
    BY DEF StockResting, StockState, LotPlaces
  <2>2. CASE CountLot(s)
    <3>1. stocking'[s] = [StockResting EXCEPT !.at = "counted", !.quantity = counted]
      BY <1>1, <2>2 DEF CountLot, LotTyped
    <3>2. next = [StockResting EXCEPT !.at = "counted", !.quantity = counted] /\ "storage" \notin booked
      BY <1>3, <2>2, <3>1 DEF CountLot, ToReceive
    <3> QED BY <1>1, <2>1, <3>2 DEF LotTyped, StockState
  <2>3. CASE BookLot(s)
    <3>1. stocking'[s] = [stocking[s] EXCEPT !.at = "booked", !.saw = pile, !.rows = booked] /\ stocking[s].at = "counted"
      BY <1>1, <2>3 DEF BookLot, LotTyped
    <3>2. next = [stocking[s] EXCEPT !.at = "booked", !.saw = pile, !.rows = booked]
      BY <1>3, <3>1
    <3>3. pile \in [LotPlaces -> Nat] /\ booked \in SUBSET LotPlaces
      BY <1>1 DEF LotTyped
    <3>4. /\ next \in StockState /\ next.late = stocking[s].late /\ next.quantity = stocking[s].quantity
          /\ next.saw = pile /\ next.rows = booked
      BY <1>1, <3>2, <3>3 DEF StockState
    <3> QED BY <1>1, <3>1, <3>4 DEF StockSees
  <2>4. CASE RollBackLot(s)
    <3>1. next = StockResting
      BY <1>1, <1>3, <2>4 DEF RollBackLot, LotTyped
    <3> QED BY <2>1, <3>1
  <2> QED BY <2>2, <2>3, <2>4
<1>5. LotTyped'
  BY <1>1, <1>2, <1>4 DEF LotTyped
<1>6. LotUntouched' /\ LotBooked'
  BY <1>1 DEF LotUntouched, LotBooked, AtPlaces
<1>7. StockSees(s)'
  BY <1>1, <1>3, <1>4 DEF StockSees
<1>8. \A t \in Seeders \ {s} : StockSees(t)'
  BY <1>1, <1>3 DEF LotInv, StockSees
<1> QED BY <1>5, <1>6, <1>7, <1>8 DEF LotInv

\* A plant seed commits what it received: of a lot nobody moved meanwhile, and of which
\* nothing was at another location, there is as much as before.
LEMMA StockCommits ==
    ASSUME LotInv, NEW s \in Seeders, CommitLot(s)
    PROVE  LotInv'
<1>1. LotTyped /\ LotUntouched /\ LotBooked /\ stocking[s] \in StockState /\ StockSees(s) /\ goods' = goods
  BY DEF LotInv, LotTyped, CommitLot
<1>2. PICK q \in Nat, saw \in [LotPlaces -> Nat] : q = stocking[s].quantity /\ saw = stocking[s].saw
  BY <1>1 DEF StockState
<1>3. /\ stocking[s].at = "booked"
      /\ pile' = [pile EXCEPT !["dock"] = saw["dock"], !["storage"] = saw["storage"] + q]
      /\ booked' = booked \cup {"dock", "storage"} /\ counted' = AtPlaces(saw) + q
      /\ pileHistory' = pileHistory \cup (IF stocking[s].late THEN {"together"} ELSE {})
                                    \cup (IF saw["dock"] + saw["elsewhere"] > 0 THEN {"elsewhere"} ELSE {})
      /\ stocking' = [t \in Seeders |-> IF t = s THEN StockResting ELSE Marked(t)]
  BY <1>2 DEF CommitLot, Marked
<1>4. /\ saw["dock"] \in Nat /\ saw["storage"] \in Nat /\ saw["elsewhere"] \in Nat
      /\ AtPlaces(saw) \in Nat /\ AtPlaces(saw) = saw["dock"] + saw["storage"] + saw["elsewhere"]
  BY PiecesAreCounted
<1>5. pile \in [LotPlaces -> Nat] /\ counted \in Nat /\ goods \in Nat
  BY <1>1 DEF LotTyped
<1>6. /\ pile' \in [LotPlaces -> Nat]
      /\ pile'["dock"] = saw["dock"] /\ pile'["storage"] = saw["storage"] + q
      /\ pile'["elsewhere"] = pile["elsewhere"]
  BY <1>3, <1>4, <1>5 DEF LotPlaces
<1>7. AtPlaces(pile)' = saw["dock"] + (saw["storage"] + q) + pile["elsewhere"]
  BY <1>6 DEF AtPlaces
<1>8. /\ StockResting \in StockState /\ StockResting.at = "resting"
  BY DEF StockResting, StockState, LotPlaces
<1>9. stocking'[s] = StockResting /\ \A t \in Seeders \ {s} : stocking'[t] = Marked(t)
  BY <1>3
<1>10. \A t \in Seeders : stocking'[t] \in StockState /\ StockSees(t)'
  <2>1. stocking'[s] \in StockState /\ StockSees(s)'
    BY <1>8, <1>9 DEF StockSees
  <2> QED BY <1>9, <2>1, MarkedSeeds
<1>11. LotTyped'
  <2>1. stocking' \in [Seeders -> StockState]
    BY <1>3, <1>10
  <2>2. booked' \subseteq LotPlaces /\ counted' \in Nat /\ pileHistory' \subseteq {"elsewhere", "together"}
    BY <1>1, <1>3, <1>4 DEF LotTyped, LotPlaces
  <2> QED BY <1>1, <1>5, <1>6, <2>1, <2>2 DEF LotTyped
<1>12. LotUntouched'
  BY <1>3 DEF LotUntouched
<1>13. LotBooked'
  <2>1. ASSUME NEW p \in LotPlaces \ booked'
        PROVE  pile'[p] = 0
    <3>1. p = "elsewhere" /\ p \notin booked
      BY <1>3 DEF LotPlaces
    <3> QED BY <1>1, <1>6, <3>1 DEF LotBooked, LotPlaces
  <2>2. ASSUME pileHistory' = {}
        PROVE  counted' <= goods' /\ AtPlaces(pile)' <= goods'
    <3>1. pileHistory = {} /\ ~stocking[s].late /\ ~(saw["dock"] + saw["elsewhere"] > 0)
      BY <1>3, <2>2
    <3>2. q = counted /\ saw = pile /\ "storage" \notin booked
      BY <1>1, <1>2, <1>3, <3>1 DEF StockSees
    <3>3. saw["dock"] = 0 /\ saw["elsewhere"] = 0 /\ saw["storage"] = 0
      BY <1>1, <1>4, <3>1, <3>2 DEF LotBooked, LotPlaces
    <3>4. counted <= goods
      BY <1>1, <3>1 DEF LotBooked
    <3> QED BY <1>1, <1>2, <1>3, <1>4, <1>5, <1>7, <3>2, <3>3, <3>4
  <2> QED BY <2>1, <2>2 DEF LotBooked
<1> QED BY <1>10, <1>11, <1>12, <1>13 DEF LotInv

\* A user receives, moves or takes pieces, without making any.
LEMMA UserMovesStep ==
    ASSUME LotInv, NEW change \in [LotPlaces -> Nat], NEW left \in Nat, UserMoves(change, left), booked' # {},
           pileHistory = {} => AtPlaces(change) <= left
    PROVE  LotInv'
<1>1. LotTyped /\ LotBooked
  BY DEF LotInv
<1>2. /\ pile' = change /\ goods' = left /\ counted' = AtPlaces(change) /\ pileHistory' = pileHistory
      /\ booked' = booked \cup {p \in LotPlaces : change[p] # pile[p]}
      /\ stocking' = [t \in Seeders |-> Marked(t)]
  BY DEF UserMoves, Marked
<1>3. AtPlaces(change) \in Nat
  BY PiecesAreCounted
<1>4. \A t \in Seeders : stocking'[t] \in StockState /\ StockSees(t)'
  BY <1>2, MarkedSeeds
<1>5. LotTyped'
  BY <1>1, <1>2, <1>3, <1>4 DEF LotTyped
<1>6. LotUntouched'
  BY DEF LotUntouched
<1>7. LotBooked'
  <2>1. \A p \in LotPlaces \ booked' : pile'[p] = 0
    BY <1>1, <1>2 DEF LotBooked
  <2>2. pileHistory' = {} => counted' <= goods' /\ AtPlaces(pile)' <= goods'
    BY <1>2 DEF AtPlaces
  <2> QED BY <2>1, <2>2 DEF LotBooked
<1> QED BY <1>4, <1>5, <1>6, <1>7 DEF LotInv

\* What the three requests of users do to the pieces.
LEMMA UserMoveKinds ==
    ASSUME LotInv, NEW p \in LotPlaces,
           UserReceives(p) \/ UserTakes(p) \/ \E q \in LotPlaces : UserMovesPiece(p, q)
    PROVE  LotInv'
<1>1. /\ LotTyped /\ LotUntouched /\ LotBooked
      /\ pile \in [LotPlaces -> Nat] /\ goods \in Nat /\ counted \in Nat
  BY DEF LotInv, LotTyped
<1>2. AtPlaces(pile) \in Nat /\ AtPlaces(pile) = pile["dock"] + pile["storage"] + pile["elsewhere"]
  BY <1>1, PiecesAreCounted
<1>3. LotPlaces = {"dock", "storage", "elsewhere"}
  BY DEF LotPlaces
<1>4. CASE UserReceives(p)
  <2>1. PICK change : change = [pile EXCEPT ![p] = 1]
    OBVIOUS
  <2>2. booked = {} /\ UserMoves(change, goods)
    BY <1>4, <2>1 DEF UserReceives
  <2>3. change \in [LotPlaces -> Nat] /\ \A q \in LotPlaces : pile[q] = 0 /\ (change[q] = IF q = p THEN 1 ELSE 0)
    BY <1>1, <2>1, <2>2 DEF LotBooked
  <2>4. AtPlaces(change) = 1
    BY <1>3, <2>3 DEF AtPlaces
  <2>5. goods = 1
    BY <1>1, <2>2 DEF LotUntouched
  <2>6. booked' # {}
    BY <2>2, <2>3 DEF UserMoves
  <2> QED BY <1>1, <2>2, <2>3, <2>4, <2>5, <2>6, UserMovesStep
<1>5. CASE UserTakes(p)
  <2>1. PICK change : change = [pile EXCEPT ![p] = @ - 1]
    OBVIOUS
  <2>2. pile[p] > 0 /\ goods > 0 /\ UserMoves(change, goods - 1)
    BY <1>5, <2>1 DEF UserTakes
  <2>3. /\ change \in [LotPlaces -> Nat] /\ goods - 1 \in Nat
        /\ change[p] = pile[p] - 1 /\ \A q \in LotPlaces \ {p} : change[q] = pile[q]
    BY <1>1, <2>1, <2>2
  <2>4. AtPlaces(change) = AtPlaces(pile) - 1
    BY <1>1, <1>2, <1>3, <2>3 DEF AtPlaces
  <2>5. pileHistory = {} => AtPlaces(change) <= goods - 1
    BY <1>1, <1>2, <2>4 DEF LotBooked
  <2>6. booked' # {}
    <3>1. change[p] # pile[p]
      BY <1>1, <2>3
    <3> QED BY <2>2, <3>1 DEF UserMoves
  <2> QED BY <2>2, <2>3, <2>5, <2>6, UserMovesStep
<1>6. ASSUME NEW q \in LotPlaces, UserMovesPiece(p, q)
      PROVE  LotInv'
  <2>1. PICK change : change = [pile EXCEPT ![p] = @ - 1, ![q] = @ + 1]
    OBVIOUS
  <2>2. p # q /\ pile[p] > 0 /\ UserMoves(change, goods)
    BY <1>6, <2>1 DEF UserMovesPiece
  <2>3. /\ change \in [LotPlaces -> Nat]
        /\ change[p] = pile[p] - 1 /\ change[q] = pile[q] + 1 /\ \A k \in LotPlaces \ {p, q} : change[k] = pile[k]
    BY <1>1, <2>1, <2>2
  <2>4. AtPlaces(change) = AtPlaces(pile)
    BY <1>1, <1>2, <1>3, <2>2, <2>3 DEF AtPlaces
  <2>5. pileHistory = {} => AtPlaces(change) <= goods
    BY <1>1, <2>4 DEF LotBooked
  <2>6. booked' # {}
    <3>1. change[p] # pile[p]
      BY <1>1, <2>3
    <3> QED BY <2>2, <3>1 DEF UserMoves
  <2> QED BY <1>1, <2>2, <2>3, <2>5, <2>6, UserMovesStep
<1> QED BY <1>4, <1>5, <1>6

\* Every step keeps the invariant of the lot.
LEMMA LotStep == LotInv /\ (Receives \/ UNCHANGED pileVars) => LotInv'
<1> SUFFICES ASSUME LotInv, Receives \/ UNCHANGED pileVars
             PROVE  LotInv'
  OBVIOUS
<1>1. ASSUME NEW s \in Seeders, CountLot(s) \/ BookLot(s) \/ CommitLot(s) \/ RollBackLot(s)
      PROVE  LotInv'
  BY <1>1, StockReads, StockCommits
<1>2. CASE UNCHANGED pileVars
  BY <1>2 DEF pileVars, LotInv, LotTyped, LotUntouched, LotBooked, StockSees, AtPlaces
<1> QED BY <1>1, <1>2, UserMoveKinds DEF Receives

\* The first states have it.
LEMMA LotBegins == DemoInit => LotInv
<1> SUFFICES ASSUME DemoInit
             PROVE  LotInv
  OBVIOUS
<1>1. StockResting \in StockState /\ StockResting.at = "resting"
  BY DEF StockResting, StockState, LotPlaces
<1>2. LotTyped /\ LotUntouched /\ \A s \in Seeders : stocking[s] = StockResting
  BY <1>1 DEF DemoInit, LotTyped, LotUntouched
<1>3. AtPlaces(pile) = 0
  BY DEF DemoInit, AtPlaces, LotPlaces
<1>4. LotBooked
  BY <1>3 DEF DemoInit, LotBooked
<1>5. \A s \in Seeders : StockSees(s)
  BY <1>1, <1>2 DEF StockSees
<1> QED BY <1>2, <1>4, <1>5 DEF LotInv

\* A seed that is repeated doubles, misses or overbooks only for the causes that
\* SeedsExplained names (core/demo/service.py), in each of its tables, for any number
\* of rows and seeds.
THEOREM SeedsHaveCauses == DemoSpec => []SeedsExplained
<1>1. DemoInit => KeysInv /\ LotInv
  BY KeysBegin, LotBegins
<1>2. KeysInv /\ LotInv /\ [DemoNext]_demoVars => (KeysInv /\ LotInv)'
  <2> SUFFICES ASSUME KeysInv, LotInv, [DemoNext]_demoVars
               PROVE  KeysInv' /\ LotInv'
    OBVIOUS
  <2>1. Reseeds => UNCHANGED pileVars
    BY DEF Reseeds, SeedLook, SeedKeeps, SeedCreates, SeedCut, UserDeletes, UserCreates, UserRenames, ByUser
  <2>2. Receives => UNCHANGED seedVars
    BY DEF Receives, CountLot, BookLot, CommitLot, RollBackLot, UserReceives, UserTakes, UserMovesPiece, UserMoves
  <2>3. UNCHANGED demoVars => UNCHANGED seedVars /\ UNCHANGED pileVars
    BY DEF demoVars
  <2> QED BY <2>1, <2>2, <2>3, KeysStep, LotStep DEF DemoNext
<1>3. KeysInv => SeveralExplained /\ RefusedExplained /\ KeyExplained
  <2> SUFFICES ASSUME KeysInv
               PROVE  SeveralExplained /\ RefusedExplained /\ KeyExplained
    OBVIOUS
  <2>1. SeveralExplained /\ RefusedExplained
    BY DEF KeysInv, SeedKnows, OnlySeeds, SeveralExplained, RefusedExplained
  <2>2. seedTable.rules.index \in {"no", "active", "all"}
    BY RulesOfSeeds DEF KeysInv, KeysTyped
  <2>3. OneAtMost(Keyed("all")) => OneAtMost(Keyed("active"))
    BY DEF OneAtMost, Keyed
  <2>4. OnlySeeds \/ seedTable.rules.index # "no" => OneAtMost(Keyed("active"))
    BY <2>2, <2>3 DEF KeysInv, KeysApart
  <2>5. KeyExplained
    BY <2>4, OneAtMostCounts DEF KeysInv, SeedKnows, OnlySeeds, KeyExplained
  <2> QED BY <2>1, <2>5
<1>4. LotInv => LotExplained
  <2> SUFFICES ASSUME LotInv
               PROVE  LotExplained
    OBVIOUS
  <2>1. AtPlaces(pile) \in Nat /\ goods \in Nat
    BY PiecesAreCounted DEF LotInv, LotTyped
  <2> QED BY <2>1 DEF LotInv, LotBooked, LotExplained
<1>5. KeysInv /\ LotInv => SeedsExplained
  BY <1>3, <1>4 DEF SeedsExplained
<1> QED BY <1>1, <1>2, <1>5, PTL DEF DemoSpec

(***************************************************************************)
(* The working time of a schedule.                                         *)
(***************************************************************************)

\* Days and times of day: quotient and remainder of an instant.
LEMMA Division ==
    ASSUME NEW n \in Int, n > 0, NEW t \in Int
    PROVE  t \div n \in Int /\ t % n \in 0..(n - 1) /\ t = n * (t \div n) + (t % n)
<1>1. t \div n \in Int
  OBVIOUS
<1>2. t % n \in 0..(n - 1)
  OBVIOUS
<1>3. t = n * (t \div n) + (t % n)
  OBVIOUS
<1> QED BY <1>1, <1>2, <1>3

\* The remainder after any number of whole days.
LEMMA RemainderIs ==
    ASSUME NEW n \in Int, n > 0, NEW q \in Int, NEW r \in 0..(n - 1)
    PROVE  (n * q + r) % n = r /\ (n * q + r) \div n = q
<1>1. (n * q + r) % n = r
  OBVIOUS
<1>2. (n * q + r) \div n = q
  OBVIOUS
<1> QED BY <1>1, <1>2

\* The days one after the other.
LEMMA DaysApart ==
    ASSUME NEW n \in Int, n > 0, NEW p \in Int, NEW q \in Int
    PROVE  /\ p * n \in Int /\ (p + 1) * n = p * n + n /\ (p - 1) * n = p * n - n
           /\ p < q => p * n + n <= q * n
           /\ p <= q => p * n <= q * n
<1>1. p * n \in Int /\ (p + 1) * n = p * n + n
  OBVIOUS
<1>2. (p - 1) * n = p * n - n
  OBVIOUS
<1>3. p < q => p * n + n <= q * n
  OBVIOUS
<1>4. p <= q => p * n <= q * n
  OBVIOUS
<1> QED BY <1>1, <1>2, <1>3, <1>4

\* Where a shift ends, and whether it does on the next day.
LEMMA ShiftEnds ==
    ASSUME NEW s \in Shifts \cup {NoShift}
    PROVE  /\ s.start \in 0..(DayLength - 1) /\ s.length \in 0..DayLength
           /\ EndTime(s) = IF s.start + s.length < DayLength THEN s.start + s.length ELSE s.start + s.length - DayLength
           /\ SpansMidnight(s) <=> s.start + s.length >= DayLength
           /\ s.length = 0 <=> s = NoShift
           /\ s = NoShift => s.start = 0
           /\ s = [start |-> 0, length |-> DayLength] <=> s.start = 0 /\ s.length = DayLength
<1> DEFINE end == s.start + s.length
<1>0. DayLength \in Nat /\ DayLength > 0
  BY WorkTimeAssumption
<1>1. s.start \in 0..(DayLength - 1) /\ s.length \in 0..DayLength
  BY <1>0 DEF Shifts, NoShift
<1>2. (s.length = 0 <=> s = NoShift) /\ (s = NoShift => s.start = 0)
  BY <1>0 DEF Shifts, NoShift
<1>3. s = [start |-> 0, length |-> DayLength] <=> s.start = 0 /\ s.length = DayLength
  BY <1>0 DEF Shifts, NoShift
<1>4. CASE end < DayLength
  <2>1. end \in 0..(DayLength - 1) /\ DayLength * 0 + end = end
    BY <1>0, <1>1, <1>4
  <2>2. end % DayLength = end
    BY <1>0, <2>1, RemainderIs
  <2>3. ~(SpansMidnight(s))
    BY <1>0, <1>1, <1>2, <2>2 DEF SpansMidnight, EndTime
  <2> QED BY <1>0, <1>1, <1>2, <1>3, <1>4, <2>2, <2>3 DEF EndTime
<1>5. CASE ~(end < DayLength)
  <2>1. end - DayLength \in 0..(DayLength - 1) /\ DayLength * 1 + (end - DayLength) = end
    BY <1>0, <1>1, <1>5
  <2>2. end % DayLength = end - DayLength
    BY <1>0, <2>1, RemainderIs
  <2>3. SpansMidnight(s)
    BY <1>0, <1>1, <1>2, <1>5, <2>2 DEF SpansMidnight, EndTime
  <2> QED BY <1>0, <1>1, <1>2, <1>3, <1>5, <2>2, <2>3 DEF EndTime
<1> QED BY <1>4, <1>5

-----------------------------------------------------------------------------
\* What a list of lists is when flattened: one after the other.
LEMMA Flattened ==
    ASSUME NEW X, NEW q \in Seq(Seq(X)), q # <<>>
    PROVE  \E f : /\ f[1] = q[1] /\ FlattenSeq(q) = f[Len(q)]
                  /\ \A k \in 1..(Len(q) - 1) : f[k + 1] = f[k] \o q[k + 1]
<1> DEFINE n == Len(q)
           Step(g, i) == IF i = 1 THEN q[i] ELSE g[i - 1] \o q[i]
           Has(k) == \E g : g = [i \in 1..k |-> Step(g, i)]
           P == {k \in Nat : Has(k)}
<1>0. n \in Nat /\ n # 0
  OBVIOUS
<1>1. 0 \in P
  <2> DEFINE g == [i \in 1..0 |-> 0]
  <2>1. g = [i \in 1..0 |-> Step(g, i)]
    OBVIOUS
  <2> HIDE DEF g
  <2> QED BY <2>1
<1>2. ASSUME NEW k \in Nat, k \in P PROVE k + 1 \in P
  <2>1. PICK g : g = [i \in 1..k |-> Step(g, i)]
    BY <1>2
  <2> DEFINE h == [i \in 1..(k + 1) |-> IF i = k + 1 THEN Step(g, i) ELSE g[i]]
  <2>2. ASSUME NEW i \in 1..(k + 1) PROVE h[i] = Step(h, i)
    <3>1. i # 1 => i - 1 \in 1..k /\ i - 1 # k + 1 /\ i - 1 \in 1..(k + 1)
      OBVIOUS
    <3>2. i # 1 => h[i - 1] = g[i - 1]
      BY <3>1
    <3>3. Step(h, i) = Step(g, i)
      BY <3>2
    <3>4. h[i] = Step(g, i)
      <4>1. CASE i = k + 1
        BY <4>1
      <4>2. CASE i # k + 1
        <5>1. i \in 1..k
          BY <4>2
        <5> QED BY <2>1, <4>2, <5>1
      <4> QED BY <4>1, <4>2
    <3> QED BY <3>3, <3>4
  <2>3. h = [i \in 1..(k + 1) |-> Step(h, i)]
    BY <2>2
  <2>4. Has(k + 1)
    <3> HIDE DEF h
    <3> QED BY <2>3
  <2> HIDE DEF Has
  <2> QED BY <2>4
<1>3. \A k \in Nat : k \in P
  <2>1. \A k \in Nat : k \in P => k + 1 \in P
    BY <1>2
  <2> HIDE DEF P
  <2> QED BY <1>1, <2>1, CountingUp
<1>4. \E g : g = [i \in 1..n |-> IF i = 1 THEN q[i] ELSE g[i - 1] \o q[i]]
  <2>1. n \in P
    BY <1>0, <1>3
  <2> QED BY <2>1
<1>5. LET f[i \in 1..Len(q)] == IF i = 1 THEN q[i] ELSE f[i - 1] \o q[i]
      IN  f = [i \in 1..Len(q) |-> IF i = 1 THEN q[i] ELSE f[i - 1] \o q[i]]
  BY <1>4
<1>6. FlattenSeq(q) = LET f[i \in 1..Len(q)] == IF i = 1 THEN q[i] ELSE f[i - 1] \o q[i] IN f[Len(q)]
  BY <1>0 DEF FlattenSeq
<1>7. PICK f : /\ f = [i \in 1..n |-> IF i = 1 THEN q[i] ELSE f[i - 1] \o q[i]]
               /\ FlattenSeq(q) = f[n]
  BY <1>5, <1>6
<1>8. f[1] = q[1]
  BY <1>0, <1>7
<1>9. ASSUME NEW k \in 1..(n - 1) PROVE f[k + 1] = f[k] \o q[k + 1]
  <2>1. k + 1 \in 1..n /\ k + 1 # 1 /\ (k + 1) - 1 = k
    BY <1>0
  <2> QED BY <1>7, <2>1
<1> QED BY <1>7, <1>8, <1>9

\* The entries of a rotation, and the time a list of them takes.
Entries == Shifts \cup {NoShift}
LengthsOf(s) == [i \in DOMAIN s |-> s[i].length]
TimeIn(s) == SumOver(LengthsOf(s), 1..Len(s))
Segment(g) == [i \in 1..g.on |-> g.shift] \o [i \in 1..g.off |-> NoShift]
Segments == [shift : Entries, on : Nat \ {0}, off : Nat]

\* Lengths are numbers.
LEMMA EntryLengths ==
    ASSUME NEW s \in Seq(Entries)
    PROVE  /\ Len(s) \in Nat /\ DOMAIN s = 1..Len(s)
           /\ \A i \in 1..Len(s) : s[i] \in Entries /\ LengthsOf(s)[i] = s[i].length /\ s[i].length \in Nat
           /\ TimeIn(s) \in Int
<1>1. Len(s) \in Nat /\ DOMAIN s = 1..Len(s) /\ \A i \in 1..Len(s) : s[i] \in Entries
  OBVIOUS
<1>2. \A e \in Entries : e.length \in Nat
  BY WorkTimeAssumption DEF Entries, Shifts, NoShift
<1>3. \A i \in 1..Len(s) : LengthsOf(s)[i] = s[i].length /\ s[i].length \in Nat
  BY <1>1, <1>2 DEF LengthsOf
<1>4. \A i \in 1..Len(s) : LengthsOf(s)[i] \in Int
  BY <1>3
<1>5. TimeIn(s) \in Int
  <2>1. Len(s) \in Int
    BY <1>1
  <2> QED BY <1>4, <2>1, SumOfInterval DEF TimeIn
<1> QED BY <1>1, <1>3, <1>5

\* The time of two lists, one after the other.
LEMMA TimeJoined ==
    ASSUME NEW s \in Seq(Entries), NEW u \in Seq(Entries)
    PROVE  /\ s \o u \in Seq(Entries) /\ Len(s \o u) = Len(s) + Len(u)
           /\ TimeIn(s \o u) = TimeIn(s) + TimeIn(u)
<1> DEFINE w == s \o u
           m == Len(s)
           n == Len(u)
<1>1. w \in Seq(Entries) /\ Len(w) = m + n /\ m \in Nat /\ n \in Nat
  OBVIOUS
<1>2. (\A i \in 1..m : w[i] = s[i]) /\ (\A i \in 1..n : w[m + i] = u[i])
  OBVIOUS
<1> HIDE DEF w
<1>3. /\ \A i \in 1..(m + n) : LengthsOf(w)[i] = w[i].length /\ w[i].length \in Int
      /\ \A i \in 1..m : LengthsOf(s)[i] = s[i].length /\ s[i].length \in Int
      /\ \A i \in 1..n : LengthsOf(u)[i] = u[i].length /\ u[i].length \in Int
  BY <1>1, EntryLengths
<1> DEFINE a == LengthsOf(w)
           b == LengthsOf(s)
           c == LengthsOf(u)
<1>4. /\ \A i \in 1..(m + n) : a[i] \in Int
      /\ \A i \in 1..m : a[i] = b[i]
      /\ \A i \in 1..n : c[i] \in Int /\ a[m + i] = c[i]
  <2>1. \A i \in 1..m : i \in 1..(m + n)
    BY <1>1
  <2>2. \A i \in 1..n : m + i \in 1..(m + n)
    BY <1>1
  <2> QED BY <1>2, <1>3, <2>1, <2>2
<1>5. TimeIn(w) = SumOver(a, 1..(m + n)) /\ TimeIn(s) = SumOver(b, 1..m) /\ TimeIn(u) = SumOver(c, 1..n)
  BY <1>1 DEF TimeIn
<1> HIDE DEF a, b, c, m, n
<1> DEFINE p == m + 1
           e == m + n
<1>p. m \in Int /\ p \in Int /\ e \in Int /\ p = m + 1 /\ e = m + n /\ e = p + n - 1 /\ 1 <= p /\ m <= e /\ n \in Nat
  BY <1>1
<1>q. /\ \A i \in 1..e : a[i] \in Int
      /\ \A i \in 1..n : c[i] \in Int
      /\ \A i \in 1..n : \A j \in p..e : i + p = j + 1 => a[j] = c[i]
  <2>1. ASSUME NEW i \in 1..n, NEW j \in p..e, i + p = j + 1 PROVE a[j] = c[i]
    <3>1. m + i = j
      BY <1>p, <2>1
    <3>2. a[m + i] = c[i]
      BY <1>4
    <3> QED BY <3>1, <3>2
  <2> QED BY <1>4, <2>1
<1> HIDE DEF p, e
<1>6. SumOver(a, 1..e) = SumOver(a, 1..m) + SumOver(a, p..e)
  BY <1>p, <1>q, SumInParts
<1>7. SumOver(a, p..e) = SumOver(c, 1..n)
  <2>1. p \in Int /\ n \in Int /\ 0 <= n /\ e \in Int /\ e + 1 = p + n
    BY <1>p
  <2> QED BY <1>q, <2>1, SumMoved
<1>8. SumOver(a, 1..m) = SumOver(b, 1..m)
  <2>1. IsFiniteSet(1..m)
    BY <1>1, FS_Interval
  <2> QED BY <1>4, <2>1, SumsSame
<1> QED BY <1>1, <1>5, <1>6, <1>7, <1>8, <1>p DEF w, m, n

\* The time of the same entry over and over.
LEMMA TimeOfEqual ==
    ASSUME NEW x \in Entries, NEW n \in Nat
    PROVE  /\ [i \in 1..n |-> x] \in Seq(Entries) /\ Len([i \in 1..n |-> x]) = n
           /\ TimeIn([i \in 1..n |-> x]) = n * x.length
<1> DEFINE s == [i \in 1..n |-> x]
<1>1. s \in Seq(Entries) /\ Len(s) = n /\ \A i \in 1..n : s[i] = x
  OBVIOUS
<1> HIDE DEF s
<1>2. x.length \in Int
  BY WorkTimeAssumption DEF Entries, Shifts, NoShift
<1>3. \A i \in 1..n : LengthsOf(s)[i] = x.length
  BY <1>1, EntryLengths
<1>4. TimeIn(s) = n * x.length
  BY <1>1, <1>2, <1>3, SumOfEqual DEF TimeIn
<1> QED BY <1>1, <1>4 DEF s

\* A segment of a rotation: its days on and its days off.
LEMMA SegmentIs ==
    ASSUME NEW g \in Segments
    PROVE  /\ Segment(g) \in Seq(Entries) /\ Len(Segment(g)) = g.on + g.off
           /\ TimeIn(Segment(g)) = g.on * g.shift.length
<1> DEFINE s == [i \in 1..g.on |-> g.shift]
           u == [i \in 1..g.off |-> NoShift]
<1>1. g.shift \in Entries /\ NoShift \in Entries /\ g.on \in Nat /\ g.off \in Nat /\ NoShift.length = 0
  BY DEF Segments, Entries, NoShift
<1>2. s \in Seq(Entries) /\ Len(s) = g.on /\ TimeIn(s) = g.on * g.shift.length
  BY <1>1, TimeOfEqual
<1>3. u \in Seq(Entries) /\ Len(u) = g.off /\ TimeIn(u) = g.off * 0
  BY <1>1, TimeOfEqual
<1>4. Segment(g) = s \o u
  BY DEF Segment
<1> HIDE DEF s, u
<1>5. s \o u \in Seq(Entries) /\ Len(s \o u) = g.on + g.off /\ TimeIn(s \o u) = TimeIn(s) + TimeIn(u)
  BY <1>2, <1>3, TimeJoined
<1>6. TimeIn(s) \in Int
  BY <1>2, EntryLengths
<1> QED BY <1>1, <1>2, <1>3, <1>4, <1>5, <1>6

\* A rotation has an entry for every one of its days, and the time of its shifts is that of
\* its entries.
LEMMA RotationIs ==
    ASSUME NEW R \in Seq(Segments)
    PROVE  /\ Periods(R) \in Seq(Entries) /\ Len(Periods(R)) = DayCount(R)
           /\ TimeIn(Periods(R)) = RotationTime(R)
           /\ R # <<>> => Len(Periods(R)) > 0
           /\ R = <<>> => Periods(R) = <<>>
<1> DEFINE n == Len(R)
           q == [k \in DOMAIN R |-> Segment(R[k])]
           days == [k \in DOMAIN R |-> R[k].on + R[k].off]
           time == [k \in DOMAIN R |-> R[k].on * R[k].shift.length]
<1>0. n \in Nat /\ DOMAIN R = 1..n /\ \A k \in 1..n : R[k] \in Segments
  OBVIOUS
<1>1. DayCount(R) = SumOver(days, 1..n) /\ RotationTime(R) = SumOver(time, 1..n)
  BY <1>0 DEF DayCount, RotationTime, SumOver
<1>2. Periods(R) = FlattenSeq(q)
  BY DEF Periods, Segment
<1>3. ASSUME NEW k \in 1..n
      PROVE  /\ q[k] \in Seq(Entries) /\ Len(q[k]) = days[k] /\ TimeIn(q[k]) = time[k]
             /\ days[k] \in Int /\ days[k] > 0 /\ time[k] \in Int
  <2>1. q[k] = Segment(R[k]) /\ days[k] = R[k].on + R[k].off /\ time[k] = R[k].on * R[k].shift.length
    BY <1>0
  <2>2. R[k] \in Segments
    BY <1>0
  <2>3. R[k].on \in Nat \ {0} /\ R[k].off \in Nat
    BY <2>2 DEF Segments
  <2>4. Segment(R[k]) \in Seq(Entries) /\ Len(Segment(R[k])) = R[k].on + R[k].off
        /\ TimeIn(Segment(R[k])) = R[k].on * R[k].shift.length
    BY <2>2, SegmentIs
  <2>5. TimeIn(Segment(R[k])) \in Int
    BY <2>4, EntryLengths
  <2>6. R[k].on + R[k].off \in Int /\ R[k].on + R[k].off > 0
    BY <2>3
  <2>7. time[k] \in Int
    BY <2>1, <2>4, <2>5
  <2> HIDE DEF q, days, time
  <2> QED BY <2>1, <2>4, <2>6, <2>7
<1>4. q \in Seq(Seq(Entries)) /\ Len(q) = n
  <2>1. q \in [1..n -> Seq(Entries)]
    BY <1>0, <1>3
  <2> HIDE DEF q
  <2> QED BY <1>0, <2>1
<1>5. CASE R = <<>>
  <2>1. n = 0 /\ q = <<>> /\ Len(q) = 0
    BY <1>0, <1>4, <1>5
  <2>2. Periods(R) = <<>>
    <3> HIDE DEF q
    <3> QED BY <1>2, <2>1 DEF FlattenSeq
  <2>3. SumOver(days, 1..n) = 0 /\ SumOver(time, 1..n) = 0
    <3>1. 1 \in Int /\ 0 \in Int /\ 0 < 1 /\ (\A i \in 1..0 : days[i] \in Int) /\ \A i \in 1..0 : time[i] \in Int
      OBVIOUS
    <3> HIDE DEF days, time
    <3>2. SumOver(days, 1..0) = 0 /\ SumOver(time, 1..0) = 0
      BY <3>1, SumOfInterval
    <3> QED BY <2>1, <3>2
  <2>4. TimeIn(<<>>) = 0
    <3>1. <<>> \in Seq(Entries) /\ Len(<<>>) = 0
      OBVIOUS
    <3>2. \A i \in 1..0 : LengthsOf(<<>>)[i] \in Int
      OBVIOUS
    <3>3. SumOver(LengthsOf(<<>>), 1..0) = 0
      BY <3>2, SumOfInterval
    <3> QED BY <3>1, <3>3 DEF TimeIn
  <2>5. DayCount(R) = 0 /\ RotationTime(R) = 0
    <3> HIDE DEF days, time
    <3> QED BY <1>1, <2>3
  <2>6. <<>> \in Seq(Entries) /\ Len(<<>>) = 0
    OBVIOUS
  <2> QED BY <1>5, <2>2, <2>4, <2>5, <2>6
<1>6. CASE R # <<>>
  <2>0. n > 0 /\ q # <<>>
    <3>1. n > 0
      BY <1>0, <1>6
    <3> HIDE DEF q
    <3> QED BY <1>4, <3>1
  <2>1. PICK f : /\ f[1] = q[1] /\ FlattenSeq(q) = f[n]
                 /\ \A k \in 1..(n - 1) : f[k + 1] = f[k] \o q[k + 1]
    <3> HIDE DEF q
    <3> QED BY <1>4, <2>0, Flattened
  <2> HIDE DEF q, days, time
  <2> DEFINE Good(k) == /\ f[k] \in Seq(Entries) /\ Len(f[k]) = SumOver(days, 1..k)
                        /\ Len(f[k]) > 0 /\ TimeIn(f[k]) = SumOver(time, 1..k)
             P == {k \in Nat : k < n => Good(k + 1)}
  <2>2. ASSUME NEW k \in Nat, k < n
        PROVE  /\ k + 1 \in 1..n
               /\ SumOver(days, 1..(k + 1)) = SumOver(days, 1..k) + days[k + 1]
               /\ SumOver(time, 1..(k + 1)) = SumOver(time, 1..k) + time[k + 1]
               /\ SumOver(days, 1..0) = 0 /\ SumOver(time, 1..0) = 0
    <3> DEFINE m == k + 1
    <3>1. m \in Int /\ m \in 1..n /\ 1 <= m /\ m - 1 = k
      BY <1>0, <2>2
    <3>2. (\A i \in 1..m : days[i] \in Int) /\ (\A i \in 1..m : time[i] \in Int)
      <4>1. \A i \in 1..m : i \in 1..n
        BY <3>1, <1>0
      <4> QED BY <1>3, <4>1
    <3>3. (\A i \in 1..0 : days[i] \in Int) /\ (\A i \in 1..0 : time[i] \in Int)
      OBVIOUS
    <3> HIDE DEF m
    <3>4. SumOver(days, 1..m) = SumOver(days, 1..(m - 1)) + days[m]
      BY <3>1, <3>2, SumOfInterval
    <3>5. SumOver(time, 1..m) = SumOver(time, 1..(m - 1)) + time[m]
      BY <3>1, <3>2, SumOfInterval
    <3>6. SumOver(days, 1..0) = 0 /\ SumOver(time, 1..0) = 0
      BY <3>3, SumOfInterval
    <3> QED BY <3>1, <3>4, <3>5, <3>6 DEF m
  <2>3. Good(1)
    <3>1. 0 \in Nat /\ 0 < n /\ 0 + 1 = 1 /\ 1 \in 1..n
      BY <2>0, <1>0
    <3>2. SumOver(days, 1..1) = SumOver(days, 1..0) + days[1] /\ SumOver(time, 1..1) = SumOver(time, 1..0) + time[1]
          /\ SumOver(days, 1..0) = 0 /\ SumOver(time, 1..0) = 0
      BY <2>2, <3>1
    <3>3. q[1] \in Seq(Entries) /\ Len(q[1]) = days[1] /\ TimeIn(q[1]) = time[1]
          /\ days[1] \in Int /\ days[1] > 0 /\ time[1] \in Int
      BY <1>3, <3>1
    <3> QED BY <2>1, <3>2, <3>3
  <2>4. ASSUME NEW k \in Nat, k + 1 < n, Good(k + 1) PROVE Good((k + 1) + 1)
    <3> DEFINE m == k + 1
    <3>1. m \in Nat /\ m < n /\ m \in 1..(n - 1) /\ m + 1 \in 1..n
      BY <2>4, <1>0
    <3> HIDE DEF m
    <3>2. f[m + 1] = f[m] \o q[m + 1]
      BY <2>1, <3>1
    <3>3. q[m + 1] \in Seq(Entries) /\ Len(q[m + 1]) = days[m + 1] /\ TimeIn(q[m + 1]) = time[m + 1]
          /\ days[m + 1] \in Int /\ days[m + 1] > 0 /\ time[m + 1] \in Int
      BY <1>3, <3>1
    <3>4. SumOver(days, 1..(m + 1)) = SumOver(days, 1..m) + days[m + 1]
          /\ SumOver(time, 1..(m + 1)) = SumOver(time, 1..m) + time[m + 1]
      BY <2>2, <3>1
    <3>5. Good(m)
      BY <2>4 DEF m
    <3>6. f[m + 1] \in Seq(Entries) /\ Len(f[m + 1]) = Len(f[m]) + Len(q[m + 1])
          /\ TimeIn(f[m + 1]) = TimeIn(f[m]) + TimeIn(q[m + 1])
      BY <3>2, <3>3, <3>5, TimeJoined
    <3>7. Len(f[m]) \in Nat
      BY <3>5
    <3>8. Good(m + 1)
      BY <3>3, <3>4, <3>5, <3>6, <3>7
    <3> QED BY <3>8 DEF m
  <2>5. \A k \in Nat : k \in P
    <3> HIDE DEF Good
    <3>1. 0 \in P
      BY <2>3
    <3>2. ASSUME NEW k \in Nat, k \in P PROVE k + 1 \in P
      <4>1. k + 1 < n => Good(k + 1)
        BY <1>0, <3>2
      <4>2. k + 1 < n => Good((k + 1) + 1)
        BY <2>4, <4>1
      <4> QED BY <4>2
    <3>3. \A k \in Nat : k \in P => k + 1 \in P
      BY <3>2
    <3> HIDE DEF P
    <3> QED BY <3>1, <3>3, CountingUp
  <2>6. Good(n)
    <3>1. n - 1 \in Nat /\ n - 1 < n /\ (n - 1) + 1 = n
      BY <1>0, <2>0
    <3>2. n - 1 \in P
      BY <2>5, <3>1
    <3> HIDE DEF Good
    <3> QED BY <3>1, <3>2
  <2> QED BY <1>1, <1>2, <1>6, <2>1, <2>6
<1> QED BY <1>5, <1>6

-----------------------------------------------------------------------------
\* How many ticks there are from one to another, and the shift of a day in the window.
Span(a, b) == IF a < b THEN b - a ELSE 0
Least(a, b) == IF a < b THEN a ELSE b
Greatest(a, b) == IF a < b THEN b ELSE a
BeginOf(day) == day * DayLength + ShiftOf(day).start
EndOf(day) == BeginOf(day) + ShiftOf(day).length
InWindow == [day \in Int |-> Span(Greatest(BeginOf(day), plan.from), Least(EndOf(day), plan.to))]

\* What a plan is, as the walk keeps it.
PlanOK ==
    /\ plan.rotation \in Seq(Segments)
    /\ plan.from \in Nat /\ plan.to \in Nat /\ plan.from < plan.to

\* Whatever the day, it has an entry of the rotation or none.
LEMMA ShiftOfType == ASSUME PlanOK, NEW day \in Int PROVE ShiftOf(day) \in Entries
<1> DEFINE R == plan.rotation
           n == DayCount(R)
<1>1. CASE R = <<>> \/ day < RotationStart \/ OnHoliday(day)
  <2>1. ShiftOf(day) = NoShift
    BY <1>1 DEF ShiftOf
  <2> QED BY <2>1 DEF Entries
<1>2. CASE ~(R = <<>> \/ day < RotationStart \/ OnHoliday(day))
  <2>1. R \in Seq(Segments)
    BY DEF PlanOK
  <2>2. Periods(R) \in Seq(Entries) /\ Len(Periods(R)) = n /\ n > 0 /\ n \in Int
    <3>1. Periods(R) \in Seq(Entries) /\ Len(Periods(R)) = n /\ Len(Periods(R)) > 0
      BY <1>2, <2>1, RotationIs
    <3>2. Len(Periods(R)) \in Nat
      BY <3>1
    <3> QED BY <3>1, <3>2
  <2>3. day - RotationStart \in Int
    BY WorkTimeAssumption
  <2> HIDE DEF R, n
  <2>4. ((day - RotationStart) % n) \in 0..(n - 1)
    BY <2>2, <2>3, Division
  <2>5. DayInRotation(R, day) \in 1..n
    BY <2>2, <2>4 DEF DayInRotation, n
  <2>6. Periods(R)[DayInRotation(R, day)] \in Entries
    BY <2>2, <2>5
  <2> QED BY <1>2, <2>6 DEF ShiftOf, R
<1> QED BY <1>1, <1>2

\* Numbers that go with a day.
LEMMA DayTypes ==
    ASSUME PlanOK, NEW day \in Int
    PROVE  /\ DayLength \in Int /\ DayLength > 0 /\ day * DayLength \in Int
           /\ ShiftOf(day) \in Entries
           /\ ShiftOf(day).start \in 0..(DayLength - 1) /\ ShiftOf(day).length \in 0..DayLength
           /\ BeginOf(day) \in Int /\ EndOf(day) \in Int
           /\ BeginOf(day) = day * DayLength + ShiftOf(day).start
           /\ EndOf(day) = BeginOf(day) + ShiftOf(day).length
           /\ InWindow[day] = Span(Greatest(BeginOf(day), plan.from), Least(EndOf(day), plan.to))
           /\ InWindow[day] \in Nat
<1>1. DayLength \in Int /\ DayLength > 0
  BY WorkTimeAssumption
<1>2. day * DayLength \in Int
  BY <1>1
<1>3. ShiftOf(day) \in Entries
  BY ShiftOfType
<1>4. ShiftOf(day).start \in 0..(DayLength - 1) /\ ShiftOf(day).length \in 0..DayLength
  BY <1>3, ShiftEnds DEF Entries
<1>5. BeginOf(day) \in Int /\ EndOf(day) \in Int
  BY <1>1, <1>2, <1>4 DEF BeginOf, EndOf
<1>6. InWindow[day] = Span(Greatest(BeginOf(day), plan.from), Least(EndOf(day), plan.to))
  BY DEF InWindow
<1>7. plan.from \in Int /\ plan.to \in Int
  BY DEF PlanOK
<1>8. InWindow[day] \in Nat
  <2> DEFINE b == BeginOf(day)
             e == EndOf(day)
  <2>1. b \in Int /\ e \in Int
    BY <1>5
  <2> HIDE DEF b, e
  <2>2. Span(Greatest(b, plan.from), Least(e, plan.to)) \in Nat
    BY <1>7, <2>1 DEF Span, Greatest, Least
  <2> QED BY <1>6, <2>2 DEF b, e
<1> QED BY <1>1, <1>2, <1>3, <1>4, <1>5, <1>6, <1>8 DEF BeginOf, EndOf

\* The ticks of one day: as many as its shift has in the window.
LEMMA TicksOfDay ==
    ASSUME PlanOK, NEW day \in Int
    PROVE  IsFiniteSet(Ticks({day})) /\ Cardinality(Ticks({day})) = InWindow[day]
<1> DEFINE b == BeginOf(day)
           e == EndOf(day)
           lo == Greatest(b, plan.from)
           hi == Least(e, plan.to) - 1
           f == [u \in lo..hi |-> <<day, u>>]
<1>1. b \in Int /\ e \in Int /\ plan.from \in Int /\ plan.to \in Int
  <2>1. b \in Int /\ e \in Int
    BY DayTypes
  <2> HIDE DEF b, e
  <2> QED BY <2>1 DEF PlanOK
<1>2. \A x : x \in Ticks({day}) <=> \E u \in plan.from..(plan.to - 1) : x = <<day, u>> /\ b <= u /\ u < e
  BY DEF Ticks, BeginOf, EndOf
<1> HIDE DEF b, e
<1>3. \A u \in Int : u \in lo..hi <=> u \in plan.from..(plan.to - 1) /\ b <= u /\ u < e
  BY <1>1 DEF Greatest, Least
<1>4. lo \in Int /\ hi \in Int
  BY <1>1 DEF Greatest, Least
<1> HIDE DEF lo, hi
<1>5. f \in Bijection(lo..hi, Ticks({day}))
  <2>1. f \in [lo..hi -> Ticks({day})]
    <3>1. ASSUME NEW u \in lo..hi PROVE f[u] \in Ticks({day})
      <4>1. f[u] = <<day, u>> /\ u \in Int
        BY <1>4
      <4>2. u \in plan.from..(plan.to - 1) /\ b <= u /\ u < e
        BY <1>3, <4>1
      <4> QED BY <1>2, <4>1, <4>2
    <3> QED BY <3>1
  <2>2. ASSUME NEW x \in Ticks({day}) PROVE \E u \in lo..hi : f[u] = x
    <3>1. PICK u \in plan.from..(plan.to - 1) : x = <<day, u>> /\ b <= u /\ u < e
      BY <1>2
    <3>2. u \in lo..hi
      BY <1>1, <1>3, <3>1
    <3> QED BY <3>1, <3>2
  <2>3. ASSUME NEW u \in lo..hi, NEW v \in lo..hi, f[u] = f[v] PROVE u = v
    BY <2>3
  <2> HIDE DEF f
  <2> QED BY <2>1, <2>2, <2>3 DEF Bijection, Injection, Surjection, IsInjective
<1>6. ExistsBijection(lo..hi, Ticks({day}))
  BY <1>5 DEF ExistsBijection
<1>7. IsFiniteSet(lo..hi) /\ Cardinality(lo..hi) = IF lo > hi THEN 0 ELSE hi - lo + 1
  BY <1>4, FS_Interval
<1>8. IsFiniteSet(Ticks({day})) /\ Cardinality(Ticks({day})) = Cardinality(lo..hi)
  BY <1>6, <1>7, FS_Bijection
<1>9. InWindow[day] = Span(lo, hi + 1)
  <2>1. Least(e, plan.to) \in Int
    BY <1>1 DEF Least
  <2>2. hi + 1 = Least(e, plan.to)
    BY <2>1 DEF hi
  <2> QED BY <2>2, DayTypes DEF lo, b, e
<1>10. Span(lo, hi + 1) = IF lo > hi THEN 0 ELSE hi - lo + 1
  BY <1>4 DEF Span
<1> QED BY <1>7, <1>8, <1>9, <1>10

\* The ticks of an interval of days: the sum.
LEMMA TicksOfDays ==
    ASSUME PlanOK, NEW a \in Int, NEW z \in Int, a <= z + 1
    PROVE  Cardinality(Ticks(a..z)) = SumOver(InWindow, a..z)
<1> DEFINE Good(i) == IsFiniteSet(Ticks(a..i)) /\ Cardinality(Ticks(a..i)) = SumOver(InWindow, a..i)
           P == {k \in Nat : Good(a + k - 1)}
<1>0. \A i \in Int : InWindow[i] \in Int
  BY DayTypes
<1>1. Good(a + 0 - 1)
  <2> DEFINE i == a - 1
  <2>1. i \in Int /\ i < a /\ a + 0 - 1 = i /\ (\A j \in a..i : InWindow[j] \in Int) /\ a..i = {}
    OBVIOUS
  <2>2. Ticks({}) = {}
    BY DEF Ticks
  <2> HIDE DEF i
  <2>3. SumOver(InWindow, a..i) = 0
    BY <2>1, SumOfInterval
  <2>4. Ticks(a..i) = {}
    BY <2>1, <2>2
  <2> QED BY <2>1, <2>3, <2>4, FS_EmptySet
<1>2. ASSUME NEW k \in Nat, Good(a + k - 1) PROVE Good(a + (k + 1) - 1)
  <2> DEFINE i == a + k
             S == Ticks(a..(i - 1))
             T == Ticks({i})
  <2>1. i \in Int /\ a <= i /\ a + k - 1 = i - 1 /\ a + (k + 1) - 1 = i
    OBVIOUS
  <2> HIDE DEF i
  <2>2. \A j \in a..i : InWindow[j] \in Int
    BY <1>0
  <2>3. SumOver(InWindow, a..i) = SumOver(InWindow, a..(i - 1)) + InWindow[i]
    BY <2>1, <2>2, SumOfInterval
  <2>4. Ticks(a..i) = S \cup T
    <3>1. a..i = (a..(i - 1)) \cup {i}
      BY <2>1
    <3>2. \A A, B : Ticks(A \cup B) = Ticks(A) \cup Ticks(B)
      BY DEF Ticks
    <3> QED BY <3>1, <3>2
  <2>5. S \cap T = {}
    <3>1. i \notin a..(i - 1)
      BY <2>1
    <3> QED BY <3>1 DEF Ticks
  <2>6. IsFiniteSet(S) /\ Cardinality(S) = SumOver(InWindow, a..(i - 1))
    BY <1>2, <2>1
  <2>7. IsFiniteSet(T) /\ Cardinality(T) = InWindow[i]
    BY <2>1, TicksOfDay
  <2> HIDE DEF S, T
  <2>8. IsFiniteSet(S \cup T) /\ Cardinality(S \cup T) = Cardinality(S) + Cardinality(T)
    <3>1. IsFiniteSet(S \cup T) /\ Cardinality(S \cup T) = Cardinality(S) + Cardinality(T) - Cardinality(S \cap T)
      BY <2>6, <2>7, FS_Union
    <3>2. Cardinality(S \cap T) = 0
      BY <2>5, FS_EmptySet
    <3>3. Cardinality(S) \in Nat /\ Cardinality(T) \in Nat
      BY <2>6, <2>7, FS_CardinalityType
    <3> QED BY <3>1, <3>2, <3>3
  <2> QED BY <2>1, <2>3, <2>4, <2>6, <2>7, <2>8
<1>3. \A k \in Nat : k \in P
  <2> HIDE DEF Good
  <2>1. 0 \in P /\ \A k \in Nat : k \in P => k + 1 \in P
    BY <1>1, <1>2
  <2> HIDE DEF P
  <2> QED BY <2>1, CountingUp
<1>4. z + 1 - a \in Nat /\ a + (z + 1 - a) - 1 = z
  OBVIOUS
<1>5. Good(z)
  <2> HIDE DEF Good
  <2> QED BY <1>3, <1>4
<1> QED BY <1>5

-----------------------------------------------------------------------------
\* Where the window begins and ends.
LEMMA WindowIs ==
    ASSUME PlanOK
    PROVE  LET from == DayOf(plan.from)  to == DayOf(plan.to) IN
           /\ DayLength \in Int /\ DayLength > 0 /\ plan.from \in Int /\ plan.to \in Int
           /\ from \in Int /\ to \in Int /\ from * DayLength \in Int /\ to * DayLength \in Int
           /\ TimeOf(plan.from) \in 0..(DayLength - 1) /\ TimeOf(plan.to) \in 0..(DayLength - 1)
           /\ plan.from = from * DayLength + TimeOf(plan.from)
           /\ plan.to = to * DayLength + TimeOf(plan.to)
           /\ from < to \/ (from = to /\ TimeOf(plan.from) < TimeOf(plan.to))
<1> DEFINE from == DayOf(plan.from)
           to == DayOf(plan.to)
           n == DayLength
<1>1. n \in Int /\ n > 0 /\ plan.from \in Int /\ plan.to \in Int /\ plan.from < plan.to
  BY WorkTimeAssumption DEF PlanOK
<1>2. from \in Int /\ TimeOf(plan.from) \in 0..(n - 1) /\ plan.from = n * from + TimeOf(plan.from)
  BY <1>1, Division DEF DayOf, TimeOf
<1>3. to \in Int /\ TimeOf(plan.to) \in 0..(n - 1) /\ plan.to = n * to + TimeOf(plan.to)
  BY <1>1, Division DEF DayOf, TimeOf
<1> HIDE DEF from, to, n
<1>4. /\ n * from = from * n /\ n * to = to * n /\ from * n \in Int /\ to * n \in Int
  BY <1>1, <1>2, <1>3
<1>5. to < from => to * n + n <= from * n
  BY <1>1, <1>2, <1>3, DaysApart
<1>6. from < to \/ (from = to /\ TimeOf(plan.from) < TimeOf(plan.to))
  <2>1. ~(to < from)
    BY <1>1, <1>2, <1>3, <1>4, <1>5
  <2>2. CASE from = to
    BY <1>1, <1>2, <1>3, <1>4, <2>2
  <2> QED BY <1>2, <1>3, <2>1, <2>2
<1> QED BY <1>1, <1>2, <1>3, <1>4, <1>6 DEF from, to, n

\* What is left of a shift of a day from an instant on.
Left(s, day, from) == Span(from, Least(day * DayLength + s.start + s.length, plan.to))

\* The time of a shift between two times of its day.
LEMMA ShiftTimeIs ==
    ASSUME NEW s \in Shifts, NEW a \in 0..(DayLength - 1), NEW b \in a..DayLength
    PROVE  ShiftTime(s, a, b) = IF b = a /\ a = s.start /\ s.length = DayLength THEN DayLength
                                ELSE Span(Greatest(s.start, a), Least(s.start + s.length, b))
<1> DEFINE n == DayLength
<1>1. n \in Int /\ n > 0
  BY WorkTimeAssumption
<1>2. /\ s.start \in 0..(n - 1) /\ s.length \in 1..n
      /\ EndTime(s) = IF s.start + s.length < n THEN s.start + s.length ELSE s.start + s.length - n
      /\ SpansMidnight(s) <=> s.start + s.length >= n
  <2>1. s \in Shifts \cup {NoShift} /\ s.length \in 1..n
    BY DEF Shifts
  <2> QED BY <2>1, ShiftEnds
<1>3. a \in 0..(n - 1) /\ b \in a..n
  OBVIOUS
<1> DEFINE x == s.start
           l == s.length
           end == x + l
           whole == b = a /\ a = x /\ l = n
           until == IF end >= n /\ whole THEN a + n ELSE b
           Clip(t) == IF t < x THEN x ELSE IF t > end THEN end ELSE t
<1>4. ShiftTime(s, a, b) = Clip(until) - Clip(a)
  <2> HIDE DEF n
  <2>1. (IF SpansMidnight(s) THEN EndTime(s) + n ELSE EndTime(s)) = end
    BY <1>1, <1>2
  <2>2. a + (IF whole THEN n ELSE IF b < a THEN n + b - a ELSE b - a) = IF whole THEN a + n ELSE b
    BY <1>1, <1>3
  <2>3. (IF SpansMidnight(s) THEN a + (IF whole THEN n ELSE IF b < a THEN n + b - a ELSE b - a) ELSE b) = until
    BY <1>2, <2>2
  <2> DEFINE till == IF SpansMidnight(s) THEN a + (IF whole THEN n ELSE IF b < a THEN n + b - a ELSE b - a) ELSE b
             last == IF SpansMidnight(s) THEN EndTime(s) + n ELSE EndTime(s)
             C(t) == IF t < s.start THEN s.start ELSE IF t > last THEN last ELSE t
  <2>4. ShiftTime(s, a, b) = C(till) - C(a)
    BY DEF ShiftTime, n
  <2>5. till = until /\ last = end
    BY <2>1, <2>3
  <2> HIDE DEF till, last, until, end
  <2> QED BY <2>4, <2>5
<1>5. x \in 0..(n - 1) /\ l \in 1..n
  BY <1>2
<1> HIDE DEF x, l
<1>6. Clip(until) - Clip(a) = IF whole THEN n ELSE Span(Greatest(x, a), Least(x + l, b))
  <2> HIDE DEF n
  <2>1. CASE whole
    BY <1>1, <1>3, <1>5, <2>1
  <2>2. CASE ~whole
    <3>1. until = b
      BY <2>2
    <3> HIDE DEF until
    <3>2. Clip(b) - Clip(a) = Span(Greatest(x, a), Least(x + l, b))
      BY <1>1, <1>3, <1>5 DEF Span, Greatest, Least
    <3> QED BY <2>2, <3>1, <3>2
  <2> QED BY <2>1, <2>2
<1> QED BY <1>4, <1>6 DEF x, l

\* Where the walk is: on a day of the window, from its beginning on the first, else from
\* midnight.
AtDay ==
    /\ PlanOK
    /\ today \in Int /\ DayOf(plan.from) <= today /\ today <= DayOf(plan.to)
    /\ now = IF today = DayOf(plan.from) THEN TimeOf(plan.from) ELSE 0

\* The instant the walk is at: no day before begins later, and the window has begun.
LEMMA AtDayIs ==
    ASSUME AtDay
    PROVE  /\ now \in 0..(DayLength - 1) /\ today * DayLength \in Int
           /\ \/ plan.from = today * DayLength + now
              \/ plan.from < today * DayLength /\ now = 0
           /\ today < DayOf(plan.to) => today * DayLength + DayLength <= plan.to
           /\ today = DayOf(plan.to) => plan.to = today * DayLength + TimeOf(plan.to) /\ now <= TimeOf(plan.to)
<1> DEFINE n == DayLength
           from == DayOf(plan.from)
           to == DayOf(plan.to)
<1>1. PlanOK /\ today \in Int /\ from <= today /\ today <= to
      /\ now = IF today = from THEN TimeOf(plan.from) ELSE 0
  BY DEF AtDay
<1>2. /\ n \in Int /\ n > 0 /\ plan.from \in Int /\ plan.to \in Int
      /\ from \in Int /\ to \in Int /\ from * n \in Int /\ to * n \in Int
      /\ TimeOf(plan.from) \in 0..(n - 1) /\ TimeOf(plan.to) \in 0..(n - 1)
      /\ plan.from = from * n + TimeOf(plan.from) /\ plan.to = to * n + TimeOf(plan.to)
      /\ from < to \/ (from = to /\ TimeOf(plan.from) < TimeOf(plan.to))
  BY <1>1, WindowIs
<1> HIDE DEF n, from, to
<1>3. /\ today * n \in Int
      /\ from < today => from * n + n <= today * n
      /\ today < to => today * n + n <= to * n
  BY <1>1, <1>2, DaysApart
<1>4. now \in 0..(n - 1)
  BY <1>1, <1>2
<1>5. plan.from = today * n + now \/ (plan.from < today * n /\ now = 0)
  <2>1. CASE today = from
    BY <1>1, <1>2, <2>1
  <2>2. CASE today # from
    BY <1>1, <1>2, <1>3, <2>2
  <2> QED BY <2>1, <2>2
<1>6. today < to => today * n + n <= plan.to
  BY <1>2, <1>3
<1>7. today = to => plan.to = today * n + TimeOf(plan.to) /\ now <= TimeOf(plan.to)
  BY <1>1, <1>2
<1> QED BY <1>3, <1>4, <1>5, <1>6, <1>7 DEF n, from, to

\* What the walk adds for a shift of the day before is what is left of it, and on the last
\* day what follows the end of the window.
LEMMA RemainderOfDay ==
    ASSUME AtDay, lastShift \in Entries,
           today = DayOf(plan.to) => lastShift = ShiftOf(today - 1)
    PROVE  Remainder = Left(lastShift, today - 1, today * DayLength + now)
                           + (IF today = DayOf(plan.to) THEN Uncut ELSE 0)
<1> DEFINE n == DayLength
           to == DayOf(plan.to)
           s == lastShift
           day == today * n
           tt == TimeOf(plan.to)
           after == s.start + s.length - n
<1>1. n \in Int /\ n > 0 /\ plan.to \in Int /\ to \in Int /\ tt \in 0..(n - 1) /\ today \in Int /\ today <= to
  BY WindowIs DEF AtDay
<1>2. /\ now \in 0..(n - 1) /\ day \in Int /\ (today - 1) * n = day - n
      /\ today < to => day + n <= plan.to
      /\ today = to => plan.to = day + tt /\ now <= tt
  BY <1>1, AtDayIs, DaysApart
<1>3. /\ s.start \in 0..(n - 1) /\ s.length \in 0..n
      /\ EndTime(s) = IF s.start + s.length < n THEN s.start + s.length ELSE after
      /\ SpansMidnight(s) <=> s.start + s.length >= n
  BY ShiftEnds DEF Entries
<1>4. Left(s, today - 1, day + now) = Span(day + now, Least(day - n + s.start + s.length, plan.to))
  BY <1>2 DEF Left
<1>5. Remainder = IF SpansMidnight(s) /\ (today < to \/ tt # 0) /\ EndTime(s) > now THEN EndTime(s) - now ELSE 0
  BY DEF Remainder
<1>6. today = to => Uncut = IF SpansMidnight(s) /\ tt > 0 /\ EndTime(s) > tt THEN EndTime(s) - tt ELSE 0
  BY DEF Uncut
<1>7. after \in Int /\ after < n /\ day - n + s.start + s.length = day + after /\ (s.start + s.length >= n <=> after >= 0)
  BY <1>1, <1>2, <1>3
<1> HIDE DEF n, to, day, tt, after
<1>8. Remainder = IF after > now /\ (today < to \/ tt # 0) THEN after - now ELSE 0
  BY <1>1, <1>2, <1>3, <1>5, <1>7
<1>9. CASE today < to
  <2>1. Span(day + now, Least(day + after, plan.to)) = IF after > now THEN after - now ELSE 0
    BY <1>1, <1>2, <1>7, <1>9 DEF Span, Least
  <2> QED BY <1>1, <1>4, <1>7, <1>8, <1>9, <2>1 DEF n, to, day
<1>10. CASE today = to
  <2>1. Uncut = IF tt > 0 /\ after > tt THEN after - tt ELSE 0
    BY <1>1, <1>3, <1>6, <1>7, <1>10
  <2>2. Span(day + now, Least(day + after, plan.to)) + (IF tt > 0 /\ after > tt THEN after - tt ELSE 0)
            = IF after > now /\ tt # 0 THEN after - now ELSE 0
    BY <1>1, <1>2, <1>7, <1>10 DEF Span, Least
  <2> QED BY <1>1, <1>4, <1>7, <1>8, <1>10, <2>1, <2>2 DEF n, to, day
<1> QED BY <1>1, <1>9, <1>10

\* What the walk adds for the shift of a day is what it has in the window, without what is
\* left of it after midnight, and on the last day the whole of one that begins at its end.
LEMMA TodayIs ==
    ASSUME AtDay
    PROVE  Today = IF today < DayOf(plan.to)
                   THEN InWindow[today] - Left(ShiftOf(today), today, today * DayLength + DayLength)
                   ELSE InWindow[today] + WholeDay
<1> DEFINE n == DayLength
           to == DayOf(plan.to)
           s == ShiftOf(today)
           day == today * n
           tt == TimeOf(plan.to)
           until == IF today = to THEN tt ELSE n
<1>0. PlanOK
  BY DEF AtDay
<1>1. n \in Int /\ n > 0 /\ plan.from \in Int /\ plan.to \in Int /\ to \in Int /\ tt \in 0..(n - 1)
      /\ today \in Int /\ today <= to
  BY WindowIs DEF AtDay
<1>2. /\ now \in 0..(n - 1) /\ day \in Int
      /\ plan.from = day + now \/ (plan.from < day /\ now = 0)
      /\ today < to => day + n <= plan.to
      /\ today = to => plan.to = day + tt /\ now <= tt
  BY AtDayIs
<1>3. s \in Entries /\ s.start \in 0..(n - 1) /\ s.length \in 0..n
      /\ BeginOf(today) = day + s.start /\ EndOf(today) = day + s.start + s.length
      /\ InWindow[today] = Span(Greatest(day + s.start, plan.from), Least(day + s.start + s.length, plan.to))
  BY <1>0, <1>1, DayTypes
<1>4. Left(s, today, day + n) = Span(day + n, Least(day + s.start + s.length, plan.to))
  BY DEF Left
<1>5. Today = IF s = NoShift THEN 0 ELSE ShiftTime(s, now, until)
  BY DEF Today
<1>6. until \in now..n
  BY <1>1, <1>2
<1>7. today = to => WholeDay = IF tt = 0 /\ s.start = 0 /\ s.length = n THEN n ELSE 0
  <2>1. s = [start |-> 0, length |-> n] <=> s.start = 0 /\ s.length = n
    BY <1>3, ShiftEnds DEF Entries
  <2> QED BY <2>1 DEF WholeDay
<1>8. CASE s = NoShift
  <2>1. s.start = 0 /\ s.length = 0
    BY <1>8 DEF NoShift
  <2>2. InWindow[today] = 0 /\ Left(s, today, day + n) = 0
    <3> HIDE DEF n, to, s, day, tt
    <3> QED BY <1>1, <1>2, <1>3, <1>4, <2>1 DEF Span, Greatest, Least
  <2>3. today = to => WholeDay = 0
    <3> HIDE DEF n, to, s, day, tt
    <3> QED BY <1>1, <1>7, <2>1
  <2> HIDE DEF n, to, s, day, tt
  <2>4. Today = IF today < to THEN InWindow[today] - Left(s, today, day + n) ELSE InWindow[today] + WholeDay
    BY <1>1, <1>5, <1>8, <2>2, <2>3
  <2> QED BY <2>4 DEF n, to, s, day
<1>9. CASE s # NoShift
  <2>1. Today = IF until = now /\ now = s.start /\ s.length = n THEN n
                ELSE Span(Greatest(s.start, now), Least(s.start + s.length, until))
    <3>1. s \in Shifts
      BY <1>3, <1>9 DEF Entries
    <3> QED BY <1>2, <1>5, <1>6, <1>9, <3>1, ShiftTimeIs
  <2>2. CASE today < to
    <3> HIDE DEF n, to, s, day, tt
    <3>1. InWindow[today] - Left(s, today, day + n) = Span(Greatest(s.start, now), Least(s.start + s.length, n))
      BY <1>1, <1>2, <1>3, <1>4, <2>2 DEF Span, Greatest, Least
    <3>2. Today = Span(Greatest(s.start, now), Least(s.start + s.length, n))
      BY <1>1, <1>2, <2>1, <2>2
    <3> QED BY <1>1, <2>2, <3>1, <3>2 DEF n, to, s, day
  <2>3. CASE today = to
    <3> HIDE DEF n, to, s, day, tt
    <3>1. InWindow[today] = Span(Greatest(s.start, now), Least(s.start + s.length, tt))
      BY <1>1, <1>2, <1>3, <2>3 DEF Span, Greatest, Least
    <3>2. Today = IF tt = now /\ now = s.start /\ s.length = n THEN n
                  ELSE Span(Greatest(s.start, now), Least(s.start + s.length, tt))
      BY <2>1, <2>3
    <3>3. WholeDay = IF tt = 0 /\ s.start = 0 /\ s.length = n THEN n ELSE 0
      BY <1>7, <2>3
    <3>4. tt = now => tt = 0
      <4>1. plan.from < plan.to
        BY <1>0 DEF PlanOK
      <4> QED BY <1>1, <1>2, <2>3, <4>1
    <3>5. CASE tt = now /\ now = s.start /\ s.length = n
      <4>1. Span(Greatest(s.start, now), Least(s.start + s.length, tt)) = 0
        BY <1>1, <1>2, <1>3, <3>5 DEF Span, Greatest, Least
      <4>2. Today = InWindow[today] + WholeDay
        BY <1>1, <3>1, <3>2, <3>3, <3>4, <3>5, <4>1
      <4> QED BY <1>1, <2>3, <4>2 DEF to
    <3>6. CASE ~(tt = now /\ now = s.start /\ s.length = n)
      <4>1. WholeDay = 0
        BY <1>1, <1>2, <2>3, <3>3, <3>6
      <4>2. InWindow[today] \in Int
        BY <1>0, <1>1, DayTypes
      <4>3. Today = InWindow[today] + WholeDay
        BY <3>1, <3>2, <3>6, <4>1, <4>2
      <4> QED BY <1>1, <2>3, <4>3 DEF to
    <3> QED BY <3>5, <3>6
  <2> QED BY <1>1, <2>2, <2>3
<1> QED BY <1>8, <1>9

\* Without holidays, the days after the last one of a rotation have the entries of the next.
LEMMA NextRotation ==
    ASSUME PlanOK, today \in Int, TakesRotation, plan.holidays = {},
           NEW i \in 1..DayCount(plan.rotation)
    PROVE  ShiftOf(today + i) = Periods(plan.rotation)[i]
<1> DEFINE R == plan.rotation
           n == DayCount(R)
           a == today - RotationStart
           q == a \div n
<1>1. R # <<>> /\ today >= RotationStart /\ (a % n) + 1 = n
  BY DEF TakesRotation, DayInRotation
<1>2. n \in Int /\ n > 0
  <2>1. R \in Seq(Segments)
    BY DEF PlanOK
  <2>2. Periods(R) \in Seq(Entries) /\ Len(Periods(R)) = n /\ Len(Periods(R)) > 0
    BY <1>1, <2>1, RotationIs
  <2>3. Len(Periods(R)) \in Int
    BY <2>2
  <2> QED BY <2>2, <2>3
<1>3. RotationStart \in Int /\ a \in Int /\ i \in 1..n
  BY WorkTimeAssumption
<1> HIDE DEF n, R
<1>4. q \in Int /\ a = n * q + (n - 1)
  <2>1. a \div n \in Int /\ a = n * (a \div n) + (a % n) /\ (a % n) \in 0..(n - 1)
    BY <1>2, <1>3, Division
  <2>2. a % n = n - 1
    <3> DEFINE r == a % n
    <3>1. r \in Int /\ r + 1 = n
      BY <1>1, <1>2, <2>1
    <3> HIDE DEF r
    <3>2. r = n - 1
      BY <3>1
    <3> QED BY <3>2 DEF r
  <2> QED BY <2>1, <2>2
<1> HIDE DEF q
<1>5. a + i = n * (q + 1) + (i - 1) /\ q + 1 \in Int /\ i - 1 \in 0..(n - 1)
  <2>1. n * (q + 1) = n * q + n
    BY <1>2, <1>4
  <2>2. n * q \in Int
    BY <1>2, <1>4
  <2> QED BY <1>2, <1>3, <1>4, <2>1, <2>2
<1>6. (a + i) % n = i - 1
  BY <1>2, <1>5, RemainderIs
<1>7. (today + i) - RotationStart = a + i /\ ~(today + i < RotationStart) /\ (i - 1) + 1 = i
  BY <1>1, <1>2, <1>3
<1>8. DayInRotation(R, today + i) = i
  BY <1>6, <1>7 DEF DayInRotation, n
<1>9. ~OnHoliday(today + i)
  BY DEF OnHoliday
<1> QED BY <1>1, <1>7, <1>8, <1>9 DEF ShiftOf, R

\* A day that is over two days before the window ends has all of its shift in the window.
LEMMA WholeInWindow ==
    ASSUME PlanOK, NEW day \in Int, DayOf(plan.from) < day, day + 1 < DayOf(plan.to)
    PROVE  InWindow[day] = ShiftOf(day).length
<1> DEFINE n == DayLength
           from == DayOf(plan.from)
           to == DayOf(plan.to)
           b == BeginOf(day)
           l == ShiftOf(day).length
           x == ShiftOf(day).start
<1>1. /\ n \in Int /\ n > 0 /\ plan.from \in Int /\ plan.to \in Int /\ from \in Int /\ to \in Int
      /\ TimeOf(plan.from) \in 0..(n - 1) /\ TimeOf(plan.to) \in 0..(n - 1)
      /\ plan.from = from * n + TimeOf(plan.from) /\ plan.to = to * n + TimeOf(plan.to)
      /\ from * n \in Int /\ to * n \in Int
  BY WindowIs
<1>2. /\ b = day * n + x /\ day * n \in Int /\ x \in 0..(n - 1) /\ l \in 0..n
      /\ InWindow[day] = Span(Greatest(b, plan.from), Least(b + l, plan.to))
  BY DayTypes
<1>3. from * n + n <= day * n /\ day * n + n <= (day + 1) * n /\ (day + 1) * n + n <= to * n
      /\ (day + 1) * n \in Int
  <2>1. from < day /\ day < day + 1 /\ day + 1 < to /\ day + 1 \in Int
    OBVIOUS
  <2> HIDE DEF n, from, to
  <2> QED BY <1>1, <2>1, DaysApart
<1> HIDE DEF n, from, to, b, l, x
<1>4. plan.from < b /\ b + l <= plan.to /\ b \in Int /\ l \in Int /\ l >= 0
  BY <1>1, <1>2, <1>3
<1>5. Span(Greatest(b, plan.from), Least(b + l, plan.to)) = l
  BY <1>1, <1>4 DEF Span, Greatest, Least
<1> QED BY <1>2, <1>5 DEF l

\* What of a shift lies after the midnight of its day.
AfterMidnight(s) == IF s.start + s.length > DayLength THEN s.start + s.length - DayLength ELSE 0

\* It is what is left of the shift when its day is over, if the window goes on for the next.
LEMMA LeftAtMidnight ==
    ASSUME PlanOK, NEW s \in Entries, NEW day \in Int, day + 1 < DayOf(plan.to)
    PROVE  Left(s, day, (day + 1) * DayLength) = AfterMidnight(s)
<1> DEFINE n == DayLength
           to == DayOf(plan.to)
           e == s.start + s.length
<1>1. /\ n \in Int /\ n > 0 /\ plan.to \in Int /\ to \in Int
      /\ TimeOf(plan.to) \in 0..(n - 1) /\ plan.to = to * n + TimeOf(plan.to) /\ to * n \in Int
  BY WindowIs
<1>2. e \in Int /\ e < n + n
  <2>1. s.start \in 0..(n - 1) /\ s.length \in 0..n
    BY ShiftEnds DEF Entries
  <2> QED BY <1>1, <2>1
<1>3. day * n \in Int /\ (day + 1) * n = day * n + n /\ (day + 1) * n + n <= to * n
  <2>1. day + 1 < to /\ day + 1 \in Int
    OBVIOUS
  <2> HIDE DEF n, to
  <2> QED BY <1>1, <2>1, DaysApart
<1>4. Left(s, day, (day + 1) * n) = Span((day + 1) * n, Least(day * n + e, plan.to))
  <2>1. day * n + s.start + s.length = day * n + e
    <3>1. s.start \in Int /\ s.length \in Int
      BY <1>1, ShiftEnds DEF Entries
    <3> HIDE DEF n
    <3> QED BY <1>3, <3>1
  <2> HIDE DEF e
  <2> QED BY <2>1 DEF Left
<1> HIDE DEF n, to, e
<1>5. Span((day + 1) * n, Least(day * n + e, plan.to)) = IF e > n THEN e - n ELSE 0
  BY <1>1, <1>2, <1>3 DEF Span, Least
<1>6. Left(s, day, (day + 1) * n) = IF e > n THEN e - n ELSE 0
  BY <1>4, <1>5
<1>7. AfterMidnight(s) = IF e > n THEN e - n ELSE 0
  <2>1. s.start \in Int /\ s.length \in Int /\ DayLength \in Int
    BY <1>1, ShiftEnds DEF Entries, n
  <2> QED BY <2>1 DEF AfterMidnight, e, n
<1>8. Left(s, day, (day + 1) * n) = AfterMidnight(s)
  BY <1>6, <1>7
<1> QED BY <1>8 DEF n

\* A rotation taken as a whole is the days it skips, and its last day.
LEMMA RotationTaken ==
    ASSUME PlanOK, today \in Int, DayOf(plan.from) <= today, TakesRotation, plan.holidays = {}
    PROVE  LET n == DayCount(plan.rotation)  P == Periods(plan.rotation) IN
           /\ n \in Int /\ n > 0 /\ P # <<>> /\ P[Len(P)].length \in Int
           /\ RotationTime(plan.rotation) = SumOver(InWindow, (today + 1)..(today + n - 1)) + P[Len(P)].length
<1> DEFINE R == plan.rotation
           n == DayCount(R)
           P == Periods(R)
           lengths == LengthsOf(P)
<1>1. P \in Seq(Entries) /\ Len(P) = n /\ n \in Int /\ n > 0 /\ TimeIn(P) = RotationTime(R) /\ P # <<>>
  <2>1. R \in Seq(Segments) /\ R # <<>>
    BY DEF PlanOK, TakesRotation
  <2>2. P \in Seq(Entries) /\ Len(P) = n /\ Len(P) > 0 /\ TimeIn(P) = RotationTime(R)
    BY <2>1, RotationIs
  <2> HIDE DEF P, n
  <2> QED BY <2>2
<1>2. \A i \in 1..n : lengths[i] = P[i].length /\ P[i].length \in Int
  <2> HIDE DEF P, n
  <2>1. \A i \in 1..Len(P) : LengthsOf(P)[i] = P[i].length /\ P[i].length \in Nat
    BY <1>1, EntryLengths
  <2> QED BY <1>1, <2>1
<1>3. \A i \in 1..n : ShiftOf(today + i) = P[i]
  BY NextRotation
<1>4. today + n < DayOf(plan.to) /\ DayOf(plan.from) \in Int /\ DayOf(plan.to) \in Int
  BY WindowIs DEF TakesRotation
<1> DEFINE p == today + 1
           e == today + n - 1
           m == n - 1
<1> HIDE DEF P, n, lengths, R
<1>5. ASSUME NEW i \in 1..m, NEW day \in p..e, i + p = day + 1 PROVE InWindow[day] = lengths[i]
  <2>1. day = today + i /\ i \in 1..n /\ day \in Int /\ DayOf(plan.from) < day /\ day + 1 < DayOf(plan.to)
    BY <1>1, <1>4, <1>5
  <2>2. InWindow[day] = ShiftOf(day).length
    BY <2>1, WholeInWindow
  <2>3. ShiftOf(day) = P[i]
    BY <1>3, <2>1
  <2> QED BY <1>2, <2>1, <2>2, <2>3
<1>6. p \in Int /\ m \in Int /\ e \in Int /\ 0 <= m /\ e + 1 = p + m
  BY <1>1
<1>7. (\A i \in 1..m : lengths[i] \in Int) /\ \A i \in 1..n : lengths[i] \in Int
  BY <1>1, <1>2
<1>8. SumOver(InWindow, p..e) = SumOver(lengths, 1..m)
  <2> HIDE DEF p, e, m
  <2>1. \A i \in 1..m : \A day \in p..e : i + p = day + 1 => InWindow[day] = lengths[i]
    BY <1>5
  <2>2. \A i \in 1..m : lengths[i] \in Int
    BY <1>7
  <2> QED BY <1>6, <2>1, <2>2, SumMoved
<1>9. SumOver(lengths, 1..n) = SumOver(lengths, 1..(n - 1)) + lengths[n]
  <2>1. 1 \in Int /\ 1 <= n
    BY <1>1
  <2> QED BY <1>1, <1>7, <2>1, SumOfInterval
<1>10. lengths[n] = P[Len(P)].length /\ P[Len(P)].length \in Int
  <2>1. n \in 1..n
    BY <1>1
  <2> QED BY <1>1, <1>2, <2>1
<1>11. RotationTime(R) = SumOver(lengths, 1..n)
  BY <1>1 DEF TimeIn, lengths
<1> QED BY <1>1, <1>8, <1>9, <1>10, <1>11 DEF n, R, P

-----------------------------------------------------------------------------
\* The days from the evening before the window on, and what they should have added, with
\* the last day of every rotation that was taken as a whole.
Since(day) == SumOver(InWindow, (DayOf(plan.from) - 1)..day)
Again(k) == LET P == Periods(plan.rotation) IN IF P = <<>> THEN 0 ELSE k * P[Len(P)].length
Owed(day, last, instant, k) ==
    IF day <= DayOf(plan.to) THEN Since(day - 1) + Again(k) - Left(last, day - 1, instant)
    ELSE Since(DayOf(plan.to)) + Again(k) + Uncut + WholeDay

\* The walk is at a day of the window or behind it, with the shift of some day before, that
\* of the last one if the next is the last; what it has added is what it should have.
WalkInv ==
    /\ PlanOK /\ today \in Int /\ worked \in Int /\ skips \in Nat /\ lastShift \in Entries
    /\ DayOf(plan.from) <= today /\ today <= DayOf(plan.to) + 1
    /\ now = IF today = DayOf(plan.from) THEN TimeOf(plan.from) ELSE 0
    /\ today = DayOf(plan.to) => lastShift = ShiftOf(today - 1)
    /\ answer # -1 => today > DayOf(plan.to)
    /\ plan.holidays = {} \/ skips = 0 => worked = Owed(today, lastShift, today * DayLength + now, skips)

\* Each day adds what it has in the window.
LEMMA SinceAdds ==
    ASSUME PlanOK, NEW day \in Int, DayOf(plan.from) <= day + 1
    PROVE  /\ Since(day) \in Int
           /\ DayOf(plan.from) <= day => Since(day) = Since(day - 1) + InWindow[day]
           /\ Since(DayOf(plan.from) - 1) = InWindow[DayOf(plan.from) - 1]
<1> DEFINE a == DayOf(plan.from) - 1
<1>1. a \in Int /\ DayOf(plan.from) \in Int
  BY WindowIs
<1>2. \A i \in Int : InWindow[i] \in Int
  BY DayTypes
<1> HIDE DEF a
<1>3. SumOver(InWindow, a..day) \in Int /\ (a <= day => SumOver(InWindow, a..day) = SumOver(InWindow, a..(day - 1)) + InWindow[day])
  <2>1. \A i \in a..day : InWindow[i] \in Int
    BY <1>2
  <2> QED BY <1>1, <2>1, SumOfInterval
<1>4. SumOver(InWindow, a..a) = InWindow[a]
  <2>1. (\A i \in a..a : InWindow[i] \in Int) /\ (\A i \in a..(a - 1) : InWindow[i] \in Int) /\ a - 1 \in Int
        /\ a <= a /\ a - 1 < a
    BY <1>1, <1>2
  <2>2. SumOver(InWindow, a..a) = SumOver(InWindow, a..(a - 1)) + InWindow[a]
    BY <1>1, <2>1, SumOfInterval
  <2>3. SumOver(InWindow, a..(a - 1)) = 0
    BY <1>1, <2>1, SumOfInterval
  <2> QED BY <1>1, <1>2, <2>2, <2>3
<1>5. DayOf(plan.from) <= day => a <= day
  BY <1>1 DEF a
<1>6. Since(day) = SumOver(InWindow, a..day) /\ Since(day - 1) = SumOver(InWindow, a..(day - 1))
      /\ Since(DayOf(plan.from) - 1) = SumOver(InWindow, a..a)
  BY DEF Since, a
<1> QED BY <1>3, <1>4, <1>5, <1>6 DEF a

\* Every rotation taken as a whole counts its last day once more.
LEMMA AgainAdds ==
    ASSUME PlanOK, NEW k \in Nat
    PROVE  /\ Again(k) \in Int /\ Again(0) = 0
           /\ LET P == Periods(plan.rotation) IN P # <<>> => Again(k + 1) = Again(k) + P[Len(P)].length
<1> DEFINE P == Periods(plan.rotation)
           x == P[Len(P)].length
<1>1. P \in Seq(Entries)
  BY RotationIs DEF PlanOK
<1> HIDE DEF P
<1>2. P # <<>> => x \in Int
  <2>1. P # <<>> => Len(P) \in 1..Len(P)
    BY <1>1
  <2>2. \A i \in 1..Len(P) : P[i].length \in Nat
    BY <1>1, EntryLengths
  <2> QED BY <2>1, <2>2
<1>3. \A j \in Nat : Again(j) = IF P = <<>> THEN 0 ELSE j * x
  BY DEF Again, P
<1> HIDE DEF x
<1>4. Again(k) = (IF P = <<>> THEN 0 ELSE k * x) /\ Again(k + 1) = (IF P = <<>> THEN 0 ELSE (k + 1) * x)
      /\ Again(0) = IF P = <<>> THEN 0 ELSE 0 * x
  BY <1>3
<1>5. Again(k) \in Int /\ Again(0) = 0 /\ (P # <<>> => Again(k + 1) = Again(k) + x)
  <2>1. CASE P = <<>>
    BY <1>4, <2>1
  <2>2. CASE P # <<>>
    <3>1. x \in Int
      BY <1>2, <2>2
    <3>2. (k + 1) * x = k * x + x /\ k * x \in Int /\ 0 * x = 0
      BY <3>1
    <3> QED BY <1>4, <2>2, <3>1, <3>2
  <2> QED BY <2>1, <2>2
<1> QED BY <1>5 DEF P, x

\* What is left is a number.
LEMMA LeftType ==
    ASSUME PlanOK, NEW s \in Entries, NEW day \in Int, NEW instant \in Int
    PROVE  Left(s, day, instant) \in Int
<1>1. DayLength \in Int /\ plan.to \in Int /\ day * DayLength \in Int
  BY WindowIs
<1>2. s.start \in Int /\ s.length \in Int
  BY <1>1, ShiftEnds DEF Entries
<1> DEFINE e == day * DayLength + s.start + s.length
<1>3. e \in Int
  BY <1>1, <1>2
<1> HIDE DEF e
<1>4. Span(instant, Least(e, plan.to)) \in Int
  BY <1>1, <1>3 DEF Span, Least
<1> QED BY <1>4 DEF Left, e

\* The days of the walk add up.
LEMMA WalkDayAdds ==
    ASSUME WalkInv, answer = -1, today <= DayOf(plan.to), NEW w,
           w = worked + Remainder + Today + (IF TakesRotation THEN RotationTime(plan.rotation) ELSE 0),
           NEW day, day = today + (IF TakesRotation THEN DayCount(plan.rotation) ELSE 1),
           NEW k, k = IF TakesRotation THEN skips + 1 ELSE skips
    PROVE  /\ w \in Int /\ k \in Nat /\ day \in Int /\ today < day /\ day <= DayOf(plan.to) + 1
           /\ ShiftOf(today) \in Entries
           /\ day = DayOf(plan.to) => ShiftOf(today) = ShiftOf(day - 1)
           /\ plan.holidays = {} \/ k = 0 => w = Owed(day, ShiftOf(today), day * DayLength, k)
<1> DEFINE n == DayLength
           to == DayOf(plan.to)
           from == DayOf(plan.from)
           s == ShiftOf(today)
           instant == today * n + now
           R == plan.rotation
           jump == DayCount(R)
           P == Periods(R)
<1>1. PlanOK /\ AtDay /\ today \in Int /\ worked \in Int /\ skips \in Nat /\ lastShift \in Entries
      /\ from <= today /\ today <= to
      /\ (today = to => lastShift = ShiftOf(today - 1))
      /\ (plan.holidays = {} \/ skips = 0 => worked = Owed(today, lastShift, instant, skips))
  BY DEF WalkInv, AtDay
<1>2. n \in Int /\ n > 0 /\ to \in Int /\ from \in Int /\ today * n \in Int /\ (today + 1) * n = today * n + n
      /\ instant \in Int
  <2>1. n \in Int /\ n > 0 /\ to \in Int /\ from \in Int
    BY <1>1, WindowIs
  <2>2. today * n \in Int /\ now \in 0..(n - 1)
    BY <1>1, AtDayIs
  <2> HIDE DEF n
  <2> QED BY <1>1, <2>1, <2>2, DaysApart
<1>3. s \in Entries /\ InWindow[today] \in Int
  <2>1. ShiftOf(today) \in Entries /\ InWindow[today] \in Nat
    BY <1>1, DayTypes
  <2> QED BY <2>1
<1>4. /\ Left(lastShift, today - 1, instant) \in Int /\ Left(s, today, (today + 1) * n) \in Int
  <2>1. today - 1 \in Int /\ (today + 1) * n \in Int
    BY <1>1, <1>2
  <2> HIDE DEF n, s, instant
  <2> QED BY <1>1, <1>2, <1>3, <2>1, LeftType
<1>5. Remainder = Left(lastShift, today - 1, instant) + (IF today = to THEN Uncut ELSE 0)
  BY <1>1, RemainderOfDay
<1>6. Today = IF today < to THEN InWindow[today] - Left(s, today, (today + 1) * n) ELSE InWindow[today] + WholeDay
  BY <1>1, <1>2, TodayIs
<1>7. Uncut \in Int /\ WholeDay \in Int
  <2>1. TimeOf(plan.to) \in Int
    BY <1>1, WindowIs
  <2>2. ShiftOf(to - 1) \in Entries
    <3>1. to - 1 \in Int
      BY <1>2
    <3> QED BY <1>1, <3>1, ShiftOfType
  <2>3. EndTime(ShiftOf(to - 1)) \in Int
    <3> DEFINE z == ShiftOf(to - 1)
    <3>1. /\ z.start \in Int /\ z.length \in Int
          /\ EndTime(z) = IF z.start + z.length < n THEN z.start + z.length ELSE z.start + z.length - n
      BY <1>2, <2>2, ShiftEnds DEF Entries
    <3> HIDE DEF n, z
    <3>2. EndTime(z) \in Int
      BY <1>2, <3>1
    <3> QED BY <3>2 DEF z
  <2> QED BY <1>2, <2>1, <2>3 DEF Uncut, WholeDay
<1>8. Since(today) = Since(today - 1) + InWindow[today] /\ Since(today - 1) \in Int /\ Since(today) \in Int
  <2>1. today - 1 \in Int /\ from <= (today - 1) + 1 /\ from <= today + 1
    BY <1>1, <1>2
  <2> HIDE DEF from
  <2>2. Since(today) \in Int /\ Since(today) = Since(today - 1) + InWindow[today]
    BY <1>1, <2>1, SinceAdds DEF from
  <2>3. Since(today - 1) \in Int
    BY <1>1, <2>1, SinceAdds DEF from
  <2> QED BY <2>2, <2>3
<1>9. Again(skips) \in Int
  BY <1>1, AgainAdds
<1>10. plan.holidays = {} \/ skips = 0 => worked = Since(today - 1) + Again(skips) - Left(lastShift, today - 1, instant)
  BY <1>1 DEF Owed
<1> HIDE DEF n, to, from, s, instant, R, jump, P
<1>11. Remainder \in Int /\ Today \in Int
  BY <1>1, <1>2, <1>3, <1>4, <1>5, <1>6, <1>7
<1>12. CASE ~TakesRotation
  <2>1. w = worked + Remainder + Today /\ day = today + 1 /\ k = skips
    BY <1>1, <1>11, <1>12
  <2>2. plan.holidays = {} \/ k = 0 => w = Owed(day, s, day * n, k)
    <3>1. SUFFICES ASSUME plan.holidays = {} \/ skips = 0 PROVE w = Owed(today + 1, s, (today + 1) * n, skips)
      BY <2>1
    <3>2. CASE today < to
      <4>1. today + 1 <= to /\ (today + 1) - 1 = today /\ today # to
        BY <1>1, <1>2, <3>2
      <4>2. Owed(today + 1, s, (today + 1) * n, skips) = Since(today) + Again(skips) - Left(s, today, (today + 1) * n)
        BY <4>1 DEF Owed, to
      <4>3. w = Since(today) + Again(skips) - Left(s, today, (today + 1) * n)
        BY <1>3, <1>4, <1>5, <1>6, <1>8, <1>9, <1>10, <2>1, <3>1, <3>2, <4>1
      <4> QED BY <4>2, <4>3
    <3>3. CASE today = to
      <4>1. ~(today + 1 <= to) /\ ~(today < to)
        BY <1>1, <1>2, <3>3
      <4>2. Owed(today + 1, s, (today + 1) * n, skips) = Since(today) + Again(skips) + Uncut + WholeDay
        BY <3>3, <4>1 DEF Owed, to
      <4>3. w = Since(today) + Again(skips) + Uncut + WholeDay
        BY <1>3, <1>4, <1>5, <1>6, <1>7, <1>8, <1>9, <1>10, <2>1, <3>1, <3>3, <4>1
      <4> QED BY <4>2, <4>3
    <3> QED BY <1>1, <1>2, <3>2, <3>3
  <2>3. day \in Int /\ today < day /\ day <= to + 1 /\ day - 1 = today
    BY <1>1, <1>2, <2>1
  <2>4. w \in Int /\ k \in Nat
    BY <1>1, <1>11, <2>1
  <2> QED BY <1>3, <2>2, <2>3, <2>4 DEF n, to, s
<1>13. CASE TakesRotation
  <2>1. w = worked + Remainder + Today + RotationTime(R) /\ day = today + jump /\ k = skips + 1
    BY <1>13 DEF R, jump
  <2>2. jump \in Int /\ jump > 0 /\ RotationTime(R) \in Int /\ today + jump < to
    <3>1. R # <<>> /\ today + jump < to /\ R \in Seq(Segments)
      BY <1>1, <1>13 DEF TakesRotation, PlanOK, R, jump, to
    <3>2. P \in Seq(Entries) /\ Len(P) = jump /\ Len(P) > 0 /\ TimeIn(P) = RotationTime(R)
      BY <3>1, RotationIs DEF P, jump
    <3>3. TimeIn(P) \in Int /\ Len(P) \in Int
      BY <3>2, EntryLengths
    <3> QED BY <3>1, <3>2, <3>3
  <2>3. day \in Int /\ today < day /\ day <= to + 1 /\ day < to /\ today < to /\ k # 0
    BY <1>1, <1>2, <2>1, <2>2
  <2>4. ASSUME plan.holidays = {} PROVE w = Owed(day, s, day * n, k)
    <3> DEFINE m == day - 1
               x == P[Len(P)].length
    <3>1. P # <<>> /\ x \in Int /\ RotationTime(R) = SumOver(InWindow, (today + 1)..m) + x
      <4>1. m = today + jump - 1
        BY <1>1, <2>1, <2>2
      <4> HIDE DEF m
      <4> QED BY <1>1, <1>13, <2>4, <4>1, RotationTaken DEF P, R, jump, from
    <3> HIDE DEF x
    <3>2. Since(m) = Since(today) + SumOver(InWindow, (today + 1)..m) /\ SumOver(InWindow, (today + 1)..m) \in Int
      <4> DEFINE a == from - 1
                 p == today + 1
      <4>1. a \in Int /\ p \in Int /\ m \in Int /\ p = today + 1 /\ a <= p /\ today <= m
        BY <1>1, <1>2, <2>3
      <4>2. (\A i \in a..m : InWindow[i] \in Int) /\ \A i \in p..m : InWindow[i] \in Int
        <5>1. \A i \in Int : InWindow[i] \in Nat
          BY <1>1, DayTypes
        <5> QED BY <5>1
      <4> HIDE DEF a, p, m
      <4>3. SumOver(InWindow, a..m) = SumOver(InWindow, a..today) + SumOver(InWindow, p..m)
        BY <1>1, <4>1, <4>2, SumInParts
      <4>4. SumOver(InWindow, p..m) \in Int
        BY <4>1, <4>2, SumOfInterval
      <4> QED BY <4>3, <4>4 DEF Since, a, p, from
    <3>3. Left(s, m, day * n) = Left(s, today, (today + 1) * n)
      <4>1. m \in Int /\ m + 1 = day /\ m + 1 < to /\ today + 1 < to
        BY <1>1, <1>2, <2>1, <2>2, <2>3
      <4> HIDE DEF m
      <4>2. Left(s, m, (m + 1) * n) = AfterMidnight(s)
        BY <1>1, <1>3, <4>1, LeftAtMidnight DEF n, to
      <4>3. Left(s, today, (today + 1) * n) = AfterMidnight(s)
        BY <1>1, <1>3, <4>1, LeftAtMidnight DEF n, to
      <4> QED BY <4>1, <4>2, <4>3
    <3>4. Again(k) = Again(skips) + x
      BY <1>1, <2>1, <3>1, AgainAdds DEF P, R, x
    <3>5. Owed(day, s, day * n, k) = Since(m) + Again(k) - Left(s, m, day * n)
      BY <1>2, <2>3 DEF Owed, to
    <3> HIDE DEF m
    <3>6. w = Since(m) + Again(k) - Left(s, m, day * n)
      <4> DEFINE before == Left(lastShift, today - 1, instant)
                 after == Left(s, today, (today + 1) * n)
                 skipped == SumOver(InWindow, (today + 1)..m)
      <4>1. today # to /\ Remainder = before
        BY <1>1, <1>2, <1>4, <1>5, <2>3
      <4>2. Today = InWindow[today] - after
        BY <1>6, <2>3
      <4>3. worked = Since(today - 1) + Again(skips) - before
        BY <1>10, <2>4
      <4>4. RotationTime(R) = skipped + x
        BY <3>1
      <4>5. Since(m) = Since(today - 1) + InWindow[today] + skipped
        BY <1>8, <3>2
      <4>6. before \in Int /\ after \in Int /\ skipped \in Int /\ x \in Int
        BY <1>4, <3>1, <3>2
      <4>7. Left(s, m, day * n) = after
        BY <3>3
      <4> HIDE DEF before, after, skipped
      <4> QED BY <1>3, <1>8, <1>9, <2>1, <3>4, <4>1, <4>2, <4>3, <4>4, <4>5, <4>6, <4>7
    <3> QED BY <3>5, <3>6
  <2>5. w \in Int /\ k \in Nat
    BY <1>1, <1>11, <2>1, <2>2
  <2>6. day = to => s = ShiftOf(day - 1)
    BY <1>2, <2>3
  <2>7. plan.holidays = {} \/ k = 0 => w = Owed(day, s, day * n, k)
    BY <2>3, <2>4
  <2> QED BY <1>3, <2>3, <2>5, <2>6, <2>7 DEF n, to, s
<1> QED BY <1>12, <1>13

\* The walk keeps WalkInv.
LEMMA WalkInvKept ==
    ASSUME WalkInv, [WorkNext]_workVars
    PROVE  WalkInv'
<1> DEFINE n == DayLength
<1>1. PlanOK /\ n \in Int /\ DayOf(plan.from) \in Int /\ DayOf(plan.to) \in Int
  BY WindowIs DEF WalkInv
<1>2. ASSUME plan' = plan
      PROVE  /\ PlanOK' <=> PlanOK
             /\ \A day \in Int : ShiftOf(day)' = ShiftOf(day)
             /\ InWindow' = InWindow /\ Uncut' = Uncut /\ WholeDay' = WholeDay
  <2>1. PlanOK' <=> PlanOK
    BY <1>2 DEF PlanOK
  <2>2. \A day : ShiftOf(day)' = ShiftOf(day)
    BY <1>2 DEF ShiftOf, OnHoliday
  <2>3. InWindow' = InWindow
    BY <1>2, <2>2 DEF InWindow, BeginOf, EndOf
  <2>4. Uncut' = Uncut /\ WholeDay' = WholeDay
    BY <1>2, <2>2 DEF Uncut, WholeDay
  <2> QED BY <2>1, <2>2, <2>3, <2>4
<1>3. CASE WalkDay
  <2> DEFINE w == worked + Remainder + Today + (IF TakesRotation THEN RotationTime(plan.rotation) ELSE 0)
             day == today + (IF TakesRotation THEN DayCount(plan.rotation) ELSE 1)
             k == IF TakesRotation THEN skips + 1 ELSE skips
             s == ShiftOf(today)
  <2>1. /\ answer = -1 /\ today <= DayOf(plan.to) /\ plan' = plan /\ answer' = answer
        /\ worked' = w /\ today' = day /\ skips' = k /\ lastShift' = s /\ now' = 0
    BY <1>3 DEF WalkDay
  <2>2. /\ w \in Int /\ k \in Nat /\ day \in Int /\ today < day /\ day <= DayOf(plan.to) + 1
        /\ s \in Entries /\ (day = DayOf(plan.to) => s = ShiftOf(day - 1))
        /\ (plan.holidays = {} \/ k = 0 => w = Owed(day, s, day * n, k))
    <3> HIDE DEF w, day, k
    <3>1. \A ww, dd, kk : ww = w /\ dd = day /\ kk = k =>
        /\ ww \in Int /\ kk \in Nat /\ dd \in Int /\ today < dd /\ dd <= DayOf(plan.to) + 1
        /\ s \in Entries /\ (dd = DayOf(plan.to) => s = ShiftOf(dd - 1))
        /\ (plan.holidays = {} \/ kk = 0 => ww = Owed(dd, s, dd * n, kk))
      BY <2>1, WalkDayAdds DEF w, day, k
    <3> QED BY <3>1
  <2> HIDE DEF w, day, k, s
  <2>3. day # DayOf(plan.from) /\ DayOf(plan.from) <= day
    BY <1>1, <2>2 DEF WalkInv
  <2>4. day * n + 0 = day * n
    BY <1>1, <2>2
  <2>5. (ShiftOf(today - 1))' = ShiftOf(day - 1)
    BY <2>1 DEF ShiftOf, OnHoliday
  <2> QED BY <1>1, <1>2, <2>1, <2>2, <2>3, <2>4, <2>5 DEF WalkInv, Owed, Since, Again, Left
<1>4. CASE Deduct
  <2>1. /\ plan' = plan /\ today' = today /\ now' = now /\ lastShift' = lastShift /\ worked' = worked
        /\ skips' = skips /\ today > DayOf(plan.to)
    BY <1>4 DEF Deduct
  <2> QED BY <1>2, <2>1 DEF WalkInv, Owed, Since, Again, Left
<1>5. CASE UNCHANGED workVars
  <2>1. /\ plan' = plan /\ today' = today /\ now' = now /\ lastShift' = lastShift /\ worked' = worked
        /\ skips' = skips /\ answer' = answer
    BY <1>5 DEF workVars
  <2> QED BY <1>2, <2>1 DEF WalkInv, Owed, Since, Again, Left
<1> QED BY <1>3, <1>4, <1>5 DEF WorkNext

\* WalkInv holds when the walk begins: what is left of the shift of the evening before is all
\* that shift has in the window.
LEMMA WalkInvInit == WorkInit => WalkInv
<1> SUFFICES ASSUME WorkInit PROVE WalkInv
  OBVIOUS
<1> DEFINE n == DayLength
           from == DayOf(plan.from)
           to == DayOf(plan.to)
           s == ShiftOf(from - 1)
<1>1. /\ today = from /\ now = TimeOf(plan.from) /\ lastShift = ShiftOf(today - 1)
      /\ worked = 0 /\ skips = 0 /\ answer = -1
  BY DEF WorkInit
<1>2. PlanOK
  <2>1. plan.rotation \in Rotations /\ plan.from \in Froms /\ plan.to \in Tos /\ plan.from < plan.to
    BY DEF WorkInit
  <2> QED BY <2>1, WorkTimeAssumption DEF PlanOK, Segments, Entries
<1>3. /\ n \in Int /\ n > 0 /\ plan.from \in Int /\ plan.to \in Int /\ from \in Int /\ to \in Int
      /\ TimeOf(plan.from) \in 0..(n - 1) /\ plan.from = from * n + TimeOf(plan.from) /\ from <= to
      /\ from - 1 \in Int
  <2>1. /\ n \in Int /\ n > 0 /\ plan.from \in Int /\ plan.to \in Int /\ from \in Int /\ to \in Int
        /\ TimeOf(plan.from) \in 0..(n - 1) /\ plan.from = from * n + TimeOf(plan.from)
        /\ from < to \/ from = to
    BY <1>2, WindowIs
  <2> HIDE DEF n, from, to
  <2> QED BY <2>1
<1>4. s \in Entries /\ s.start \in 0..(n - 1) /\ s.length \in 0..n
      /\ BeginOf(from - 1) = (from - 1) * n + s.start /\ EndOf(from - 1) = (from - 1) * n + s.start + s.length
      /\ InWindow[from - 1] = Span(Greatest(BeginOf(from - 1), plan.from), Least(EndOf(from - 1), plan.to))
  <2>1. /\ s \in Entries /\ s.start \in 0..(n - 1) /\ s.length \in 0..n
        /\ BeginOf(from - 1) = (from - 1) * n + s.start /\ EndOf(from - 1) = BeginOf(from - 1) + s.length
        /\ InWindow[from - 1] = Span(Greatest(BeginOf(from - 1), plan.from), Least(EndOf(from - 1), plan.to))
    BY <1>2, <1>3, DayTypes
  <2> HIDE DEF n, from, s
  <2> QED BY <2>1
<1>5. (from - 1) * n = from * n - n /\ from * n \in Int
  <2> HIDE DEF n, from
  <2> QED BY <1>3, DaysApart
<1>6. Left(s, from - 1, plan.from) = Span(plan.from, Least(EndOf(from - 1), plan.to))
  BY <1>4 DEF Left
<1>7. Greatest(BeginOf(from - 1), plan.from) = plan.from
  <2> HIDE DEF n, from, to, s
  <2> QED BY <1>3, <1>4, <1>5 DEF Greatest
<1>8. Since(from - 1) = InWindow[from - 1] /\ Since(from - 1) \in Int
  <2>1. from <= (from - 1) + 1
    BY <1>3
  <2> QED BY <1>2, <1>3, <2>1, SinceAdds
<1>9. Again(0) = 0
  BY <1>2, AgainAdds
<1>10. Owed(today, lastShift, today * n + now, skips) = 0
  <2>1. Owed(today, lastShift, today * n + now, skips) = Since(from - 1) + Again(0) - Left(s, from - 1, plan.from)
    BY <1>1, <1>3 DEF Owed
  <2>2. Left(s, from - 1, plan.from) = Since(from - 1)
    BY <1>4, <1>6, <1>7, <1>8
  <2> QED BY <1>8, <1>9, <2>1, <2>2
<1>11. today <= to + 1 /\ from <= today /\ today \in Int
  <2> HIDE DEF from, to
  <2> QED BY <1>1, <1>3
<1> QED BY <1>1, <1>2, <1>3, <1>4, <1>10, <1>11 DEF WalkInv

\* What the walk has added when it is over is the working time with its three additions.
LEMMA WalkExplains == WalkInv => WorkingTimeExplained
<1> SUFFICES ASSUME WalkInv, answer # -1, plan.holidays = {} \/ skips = 0
    PROVE  worked = Reference + CountedAgain + Uncut + WholeDay
  BY DEF WorkingTimeExplained
<1>1. PlanOK /\ today > DayOf(plan.to) /\ today \in Int
      /\ worked = Owed(today, lastShift, today * DayLength + now, skips)
  BY DEF WalkInv
<1>2. DayOf(plan.from) \in Int /\ DayOf(plan.to) \in Int /\ DayOf(plan.from) <= DayOf(plan.to)
  BY <1>1, WindowIs
<1>3. worked = Since(DayOf(plan.to)) + Again(skips) + Uncut + WholeDay
  BY <1>1, <1>2 DEF Owed
<1>4. Again(skips) = CountedAgain
  BY DEF Again, CountedAgain
<1>5. Reference = Since(DayOf(plan.to))
  <2> DEFINE a == DayOf(plan.from) - 1
             z == DayOf(plan.to)
  <2>1. a \in Int /\ z \in Int /\ a <= z + 1
    BY <1>2
  <2> HIDE DEF a, z
  <2>2. Cardinality(Ticks(a..z)) = SumOver(InWindow, a..z)
    BY <1>1, <2>1, TicksOfDays
  <2> QED BY <2>2 DEF Reference, Since, a, z
<1> QED BY <1>3, <1>4, <1>5

\* The shift of an instant is explained whatever the plan.
LEMMA InstantExplained == PlanOK => ShiftAtTimeExplained
<1> SUFFICES ASSUME PlanOK PROVE ShiftAtTimeExplained
  OBVIOUS
<1> DEFINE n == DayLength
           day == DayOf(plan.to)
           tt == TimeOf(plan.to)
           s == ShiftOf(day)
           p == ShiftOf(day - 1)
<1>1. /\ n \in Int /\ n > 0 /\ plan.to \in Int /\ day \in Int /\ day * n \in Int
      /\ tt \in 0..(n - 1) /\ plan.to = day * n + tt
  BY WindowIs
<1>2. (day - 1) * n = day * n - n /\ day - 1 \in Int
  <2> HIDE DEF n, day
  <2> QED BY <1>1, DaysApart
<1>3. s \in Entries /\ p \in Entries
  BY <1>1, <1>2, ShiftOfType
<1>4. /\ s.start \in 0..(n - 1) /\ s.length \in 0..n
      /\ EndTime(s) = IF s.start + s.length < n THEN s.start + s.length ELSE s.start + s.length - n
      /\ SpansMidnight(s) <=> s.start + s.length >= n
  BY <1>3, ShiftEnds DEF Entries
<1>5. /\ p.start \in 0..(n - 1) /\ p.length \in 0..n
      /\ EndTime(p) = IF p.start + p.length < n THEN p.start + p.length ELSE p.start + p.length - n
      /\ SpansMidnight(p) <=> p.start + p.length >= n
  BY <1>3, ShiftEnds DEF Entries
<1>6. s # NoShift => s.length > 0
  <2>1. s.length = 0 <=> s = NoShift
    BY <1>3, ShiftEnds DEF Entries
  <2> QED BY <1>1, <1>4, <2>1
<1>7. UnderWay(day, plan.to) <=> s # NoShift /\ day * n + s.start <= plan.to /\ plan.to <= day * n + s.start + s.length
  BY DEF UnderWay
<1>8. UnderWay(day - 1, plan.to) <=> p # NoShift /\ (day - 1) * n + p.start <= plan.to /\ plan.to <= (day - 1) * n + p.start + p.length
  BY DEF UnderWay
<1>9. InstanceAt(plan.to) = IF s # NoShift /\ InShift(s, tt) THEN s ELSE NoShift
  BY DEF InstanceAt
<1>10. InShift(s, tt) <=> IF s.start < EndTime(s) THEN s.start <= tt /\ tt <= EndTime(s) ELSE tt >= s.start \/ tt <= EndTime(s)
  BY DEF InShift
<1>11. ShiftAtTimeExplained <=>
         \/ /\ InstanceAt(plan.to) = (IF UnderWay(day, plan.to) THEN s ELSE NoShift)
            /\ UnderWay(day - 1, plan.to) => UnderWay(day, plan.to)
         \/ SpansMidnight(s) /\ tt <= EndTime(s)
         \/ SpansMidnight(p) /\ tt <= EndTime(p)
  BY DEF ShiftAtTimeExplained
<1> HIDE DEF n, day, tt, s, p
<1>12. CASE (SpansMidnight(s) /\ tt <= EndTime(s)) \/ (SpansMidnight(p) /\ tt <= EndTime(p))
  BY <1>11, <1>12
<1>13. CASE ~((SpansMidnight(s) /\ tt <= EndTime(s)) \/ (SpansMidnight(p) /\ tt <= EndTime(p)))
  <2>1. ~UnderWay(day - 1, plan.to)
    BY <1>1, <1>2, <1>5, <1>8, <1>13
  <2>2. s # NoShift => (InShift(s, tt) <=> UnderWay(day, plan.to))
    <3>1. s # NoShift => (UnderWay(day, plan.to) <=> s.start <= tt /\ tt <= s.start + s.length)
      BY <1>1, <1>4, <1>7
    <3>2. s # NoShift => (InShift(s, tt) <=> s.start <= tt /\ tt <= s.start + s.length)
      BY <1>1, <1>4, <1>6, <1>10, <1>13
    <3> QED BY <3>1, <3>2
  <2>3. s = NoShift => ~UnderWay(day, plan.to)
    BY <1>7
  <2> QED BY <1>9, <1>11, <2>1, <2>2, <2>3
<1> QED BY <1>12, <1>13

\* What is taken off for non-working periods.
HolidayInv ==
    /\ plan.from \in Nat /\ plan.to \in Nat /\ plan.from < plan.to /\ worked \in Int
    /\ IsFiniteSet(plan.holidays) /\ plan.holidays \subseteq [start : Nat, length : Nat]
    /\ HolidaysTakenOff

\* A period takes off as many ticks as it has in the window.
LEMMA TicksOff ==
    ASSUME HolidayInv, NEW h \in plan.holidays
    PROVE  /\ HolidayPart(h) \in Nat /\ EndOfPeriod(h) \in Int
           /\ IsFiniteSet(Off(h)) /\ Cardinality(Off(h)) = HolidayPart(h)
<1> DEFINE a == Max({h.start, plan.from})
           e == Min({EndOfPeriod(h), plan.to})
<1>1. /\ h.start \in Nat /\ h.length \in Nat /\ plan.from \in Nat /\ plan.to \in Nat
      /\ EndOfPeriod(h) = h.start + h.length
  BY DEF HolidayInv, EndOfPeriod
<1>2. a = (IF h.start >= plan.from THEN h.start ELSE plan.from)
  BY <1>1, MaxOfTwo
<1>3. EndOfPeriod(h) \in Int
  BY <1>1
<1>4. e = (IF EndOfPeriod(h) <= plan.to THEN EndOfPeriod(h) ELSE plan.to)
  BY <1>1, <1>3, MinOfTwo
<1>5. HolidayPart(h) = IF e > a THEN e - a ELSE 0
  BY DEF HolidayPart
<1> HIDE DEF a, e
<1>6. a \in Int /\ e \in Int /\ e - 1 \in Int
  BY <1>1, <1>2, <1>3, <1>4
<1>7. Off(h) = a..(e - 1)
  BY <1>1, <1>2, <1>3, <1>4, <1>6 DEF Off
<1>8. IsFiniteSet(a..(e - 1)) /\ Cardinality(a..(e - 1)) = IF a > e - 1 THEN 0 ELSE e - 1 - a + 1
  BY <1>6, FS_Interval
<1> QED BY <1>3, <1>5, <1>6, <1>7, <1>8

\* What lies in the periods the loop does not reach lies in the one it ended with.
LEMMA ReachedSuffice ==
    ASSUME HolidayInv, NEW turn \in InTurn
    PROVE  UNION {Off(h) : h \in plan.holidays} = UNION {Off(h) : h \in Reached(turn)}
<1> DEFINE H == plan.holidays
           Turns == {turn[k] : k \in {x \in H : EndOfPeriod(x) >= plan.to}}
<1>1. /\ turn \in [H -> 1..Cardinality(H)]
      /\ \A h, k \in H : turn[h] = turn[k] => h = k
      /\ \A h, k \in H : turn[h] < turn[k] => h.start <= k.start
  BY DEF InTurn, Injection, IsInjective
<1>2. SUFFICES ASSUME NEW h \in H, h \notin Reached(turn) PROVE \E k \in Reached(turn) : Off(h) \subseteq Off(k)
  BY DEF Reached
<1>3. Cardinality(H) \in Nat /\ \A k \in H : turn[k] \in Nat
  BY <1>1, FS_CardinalityType DEF HolidayInv
<1>4. \A k \in H : EndOfPeriod(k) \in Int /\ k.start \in Nat
  BY TicksOff DEF HolidayInv
<1>5. plan.to \in Nat
  BY DEF HolidayInv
<1>6. PICK j \in H : turn[j] < turn[h] /\ EndOfPeriod(j) >= plan.to
  BY <1>2, <1>4, <1>5 DEF Reached
<1>7. PICK k \in H : EndOfPeriod(k) >= plan.to /\ \A n \in Turns : turn[k] <= n
  <2>1. Turns # {} /\ Turns \in SUBSET Nat
    BY <1>3, <1>6
  <2> HIDE DEF Turns
  <2>2. PICK m \in Turns : \A n \in Turns : m <= n
    BY <2>1, LeastOfSet
  <2> QED BY <2>2 DEF Turns
<1>8. k \in Reached(turn)
  <2> SUFFICES ASSUME NEW x \in H, turn[x] < turn[k], ~(EndOfPeriod(x) < plan.to) PROVE FALSE
    BY DEF Reached
  <2>1. EndOfPeriod(x) >= plan.to
    BY <1>4, <1>5
  <2>2. turn[k] <= turn[x]
    BY <1>7, <2>1
  <2> QED BY <1>3, <2>2
<1>9. k.start <= h.start
  <2>1. turn[k] <= turn[j]
    BY <1>6, <1>7
  <2>2. turn[k] < turn[h]
    BY <1>3, <1>6, <2>1
  <2> QED BY <1>1, <2>2
<1>10. Off(h) \subseteq Off(k)
  <2> SUFFICES ASSUME NEW t \in plan.from..(plan.to - 1), h.start <= t PROVE k.start <= t /\ t < EndOfPeriod(k)
    BY DEF Off
  <2>1. t \in Int /\ t < plan.to
    BY <1>5 DEF HolidayInv
  <2> QED BY <1>4, <1>5, <1>7, <1>9, <2>1
<1> QED BY <1>8, <1>10

\* Each of the ways through the periods takes off between the two.
LEMMA TimeOffBounds ==
    ASSUME HolidayInv, NEW turn \in InTurn
    PROVE  /\ HolidayTime(turn) \in Nat /\ TimeOff(plan.holidays) \in Nat
           /\ HolidayTime(turn) <= TimeOff(plan.holidays)
           /\ Cardinality(UNION {Off(h) : h \in plan.holidays}) \in Nat
           /\ Cardinality(UNION {Off(h) : h \in plan.holidays}) <= HolidayTime(turn)
<1> DEFINE H == plan.holidays
           R == Reached(turn)
           b == [h \in H |-> HolidayPart(h)]
           c == [h \in R |-> HolidayPart(h)]
           A == [h \in R |-> Off(h)]
<1>1. IsFiniteSet(H) /\ R \in SUBSET H
  BY DEF HolidayInv, Reached
<1>2. IsFiniteSet(R)
  <2> HIDE DEF R, H
  <2> QED BY <1>1, FS_Subset
<1>3. TimeOff(H) = SumOver(b, H) /\ TimeOff(R) = SumOver(c, R)
  BY DEF TimeOff, SumOver
<1>4. HolidayTime(turn) = TimeOff(R)
  BY DEF HolidayTime
<1>5. \A h \in H : HolidayPart(h) \in Nat /\ IsFiniteSet(Off(h)) /\ Cardinality(Off(h)) = HolidayPart(h)
  BY TicksOff
<1>6. (\A h \in H : b[h] \in Nat) /\ (\A h \in R : c[h] \in Nat /\ c[h] = b[h] /\ IsFiniteSet(A[h]) /\ c[h] = Cardinality(A[h]))
  BY <1>1, <1>5
<1>7. UNION {Off(h) : h \in H} = UNION {A[h] : h \in R}
  BY ReachedSuffice
<1> HIDE DEF H, R, b, c, A
<1>8. SumOver(b, H) \in Nat /\ SumOver(c, R) \in Nat
  BY <1>1, <1>2, <1>6, SumNotNegative
<1>9. SumOver(c, R) = SumOver(b, R)
  BY <1>2, <1>6, SumsSame
<1>10. SumOver(b, R) <= SumOver(b, H)
  BY <1>1, <1>6, SumOfPart
<1>11. IsFiniteSet(UNION {A[h] : h \in R}) /\ Cardinality(UNION {A[h] : h \in R}) <= SumOver(c, R)
  BY <1>2, <1>6, UnionNoMore
<1>12. Cardinality(UNION {A[h] : h \in R}) \in Nat
  BY <1>11, FS_CardinalityType
<1>13. UNION {Off(h) : h \in plan.holidays} = UNION {A[h] : h \in R}
  BY <1>7 DEF H
<1> QED BY <1>3, <1>4, <1>8, <1>9, <1>10, <1>11, <1>12, <1>13 DEF H

\* All of them together.
LEMMA TimeOffIsSum ==
    TimeOff(plan.holidays) = SumOver([h \in plan.holidays |-> HolidayPart(h)], plan.holidays)
BY DEF TimeOff, SumOver

\* HolidayInv holds at first and is kept.
LEMMA HolidayInvHolds ==
    /\ WorkInit => HolidayInv
    /\ WalkInv' /\ HolidayInv /\ [WorkNext]_workVars => HolidayInv'
<1>1. ASSUME WorkInit PROVE HolidayInv
  <2>1. /\ plan.from \in Nat /\ plan.to \in Nat /\ plan.from < plan.to /\ worked \in Int
        /\ IsFiniteSet(plan.holidays) /\ plan.holidays \subseteq [start : Nat, length : Nat] /\ answer = -1
    BY <1>1, WorkTimeAssumption DEF WorkInit
  <2> QED BY <2>1 DEF HolidayInv, HolidaysTakenOff
<1>2. ASSUME WalkInv', HolidayInv, [WorkNext]_workVars PROVE HolidayInv'
  <2>1. plan' = plan
    BY <1>2 DEF WorkNext, WalkDay, Deduct, workVars
  <2>2. /\ (UNION {Off(h) : h \in plan.holidays})' = UNION {Off(h) : h \in plan.holidays}
        /\ TimeOff(plan.holidays)' = TimeOff(plan.holidays)
    <3>1. \A h : Off(h)' = Off(h) /\ HolidayPart(h)' = HolidayPart(h)
      BY <2>1 DEF Off, HolidayPart
    <3>2. TimeOff(plan.holidays)' = TimeOff(plan.holidays)
      <4> DEFINE T == [h \in plan.holidays |-> HolidayPart(h)]
      <4>1. T' = T
        BY <2>1, <3>1
      <4>2. TimeOff(plan.holidays) = SumOver(T, plan.holidays)
        BY TimeOffIsSum
      <4>3. (TimeOff(plan.holidays) = SumOver(T, plan.holidays))'
        BY TimeOffIsSum, PTL
      <4> HIDE DEF T
      <4> QED BY <2>1, <4>1, <4>2, <4>3
    <3>3. {Off(h) : h \in plan.holidays}' = {Off(h) : h \in plan.holidays}
      BY <2>1, <3>1
    <3> QED BY <3>2, <3>3
  <2>3. worked' \in Int
    BY <1>2 DEF WalkInv
  <2>4. HolidaysTakenOff'
    <3>1. CASE answer' = -1
      BY <3>1 DEF HolidaysTakenOff
    <3>2. CASE worked' = worked /\ answer' = answer
      BY <1>2, <2>2, <3>2 DEF HolidaysTakenOff, HolidayInv
    <3>3. CASE Deduct
      <4>1. PICK turn \in InTurn : answer' = Max({worked - HolidayTime(turn), 0}) /\ worked' = worked
        BY <3>3 DEF Deduct
      <4> DEFINE all == TimeOff(plan.holidays)
                 once == Cardinality(UNION {Off(h) : h \in plan.holidays})
                 d == HolidayTime(turn)
      <4>2. d \in Nat /\ all \in Nat /\ d <= all /\ once \in Nat /\ once <= d
        BY <1>2, TimeOffBounds
      <4>3. worked \in Int
        BY <1>2 DEF HolidayInv
      <4> HIDE DEF all, once, d
      <4>4. \A n \in {all, d, once} :
               worked - n \in Int /\ Max({worked - n, 0}) = IF worked - n >= 0 THEN worked - n ELSE 0
        BY <4>2, <4>3, MaxOfTwo
      <4>5. Max({worked - all, 0}) <= Max({worked - d, 0}) /\ Max({worked - d, 0}) <= Max({worked - once, 0})
        <5>1. /\ Max({worked - all, 0}) = IF worked - all >= 0 THEN worked - all ELSE 0
              /\ Max({worked - d, 0}) = IF worked - d >= 0 THEN worked - d ELSE 0
              /\ Max({worked - once, 0}) = IF worked - once >= 0 THEN worked - once ELSE 0
          BY <4>4
        <5> QED BY <4>2, <4>3, <5>1
      <4>6. Max({worked' - all, 0}) <= answer' /\ answer' <= Max({worked' - once, 0})
        BY <4>1, <4>5 DEF d
      <4> QED BY <2>2, <4>6, Zenon DEF HolidaysTakenOff, all, once
    <3>4. answer' = -1 \/ (worked' = worked /\ answer' = answer) \/ Deduct
      BY <1>2 DEF WorkNext, WalkDay, workVars
    <3> QED BY <3>1, <3>2, <3>3, <3>4
  <2> QED BY <1>2, <2>1, <2>3, <2>4 DEF HolidayInv
<1> QED BY <1>1, <1>2

\* For every schedule, window and set of holidays: the working time is the time of its
\* shifts but for the named additions, every tick in a holiday is taken off, and the shift
\* of an instant is the one under way but after midnight.
THEOREM WorkedTimeExplained == WorkSpec => []SchedulesExplained
<1>1. WorkInit => WalkInv /\ HolidayInv
  BY WalkInvInit, HolidayInvHolds
<1>2. WalkInv /\ HolidayInv /\ [WorkNext]_workVars => WalkInv' /\ HolidayInv'
  BY WalkInvKept, HolidayInvHolds
<1>3. WalkInv /\ HolidayInv => SchedulesExplained
  BY WalkExplains, InstantExplained DEF SchedulesExplained, WalkInv, HolidayInv
<1> QED BY <1>1, <1>2, <1>3, PTL DEF WorkSpec
=============================================================================
