----------------------------- MODULE MasterData -----------------------------
(***************************************************************************)
(* The tables of master data: sites, equipment, products, shifts, units of *)
(* measure and so on.  Each has the same five requests - list, get,        *)
(* create, update and a soft delete - and they differ in what they look up *)
(* first and in what the database itself refuses: module TableRules.  One  *)
(* machine runs the requests of any table, each in a transaction of its    *)
(* own: a request first reads (the parent, the row, the rows that hold the *)
(* same key) and later writes and commits, and another request may commit  *)
(* in between.  Listing and getting change nothing and see the active rows *)
(* only.                                                                   *)
(***************************************************************************)
EXTENDS TableRules, Naturals, FiniteSets

CONSTANTS RowIds,       \* primary keys
          Codes,        \* codes, names or pairs of references that should be unique
          MdRequests    \* transactions

VARIABLES mdTable,    \* the rules of the table at hand
          mdRow,     \* [RowIds -> row]
          mdParent,  \* the parent the requests name is active
          mdRequest, \* [MdRequests -> request]
          racedRows,     \* rows whose key was read before and written after another commit
          adopted    \* rows of requests in time, created under a deleted parent

mdVars == <<mdTable, mdRow, mdParent, mdRequest, racedRows, adopted>>

States == {"free", "active", "deleted"}
MdRows == [state : States, code : Codes]
MdOps == {"none", "create", "revive", "update", "delete"}
MdIdle == [op |-> "none", late |-> FALSE]
MdRequestRecords == {MdIdle} \cup [op : MdOps \ {"none"}, row : RowIds, code : Codes, late : BOOLEAN]

MasterDataTypeOK ==
    /\ mdTable \in Tables
    /\ mdRow \in [RowIds -> MdRows]
    /\ mdParent \in BOOLEAN
    /\ mdRequest \in [MdRequests -> MdRequestRecords]
    /\ racedRows \subseteq RowIds
    /\ adopted \subseteq RowIds

MasterDataInit ==
    /\ mdTable \in Tables
    /\ \E c \in Codes : mdRow = [r \in RowIds |-> [state |-> "free", code |-> c]]
    /\ mdParent = TRUE
    /\ mdRequest = [q \in MdRequests |-> MdIdle]
    /\ racedRows = {}
    /\ adopted = {}

ActiveRows == {r \in RowIds : mdRow[r].state = "active"}
WithCode(c, inStates) == {r \in RowIds : mdRow[r].state \in inStates /\ mdRow[r].code = c}

\* The rows a look-up of the key finds.
LookedUp(rule, c) ==
    CASE rule = "active"  -> WithCode(c, {"active"})
      [] rule = "all"     -> WithCode(c, {"active", "deleted"})
      [] rule = "revives" -> WithCode(c, {"active"})
      [] OTHER            -> {}

\* Mutant of Indexed: the index on active rows is dropped.
IndexedDropped(c, s) ==
    IF mdTable.index = "all" THEN WithCode(c, {"active", "deleted"}) ELSE {}

\* The rows the unique index compares a row in state s that takes the key with.
Indexed(c, s) ==
    CASE mdTable.index = "all" -> WithCode(c, {"active", "deleted"})
      [] mdTable.index = "active" /\ s = "active" -> WithCode(c, {"active"})
      [] OTHER -> {}

(***************************************************************************)
(* Reading.  A request that finds a reason to refuse ends there.           *)
(***************************************************************************)
Ask(q, op, r, c) ==
    /\ mdRequest[q].op = "none"
    /\ mdRequest' = [mdRequest EXCEPT ![q] = [op |-> op, row |-> r, code |-> c, late |-> FALSE]]
    /\ UNCHANGED <<mdTable, mdRow, mdParent, racedRows, adopted>>

ParentFound == mdTable.under => mdParent

AskCreate(q, r, c) ==
    /\ ParentFound
    /\ LookedUp(mdTable.create, c) = {}
    /\ \/ /\ mdRow[r].state = "free"             \* a new primary key
          /\ \A p \in MdRequests : mdRequest[p].op = "create" => mdRequest[p].row # r
          /\ mdTable.create = "revives" => WithCode(c, {"deleted"}) = {}
          /\ Ask(q, "create", r, c)
       \/ /\ mdTable.create = "revives"
          /\ WithCode(c, {"deleted"}) = {r}       \* two of them are an error
          /\ Ask(q, "revive", r, c)

AskUpdate(q, r, c) ==
    /\ mdTable.update # "absent"
    /\ r \in ActiveRows
    /\ c # mdRow[r].code
    /\ LookedUp(mdTable.update, c) \ {r} = {}
    /\ Ask(q, "update", r, c)

AskDelete(q, r) ==
    /\ r \in ActiveRows
    /\ Ask(q, "delete", r, mdRow[r].code)

(***************************************************************************)
(* Writing and committing.  What was read may be out of date by then: the  *)
(* other requests under way become late.                                   *)
(***************************************************************************)
Committed(q) ==
    mdRequest' = [p \in MdRequests |->
                    IF p = q THEN MdIdle
                    ELSE IF mdRequest[p].op = "none" THEN MdIdle
                    ELSE [mdRequest[p] EXCEPT !.late = TRUE]]

Mark(q, r) == racedRows' = IF mdRequest[q].late THEN racedRows \cup {r} ELSE racedRows \ {r}

BringToLife(q, c) ==
    LET m == mdRequest[q] IN
    /\ mdRow' = [mdRow EXCEPT ![m.row] = [state |-> "active", code |-> c]]
    /\ Mark(q, m.row)
    /\ adopted' = IF mdParent \/ m.late THEN adopted ELSE adopted \cup {m.row}
    /\ Committed(q)
    /\ UNCHANGED <<mdTable, mdParent>>

WriteCreate(q) ==
    /\ mdRequest[q].op = "create"
    /\ Indexed(mdRequest[q].code, "active") = {}
    /\ BringToLife(q, mdRequest[q].code)

\* The key the row was found by has not changed for the session: it is not written.
WriteRevive(q) ==
    /\ mdRequest[q].op = "revive"
    /\ BringToLife(q, mdRow[mdRequest[q].row].code)

WriteUpdate(q) ==
    LET m == mdRequest[q] IN
    /\ m.op = "update"
    /\ Indexed(m.code, mdRow[m.row].state) \ {m.row} = {}
    /\ mdRow' = [mdRow EXCEPT ![m.row].code = m.code]
    /\ Mark(q, m.row)
    /\ Committed(q)
    /\ UNCHANGED <<mdTable, mdParent, adopted>>

WriteDelete(q) ==
    LET m == mdRequest[q] IN
    /\ m.op = "delete"
    /\ mdRow' = [mdRow EXCEPT ![m.row].state = "deleted"]
    /\ Committed(q)
    /\ UNCHANGED <<mdTable, mdParent, racedRows, adopted>>

\* The unique index refuses the row, or the client goes away: nothing is written.
Abandon(q) ==
    /\ mdRequest[q].op # "none"
    /\ mdRequest' = [mdRequest EXCEPT ![q] = MdIdle]
    /\ UNCHANGED <<mdTable, mdRow, mdParent, racedRows, adopted>>

\* The parent is deleted; its delete asks nothing about the rows under it.
DeleteParent ==
    /\ mdParent
    /\ mdParent' = FALSE
    /\ mdRequest' = [p \in MdRequests |->
                       IF mdRequest[p].op = "none" THEN MdIdle
                       ELSE [mdRequest[p] EXCEPT !.late = TRUE]]
    /\ UNCHANGED <<mdTable, mdRow, racedRows, adopted>>

MasterDataNext ==
    \/ \E q \in MdRequests :
         \/ \E r \in RowIds, c \in Codes : AskCreate(q, r, c) \/ AskUpdate(q, r, c)
         \/ \E r \in RowIds : AskDelete(q, r)
         \/ WriteCreate(q) \/ WriteRevive(q) \/ WriteUpdate(q) \/ WriteDelete(q)
         \/ Abandon(q)
    \/ DeleteParent

MasterDataSpec == MasterDataInit /\ [][MasterDataNext]_mdVars

\* Two active rows hold the same key only in a table without a unique index, and
\* there only because create or update never looked (the name of a work schedule can
\* be changed to one that is taken), or because requests overlapped (two requests that
\* assign one product to one route both insert, and from then on every assignment of
\* that pair fails on the two rows it reads).
KeysExplained ==
    \A r, s \in ActiveRows :
        r # s /\ mdRow[r].code = mdRow[s].code =>
            /\ mdTable.index = "no"
            /\ \/ "unchecked" \in {mdTable.create, mdTable.update}
               \/ {r, s} \cap racedRows # {}

\* A request nothing overlapped, that looked for its key and found it free, is refused
\* by the unique index only where the index covers deleted rows and the look-up does
\* not: a material taken off an equipment can never be set up for it again.
RefusalsExplained ==
    \A q \in MdRequests :
        LET m == mdRequest[q] IN
        m.op \in {"create", "update"} /\ ~m.late /\ Indexed(m.code, "active") \ {m.row} # {} =>
            \/ mdTable[m.op] = "unchecked"
            \/ mdTable.index = "all" /\ mdTable[m.op] = "active"

\* A row comes to life under a deleted parent only in a table whose create does not
\* look for the parent, or when the parent went away while the request was under way.
MasterDataExplained ==
    KeysExplained /\ RefusalsExplained /\ (mdTable.under => adopted = {})
=============================================================================
