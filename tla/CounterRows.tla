----------------------------- MODULE CounterRows -----------------------------
(***************************************************************************)
(* The rows of production_counters (core/performance/service.py) and the   *)
(* sessions that write them: increments of plugins (OPC-UA, MQTT) and      *)
(* requests, and the upsert of a client.                                   *)
(*                                                                         *)
(* A session selects the row of its key, an equipment, an order and a day, *)
(* and changes it or inserts one when it commits.  The docstrings say that *)
(* an increment is atomic; nothing locks the row between the two, and no   *)
(* constraint keeps a second row of the key out.                           *)
(***************************************************************************)
EXTENDS Naturals, FiniteSetsExt

CONSTANTS
    Keys,       \* (equipment, order, day)
    Writers,    \* sessions that may overlap
    NoRow,
    MaxCount    \* bound on what is added to a count

Columns == {"good", "reject"}
Amounts == [Columns -> 0..MaxCount]

ASSUME CounterRowsAssumption ==
    /\ MaxCount \in Nat /\ IsFiniteSet(Writers)
    /\ NoRow \notin Writers \cup Amounts

VARIABLES
    counters,   \* per key, its rows
    writing,    \* per session: what it read and is about to write, or Idle
    least,      \* ghost: per key and column, what the rows show at least
    most,       \* ghost: ... and at most
    met         \* ghost: keys of which two sessions overlapped

counterVars == <<counters, writing, least, most, met>>

NoParts == [c \in Columns |-> 0]
Idle == [by |-> NoRow]

\* In hand: the row seen (by is NoRow when there is none) with its counts then, the
\* deltas to add, or for the columns in sets the values to put; late when another
\* session committed on the key meanwhile.
Held ==
    [key : Keys, by : Writers \cup {NoRow}, old : Amounts,
     n : Amounts, sets : SUBSET Columns, late : BOOLEAN]

\* A row is told from the others of its key by the session that inserted it: a session
\* inserts only when it sees no row of the key, and rows are never deleted.
CounterTypeOK ==
    /\ counters \in [Keys -> [Writers -> Amounts \cup {NoRow}]]
    /\ writing \in [Writers -> Held \cup {Idle}]
    /\ least \in [Keys -> Amounts] /\ most \in [Keys -> Amounts]
    /\ met \subseteq Keys

CounterInit ==
    /\ counters = [k \in Keys |-> [w \in Writers |-> NoRow]]
    /\ writing = [w \in Writers |-> Idle]
    /\ least = [k \in Keys |-> NoParts] /\ most = [k \in Keys |-> NoParts]
    /\ met = {}

RowsOf(key) == {w \in Writers : counters[key][w] # NoRow}

\* What the calculation of the OEE reads: the sum over the rows.
InRow(rows, c) == [w \in Writers |-> IF rows[w] = NoRow THEN 0 ELSE rows[w][c]]
Shown(rows, c) == LET count == InRow(rows, c) IN MapThenSumSet(LAMBDA w : count[w], Writers)

-----------------------------------------------------------------------------
(***************************************************************************)
(* The select.  scalar_one_or_none refuses a key with two rows.            *)
(***************************************************************************)

Readable(key) == Cardinality(RowsOf(key)) <= 1

Hold(w, key, n, sets) ==
    \E by \in IF RowsOf(key) = {} THEN {NoRow} ELSE RowsOf(key) :
        writing' = [writing EXCEPT ![w] =
            [key |-> key, by |-> by, old |-> IF by = NoRow THEN NoParts ELSE counters[key][by],
             n |-> n, sets |-> sets, late |-> FALSE]]

\* increment_counter, up to the flush.
Increment(w, key, n) ==
    /\ writing[w] = Idle
    /\ n # NoParts /\ Readable(key)
    /\ Hold(w, key, n, {})
    /\ UNCHANGED <<counters, least, most, met>>

\* create_or_update_counter: the values the client gives replace the counts.
Upsert(w, key, n, given) ==
    /\ writing[w] = Idle
    /\ Readable(key)
    /\ Hold(w, key, [c \in Columns |-> IF c \in given THEN n[c] ELSE 0], given)
    /\ UNCHANGED <<counters, least, most, met>>

-----------------------------------------------------------------------------
(***************************************************************************)
(* The commit.                                                             *)
(***************************************************************************)

OnKey(v, key) == writing[v] # Idle /\ writing[v].key = key

\* Another session has the key in hand.
Shared(w) == \E v \in Writers \ {w} : OnKey(v, writing[w].key)

\* Mutant of Written: the delta replaces the count.
WrittenDeltas(now, h) ==
    [c \in Columns |-> IF c \in h.sets \/ h.n[c] > 0 THEN h.n[c] ELSE now[c]]

\* The session writes the columns that it changed, from the counts it read.
Written(now, h) ==
    [c \in Columns |->
        IF c \in h.sets THEN IF h.n[c] = h.old[c] THEN now[c] ELSE h.n[c]
        ELSE IF h.n[c] > 0 THEN h.old[c] + h.n[c] ELSE now[c]]

\* Two sessions that overlapped: one of the two increments may be lost, but not that of
\* the last to commit, and both values may remain, in two rows.
Least(w) ==
    LET h == writing[w]  before == least[h.key] IN
    [c \in Columns |->
        IF c \notin h.sets THEN IF Shared(w) THEN before[c] ELSE before[c] + h.n[c]
        ELSE IF (Shared(w) \/ h.late) /\ before[c] < h.n[c] THEN before[c] ELSE h.n[c]]

Most(w) ==
    LET h == writing[w]  before == most[h.key] IN
    [c \in Columns |->
        IF c \in h.sets /\ ~Shared(w) /\ ~h.late THEN h.n[c] ELSE before[c] + h.n[c]]

\* Those that have the key in hand read it too early.
Outdate(w) ==
    writing' = [v \in Writers |->
        IF v = w THEN Idle
        ELSE IF OnKey(v, writing[w].key) THEN [writing[v] EXCEPT !.late = TRUE] ELSE writing[v]]

WriteCounter(w) ==
    /\ writing[w] # Idle
    /\ \A c \in Columns : Most(w)[c] <= MaxCount
    /\ LET h   == writing[w]
           row == IF h.by = NoRow THEN w ELSE h.by IN
       /\ counters' = [counters EXCEPT ![h.key][row] = IF h.by = NoRow THEN h.n ELSE Written(@, h)]
       /\ least' = [least EXCEPT ![h.key] = Least(w)]
       /\ most' = [most EXCEPT ![h.key] = Most(w)]
       /\ met' = IF Shared(w) \/ h.late THEN met \cup {h.key} ELSE met
    /\ Outdate(w)

\* The request fails, or the client of the plugin does.
GiveUpCounter(w) ==
    /\ writing[w] # Idle
    /\ writing' = [writing EXCEPT ![w] = Idle]
    /\ UNCHANGED <<counters, least, most, met>>

CounterNext ==
    \E w \in Writers :
        \/ \E key \in Keys, n \in Amounts :
            \/ Increment(w, key, n)
            \/ \E given \in SUBSET Columns : Upsert(w, key, n, given)
        \/ WriteCounter(w) \/ GiveUpCounter(w)

CounterSpec == CounterInit /\ [][CounterNext]_counterVars
-----------------------------------------------------------------------------
\* However sessions overlap, what the rows of a key show together is at most what was
\* added since it was last set with no other session about, and at least what sessions
\* added that had the key to themselves when they committed; it is exact, and in one
\* row, when no two sessions met on the key.
CountersAddUp ==
    \A key \in Keys :
        /\ \A c \in Columns : Shown(counters[key], c) \in least[key][c]..most[key][c]
        /\ key \notin met => Cardinality(RowsOf(key)) <= 1 /\ least[key] = most[key]
=============================================================================
