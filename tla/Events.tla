-------------------------------- MODULE Events --------------------------------
(***************************************************************************)
(* The gateway that forwards the events of the bus to the browsers         *)
(* (framework/events/gateway.py).                                          *)
(*                                                                         *)
(* A broadcast walks the dictionary of connections and awaits every send;  *)
(* clients come and go meanwhile, and so do other broadcasts.  A           *)
(* dictionary keeps the order of insertion, leaves a hole where an entry   *)
(* was removed, closes the holes when it grows, and refuses to be walked   *)
(* on once its size has changed.  The publisher of the event waits.        *)
(***************************************************************************)
EXTENDS Naturals, Sequences, FiniteSets

CONSTANTS
    Browsers,
    Publishers,     \* broadcasts that may overlap
    Hole,
    MaxEntries      \* bound on the entries of the dictionary, holes included

ASSUME EventsAssumption == Hole \notin Browsers /\ MaxEntries \in Nat \ {0}

VARIABLES
    entries,    \* the dictionary of connections
    deaf,       \* browsers connected with a filter that does not match
    cast,       \* per publisher: the walk of its broadcast
    closed      \* browsers whose connection broke and is not cleaned up yet

eventVars == <<entries, deaf, cast, closed>>

InDict(d) == {d[i] : i \in DOMAIN d} \ {Hole}
Listening == InDict(entries)
NoCast == [at |-> "none"]

\* owed: ghost, the browsers to be told when it began that have stayed since and
\* were not told; moved: ghost, a browser came or went since; shut: ghost, and one that
\* came made the dictionary close its holes.
Walks ==
    [at : {"send", "end", "error"}, pos : 1..MaxEntries, size : Nat,
     to : Browsers \cup {Hole}, dead : SUBSET Browsers,
     owed : SUBSET Browsers, moved : BOOLEAN, shut : BOOLEAN]

EventTypeOK ==
    /\ entries \in Seq(Browsers \cup {Hole}) /\ Len(entries) <= MaxEntries
    /\ \A i, j \in DOMAIN entries : entries[i] = entries[j] /\ entries[i] # Hole => i = j
    /\ deaf \cup closed \subseteq Listening
    /\ cast \in [Publishers -> Walks \cup {NoCast}]

EventInit ==
    /\ entries = <<>> /\ deaf = {} /\ closed = {}
    /\ cast = [p \in Publishers |-> NoCast]

-----------------------------------------------------------------------------
(***************************************************************************)
(* The endpoint of a browser.                                              *)
(***************************************************************************)

\* The walks as somebody comes or goes (moving), which may close the holes (closing); those
\* in lost went, or need not be told any more.
Noticed(lost, moving, closing) ==
    [p \in Publishers |->
        IF cast[p] = NoCast THEN NoCast
        ELSE [cast[p] EXCEPT !.owed = @ \ lost, !.moved = @ \/ moving, !.shut = @ \/ closing]]

Without(d, b) == [i \in DOMAIN d |-> IF d[i] = b THEN Hole ELSE d[i]]

\* d without its holes, in the same order.
Compact(d) ==
    {c \in [1..Cardinality(InDict(d)) -> InDict(d)] :
        \A i, j \in DOMAIN d : i <= j /\ Hole \notin {d[i], d[j]} =>
            \E m, n \in DOMAIN c : m <= n /\ c[m] = d[i] /\ c[n] = d[j]}

\* connect(); an insertion may make the dictionary grow, which closes its holes.
Connect(b) ==
    /\ b \notin Listening
    /\ \E d \in {entries} \cup Compact(entries) :
         /\ Len(d) < MaxEntries /\ entries' = Append(d, b)
         /\ cast' = Noticed({}, TRUE, d # entries)
    /\ UNCHANGED <<deaf, closed>>

\* set_topics()
Filter(b, matches) ==
    /\ b \in Listening
    /\ deaf' = IF matches THEN deaf \ {b} ELSE deaf \cup {b}
    /\ cast' = Noticed({b}, FALSE, FALSE)
    /\ UNCHANGED <<entries, closed>>

\* The connection breaks: sends fail until somebody notices.
Break(b) ==
    /\ b \in Listening \ closed
    /\ closed' = closed \cup {b}
    /\ cast' = Noticed({b}, FALSE, FALSE)
    /\ UNCHANGED <<entries, deaf>>

\* disconnect(), by the endpoint that finds its connection broken.
Disconnect(b) ==
    /\ b \in closed
    /\ entries' = Without(entries, b)
    /\ deaf' = deaf \ {b} /\ closed' = closed \ {b}
    /\ cast' = Noticed({b}, TRUE, FALSE)

-----------------------------------------------------------------------------
(***************************************************************************)
(* A broadcast.                                                            *)
(***************************************************************************)

Told == Listening \ deaf

\* Mutant of NextOf: an entry is skipped.
NextButOne(i) == {j \in (i + 1)..Len(entries) : entries[j] \in Told /\ (j > 1 => i > 0)}

\* The entries after i whose filter matches.
NextOf(i) == {j \in (i + 1)..Len(entries) : entries[j] \in Told}

\* On to the first of them: the send to it is awaited.
Onward(w, i) ==
    IF Cardinality(Listening) # w.size THEN [w EXCEPT !.at = "error", !.to = Hole]
    ELSE IF NextOf(i) = {} THEN [w EXCEPT !.at = "end", !.to = Hole]
    ELSE LET j == CHOOSE x \in NextOf(i) : \A y \in NextOf(i) : x <= y
         IN  [w EXCEPT !.pos = j, !.to = entries[j]]

Broadcast(p) ==
    /\ cast[p] = NoCast
    /\ cast' = [cast EXCEPT ![p] =
         Onward([at |-> "send", pos |-> 1, size |-> Cardinality(Listening), to |-> Hole,
                 dead |-> {}, owed |-> Told \ closed, moved |-> FALSE, shut |-> FALSE], 0)]
    /\ UNCHANGED <<entries, deaf, closed>>

\* send_json returns, or raises because the connection is broken or gone.
Sent(p) ==
    /\ cast[p].at = "send"
    /\ LET b == cast[p].to IN
       cast' = [cast EXCEPT ![p] =
         Onward(IF b \in Listening \ closed THEN [cast[p] EXCEPT !.owed = @ \ {b}]
                ELSE [cast[p] EXCEPT !.dead = @ \cup {b}], cast[p].pos)]
    /\ UNCHANGED <<entries, deaf, closed>>

\* At the end of the walk the dead connections are removed, in one go.
Finish(p) ==
    /\ cast[p].at = "end"
    /\ LET D == cast[p].dead \cap Listening IN
       /\ entries' = [i \in DOMAIN entries |-> IF entries[i] \in D THEN Hole ELSE entries[i]]
       /\ deaf' = deaf \ D /\ closed' = closed \ D
       /\ cast' = [Noticed(D, D # {}, FALSE) EXCEPT ![p] = NoCast]

\* RuntimeError: the bus logs it, and the dead stay for the next broadcast.
GiveUpCast(p) ==
    /\ cast[p].at = "error"
    /\ cast' = [cast EXCEPT ![p] = NoCast]
    /\ UNCHANGED <<entries, deaf, closed>>

EventNext ==
    \/ \E b \in Browsers :
        \/ Connect(b) \/ Break(b) \/ Disconnect(b)
        \/ \E matches \in BOOLEAN : Filter(b, matches)
    \/ \E p \in Publishers : Broadcast(p) \/ Sent(p) \/ Finish(p) \/ GiveUpCast(p)

EventSpec == EventInit /\ [][EventNext]_eventVars

-----------------------------------------------------------------------------
\* Whoever comes and goes meanwhile, a broadcast that walks to its end has told every
\* browser that was connected through it, with a filter that matches, unless one that
\* came made the dictionary close its holes, which moves entries to where the walk has
\* been; and it breaks off only if a browser came or went.
MissedExplained ==
    \A p \in Publishers :
        /\ cast[p].at = "end" /\ cast[p].owed # {} => cast[p].shut
        /\ cast[p].at = "error" => cast[p].moved
=============================================================================
