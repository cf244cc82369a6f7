---------------------------- MODULE Capabilities ----------------------------
(***************************************************************************)
(* The windows of time in which a piece of equipment has a capability of   *)
(* one type and class.  Windows of one group must not overlap: create and  *)
(* update look for an active window that does before they write, each in a *)
(* transaction of its own, and no constraint of the database helps them.   *)
(* A window may be open at either end, and nothing demands that it starts  *)
(* before it ends.                                                         *)
(***************************************************************************)
EXTENDS Naturals

CONSTANTS Windows,       \* primary keys
          Instants,         \* instants
          CapRequests    \* transactions

ASSUME InstantsAreNumbers == Instants \subseteq Nat \ {0}

Open == 0                \* NULL: no start, or no end
Ends == Instants \cup {Open}

VARIABLES window,        \* [Windows -> window]
          capRequest,    \* [CapRequests -> request]
          lateWindow     \* windows checked before and written after another commit

capVars == <<window, capRequest, lateWindow>>

WindowRecords == [state : {"free", "active", "deleted"}, from : Ends, until : Ends]
CapIdle == [op |-> "none"]
CapRecords == {CapIdle} \cup
    [op : {"create", "update", "delete"}, window : Windows, from : Ends, until : Ends, late : BOOLEAN]

CapabilityTypeOK ==
    /\ window \in [Windows -> WindowRecords]
    /\ capRequest \in [CapRequests -> CapRecords]
    /\ lateWindow \subseteq Windows

CapabilityInit ==
    /\ window = [w \in Windows |-> [state |-> "free", from |-> Open, until |-> Open]]
    /\ capRequest = [q \in CapRequests |-> CapIdle]
    /\ lateWindow = {}

ActiveWindows == {w \in Windows : window[w].state = "active"}

\* Mutant of Conflicts: a window around the new one is looked for, not one within it.
ConflictsAround(w, from, until) ==
    {v \in ActiveWindows \ {w} :
        /\ window[v].from = Open \/ (from # Open /\ window[v].from <= from)
        /\ window[v].until = Open \/ (until # Open /\ until <= window[v].until)}

\* The rows the query returns.  A comparison with an open end of the new window is left
\* out of the query, where it should have been left out of the condition: what remains
\* asks the row itself to be open.
Conflicts(w, from, until) ==
    {v \in ActiveWindows \ {w} :
        /\ \/ window[v].until = Open
           \/ from # Open /\ from < window[v].until
        /\ \/ window[v].from = Open
           \/ until # Open /\ window[v].from < until}

AskWindow(q, op, w, from, until) ==
    /\ capRequest[q].op = "none"
    /\ Conflicts(w, from, until) = {}
    /\ capRequest' = [capRequest EXCEPT ![q] =
            [op |-> op, window |-> w, from |-> from, until |-> until, late |-> FALSE]]
    /\ UNCHANGED <<window, lateWindow>>

AskCreateWindow(q, w, from, until) ==
    /\ window[w].state = "free"
    /\ \A p \in CapRequests : capRequest[p].op # "none" => capRequest[p].window # w
    /\ AskWindow(q, "create", w, from, until)

\* A value that is not given stays as it is: an end cannot be opened again.
AskUpdateWindow(q, w, from, until) ==
    /\ w \in ActiveWindows
    /\ from = Open => window[w].from = Open
    /\ until = Open => window[w].until = Open
    /\ AskWindow(q, "update", w, from, until)

AskDeleteWindow(q, w) ==
    /\ w \in ActiveWindows
    /\ capRequest[q].op = "none"
    /\ capRequest' = [capRequest EXCEPT ![q] =
            [op |-> "delete", window |-> w, from |-> Open, until |-> Open, late |-> FALSE]]
    /\ UNCHANGED <<window, lateWindow>>

\* The request ends, and those under way have checked what is no longer so.
SettleWindow(q) ==
    capRequest' = [p \in CapRequests |->
                     IF p = q \/ capRequest[p].op = "none" THEN CapIdle
                     ELSE [capRequest[p] EXCEPT !.late = TRUE]]

WriteWindow(q) ==
    LET m == capRequest[q] IN
    /\ m.op \in {"create", "update"}
    /\ window' = [window EXCEPT ![m.window] =
            IF m.op = "create" \/ @.state = "active"
            THEN [state |-> "active", from |-> m.from, until |-> m.until]
            ELSE @]
    /\ lateWindow' = IF m.late THEN lateWindow \cup {m.window} ELSE lateWindow \ {m.window}
    /\ SettleWindow(q)

\* Nothing reads a deleted row again: what it said is forgotten here.
WriteDeletion(q) ==
    /\ capRequest[q].op = "delete"
    /\ window' = [window EXCEPT ![capRequest[q].window] =
            [state |-> "deleted", from |-> Open, until |-> Open]]
    /\ SettleWindow(q)
    /\ UNCHANGED lateWindow

GiveUpWindow(q) ==
    /\ capRequest[q].op # "none"
    /\ capRequest' = [capRequest EXCEPT ![q] = CapIdle]
    /\ UNCHANGED <<window, lateWindow>>

CapabilityNext ==
    \E q \in CapRequests :
        \/ \E w \in Windows, from, until \in Ends :
              AskCreateWindow(q, w, from, until) \/ AskUpdateWindow(q, w, from, until)
        \/ \E w \in Windows : AskDeleteWindow(q, w)
        \/ WriteWindow(q) \/ WriteDeletion(q) \/ GiveUpWindow(q)

CapabilitySpec == CapabilityInit /\ [][CapabilityNext]_capVars

\* Two windows overlap, an open end reaching as far as it can.
Before(a, b) == a = Open \/ b = Open \/ a < b
Overlap(v, w) == Before(window[v].from, window[w].until) /\ Before(window[w].from, window[v].until)

\* The check lets window w pass beside v although they overlap.
Overlooked(w, v) ==
    \/ window[w].from = Open /\ window[v].until # Open
    \/ window[w].until = Open /\ window[v].from # Open

\* Two active windows of a group overlap only when requests overlapped, or when one of
\* them is open at an end at which the other is closed, which the check of the later
\* one overlooks.
OverlapsExplained ==
    \A v, w \in ActiveWindows :
        v # w /\ Overlap(v, w) =>
            {v, w} \cap lateWindow # {} \/ Overlooked(v, w) \/ Overlooked(w, v)
=============================================================================
