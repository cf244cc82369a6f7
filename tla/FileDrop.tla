------------------------------ MODULE FileDrop ------------------------------
(***************************************************************************)
(* The files of test equipment (server/plugins/system/                     *)
(* file_drop_test_results): every poll lists the watched directory; a file *)
(* is read, its result inserted and committed, and the file moved to       *)
(* "successful" or "failed".  Each server process runs a poller, and       *)
(* nothing marks a file as taken.                                          *)
(***************************************************************************)
EXTENDS Naturals

CONSTANTS
    ResultFiles,
    Pollers,     \* server processes that run the plugin
    NoFile,
    MaxResults   \* bound on the rows of one file

ASSUME FileDropAssumption == NoFile \notin ResultFiles /\ MaxResults \in Nat

VARIABLES
    place,     \* directory each file is in
    results,   \* rows in the table for each file
    poller,    \* what each poller is doing
    mishaps    \* ghost: what went wrong with each file

dropVars == <<place, results, poller, mishaps>>

Places == {"none", "watched", "successful", "failed"}
Mishaps == {"cutShort", "notMoved", "shared", "unanswered"}
Pollings == [at : {"stopped", "sleeping", "listing", "writing", "moving"},
             list : SUBSET ResultFiles, file : ResultFiles \cup {NoFile}, success : BOOLEAN]
Off == [at |-> "stopped", list |-> {}, file |-> NoFile, success |-> FALSE]

DropTypeOK ==
    /\ place \in [ResultFiles -> Places]
    /\ results \in [ResultFiles -> 0..MaxResults]
    /\ poller \in [Pollers -> Pollings]
    /\ mishaps \in [ResultFiles -> SUBSET Mishaps]

DropInit ==
    /\ place = [f \in ResultFiles |-> "none"]
    /\ results = [f \in ResultFiles |-> 0]
    /\ poller = [p \in Pollers |-> Off]
    /\ mishaps = [f \in ResultFiles |-> {}]

\* A machine drops a file, under a name of its own.
Drop(f) ==
    /\ place[f] = "none"
    /\ place' = [place EXCEPT ![f] = "watched"]
    /\ UNCHANGED <<results, poller, mishaps>>

StartPolling(p) ==
    /\ poller[p].at = "stopped"
    /\ poller' = [poller EXCEPT ![p].at = "sleeping"]
    /\ UNCHANGED <<place, results, mishaps>>

\* The files of the directory at the moment of the poll.
List(p) ==
    /\ poller[p].at = "sleeping"
    /\ poller' = [poller EXCEPT ![p].at = "listing",
                                ![p].list = {f \in ResultFiles : place[f] = "watched"}]
    /\ UNCHANGED <<place, results, mishaps>>

ListDone(p) ==
    /\ poller[p].at = "listing" /\ poller[p].list = {}
    /\ poller' = [poller EXCEPT ![p].at = "sleeping"]
    /\ UNCHANGED <<place, results, mishaps>>

Take(p, f, s) ==
    /\ poller' = [poller EXCEPT ![p] = [at |-> s, list |-> poller[p].list \ {f},
                                        file |-> f, success |-> FALSE]]
    /\ mishaps' = IF \E q \in Pollers \ {p} : poller[q].file = f
                  THEN [mishaps EXCEPT ![f] = @ \cup {"shared"}]
                  ELSE mishaps

\* A file that is gone by now is skipped, one that cannot be read goes to "failed";
\* from the others a record is parsed.
Parse(p, f) ==
    /\ poller[p].at = "listing" /\ f \in poller[p].list
    /\ \/ /\ place[f] # "watched"
          /\ poller' = [poller EXCEPT ![p].list = @ \ {f}]
          /\ UNCHANGED mishaps
       \/ place[f] = "watched" /\ Take(p, f, "moving")
       \/ place[f] = "watched" /\ Take(p, f, "writing")
    /\ UNCHANGED <<place, results>>

\* write_result_to_db: committed and answered, committed and not answered, or not
\* committed.  Any error is a failed result.
WriteResult(p) ==
    LET f == poller[p].file IN
    /\ poller[p].at = "writing" /\ results[f] < MaxResults
    /\ \E answered \in BOOLEAN :
          /\ results' = [results EXCEPT ![f] = @ + 1]
          /\ poller' = [poller EXCEPT ![p].at = "moving", ![p].success = answered]
          /\ mishaps' = IF answered THEN mishaps
                        ELSE [mishaps EXCEPT ![f] = @ \cup {"unanswered"}]
    /\ UNCHANGED place

FailResult(p) ==
    /\ poller[p].at = "writing"
    /\ poller' = [poller EXCEPT ![p].at = "moving"]
    /\ UNCHANGED <<place, results, mishaps>>

\* Mutant of Destination: the file moves whatever became of its result.
DestinationSuccessful(p) == "successful"

Destination(p) == IF poller[p].success THEN "successful" ELSE "failed"

\* A move that fails is logged; the file stays where it is, or is where another poller
\* has moved it.
MoveFile(p) ==
    LET f == poller[p].file IN
    /\ poller[p].at = "moving"
    /\ \/ /\ place[f] = "watched"
          /\ place' = [place EXCEPT ![f] = Destination(p)]
          /\ UNCHANGED mishaps
       \/ /\ place[f] = "watched"
          /\ mishaps' = [mishaps EXCEPT ![f] = @ \cup {"notMoved"}]
          /\ UNCHANGED place
       \/ /\ place[f] # "watched"
          /\ UNCHANGED <<place, mishaps>>
    /\ poller' = [poller EXCEPT ![p].at = "listing", ![p].file = NoFile, ![p].success = FALSE]
    /\ UNCHANGED results

\* stop cancels the poller wherever it waits, and a process may end anywhere.
StopPolling(p) ==
    /\ poller[p].at # "stopped"
    /\ poller' = [poller EXCEPT ![p] = Off]
    /\ mishaps' = IF poller[p].at = "moving"
                  THEN [mishaps EXCEPT ![poller[p].file] = @ \cup {"cutShort"}]
                  ELSE mishaps
    /\ UNCHANGED <<place, results>>

DropNext ==
    \/ \E f \in ResultFiles : Drop(f)
    \/ \E p \in Pollers :
         \/ StartPolling(p) \/ List(p) \/ ListDone(p) \/ StopPolling(p)
         \/ WriteResult(p) \/ FailResult(p) \/ MoveFile(p)
         \/ \E f \in ResultFiles : Parse(p, f)

DropSpec == DropInit /\ [][DropNext]_dropVars

-----------------------------------------------------------------------------
\* A file in "successful" has its result in the table.  A result is there twice only if
\* a poller was stopped, or could not move the file, after it had written the result, or
\* if two pollers had the file in hand; a file is in "failed" with a result in the table
\* only for these reasons or because the commit was not answered.
ResultsExplained ==
    \A f \in ResultFiles :
        /\ place[f] = "successful" => results[f] > 0
        /\ results[f] > 1 => mishaps[f] \cap {"cutShort", "notMoved", "shared"} # {}
        /\ place[f] = "failed" /\ results[f] > 0 => mishaps[f] # {}
=============================================================================
