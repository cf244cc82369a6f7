---------------------------- MODULE ReportDelivery ----------------------------
(***************************************************************************)
(* What the queue of reports to the ERP promises, with the loops, batches, *)
(* attempts and delays left out.                                           *)
(*                                                                         *)
(* Until something goes wrong with a report it is delivered exactly once:  *)
(* it arrives while it waits, at most once, is called sent only then, and  *)
(* stays so; a report that was given up may be asked for again.  What goes *)
(* wrong is counted as an excuse, and each allows one copy more.  A report *)
(* that has an excuse may arrive, be sent or be given up late, after it    *)
(* was settled already.  But sent it is called only if it arrived.         *)
(***************************************************************************)
EXTENDS Naturals

CONSTANT Reports

VARIABLES
    stage,      \* of each report
    copies,     \* how many of it arrived
    excuses     \* how often something went wrong with it

delivery == <<stage, copies, excuses>>

Settled == {"sent", "failed"}
Stages == {"absent", "waiting"} \cup Settled

Init ==
    /\ stage = [r \in Reports |-> "absent"]
    /\ copies = [r \in Reports |-> 0]
    /\ excuses = [r \in Reports |-> 0]

\* A report may be called sent.
Arrived(r) == copies[r] > 0

Excused(r) == excuses'[r] > 0

Enter(r) ==
    /\ stage[r] = "absent" /\ stage'[r] = "waiting"
    /\ copies'[r] = copies[r] /\ excuses'[r] = excuses[r]

\* Whoever sent it may learn of it, or not.
Arrive(r) ==
    /\ stage[r] = "waiting" \/ (stage[r] \in Settled /\ Excused(r))
    /\ copies[r] <= excuses[r]
    /\ copies'[r] = copies[r] + 1
    /\ excuses'[r] \in {excuses[r], excuses[r] + 1}
    /\ stage'[r] = stage[r]

Settle(r) ==
    /\ stage[r] = "waiting" /\ stage'[r] \in Settled
    /\ stage'[r] = "sent" => Arrived(r)
    /\ copies'[r] = copies[r] /\ excuses'[r] = excuses[r]

AskAgain(r) ==
    /\ stage[r] = "failed" /\ stage'[r] = "waiting"
    /\ copies'[r] = copies[r] /\ excuses'[r] = excuses[r]

\* Somebody writes a report that was settled since.
Overwrite(r) ==
    /\ stage[r] \in Settled /\ Excused(r)
    /\ stage'[r] \in Stages \ {"absent"}
    /\ stage'[r] = "sent" => Arrived(r)
    /\ copies'[r] = copies[r]
    /\ excuses'[r] \in {excuses[r], excuses[r] + 1}

GoWrong(r) ==
    /\ stage[r] # "absent" /\ stage'[r] = stage[r]
    /\ copies'[r] = copies[r] /\ excuses'[r] = excuses[r] + 1

Rest(r) == stage'[r] = stage[r] /\ copies'[r] = copies[r] /\ excuses'[r] = excuses[r]

Step(r) ==
    \/ Enter(r) \/ Arrive(r) \/ Settle(r) \/ AskAgain(r)
    \/ Overwrite(r) \/ GoWrong(r) \/ Rest(r)

\* A batch of them may move at a time.
Next ==
    /\ stage' \in [Reports -> Stages]
    /\ copies' \in [Reports -> Nat] /\ excuses' \in [Reports -> Nat]
    /\ \A r \in Reports : Step(r)

Spec == Init /\ [][Next]_delivery
=============================================================================
