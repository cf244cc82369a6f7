----------------------------- MODULE MCRequests ------------------------------
(***************************************************************************)
(* Instances for TLC of what must come to an end: the reports the loops of *)
(* two processes send to the ERP, and the requests on units of one order,  *)
(* each a transaction of its own.  One part runs in a behaviour; the other *)
(* stays in a state where nothing is enabled that would have to happen.    *)
(* The queue runs with one report and everything that may befall it, or    *)
(* with two that compete for the one place of a batch and no faults.       *)
(***************************************************************************)
EXTENDS ErpOutbound, OrderRequests, TLC

CONSTANTS r1, r2, r3, q1, q2

VARIABLE part    \* "orders", "report" or "backlog"

\* All units belong to one order.
OneOrder == [u \in Units |-> CHOOSE o \in Orders : TRUE]

RequestsInit ==
    /\ part \in {"orders", "report", "backlog"}
    /\ Init /\ OrdersInit
    /\ part # "orders" => \A u \in Units : unitStatus[u] = "absent"

RequestsNext ==
    /\ \/ part = "orders" /\ OrdersNext
       \/ part # "orders" /\ UNCHANGED orderVars
    /\ \/ part = "report" /\ Next /\ status'[q2] = "absent"
       \/ part = "backlog" /\ Next /\ UNCHANGED <<faults, resets>>
       \/ part = "orders" /\ UNCHANGED vars
    /\ UNCHANGED part

\* The fairness of both modules: the server goes on with the requests it has begun, and
\* the loops and the clock keep going.
RequestsSpec ==
    /\ RequestsInit
    /\ [][RequestsNext]_<<part, vars, orderVars>>
    /\ \A r \in Requests : WF_orderVars(Proceed(r))
    /\ Fairness

\* The requests differ in nothing but their names: they arrive in the order r1, r2, r3; so do
\* the reports q1 and q2.
\* (Symmetry, which TLC would use for that, is not sound with liveness; cutting off the
\* behaviours that only rename the requests of others is.)
ArriveInOrder == /\ pc[r2] # "idle" => pc[r1] # "idle"
                 /\ pc[r3] # "idle" => pc[r2] # "idle"
                 /\ status[q2] # "absent" /\ part = "backlog" => status[q1] # "absent"
=============================================================================
