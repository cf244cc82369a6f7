---------------------------- MODULE WipLifecycle ----------------------------
(***************************************************************************)
(* What the shop floor promises about orders and work in process, with     *)
(* routes, history rows, holds and quantities left out: an order goes      *)
(* through its stages one way; items join it only while it is released or  *)
(* running, and the first ones make it run; every item is settled at most  *)
(* once, as good or as scrapped, and its fate is final.                    *)
(***************************************************************************)
CONSTANTS Orders, Items, NoOrder

VARIABLES
    stage,   \* stage of each order
    fate,    \* fate of each item
    home     \* the order each item belongs to

ledger == <<stage, fate, home>>

Init ==
    /\ stage = [o \in Orders |-> "absent"]
    /\ fate = [i \in Items |-> "absent"]
    /\ home = [i \in Items |-> NoOrder]

Advance(o) ==
    /\ \E from, to \in {"absent", "planned", "released", "running", "ended"} :
        /\ <<from, to>> \in {<<"absent", "planned">>, <<"planned", "released">>,
                             <<"planned", "ended">>, <<"released", "ended">>,
                             <<"running", "ended">>}
        /\ stage[o] = from
        /\ stage' = [stage EXCEPT ![o] = to]
    /\ UNCHANGED <<fate, home>>

Join(I, o) ==
    /\ stage[o] \in {"released", "running"}
    /\ I # {} /\ \A i \in I : fate[i] = "absent"
    /\ stage' = [stage EXCEPT ![o] = "running"]
    /\ fate' = [i \in Items |-> IF i \in I THEN "live" ELSE fate[i]]
    /\ home' = [i \in Items |-> IF i \in I THEN o ELSE home[i]]

Settle(i) ==
    /\ fate[i] = "live"
    /\ \E f \in {"good", "scrapped"} : fate' = [fate EXCEPT ![i] = f]
    /\ UNCHANGED <<stage, home>>

Next ==
    \/ \E o \in Orders : Advance(o)
    \/ \E I \in SUBSET Items, o \in Orders : Join(I, o)
    \/ \E i \in Items : Settle(i)

Spec == Init /\ [][Next]_ledger
=============================================================================
