--------------------------- MODULE MCOrderRequests ---------------------------
(***************************************************************************)
(* Instances of OrderRequests for TLC.                                     *)
(***************************************************************************)
EXTENDS OrderRequests, TLC

\* All units belong to one order.
OneOrder == [u \in Units |-> CHOOSE o \in Orders : TRUE]
=============================================================================
