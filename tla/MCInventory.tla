----------------------------- MODULE MCInventory -----------------------------
(***************************************************************************)
(* Instances of Inventory for TLC.                                         *)
(***************************************************************************)
EXTENDS Inventory, TLC

MCCounts == {-1, 0, 2}

Shelves == Permutations(Locations \ Rip)
=============================================================================
