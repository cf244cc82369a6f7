--------------------------- MODULE MCStateReports ---------------------------
(***************************************************************************)
(* Instances for TLC of the reports of one machine.                        *)
(***************************************************************************)
EXTENDS StateReports

\* A model with a state nothing leads to but the first report.
MCMoves == {<<"Run", "Idle">>, <<"Idle", "Run">>, <<"Down", "Idle">>}
=============================================================================
