------------------------------- MODULE MCAlerts -------------------------------
(***************************************************************************)
(* The fraud and notification services, checked by TLC.  One transfer of 3 *)
(* from a balance that other transfers take from 4, where it is 75% and no *)
(* drain, to 2, where it is one, and to 0, where the rule asks for more    *)
(* than nothing.                                                           *)
(***************************************************************************)
EXTENDS Alerts

MCMoves == {-2}
=============================================================================
