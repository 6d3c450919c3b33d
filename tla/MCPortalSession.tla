--------------------------- MODULE MCPortalSession ---------------------------
(***************************************************************************)
(* A tab of the portal and the gateway, checked by TLC.                    *)
(***************************************************************************)
EXTENDS PortalSession, TLC

MCSymmetry == Permutations(Calls)
=============================================================================
