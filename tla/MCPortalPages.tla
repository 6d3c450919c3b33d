---------------------------- MODULE MCPortalPages ----------------------------
(***************************************************************************)
(* The pages of the portal, checked by TLC.                                *)
(***************************************************************************)
EXTENDS PortalPages, TLC

MCSymmetry == Permutations(Ids)
=============================================================================
