-------------------------- MODULE MCAccountService --------------------------
(***************************************************************************)
(* The account service alone, called by any client, checked by TLC.        *)
(***************************************************************************)
EXTENDS AccountService, TLC

MCSymmetry == Permutations(AccountIds) \cup Permutations(Calls)
=============================================================================
