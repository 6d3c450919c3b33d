--------------------------- MODULE MCTransferSaga ---------------------------
(***************************************************************************)
(* The transfer saga and the account service it calls, checked by TLC.     *)
(***************************************************************************)
EXTENDS TransferSaga, TLC

MCSymmetry == Permutations(AccountIds) \cup Permutations(Transfers)
=============================================================================
