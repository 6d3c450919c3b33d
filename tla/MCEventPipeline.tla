--------------------------- MODULE MCEventPipeline ---------------------------
(***************************************************************************)
(* The outbox, Kafka and the ledger, checked by TLC.                       *)
(***************************************************************************)
EXTENDS EventPipeline

=============================================================================
