-------------------------- MODULE TransferContract --------------------------
(***************************************************************************)
(* What the transfer service promises about one transfer, with the saga,   *)
(* the account service and their calls left out: where the money is, and   *)
(* what the record says of it.  TransferSaga implements it under the       *)
(* mapping given there, as long as the transfer service reads every answer *)
(* and commits every transaction it survives.                              *)
(***************************************************************************)
CONSTANT Transfers

VARIABLES
  outcome,  \* what the record says: none, pending or how the transfer ended
  money     \* who has the money of the transfer

contractVars == <<outcome, money>>

TypeOK ==
  /\ outcome \in [Transfers -> {"none", "pending", "completed", "failed", "stranded"}]
  /\ money \in [Transfers -> {"sender", "held", "receiver", "returned"}]

Init ==
  /\ outcome = [t \in Transfers |-> "none"]
  /\ money = [t \in Transfers |-> "sender"]

Record(t) ==
  /\ outcome[t] = "none"
  /\ outcome' = [outcome EXCEPT ![t] = "pending"]
  /\ UNCHANGED money

\* Money moves only for a recorded transfer that has not ended, away from the
\* sender once, and from there either to the receiver or back.
Move(t, from, to) ==
  /\ outcome[t] = "pending"
  /\ money[t] = from
  /\ money' = [money EXCEPT ![t] = to]
  /\ UNCHANGED outcome

\* The transfer ends with the outcome that tells where its money is.
Conclude(t, places, how) ==
  /\ outcome[t] = "pending"
  /\ money[t] \in places
  /\ outcome' = [outcome EXCEPT ![t] = how]
  /\ UNCHANGED money

Ends(t) ==
  \/ Conclude(t, {"receiver"}, "completed")
  \/ Conclude(t, {"sender", "returned"}, "failed")
  \/ Conclude(t, {"held"}, "stranded")

Moves(t) ==
  \/ Move(t, "sender", "held")
  \/ Move(t, "held", "receiver")
  \/ Move(t, "held", "returned")

Next == \E t \in Transfers : Record(t) \/ Moves(t) \/ Ends(t)

Spec == Init /\ [][Next]_contractVars
=============================================================================
