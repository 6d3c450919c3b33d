------------------------- MODULE NotificationConsumer -------------------------
(***************************************************************************)
(* The consumer of the notification service                                *)
(* (services/notification-service/src/consumer.ts): for each message it    *)
(* looks up the addresses it needs, then notifies one recipient after the  *)
(* other.  Nothing of it is stored: told is what the adapters have logged. *)
(*                                                                         *)
(* A topic is a partition here, log[p] its messages; partitions share      *)
(* nothing but the consumer.                                               *)
(***************************************************************************)
EXTENDS Integers, Sequences, BagsExt, Bags

CONSTANTS AccountIds, Owned, MaxFaults

VARIABLES
  log,        \* the messages of each topic: from, to, severity
  position,   \* the offset the consumer group has committed
  handler,    \* handleNotificationEvent for the message at that offset
  told,       \* bag of notifications sent: topic, offset, place in the plan
  faults      \* how often something has failed

notificationVars == <<position, handler, told>>

Topics   == {"completed", "failed", "alert"}
Idle     == [at |-> "idle", sent |-> 0]

NotificationTypeOK ==
  /\ position \in [Topics -> Nat]
  /\ \A p \in Topics : position[p] <= Len(log[p])
  /\ handler \in [Topics -> [at : {"idle", "lookup", "send", "commit"}, sent : Nat]]
  /\ IsABag(told)

NotificationInit ==
  /\ position = [p \in Topics |-> 0]
  /\ handler = [p \in Topics |-> Idle]
  /\ told = EmptyBag

-----------------------------------------------------------------------------
(* buildNotificationPlan: both sides of a completed transfer, the sender   *)
(* of a failed one, the account of an alert, by SMS too if it is serious.  *)

Email(a) == [channel |-> "email", account |-> a]
Sms(a)   == [channel |-> "sms", account |-> a]

Plan(p, message) ==
  CASE p = "completed" -> <<Email(message.from), Email(message.to)>>
    [] p = "failed"    -> <<Email(message.from)>>
    [] p = "alert"     -> IF message.severity \in {"high", "critical"}
                          THEN <<Email(message.from), Sms(message.from)>>
                          ELSE <<Email(message.from)>>

\* The accounts whose e-mail addresses are fetched.  The account service
\* refuses them to a caller that names no user when the account has an owner.
Addressed(p, message) ==
  {message.from} \cup (IF p = "completed" THEN {message.to} ELSE {})

Refuses(p, message) == Addressed(p, message) \cap Owned # {}

\* A topic with messages to come, and a message that can never be handled.
Waiting(p) == position[p] < Len(log[p])
Blocked == \E p \in Topics : Waiting(p) /\ Refuses(p, log[p][position[p] + 1])

Current(p) == log[p][position[p] + 1]
Notice(p)  == <<p, position[p], handler[p].sent + 1>>

Goto(p, label, sent) ==
  handler' = [handler EXCEPT ![p] = [at |-> label, sent |-> sent]]

-----------------------------------------------------------------------------
\* eachMessage is called with the message at the committed offset.
Take(p) ==
  /\ handler[p].at = "idle"
  /\ Waiting(p)
  /\ Goto(p, "lookup", 0)
  /\ UNCHANGED <<log, position, told, faults>>

Tell(p) == told' = BagAdd(told, Notice(p))

\* Mutant: each address is fetched when its turn comes.
LookUp_InTurn(p) ==
  /\ handler[p].at = "lookup"
  /\ Goto(p, IF Refuses(p, Current(p)) THEN "idle" ELSE "send", 0)
  /\ IF Refuses(p, Current(p)) /\ Current(p).from \notin Owned
     THEN Tell(p) ELSE UNCHANGED told
  /\ UNCHANGED <<log, position, faults>>

\* Every address is fetched before anything is sent; a refusal is thrown out
\* of the handler, and the message comes again.
LookUp(p) ==
  /\ handler[p].at = "lookup"
  /\ Goto(p, IF Refuses(p, Current(p)) THEN "idle" ELSE "send", 0)
  /\ UNCHANGED <<log, position, told, faults>>

\* sendEmail, sendSms.
SendNext(p) ==
  /\ handler[p].at = "send"
  /\ Tell(p)
  /\ LET sent == handler[p].sent + 1
     IN Goto(p, IF sent = Len(Plan(p, Current(p))) THEN "commit" ELSE "send", sent)
  /\ UNCHANGED <<log, position, faults>>

Advance(p) == position' = [position EXCEPT ![p] = @ + 1]

Commit(p) ==
  /\ handler[p].at = "commit"
  /\ Advance(p)
  /\ Goto(p, "idle", 0)
  /\ UNCHANGED <<log, told, faults>>

Handle(p) == Take(p) \/ LookUp(p) \/ SendNext(p) \/ Commit(p)

\* Mutant: whatever becomes of it, the message is done with.
Fails_Skips(p) ==
  /\ faults < MaxFaults
  /\ faults' = faults + 1
  /\ handler[p].at # "idle"
  /\ Advance(p)
  /\ Goto(p, "idle", 0)
  /\ UNCHANGED <<log, told>>

\* A lookup fails, the commit fails with or without effect, or the member dies
\* before or after what it was about to do: the message is delivered again.
Fails(p) ==
  /\ faults < MaxFaults
  /\ faults' = faults + 1
  /\ handler[p].at # "idle"
  /\ \/ UNCHANGED <<position, told>>
     \/ handler[p].at = "send"   /\ Tell(p)    /\ UNCHANGED position
     \/ handler[p].at = "commit" /\ Advance(p) /\ UNCHANGED told
  /\ Goto(p, "idle", 0)
  /\ UNCHANGED log

-----------------------------------------------------------------------------
Plans(p, offset) == 1..Len(Plan(p, log[p][offset + 1]))

\* No recipient is passed over: what has been committed has been told to each
\* of them, and what is told in part is told from the start of the plan.
NobodyIsSkipped ==
  \A p \in Topics : \A offset \in 0..(Len(log[p]) - 1) :
    \A i \in Plans(p, offset) :
      /\ position[p] > offset => <<p, offset, i>> \in BagToSet(told)
      /\ <<p, offset, i>> \in BagToSet(told) =>
           \A j \in 1..i : <<p, offset, j>> \in BagToSet(told)

\* A recipient is told again only after a failure, and once per failure: a
\* message that is retried for ever tells nobody.
RepeatsHaveACause ==
  \A n \in BagToSet(told) : told[n] <= 1 + faults
=============================================================================
