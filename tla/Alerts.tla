-------------------------------- MODULE Alerts --------------------------------
(***************************************************************************)
(* From the announcement of a transfer to the people who are told of it:   *)
(* the fraud service turns announcements into alerts, the notification     *)
(* service reads the alerts and the endings of transfers.                  *)
(***************************************************************************)
EXTENDS FraudConsumer

VARIABLES
  endings,              \* topics bank.transfer.completed and .failed
  position, handler, told

\* Message formats: what the notification service uses of the events.
AlertMessages ==
  [i \in 1..Len(alertTopic) |->
     LET a == event[alertTopic[i][1]].from
     IN [from |-> a, to |-> a, severity |-> Severity(alertTopic[i][2])]]

Notification == INSTANCE NotificationConsumer
  WITH log <- [p \in {"completed", "failed", "alert"} |->
                 IF p = "alert" THEN AlertMessages ELSE endings[p]]

notifyVars == <<position, handler, told>>
alertsVars == <<fraudVars, endings, notifyVars>>

AlertsTypeOK == FraudTypeOK /\ Notification!NotificationTypeOK

AlertsInit ==
  /\ FraudInit
  /\ endings = [p \in {"completed", "failed"} |-> <<>>]
  /\ Notification!NotificationInit

-----------------------------------------------------------------------------
\* The outbox publishes the ending of a transfer, once.
End(t, p, to) ==
  /\ copies[t] > 0
  /\ to # event[t].from
  /\ \A q \in DOMAIN endings : \A i \in DOMAIN endings[q] :
       endings[q][i].transfer # t
  /\ endings' = [endings EXCEPT ![p] =
       Append(@, [from |-> event[t].from, to |-> to, severity |-> "none",
                  transfer |-> t])]
  /\ UNCHANGED <<fraudVars, notifyVars>>

Fraud == FraudNext /\ UNCHANGED <<endings, notifyVars>>

Notify(p) ==
  /\ UNCHANGED <<fraudVars, endings>>
  /\ Notification!Handle(p)

NotifyFails(p) ==
  /\ UNCHANGED <<event, copies, accountVars, worker, judged, stores, endings>>
  /\ Notification!Fails(p)

AlertsNext ==
  \/ Fraud
  \/ \E t \in Transfers, p \in DOMAIN endings, a \in AccountIds : End(t, p, a)
  \/ \E p \in Notification!Topics : Notify(p) \/ NotifyFails(p)

\* Members poll, awaits settle.
AlertsFairness ==
  /\ \A m \in Members :
       WF_alertsVars(Process(m) /\ UNCHANGED <<endings, notifyVars>>)
  /\ \A p \in Notification!Topics : WF_alertsVars(Notify(p))

AlertsSpec == AlertsInit /\ [][AlertsNext]_alertsVars /\ AlertsFairness

-----------------------------------------------------------------------------
\* Nobody is passed over, with the alerts of the fraud service as messages.
NobodyIsSkipped == Notification!NobodyIsSkipped

\* Nobody is told twice without a cause, with real alerts as messages.
RepeatsHaveACause == Notification!RepeatsHaveACause

\* Announcements are consumed even if the balance of their sender cannot be
\* read; every topic is told to its end, unless a message about an owned
\* account is in the way: that one is refused and retried for ever.
MessagesAreConsumed ==
  /\ \A t \in Transfers : t \in inbox ~> t \notin inbox
  /\ \A p \in Notification!Topics :
       Notification!Waiting(p) ~> ~Notification!Waiting(p) \/ Notification!Blocked
=============================================================================
