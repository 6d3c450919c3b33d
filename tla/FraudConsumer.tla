---------------------------- MODULE FraudConsumer ----------------------------
(***************************************************************************)
(* The consumer of the fraud service (services/fraud-service/src).  For    *)
(* each bank.transfer.initiated message it records the transfer, reads     *)
(* what the rules need, and for each rule that matches stores an alert,    *)
(* publishes it and, if it is critical, freezes the sender.                *)
(*                                                                         *)
(* A worker is a run of processFraudEvent in some member of the consumer   *)
(* group, worker[m].at the await it is suspended at.  Messages are         *)
(* delivered until their offset is committed; a rebalance may deliver one  *)
(* to a second member while the first is still at work on it, and the      *)
(* outbox may publish an event more than once.  The messages of a topic    *)
(* are keyed by transfer, so those of one account are in several           *)
(* partitions, whose order is not kept here.                               *)
(***************************************************************************)
EXTENDS Integers, Sequences, FiniteSetsExt, Sums

CONSTANTS Transfers, AccountIds, Members,
          Owned,          \* the accounts with an owner_id
          Amounts, Times, MaxBalance,
          Moves,          \* what other transfers do to a balance
          LargeAmount, VelocityLimit, RoundUnit,   \* the thresholds of rules.ts
          VelocityWindow, DrainWindow,             \* the hour and the ten minutes
          MaxCopies,      \* how often the outbox publishes one event
          MaxFaults       \* how often something fails

VARIABLES
  event,      \* the announced transfers: sender, amount, timestamp
  copies,     \* how often each has been published
  inbox,      \* the published messages whose offsets are not committed
  balance,    \* column balance of the accounts table
  lowest,     \* history: the lowest balance an account has had
  worker,     \* the runs of processFraudEvent
  activity,   \* collection transfer_activity
  judged,     \* history: the rules found to match an event
  alerts,     \* collection fraud_events
  alertTopic, \* topic bank.fraud.alert
  frozen,     \* the accounts this service has frozen
  faults      \* how often something has failed

ASSUME FraudAssumption ==
  /\ Owned \subseteq AccountIds
  /\ Amounts \subseteq Nat \ {0}
  /\ Times \subseteq Nat
  /\ Moves \subseteq Int
  /\ {MaxBalance, LargeAmount, VelocityLimit, VelocityWindow, DrainWindow,
      MaxCopies, MaxFaults} \subseteq Nat
  /\ RoundUnit \in Nat \ {0}

accountVars == <<balance, lowest>>
stores      == <<inbox, activity, alerts, alertTopic, frozen>>
fraudVars   == <<event, copies, accountVars, worker, judged, stores, faults>>

Rules     == {"large_transfer", "velocity_check", "round_number", "rapid_drain"}
Readings  == {"count", "total", "balance"}
NotRead   == -1
Idle      == [at |-> "idle"]
Reading(t, values) == [at |-> "read", transfer |-> t, values |-> values]
Severity(rule) == CASE rule = "large_transfer" -> "high"
                    [] rule = "velocity_check" -> "medium"
                    [] rule = "round_number"   -> "low"
                    [] rule = "rapid_drain"    -> "critical"

FraudTypeOK ==
  /\ event \in [Transfers -> [from : AccountIds, amount : Amounts, time : Times]]
  /\ copies \in [Transfers -> 0..MaxCopies]
  /\ inbox \subseteq Transfers
  /\ balance \in [AccountIds -> 0..MaxBalance]
  /\ lowest \in [AccountIds -> 0..MaxBalance]
  /\ \A m \in Members :
       worker[m].at \in {"idle", "record", "read", "store", "send", "freeze", "commit"}
  /\ activity \subseteq Transfers
  /\ judged \in [Transfers -> Seq(Rules)]
  /\ alerts \subseteq Transfers \X Rules
  /\ alertTopic \in Seq(Transfers \X Rules)
  /\ frozen \subseteq AccountIds
  /\ faults \in 0..MaxFaults

FraudInit ==
  /\ event \in [Transfers -> [from : AccountIds, amount : Amounts, time : Times]]
  /\ copies = [t \in Transfers |-> 0]
  /\ inbox = {}
  /\ balance \in [AccountIds -> {MaxBalance}]
  /\ lowest = balance
  /\ worker = [m \in Members |-> Idle]
  /\ activity = {}
  /\ judged = [t \in Transfers |-> <<>>]
  /\ alerts = {}
  /\ alertTopic = <<>>
  /\ frozen = {}
  /\ faults = 0

-----------------------------------------------------------------------------
(* The rules (rules.ts) and what they are asked (evaluateRules).           *)

\* The recorded transfers of the sender since some time before the event; the
\* event itself is among them, and so are later ones already recorded.
Recent(t, window) ==
  {u \in activity : event[u].from = event[t].from /\
                    event[u].time >= event[t].time - window}

Outgoing(S) == Sum(S, [t \in Transfers |-> event[t].amount])

LargeTransfer(amount)      == amount > LargeAmount
VelocityCheck(recentCount) == recentCount > VelocityLimit
RoundNumber(amount)        == amount >= RoundUnit /\ amount % RoundUnit = 0

\* More than 80% of what is left; an account drained to zero does not match.
RapidDrain(total, current) == current > 0 /\ 10 * total > 8 * current

If(matches, rule) == IF matches THEN <<rule>> ELSE <<>>

Matching(t, values) ==
  If(LargeTransfer(event[t].amount), "large_transfer")
    \o If(VelocityCheck(values.count), "velocity_check")
    \o If(RoundNumber(event[t].amount), "round_number")
    \o If(RapidDrain(values.total, values.balance), "rapid_drain")

\* The queries and the call of Promise.all, each answering when it does.
ValueOf(what, t) == CASE what = "count"   -> Cardinality(Recent(t, VelocityWindow))
                      [] what = "total"   -> Outgoing(Recent(t, DrainWindow))
                      [] what = "balance" -> balance[event[t].from]

-----------------------------------------------------------------------------
(* processFraudEvent, from one await to the next.                          *)

Goto(m, state) == worker' = [worker EXCEPT ![m] = state]
At(m, await)   == worker[m].at = await

\* The alerts still to be raised, or nothing left but the offset.
Raise(m, t, rules) ==
  Goto(m, IF rules = <<>> THEN [at |-> "commit", transfer |-> t]
          ELSE [at |-> "store", transfer |-> t, rules |-> rules])

NextAlert(m) == Raise(m, worker[m].transfer, Tail(worker[m].rules))
Alert(m)     == <<worker[m].transfer, Head(worker[m].rules)>>

Deliver(m, t) ==
  /\ At(m, "idle")
  /\ t \in inbox
  /\ Goto(m, [at |-> "record", transfer |-> t])
  /\ UNCHANGED <<event, copies, accountVars, judged, stores, faults>>

\* What the await of a worker does to the stores once it takes effect: the
\* insert into transfer_activity, the insert into fraud_events, the send, the
\* freeze, the commit of the offset.  A second insert changes nothing.
Effect(m) ==
  LET t == worker[m].transfer
  IN \/ /\ At(m, "record")
        /\ activity' = activity \cup {t}
        /\ UNCHANGED <<inbox, alerts, alertTopic, frozen>>
     \/ /\ At(m, "store")
        /\ alerts' = alerts \cup {Alert(m)}
        /\ UNCHANGED <<inbox, activity, alertTopic, frozen>>
     \/ /\ At(m, "send")
        /\ alertTopic' = Append(alertTopic, Alert(m))
        /\ UNCHANGED <<inbox, activity, alerts, frozen>>
     \/ /\ At(m, "freeze")
        /\ frozen' = frozen \cup {event[t].from}
        /\ UNCHANGED <<inbox, activity, alerts, alertTopic>>
     \/ /\ At(m, "commit")
        /\ inbox' = inbox \ {t}
        /\ UNCHANGED <<activity, alerts, alertTopic, frozen>>

\* Mutant: the error of the unique index is thrown like any other.
Record_Throws(m) ==
  /\ At(m, "record")
  /\ Effect(m)
  /\ LET t == worker[m].transfer
     IN Goto(m, IF t \in activity THEN Idle
                ELSE Reading(t, [what \in Readings |-> NotRead]))
  /\ UNCHANGED <<event, copies, accountVars, judged, faults>>

\* persistActivity: an event that is there already is not looked at again.
Record(m) ==
  /\ At(m, "record")
  /\ Effect(m)
  /\ LET t == worker[m].transfer
     IN IF t \in activity THEN Raise(m, t, <<>>)
        ELSE Goto(m, Reading(t, [what \in Readings |-> NotRead]))
  /\ UNCHANGED <<event, copies, accountVars, judged, faults>>

\* One of the three answers arrives; the last one lets the rules be applied.
\* The account service refuses the balance of an account with an owner to a
\* caller that names no user.
Read(m, what) ==
  /\ At(m, "read")
  /\ worker[m].values[what] = NotRead
  /\ LET t      == worker[m].transfer
         values == [worker[m].values EXCEPT ![what] = ValueOf(what, t)]
         rules  == Matching(t, values)
     IN  /\ what = "balance" => event[t].from \notin Owned
         /\ IF NotRead \in {values[w] : w \in Readings}
            THEN Goto(m, Reading(t, values)) /\ UNCHANGED judged
            ELSE Raise(m, t, rules) /\ judged' = [judged EXCEPT ![t] = rules]
  /\ UNCHANGED <<event, copies, accountVars, stores, faults>>

\* The 403 is thrown out of processFraudEvent, and the message comes again.
Refused(m) ==
  /\ At(m, "read")
  /\ event[worker[m].transfer].from \in Owned
  /\ Goto(m, Idle)
  /\ UNCHANGED <<event, copies, accountVars, judged, stores, faults>>

\* persistAndEmitAlert: an alert that is stored already is neither sent nor
\* acted upon again.
Store(m) ==
  /\ At(m, "store")
  /\ Effect(m)
  /\ IF Alert(m) \in alerts THEN NextAlert(m)
     ELSE Goto(m, [worker[m] EXCEPT !.at = "send"])
  /\ UNCHANGED <<event, copies, accountVars, judged, faults>>

\* Mutant: the account is frozen for an alert of high severity too.
Send_FreezesHigh(m) ==
  /\ At(m, "send")
  /\ Effect(m)
  /\ IF Severity(Head(worker[m].rules)) \in {"critical", "high"}
     THEN Goto(m, [worker[m] EXCEPT !.at = "freeze"])
     ELSE NextAlert(m)
  /\ UNCHANGED <<event, copies, accountVars, judged, faults>>

Send(m) ==
  /\ At(m, "send")
  /\ Effect(m)
  /\ IF Severity(Head(worker[m].rules)) = "critical"
     THEN Goto(m, [worker[m] EXCEPT !.at = "freeze"])
     ELSE NextAlert(m)
  /\ UNCHANGED <<event, copies, accountVars, judged, faults>>

Freeze(m) ==
  /\ At(m, "freeze")
  /\ Effect(m)
  /\ NextAlert(m)
  /\ UNCHANGED <<event, copies, accountVars, judged, faults>>

Commit(m) ==
  /\ At(m, "commit")
  /\ Effect(m)
  /\ Goto(m, Idle)
  /\ UNCHANGED <<event, copies, accountVars, judged, faults>>

Process(m) ==
  \/ \E t \in Transfers : Deliver(m, t)
  \/ Record(m) \/ Store(m) \/ Send(m) \/ Freeze(m) \/ Commit(m)
  \/ \E what \in Readings : Read(m, what)
  \/ Refused(m)

\* Mutant: an alert that cannot be stored is skipped.
Fails_Skips(m) ==
  /\ faults < MaxFaults
  /\ faults' = faults + 1
  /\ At(m, "store")
  /\ NextAlert(m)
  /\ UNCHANGED <<event, copies, accountVars, judged, stores>>

\* An await throws, with or without effect, or the member dies in it.  Nothing
\* is caught: the message is delivered again.
Fails(m) ==
  /\ faults < MaxFaults
  /\ faults' = faults + 1
  /\ ~At(m, "idle")
  /\ Effect(m) \/ UNCHANGED stores
  /\ Goto(m, Idle)
  /\ UNCHANGED <<event, copies, accountVars, judged>>

-----------------------------------------------------------------------------
(* The outbox, which announces a transfer before it is debited, and the    *)
(* balances, which change while the event is on its way.                   *)

Publish(t) ==
  /\ copies[t] < MaxCopies
  /\ copies' = [copies EXCEPT ![t] = @ + 1]
  /\ inbox' = inbox \cup {t}
  /\ UNCHANGED <<event, accountVars, worker, activity, judged, alerts, alertTopic,
                 frozen, faults>>

\* A debit, refund or credit, of this transfer or of any other, which a frozen
\* account refuses.  The balances of owned accounts are never read, and are
\* left alone.
Move(a, amount) ==
  /\ a \notin Owned \cup frozen
  /\ balance[a] + amount \in 0..MaxBalance
  /\ balance' = [balance EXCEPT ![a] = @ + amount]
  /\ lowest' = [lowest EXCEPT ![a] = Min({@, balance[a] + amount})]
  /\ UNCHANGED <<event, copies, worker, judged, stores, faults>>

FraudNext ==
  \/ \E m \in Members : Process(m) \/ Fails(m)
  \/ \E t \in Transfers : Publish(t)
  \/ \E a \in AccountIds, x \in Moves : Move(a, x)

\* The broker delivers what is not committed, and awaits settle.
FraudFairness == \A m \in Members : WF_fraudVars(Process(m))

FraudSpec == FraudInit /\ [][FraudNext]_fraudVars /\ FraudFairness

-----------------------------------------------------------------------------
Stored(t) == {rule \in Rules : <<t, rule>> \in alerts}
Published(t) == {i \in DOMAIN alertTopic : alertTopic[i][1] = t}

\* Which of the alerts about the transfer a message is.
Rank(t, i) == Cardinality({j \in Published(t) : j <= i})

\* The rules of an event are acted upon once, in their order, whatever is
\* redelivered, published twice or handled by two members at once: the stored
\* alerts are the first of the matching ones, and all of them, or all but the
\* last, have been published once.  After a failure the rest is lost for good;
\* rapid_drain comes last, so its freeze is the first thing to be lost.
AlertsComeInOrder ==
  \A t \in Transfers :
    LET n == Cardinality(Stored(t))
    IN  /\ n <= Len(judged[t])
        /\ Stored(t) = {judged[t][i] : i \in 1..n}
        /\ Cardinality(Published(t)) \in {n - 1, n}
        /\ \A i \in Published(t) : alertTopic[i][2] = judged[t][Rank(t, i)]

\* An account is frozen only when the transfers recorded for it exceed 80% of
\* the least it ever held, whenever the balance was read.  Recorded is not
\* debited: transfers that were refused count too.
FreezesAreDeserved ==
  \A a \in frozen :
    10 * Outgoing({t \in activity : event[t].from = a}) > 8 * lowest[a]

\* "for each triggered rule, persist one fraud alert document": a large
\* transfer whose message has been consumed has its alert.  The balance of an
\* owned account cannot be read, and the redelivered message is a duplicate.
LargeTransfersAreAlerted ==
  \A t \in Transfers :
    /\ copies[t] > 0 /\ t \notin inbox
    /\ \A m \in Members : At(m, "idle")
    /\ LargeTransfer(event[t].amount)
    => <<t, "large_transfer">> \in alerts
=============================================================================
