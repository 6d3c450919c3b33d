----------------------------- MODULE AlertsProofs -----------------------------
(***************************************************************************)
(* What the fraud and notification services promise, proved for any number *)
(* of transfers, accounts and members, any thresholds and windows, however *)
(* often events are published and consumers fail.                          *)
(***************************************************************************)
EXTENDS Alerts, SumsProofs, SequenceTheorems

-----------------------------------------------------------------------------
(* The inductive invariant of the fraud service.                           *)

Events == [from : AccountIds, amount : Amounts, time : Times]

\* The alerts of a transfer that are stored are the first n of those it is
\* judged to deserve; those that are published are the first n.
StoredFirst(t, n) ==
  /\ n \in 0..Len(judged[t])
  /\ Stored(t) = {judged[t][i] : i \in 1..n}

PublishedFirst(t, n) ==
  /\ IsFiniteSet(Published(t)) /\ Cardinality(Published(t)) = n
  /\ \A i \in Published(t) : alertTopic[i][2] = judged[t][Rank(t, i)]

\* The transfers recorded for an account are a drain of it, and will be.
Drained(a) == 10 * Outgoing({t \in activity : event[t].from = a}) > 8 * lowest[a]

Ordered(t) ==
  /\ \A i, j \in DOMAIN judged[t] : judged[t][i] = judged[t][j] => i = j
  /\ \E n \in Nat :
       /\ StoredFirst(t, n)
       /\ PublishedFirst(t, n) \/ (n > 0 /\ PublishedFirst(t, n - 1))
  /\ (\E i \in DOMAIN judged[t] : judged[t][i] = "rapid_drain") => Drained(event[t].from)
  /\ t \notin activity => judged[t] = <<>>

\* What a worker that has recorded t knows: what it has read is true enough ...
ReadsTruly(t, values) ==
  /\ judged[t] = <<>>
  /\ values \in [Readings -> Int]
  /\ values["total"] # NotRead =>
       values["total"] \in 0..Outgoing({u \in activity : event[u].from = event[t].from})
  /\ values["balance"] # NotRead =>
       values["balance"] \in Nat /\ lowest[event[t].from] <= values["balance"]

\* ... and the alerts it has not raised yet are the last of those deserved.
RaisesRest(t, at, rules) ==
  /\ rules \in Seq(Rules) /\ rules # <<>>
  /\ Len(rules) <= Len(judged[t])
  /\ \A i \in 1..Len(rules) : rules[i] = judged[t][Len(judged[t]) - Len(rules) + i]
  /\ StoredFirst(t, Len(judged[t]) - Len(rules) + IF at = "store" THEN 0 ELSE 1)
  /\ PublishedFirst(t, Len(judged[t]) - Len(rules) + IF at = "freeze" THEN 1 ELSE 0)
  /\ at = "freeze" => rules[1] = "rapid_drain"

Raising == {"store", "send", "freeze"}

WorkerKnows(m) ==
  \/ worker[m] = Idle
  \/ \E t \in Transfers :
       \/ worker[m] = [at |-> "record", transfer |-> t]
       \/ worker[m] = [at |-> "commit", transfer |-> t]
       \/ \E values \in [Readings -> Int] :
            worker[m] = Reading(t, values) /\ ReadsTruly(t, values)
       \/ \E at \in Raising, rules \in Seq(Rules) :
            /\ worker[m] = [at |-> at, transfer |-> t, rules |-> rules]
            /\ RaisesRest(t, at, rules)

\* Only the worker that recorded a transfer judges it.
Judges(m, t) == worker[m].at \in {"read"} \cup Raising /\ worker[m].transfer = t

OneJudge ==
  \A t \in Transfers : \A m, o \in Members :
    Judges(m, t) => t \in activity /\ (Judges(o, t) => m = o)

StoresTyped ==
  /\ event \in [Transfers -> Events]
  /\ balance \in [AccountIds -> 0..MaxBalance]
  /\ lowest \in [AccountIds -> 0..MaxBalance]
  /\ \A a \in AccountIds : lowest[a] <= balance[a]
  /\ activity \subseteq Transfers /\ IsFiniteSet(activity)
  /\ judged \in [Transfers -> Seq(Rules)]
  /\ alerts \subseteq Transfers \X Rules
  /\ alertTopic \in Seq(Transfers \X Rules)
  /\ frozen \subseteq AccountIds

FraudInv ==
  /\ StoresTyped
  /\ DOMAIN worker = Members
  /\ \A m \in Members : WorkerKnows(m)
  /\ OneJudge
  /\ \A t \in Transfers : Ordered(t)
  /\ \A a \in frozen : Drained(a)

-----------------------------------------------------------------------------
(* The rules.                                                              *)

Draws(s, S) ==
  s \in Seq(S) /\ \A i, j \in DOMAIN s : s[i] = s[j] => i = j

LEMMA IfAdds ==
  ASSUME NEW S, NEW s, Draws(s, S), NEW b \in BOOLEAN, NEW r, r \notin S
  PROVE  /\ Draws(s \o If(b, r), S \cup {r})
         /\ ~b => Draws(s \o If(b, r), S)
<1>1. s \in Seq(S) /\ s \in Seq(S \cup {r})
  BY DEF Draws
<1>2. CASE b
  <2>1. s \o If(b, r) = Append(s, r)
    BY <1>1, <1>2 DEF If
  <2> DEFINE q == Append(s, r)
  <2>2. /\ q \in Seq(S \cup {r}) /\ DOMAIN q = 1..(Len(s) + 1) /\ Len(s) \in Nat
        /\ DOMAIN s = 1..Len(s)
        /\ \A i \in 1..Len(s) : q[i] = s[i] /\ s[i] \in S
        /\ q[Len(s) + 1] = r
    BY <1>1
  <2> HIDE DEF q
  <2>3. ASSUME NEW i \in DOMAIN q, NEW j \in DOMAIN q, q[i] = q[j] PROVE i = j
    BY <2>2, <2>3 DEF Draws
  <2> QED
    BY <1>2, <2>1, <2>2, <2>3 DEF Draws, q
<1>3. CASE ~b
  <2>1. s \o If(b, r) = s
    BY <1>1, <1>3 DEF If
  <2> QED
    BY <1>1, <2>1 DEF Draws
<1> QED
  BY <1>2, <1>3

LEMMA MatchingIs ==
  ASSUME NEW t \in Transfers, NEW values
  PROVE  /\ Matching(t, values) \in Seq(Rules)
         /\ \A i, j \in DOMAIN Matching(t, values) :
              Matching(t, values)[i] = Matching(t, values)[j] => i = j
         /\ \A i \in DOMAIN Matching(t, values) :
              Matching(t, values)[i] = "rapid_drain" => RapidDrain(values.total, values.balance)
<1>1. ASSUME NEW c1 \in BOOLEAN, NEW c2 \in BOOLEAN, NEW c3 \in BOOLEAN, NEW c4 \in BOOLEAN
      PROVE  LET s == If(c1, "large_transfer") \o If(c2, "velocity_check")
                        \o If(c3, "round_number") \o If(c4, "rapid_drain")
             IN  Draws(s, Rules) /\ (~c4 => Draws(s, Rules \ {"rapid_drain"}))
  <2> DEFINE s1 == If(c1, "large_transfer")
             s2 == s1 \o If(c2, "velocity_check")
             s3 == s2 \o If(c3, "round_number")
             s4 == s3 \o If(c4, "rapid_drain")
  <2>1. Draws(s1, {"large_transfer"})
    BY DEF If, Draws
  <2>2. Draws(s2, {"large_transfer", "velocity_check"})
    <3> HIDE DEF s1
    <3> QED
      BY <2>1, IfAdds, {"large_transfer"} \cup {"velocity_check"} = {"large_transfer", "velocity_check"}
  <2>3. Draws(s3, Rules \ {"rapid_drain"})
    <3>1. /\ {"large_transfer", "velocity_check"} \cup {"round_number"} = Rules \ {"rapid_drain"}
          /\ "round_number" \notin {"large_transfer", "velocity_check"}
      BY DEF Rules
    <3> HIDE DEF s2
    <3> QED
      BY <2>2, <3>1, IfAdds
  <2>4. Draws(s4, Rules) /\ (~c4 => Draws(s4, Rules \ {"rapid_drain"}))
    <3>1. /\ (Rules \ {"rapid_drain"}) \cup {"rapid_drain"} = Rules
          /\ "rapid_drain" \notin Rules \ {"rapid_drain"}
      BY DEF Rules
    <3> HIDE DEF s3
    <3> QED
      BY <2>3, <3>1, IfAdds
  <2> QED
    BY <2>4
<1>2. /\ LargeTransfer(event[t].amount) \in BOOLEAN /\ VelocityCheck(values.count) \in BOOLEAN
      /\ RoundNumber(event[t].amount) \in BOOLEAN
      /\ RapidDrain(values.total, values.balance) \in BOOLEAN
  BY DEF LargeTransfer, VelocityCheck, RoundNumber, RapidDrain
<1>3. /\ Draws(Matching(t, values), Rules)
      /\ ~RapidDrain(values.total, values.balance) =>
           Draws(Matching(t, values), Rules \ {"rapid_drain"})
  BY ONLY <1>1, <1>2 DEF Matching
<1>4. Matching(t, values) \in Seq(Rules \ {"rapid_drain"}) =>
        \A i \in DOMAIN Matching(t, values) : Matching(t, values)[i] # "rapid_drain"
  OBVIOUS
<1> QED
  BY <1>3, <1>4 DEF Draws

-----------------------------------------------------------------------------
(* What other steps leave as it is.                                        *)

Spent(a) == {t \in activity : event[t].from = a}

\* More transfers are recorded, balances sink lower than ever.
MoneyGoesOn ==
  /\ StoresTyped' /\ event' = event
  /\ activity \subseteq activity'
  /\ \A a \in AccountIds : lowest'[a] <= lowest[a]

LEMMA SpentGrows ==
  ASSUME StoresTyped, MoneyGoesOn, NEW a
  PROVE  /\ Outgoing(Spent(a)) \in Nat /\ Outgoing(Spent(a))' \in Nat
         /\ Outgoing(Spent(a)) <= Outgoing(Spent(a))'
<1> DEFINE f == [t \in Transfers |-> event[t].amount]
           T == Spent(a)'
<1>1. IsFiniteSet(T) /\ Spent(a) \in SUBSET T
  <2>1. T \subseteq activity' /\ IsFiniteSet(activity')
    BY DEF MoneyGoesOn, StoresTyped, Spent
  <2> QED
    BY <2>1, FS_Subset DEF MoneyGoesOn, Spent
<1>2. \A t \in T : f[t] \in Nat
  BY FraudAssumption DEF MoneyGoesOn, StoresTyped, Spent, Events
<1>3. Outgoing(Spent(a)) = Sum(Spent(a), f) /\ Outgoing(Spent(a))' = Sum(T, f)
  BY DEF MoneyGoesOn, Outgoing
<1> HIDE DEF f, T
<1> QED
  BY <1>1, <1>2, <1>3, SumSubset

LEMMA DrainedIs == \A a : Drained(a) <=> 10 * Outgoing(Spent(a)) > 8 * lowest[a]
  BY DEF Drained, Spent

LEMMA DrainedIsNext == (\A a : Drained(a) <=> 10 * Outgoing(Spent(a)) > 8 * lowest[a])'
  BY DrainedIs, PTL

LEMMA DrainedStays ==
  ASSUME StoresTyped, MoneyGoesOn, NEW a \in AccountIds, Drained(a)
  PROVE  Drained(a)'
<1>1. PICK x \in Nat, y \in Nat : x = Outgoing(Spent(a)) /\ y = Outgoing(Spent(a))' /\ x <= y
  BY SpentGrows
<1>2. PICK v \in Nat, w \in Nat : v = lowest[a] /\ w = lowest'[a] /\ w <= v
  BY FraudAssumption DEF MoneyGoesOn, StoresTyped
<1>3. 10 * x > 8 * v
  BY <1>1, <1>2, DrainedIs
<1>4. 10 * y > 8 * w
  BY ONLY <1>1, <1>2, <1>3
<1> QED
  BY <1>1, <1>2, <1>4, DrainedIsNext

\* Nothing is judged, stored or published about a transfer.
SameAlerts(u) ==
  /\ judged'[u] = judged[u]
  /\ Stored(u)' = Stored(u)
  /\ Published(u)' = Published(u)
  /\ \A i \in Published(u) : alertTopic'[i] = alertTopic[i]

LEMMA OrderStays ==
  ASSUME NEW u, SameAlerts(u), NEW n
  PROVE  /\ StoredFirst(u, n)' <=> StoredFirst(u, n)
         /\ PublishedFirst(u, n)' <=> PublishedFirst(u, n)
  BY DEF SameAlerts, StoredFirst, PublishedFirst, Rank

LEMMA OrderedStays ==
  ASSUME StoresTyped, MoneyGoesOn, NEW u \in Transfers, SameAlerts(u), Ordered(u)
  PROVE  Ordered(u)'
<1>1. PICK n \in Nat :
        /\ StoredFirst(u, n)
        /\ PublishedFirst(u, n) \/ (n > 0 /\ PublishedFirst(u, n - 1))
  BY DEF Ordered
<1>2. /\ StoredFirst(u, n)'
      /\ PublishedFirst(u, n)' \/ (n > 0 /\ PublishedFirst(u, n - 1)')
  BY <1>1, OrderStays
<1>3. event[u].from \in AccountIds /\ event' = event
  BY DEF StoresTyped, MoneyGoesOn, Events
<1>4. Drained(event[u].from) => Drained(event[u].from)'
  BY <1>3, DrainedStays
<1>5. judged'[u] = judged[u] /\ (u \notin activity' => u \notin activity)
  BY DEF SameAlerts, MoneyGoesOn
<1> QED
  BY <1>2, <1>3, <1>4, <1>5 DEF Ordered

LEMMA KnowledgeStays ==
  ASSUME StoresTyped, MoneyGoesOn, NEW m \in Members, WorkerKnows(m),
         worker'[m] = worker[m],
         \A u \in Transfers : Judges(m, u) => SameAlerts(u)
  PROVE  WorkerKnows(m)'
<1>1. ASSUME NEW t \in Transfers, NEW values \in [Readings -> Int],
             worker[m] = Reading(t, values), ReadsTruly(t, values)
      PROVE  WorkerKnows(m)'
  <2>1. SameAlerts(t)
    BY <1>1 DEF Judges, Reading
  <2>2. event[t].from \in AccountIds /\ event' = event
    BY DEF StoresTyped, MoneyGoesOn, Events
  <2>3. PICK a \in AccountIds, x \in Nat, y \in Nat :
          /\ a = event[t].from /\ x = Outgoing(Spent(a)) /\ y = Outgoing(Spent(a))'
          /\ x <= y
    BY SpentGrows, <2>2
  <2>7. x = Outgoing({u \in activity : event[u].from = event[t].from})
    BY <2>3 DEF Spent
  <2>8. y = Outgoing({u \in activity : event[u].from = event[t].from})'
    BY <2>2, <2>3 DEF Spent, Outgoing
  <2>9. values["total"] # NotRead => values["total"] \in 0..x
    BY <1>1, <2>7 DEF ReadsTruly
  <2>10. values["total"] # NotRead => values["total"] \in 0..y
    <3> HIDE DEF NotRead
    <3> QED
      BY <1>1, <2>3, <2>9
  <2>4. (values["total"] # NotRead =>
          values["total"] \in 0..Outgoing({u \in activity : event[u].from = event[t].from}))'
    BY ONLY <2>8, <2>10
  <2>5. lowest'[event[t].from] <= lowest[event[t].from]
    BY <2>2 DEF MoneyGoesOn
  <2>11. judged'[t] = <<>> /\ values \in [Readings -> Int]
    BY <1>1, <2>1 DEF ReadsTruly, SameAlerts
  <2>12. values["balance"] # NotRead =>
          values["balance"] \in Nat /\ lowest'[event'[t].from] <= values["balance"]
    <3>1. PICK v \in Nat, w \in Nat : v = lowest[a] /\ w = lowest'[a] /\ w <= v
      BY FraudAssumption DEF StoresTyped, MoneyGoesOn
    <3>2. values["balance"] # NotRead => values["balance"] \in Nat /\ v <= values["balance"]
      BY <1>1, <2>3, <3>1 DEF ReadsTruly
    <3>3. values["balance"] # NotRead => values["balance"] \in Nat /\ w <= values["balance"]
      BY ONLY <3>1, <3>2
    <3> QED
      BY <2>2, <2>3, <3>1, <3>3
  <2>6. ReadsTruly(t, values)'
    BY ONLY <2>4, <2>11, <2>12 DEF ReadsTruly
  <2> QED
    BY <1>1, <2>6 DEF WorkerKnows, Reading
<1>2. ASSUME NEW t \in Transfers, NEW at \in Raising, NEW rules \in Seq(Rules),
             worker[m] = [at |-> at, transfer |-> t, rules |-> rules],
             RaisesRest(t, at, rules)
      PROVE  WorkerKnows(m)'
  <2>1. SameAlerts(t)
    BY <1>2 DEF Judges, Raising
  <2>2. RaisesRest(t, at, rules)'
    BY <1>2, <2>1, OrderStays DEF RaisesRest, SameAlerts
  <2> QED
    BY <1>2, <2>2 DEF WorkerKnows
<1> QED
  BY <1>1, <1>2 DEF WorkerKnows

-----------------------------------------------------------------------------
(* A step of worker m with transfer t.                                     *)

StepOf(m, t) ==
  /\ MoneyGoesOn
  /\ \A u \in Transfers \ {t} : SameAlerts(u)
  /\ Ordered(t)'
  /\ SameAlerts(t) \/ Judges(m, t)
  /\ DOMAIN worker' = Members
  /\ \A o \in Members \ {m} : worker'[o] = worker[o]
  /\ WorkerKnows(m)'
  /\ \A u \in Transfers : Judges(m, u)' =>
       /\ u = t /\ t \in activity'
       /\ Judges(m, t) \/ t \notin activity
  /\ \A a \in frozen' : a \in frozen \/ Drained(a)'

LEMMA StepKeeps ==
  ASSUME FraudInv, NEW m \in Members, NEW t \in Transfers, StepOf(m, t)
  PROVE  FraudInv'
<1>1. StoresTyped /\ MoneyGoesOn /\ StoresTyped'
  BY DEF FraudInv, StepOf, MoneyGoesOn
<1>2. ASSUME NEW u \in Transfers PROVE Ordered(u)'
  BY <1>1, OrderedStays DEF FraudInv, StepOf
<1>3. ASSUME NEW o \in Members PROVE WorkerKnows(o)'
  <2>1. CASE o = m
    BY <2>1 DEF StepOf
  <2>2. CASE o # m
    <3>1. \A u \in Transfers : Judges(o, u) => SameAlerts(u)
      BY <2>2 DEF FraudInv, OneJudge, StepOf
    <3> QED
      BY <1>1, <2>2, <3>1, KnowledgeStays DEF FraudInv, StepOf
  <2> QED
    BY <2>1, <2>2
<1>4. OneJudge'
  <2>1. \A o \in Members \ {m}, u \in Transfers : Judges(o, u)' <=> Judges(o, u)
    BY DEF StepOf, Judges
  <2>2. \A o \in Members, u \in Transfers : Judges(o, u)' => u \in activity'
    BY <2>1 DEF FraudInv, OneJudge, StepOf, MoneyGoesOn
  <2>3. \A o \in Members \ {m}, u \in Transfers : ~(Judges(o, u)' /\ Judges(m, u)')
    BY <2>1 DEF FraudInv, OneJudge, StepOf
  <2> QED
    BY <2>1, <2>2, <2>3 DEF FraudInv, OneJudge
<1>5. \A a \in frozen' : Drained(a)'
  BY <1>1, DrainedStays DEF FraudInv, StepOf, StoresTyped
<1> QED
  BY <1>1, <1>2, <1>3, <1>4, <1>5 DEF FraudInv, StepOf

\* No store changes.
LEMMA SameStores ==
  ASSUME StoresTyped, UNCHANGED <<event, accountVars, judged, activity, alerts, alertTopic, frozen>>
  PROVE  MoneyGoesOn /\ \A u \in Transfers : SameAlerts(u)
<1>1. MoneyGoesOn
  BY DEF StoresTyped, MoneyGoesOn, accountVars
<1> QED
  BY <1>1 DEF SameAlerts, Stored, Published

\* A transfer is recorded.
LEMMA Recorded ==
  ASSUME StoresTyped, NEW t \in Transfers, activity' = activity \cup {t},
         UNCHANGED <<event, accountVars, judged, alerts, alertTopic, frozen>>
  PROVE  MoneyGoesOn /\ \A u \in Transfers : SameAlerts(u)
<1>1. IsFiniteSet(activity')
  BY FS_AddElement DEF StoresTyped
<1>2. MoneyGoesOn
  BY <1>1 DEF StoresTyped, MoneyGoesOn, accountVars
<1> QED
  BY <1>2 DEF SameAlerts, Stored, Published

\* Where the alerts still to be raised begin among those deserved.
LEMMA RestBegins ==
  ASSUME StoresTyped, NEW t \in Transfers, NEW at, NEW rules \in Seq(Rules),
         RaisesRest(t, at, rules)
  PROVE  \E n \in Nat :
           /\ Len(judged[t]) - Len(rules) = n /\ n + 1 <= Len(judged[t])
           /\ rules[1] = judged[t][n + 1] /\ judged[t] \in Seq(Rules)
<1>1. /\ judged[t] \in Seq(Rules) /\ rules # <<>>
      /\ Len(rules) <= Len(judged[t])
      /\ \A i \in 1..Len(rules) : rules[i] = judged[t][Len(judged[t]) - Len(rules) + i]
  BY DEF RaisesRest, StoresTyped
<1>2. Len(rules) \in Nat \ {0} /\ Len(judged[t]) \in Nat
  BY <1>1, EmptySeq
<1>3. PICK k \in Nat \ {0}, l \in Nat : k = Len(rules) /\ l = Len(judged[t])
  BY <1>2
<1>4. k <= l /\ rules[1] = judged[t][l - k + 1]
  BY <1>1, <1>3
<1>5. PICK n \in Nat : l - k = n /\ n + 1 <= l
  BY <1>4
<1> QED
  BY <1>1, <1>3, <1>4, <1>5

\* An alert is stored.
LEMMA StoresOne ==
  ASSUME FraudInv, NEW t \in Transfers, NEW rules \in Seq(Rules),
         RaisesRest(t, "store", rules),
         alerts' = alerts \cup {<<t, Head(rules)>>},
         UNCHANGED <<event, accountVars, judged, activity, alertTopic, frozen>>
  PROVE  /\ MoneyGoesOn /\ \A u \in Transfers \ {t} : SameAlerts(u)
         /\ <<t, Head(rules)>> \notin alerts
         /\ RaisesRest(t, "send", rules)' /\ Ordered(t)'
<1>1. StoresTyped /\ Ordered(t)
  BY DEF FraudInv
<1>2. PICK r \in Rules : r = Head(rules) /\ r = rules[1]
  BY DEF RaisesRest
<1>3. MoneyGoesOn
  BY <1>1, <1>2 DEF StoresTyped, MoneyGoesOn, accountVars
<1>4. \A u \in Transfers \ {t} : SameAlerts(u)
  BY <1>2 DEF SameAlerts, Stored, Published
<1>5. PICK n \in Nat :
        /\ Len(judged[t]) - Len(rules) = n /\ n + 1 <= Len(judged[t])
        /\ rules[1] = judged[t][n + 1] /\ judged[t] \in Seq(Rules)
  BY <1>1, RestBegins
<1>6. r = judged[t][n + 1] /\ n + 0 = n
  BY <1>2, <1>5
<1>7. StoredFirst(t, n) /\ PublishedFirst(t, n)
  BY <1>5, <1>6 DEF RaisesRest
<1>8. r \notin Stored(t)
  <2>1. n + 1 \in DOMAIN judged[t] /\ \A i \in 1..n : i \in DOMAIN judged[t] /\ i # n + 1
    BY <1>5
  <2>2. \A i \in 1..n : judged[t][i] # r
    BY <1>1, <1>6, <2>1 DEF Ordered
  <2> QED
    BY <1>7, <2>2 DEF StoredFirst
<1>9. Stored(t)' = Stored(t) \cup {r}
  BY <1>2 DEF Stored
<1>10. StoredFirst(t, n + 1)'
  <2>1. {judged[t][i] : i \in 1..(n + 1)} = {judged[t][i] : i \in 1..n} \cup {r}
    <3>1. 1..(n + 1) = 1..n \cup {n + 1}
      OBVIOUS
    <3> QED
      BY ONLY <1>6, <3>1
  <2>2. judged' = judged /\ n + 1 \in 0..Len(judged[t])
    BY <1>5
  <2>3. Stored(t)' = {judged[t][i] : i \in 1..(n + 1)}
    BY <1>7, <1>9, <2>1 DEF StoredFirst
  <2> QED
    BY ONLY <2>2, <2>3 DEF StoredFirst
<1>11. PublishedFirst(t, n)'
  BY <1>7 DEF PublishedFirst, Published, Rank
<1>12. RaisesRest(t, "send", rules)'
  BY <1>5, <1>10, <1>11 DEF RaisesRest
<1>13. event[t].from \in AccountIds
  BY <1>1 DEF StoresTyped, Events
<1>14. Drained(event[t].from) => Drained(event[t].from)'
  BY <1>1, <1>3, <1>13, DrainedStays
<1>15. Ordered(t)'
  <2>1. n + 1 \in Nat /\ n + 1 > 0 /\ (n + 1) - 1 = n
    OBVIOUS
  <2>2. \E k \in Nat : /\ StoredFirst(t, k)'
                       /\ PublishedFirst(t, k)' \/ (k > 0 /\ PublishedFirst(t, k - 1)')
    BY <1>10, <1>11, <2>1
  <2> QED
    BY <1>1, <1>14, <2>2 DEF Ordered
<1> QED
  BY <1>2, <1>3, <1>4, <1>8, <1>12, <1>15 DEF Stored

\* An alert is published.
LEMMA PublishesOne ==
  ASSUME FraudInv, NEW t \in Transfers, NEW rules \in Seq(Rules),
         RaisesRest(t, "send", rules),
         alertTopic' = Append(alertTopic, <<t, Head(rules)>>),
         UNCHANGED <<event, accountVars, judged, activity, alerts, frozen>>
  PROVE  /\ MoneyGoesOn /\ \A u \in Transfers \ {t} : SameAlerts(u)
         /\ StoredFirst(t, Len(judged[t]) - Len(rules) + 1)'
         /\ PublishedFirst(t, Len(judged[t]) - Len(rules) + 1)'
         /\ Ordered(t)'
<1>1. StoresTyped /\ Ordered(t)
  BY DEF FraudInv
<1>2. PICK r \in Rules : r = Head(rules) /\ r = rules[1]
  BY DEF RaisesRest
<1>3. PICK z \in Nat : z = Len(alertTopic)
  BY <1>1 DEF StoresTyped
<1>4. /\ alertTopic' \in Seq(Transfers \X Rules)
      /\ DOMAIN alertTopic = 1..z /\ DOMAIN alertTopic' = 1..(z + 1)
      /\ \A i \in 1..z : alertTopic'[i] = alertTopic[i]
      /\ alertTopic'[z + 1] = <<t, r>>
  BY <1>1, <1>2, <1>3 DEF StoresTyped
<1>5. MoneyGoesOn
  BY <1>1, <1>4 DEF StoresTyped, MoneyGoesOn, accountVars
<1>6. ASSUME NEW u \in Transfers \ {t} PROVE SameAlerts(u)
  <2>1. Published(u)' = Published(u)
    BY <1>4 DEF Published
  <2> QED
    BY <1>4, <2>1 DEF SameAlerts, Stored, Published
<1>7. PICK n \in Nat :
        /\ Len(judged[t]) - Len(rules) = n /\ n + 1 <= Len(judged[t])
        /\ rules[1] = judged[t][n + 1] /\ judged[t] \in Seq(Rules)
  BY <1>1, RestBegins
<1>8. r = judged[t][n + 1] /\ StoredFirst(t, n + 1) /\ PublishedFirst(t, n)
  <2>1. n + 0 = n
    OBVIOUS
  <2> QED
    BY <1>2, <1>7, <2>1 DEF RaisesRest
<1>9. StoredFirst(t, n + 1)'
  BY <1>8 DEF StoredFirst, Stored
<1>10. /\ Published(t) \subseteq 1..z /\ z + 1 \notin Published(t)
       /\ Published(t)' = Published(t) \cup {z + 1}
  BY <1>4 DEF Published
<1>11. IsFiniteSet(Published(t)') /\ Cardinality(Published(t)') = n + 1
  <2>1. IsFiniteSet(Published(t)) /\ Cardinality(Published(t)) = n
    BY <1>8 DEF PublishedFirst
  <2> QED
    BY <1>10, <2>1, FS_AddElement
<1>12. ASSUME NEW i \in Published(t)'
       PROVE  alertTopic'[i][2] = judged[t][Rank(t, i)']
  <2>1. CASE i = z + 1
    <3>1. {j \in Published(t)' : j <= i} = Published(t)'
      BY <1>10, <2>1
    <3>2. Rank(t, i)' = n + 1
      BY <1>11, <3>1 DEF Rank
    <3> QED
      BY <1>4, <1>8, <2>1, <3>2
  <2>2. CASE i # z + 1
    <3>1. i \in Published(t) /\ i \in 1..z
      BY <1>10, <2>2
    <3>2. {j \in Published(t)' : j <= i} = {j \in Published(t) : j <= i}
      BY <1>10, <3>1
    <3>3. Rank(t, i)' = Rank(t, i)
      BY <3>2 DEF Rank
    <3> QED
      BY <1>4, <1>8, <3>1, <3>3 DEF PublishedFirst
  <2> QED
    BY <2>1, <2>2
<1>13. PublishedFirst(t, n + 1)'
  BY <1>11, <1>12 DEF PublishedFirst
<1>14. event[t].from \in AccountIds
  BY <1>1 DEF StoresTyped, Events
<1>15. Drained(event[t].from) => Drained(event[t].from)'
  BY <1>1, <1>5, <1>14, DrainedStays
<1>16. Ordered(t)'
  <2>1. \E k \in Nat : /\ StoredFirst(t, k)'
                       /\ PublishedFirst(t, k)' \/ (k > 0 /\ PublishedFirst(t, k - 1)')
    BY <1>9, <1>13
  <2> QED
    BY <1>1, <1>15, <2>1 DEF Ordered
<1> QED
  BY <1>5, <1>6, <1>7, <1>9, <1>13, <1>16

-----------------------------------------------------------------------------
(* The awaits of processFraudEvent.                                        *)

LEMMA WorkerAt ==
  ASSUME NEW m \in Members, WorkerKnows(m)
  PROVE  /\ At(m, "record") =>
              \E t \in Transfers : worker[m] = [at |-> "record", transfer |-> t]
         /\ At(m, "commit") =>
              \E t \in Transfers : worker[m] = [at |-> "commit", transfer |-> t]
         /\ At(m, "read") =>
              \E t \in Transfers, values \in [Readings -> Int] :
                worker[m] = Reading(t, values) /\ ReadsTruly(t, values)
         /\ \A at \in Raising : At(m, at) =>
              \E t \in Transfers, rules \in Seq(Rules) :
                /\ worker[m] = [at |-> at, transfer |-> t, rules |-> rules]
                /\ RaisesRest(t, at, rules)
         /\ worker[m].at \in {"idle", "record", "read", "store", "send", "freeze", "commit"}
<1>1. /\ worker[m] = Idle => worker[m].at = "idle"
      /\ \A t \in Transfers, at \in {"record", "commit"} :
           worker[m] = [at |-> at, transfer |-> t] => worker[m].at = at
      /\ \A t \in Transfers, values \in [Readings -> Int] :
           worker[m] = Reading(t, values) => worker[m].at = "read"
      /\ \A t \in Transfers, at \in Raising, rules \in Seq(Rules) :
           worker[m] = [at |-> at, transfer |-> t, rules |-> rules] => worker[m].at = at
  BY DEF Idle, Reading
<1>2. At(m, "record") \/ At(m, "commit") =>
        \E t \in Transfers : worker[m] = [at |-> worker[m].at, transfer |-> t]
  BY <1>1 DEF WorkerKnows, At, Raising
<1>3. At(m, "read") =>
        \E t \in Transfers, values \in [Readings -> Int] :
           worker[m] = Reading(t, values) /\ ReadsTruly(t, values)
  BY <1>1 DEF WorkerKnows, At, Raising
<1>4. ASSUME worker[m].at \in Raising
      PROVE  \E t \in Transfers, rules \in Seq(Rules) :
               /\ worker[m] = [at |-> worker[m].at, transfer |-> t, rules |-> rules]
               /\ RaisesRest(t, worker[m].at, rules)
  <2>1. worker[m].at \notin {"idle", "record", "commit", "read"}
    BY <1>4 DEF Raising
  <2> QED
    BY <1>1, <2>1 DEF WorkerKnows
<1>5. worker[m].at \in {"idle", "record", "read", "store", "send", "freeze", "commit"}
  BY <1>1 DEF WorkerKnows, Raising
<1> QED
  BY <1>2, <1>3, <1>4, <1>5 DEF At

\* A worker that turns to something else than an alert.
LEMMA TurnsTo ==
  ASSUME FraudInv, NEW m \in Members, NEW t \in Transfers, NEW state, Goto(m, state),
         \/ state = Idle
         \/ state = [at |-> "record", transfer |-> t]
         \/ state = [at |-> "commit", transfer |-> t]
  PROVE  /\ DOMAIN worker' = Members
         /\ \A o \in Members \ {m} : worker'[o] = worker[o]
         /\ WorkerKnows(m)'
         /\ \A u \in Transfers : ~Judges(m, u)'
<1>1. /\ DOMAIN worker' = Members /\ worker'[m] = state
      /\ \A o \in Members \ {m} : worker'[o] = worker[o]
  BY DEF FraudInv, Goto
<1> QED
  BY <1>1 DEF WorkerKnows, Judges, Idle, Raising

\* A worker that turns to an alert, or back to it.
LEMMA TurnsToAlert ==
  ASSUME FraudInv, NEW m \in Members, NEW t \in Transfers, NEW at \in Raising,
         NEW rules \in Seq(Rules),
         Goto(m, [at |-> at, transfer |-> t, rules |-> rules]),
         RaisesRest(t, at, rules)'
  PROVE  /\ DOMAIN worker' = Members
         /\ \A o \in Members \ {m} : worker'[o] = worker[o]
         /\ WorkerKnows(m)'
         /\ \A u \in Transfers : Judges(m, u)' => u = t
<1>1. /\ DOMAIN worker' = Members
      /\ worker'[m] = [at |-> at, transfer |-> t, rules |-> rules]
      /\ \A o \in Members \ {m} : worker'[o] = worker[o]
  BY DEF FraudInv, Goto
<1> QED
  BY <1>1 DEF WorkerKnows, Judges

\* A worker that is done with the first of the alerts to raise.
LEMMA TurnsToNext ==
  ASSUME FraudInv, NEW m \in Members, NEW t \in Transfers, NEW rules \in Seq(Rules),
         worker[m].transfer = t, worker[m].rules = rules, NextAlert(m),
         rules # <<>>, Len(rules) <= Len(judged[t]),
         \A i \in 1..Len(rules) : rules[i] = judged[t][Len(judged[t]) - Len(rules) + i],
         judged' = judged, judged[t] \in Seq(Rules),
         StoredFirst(t, Len(judged[t]) - Len(rules) + 1)',
         PublishedFirst(t, Len(judged[t]) - Len(rules) + 1)'
  PROVE  /\ DOMAIN worker' = Members
         /\ \A o \in Members \ {m} : worker'[o] = worker[o]
         /\ WorkerKnows(m)'
         /\ \A u \in Transfers : Judges(m, u)' => u = t
<1>1. CASE Tail(rules) = <<>>
  <2>1. Goto(m, [at |-> "commit", transfer |-> t])
    BY <1>1 DEF NextAlert, Raise
  <2> QED
    BY <2>1, TurnsTo
<1>2. CASE Tail(rules) # <<>>
  <2>1. Goto(m, [at |-> "store", transfer |-> t, rules |-> Tail(rules)])
    BY <1>2 DEF NextAlert, Raise
  <2>2. PICK k \in Nat, l \in Nat :
          Len(rules) = k + 1 /\ Len(judged[t]) = l /\ k + 1 <= l
    <3>1. Len(rules) \in Nat \ {0} /\ Len(judged[t]) \in Nat
      BY EmptySeq
    <3>2. PICK c \in Nat \ {0}, l \in Nat : Len(rules) = c /\ Len(judged[t]) = l
      BY <3>1
    <3>3. PICK k \in Nat : c = k + 1
      BY c - 1 \in Nat
    <3> QED
      BY <3>2, <3>3
  <2>3. /\ Tail(rules) \in Seq(Rules) /\ Len(Tail(rules)) = k
        /\ \A i \in 1..k : Tail(rules)[i] = rules[i + 1]
    BY <2>2
  <2>4. \A i \in 1..k : Tail(rules)[i] = judged[t][l - k + i]
    <3>1. ASSUME NEW i \in 1..k
          PROVE  i + 1 \in 1..(k + 1) /\ l - (k + 1) + (i + 1) = l - k + i
      OBVIOUS
    <3>2. \A i \in 1..(k + 1) : rules[i] = judged[t][l - (k + 1) + i]
      BY <2>2
    <3> QED
      BY ONLY <2>3, <3>1, <3>2
  <2>5. l - (k + 1) + 1 = l - k
    OBVIOUS
  <2>6. RaisesRest(t, "store", Tail(rules))'
    <3>1. StoredFirst(t, l - k)' /\ PublishedFirst(t, l - k)'
      BY <2>2, <2>5
    <3>2. l - k + 0 = l - k /\ k <= l /\ Len(judged[t]) = l
      BY <2>2
    <3> QED
      BY <1>2, <2>3, <2>4, <3>1, <3>2 DEF RaisesRest
  <2> QED
    BY <2>1, <2>3, <2>6, TurnsToAlert DEF Raising
<1> QED
  BY <1>1, <1>2

LEMMA DeliverKeeps ==
  ASSUME FraudInv, NEW m \in Members, NEW t \in Transfers, Deliver(m, t)
  PROVE  FraudInv'
<1>1. MoneyGoesOn /\ \A u \in Transfers : SameAlerts(u)
  BY SameStores DEF FraudInv, Deliver, stores
<1>2. /\ DOMAIN worker' = Members
      /\ \A o \in Members \ {m} : worker'[o] = worker[o]
      /\ WorkerKnows(m)'
      /\ \A u \in Transfers : ~Judges(m, u)'
  BY TurnsTo DEF Deliver
<1>3. Ordered(t)'
  BY <1>1, OrderedStays DEF FraudInv
<1>4. StepOf(m, t)
  BY <1>1, <1>2, <1>3 DEF StepOf, Deliver, stores
<1> QED
  BY <1>4, StepKeeps

LEMMA RecordKeeps ==
  ASSUME FraudInv, NEW m \in Members, Record(m)
  PROVE  FraudInv'
<1>1. PICK t \in Transfers : worker[m] = [at |-> "record", transfer |-> t]
  BY WorkerAt DEF Record, FraudInv
<1>2. /\ activity' = activity \cup {t}
      /\ UNCHANGED <<event, accountVars, judged, alerts, alertTopic, frozen>>
  BY <1>1 DEF Record, Effect, At
<1>3. MoneyGoesOn /\ \A u \in Transfers : SameAlerts(u)
  BY <1>2, Recorded DEF FraudInv
<1>4. Ordered(t)'
  BY <1>3, OrderedStays DEF FraudInv
<1>5. CASE t \in activity
  <2>1. Goto(m, [at |-> "commit", transfer |-> t])
    BY <1>1, <1>5 DEF Record, Raise
  <2>2. /\ DOMAIN worker' = Members
        /\ \A o \in Members \ {m} : worker'[o] = worker[o]
        /\ WorkerKnows(m)'
        /\ \A u \in Transfers : ~Judges(m, u)'
    BY <2>1, TurnsTo
  <2>3. StepOf(m, t)
    BY <1>2, <1>3, <1>4, <2>2 DEF StepOf
  <2> QED
    BY <2>3, StepKeeps
<1>6. CASE t \notin activity
  <2> DEFINE values == [what \in Readings |-> NotRead]
  <2>1. Goto(m, Reading(t, values))
    BY <1>1, <1>6 DEF Record
  <2>2. /\ DOMAIN worker' = Members /\ worker'[m] = Reading(t, values)
        /\ \A o \in Members \ {m} : worker'[o] = worker[o]
    BY <2>1 DEF FraudInv, Goto
  <2>3. judged'[t] = <<>>
    BY <1>2, <1>6 DEF FraudInv, Ordered
  <2>4. values \in [Readings -> Int]
    BY DEF NotRead
  <2>5. ReadsTruly(t, values)'
    BY <2>3, <2>4 DEF ReadsTruly, Readings
  <2>6. WorkerKnows(m)'
    BY <2>2, <2>4, <2>5 DEF WorkerKnows, Reading
  <2>7. \A u \in Transfers : Judges(m, u)' => u = t
    BY <2>2 DEF Judges, Reading
  <2>8. StepOf(m, t)
    BY <1>2, <1>3, <1>4, <1>6, <2>2, <2>6, <2>7 DEF StepOf
  <2> QED
    BY <2>8, StepKeeps
<1> QED
  BY <1>5, <1>6

LEMMA RefusedKeeps ==
  ASSUME FraudInv, NEW m \in Members, Refused(m)
  PROVE  FraudInv'
<1>1. PICK t \in Transfers : TRUE
  BY WorkerAt DEF Refused, FraudInv
<1>2. MoneyGoesOn /\ \A u \in Transfers : SameAlerts(u)
  BY SameStores DEF FraudInv, Refused, stores
<1>3. /\ DOMAIN worker' = Members
      /\ \A o \in Members \ {m} : worker'[o] = worker[o]
      /\ WorkerKnows(m)'
      /\ \A u \in Transfers : ~Judges(m, u)'
  BY TurnsTo DEF Refused
<1>4. Ordered(t)'
  BY <1>2, OrderedStays DEF FraudInv
<1>5. StepOf(m, t)
  BY <1>2, <1>3, <1>4 DEF StepOf, Refused, stores
<1> QED
  BY <1>5, StepKeeps

LEMMA StoreKeeps ==
  ASSUME FraudInv, NEW m \in Members, Store(m)
  PROVE  FraudInv'
<1>1. PICK t \in Transfers, rules \in Seq(Rules) :
        /\ worker[m] = [at |-> "store", transfer |-> t, rules |-> rules]
        /\ RaisesRest(t, "store", rules)
  BY WorkerAt DEF Store, FraudInv, Raising
<1>2. /\ alerts' = alerts \cup {<<t, Head(rules)>>}
      /\ UNCHANGED <<event, accountVars, judged, activity, alertTopic, frozen>>
  BY <1>1 DEF Store, Effect, At, Alert
<1>3. /\ MoneyGoesOn /\ \A u \in Transfers \ {t} : SameAlerts(u)
      /\ <<t, Head(rules)>> \notin alerts
      /\ RaisesRest(t, "send", rules)' /\ Ordered(t)'
  BY <1>1, <1>2, StoresOne
<1>4. Goto(m, [at |-> "send", transfer |-> t, rules |-> rules])
  BY <1>1, <1>3 DEF Store, Alert
<1>5. /\ DOMAIN worker' = Members
      /\ \A o \in Members \ {m} : worker'[o] = worker[o]
      /\ WorkerKnows(m)'
      /\ \A u \in Transfers : Judges(m, u)' => u = t
  BY <1>3, <1>4, TurnsToAlert DEF Raising
<1>6. Judges(m, t) /\ t \in activity
  BY <1>1 DEF Judges, Raising, FraudInv, OneJudge
<1>7. StepOf(m, t)
  BY <1>2, <1>3, <1>5, <1>6 DEF StepOf
<1> QED
  BY <1>7, StepKeeps

LEMMA SendKeeps ==
  ASSUME FraudInv, NEW m \in Members, Send(m)
  PROVE  FraudInv'
<1>1. PICK t \in Transfers, rules \in Seq(Rules) :
        /\ worker[m] = [at |-> "send", transfer |-> t, rules |-> rules]
        /\ RaisesRest(t, "send", rules)
  BY WorkerAt DEF Send, FraudInv, Raising
<1>2. /\ alertTopic' = Append(alertTopic, <<t, Head(rules)>>)
      /\ UNCHANGED <<event, accountVars, judged, activity, alerts, frozen>>
  BY <1>1 DEF Send, Effect, At, Alert
<1>3. /\ MoneyGoesOn /\ \A u \in Transfers \ {t} : SameAlerts(u)
      /\ StoredFirst(t, Len(judged[t]) - Len(rules) + 1)'
      /\ PublishedFirst(t, Len(judged[t]) - Len(rules) + 1)'
      /\ Ordered(t)'
  BY <1>1, <1>2, PublishesOne
<1>4. judged[t] \in Seq(Rules)
  BY DEF FraudInv, StoresTyped
<1>5. /\ DOMAIN worker' = Members
      /\ \A o \in Members \ {m} : worker'[o] = worker[o]
      /\ WorkerKnows(m)'
      /\ \A u \in Transfers : Judges(m, u)' => u = t
  <2>1. CASE Severity(Head(rules)) = "critical"
    <3>1. Goto(m, [at |-> "freeze", transfer |-> t, rules |-> rules])
      BY <1>1, <2>1 DEF Send
    <3>2. rules[1] = "rapid_drain"
      BY <1>1, <2>1 DEF RaisesRest, Rules, Severity
    <3>3. RaisesRest(t, "freeze", rules)'
      BY <1>1, <1>2, <1>3, <3>2 DEF RaisesRest
    <3> QED
      BY <3>1, <3>3, TurnsToAlert DEF Raising
  <2>2. CASE Severity(Head(rules)) # "critical"
    <3>1. NextAlert(m)
      BY <1>1, <2>2 DEF Send
    <3>2. /\ rules # <<>> /\ Len(rules) <= Len(judged[t])
          /\ \A i \in 1..Len(rules) : rules[i] = judged[t][Len(judged[t]) - Len(rules) + i]
      BY <1>1 DEF RaisesRest
    <3>3. worker[m].transfer = t /\ worker[m].rules = rules /\ judged' = judged
      BY <1>1, <1>2
    <3> QED
      BY <1>3, <1>4, <3>1, <3>2, <3>3, TurnsToNext
  <2> QED
    BY <2>1, <2>2
<1>6. Judges(m, t) /\ t \in activity
  BY <1>1 DEF Judges, Raising, FraudInv, OneJudge
<1>7. StepOf(m, t)
  BY <1>2, <1>3, <1>5, <1>6 DEF StepOf
<1> QED
  BY <1>7, StepKeeps

\* An account is frozen.
LEMMA FreezesOne ==
  ASSUME FraudInv, NEW t \in Transfers, NEW rules \in Seq(Rules),
         RaisesRest(t, "freeze", rules),
         frozen' = frozen \cup {event[t].from},
         UNCHANGED <<event, accountVars, judged, activity, alerts, alertTopic>>
  PROVE  /\ MoneyGoesOn /\ \A u \in Transfers : SameAlerts(u)
         /\ Ordered(t)'
         /\ \A a \in frozen' : a \in frozen \/ Drained(a)'
<1>1. event[t].from \in AccountIds /\ judged[t] \in Seq(Rules)
  BY DEF FraudInv, StoresTyped, Events
<1>2. MoneyGoesOn
  BY <1>1 DEF FraudInv, StoresTyped, MoneyGoesOn, accountVars
<1>3. \A u \in Transfers : SameAlerts(u)
  BY DEF SameAlerts, Stored, Published
<1>4. Ordered(t)'
  BY <1>2, <1>3, OrderedStays DEF FraudInv
<1>5. \E i \in DOMAIN judged[t] : judged[t][i] = "rapid_drain"
  <2>1. PICK k \in Nat, l \in Nat : k + 1 = Len(rules) /\ l = Len(judged[t]) /\ k + 1 <= l
    BY <1>1, EmptySeq DEF RaisesRest
  <2>2. rules[1] = judged[t][l - (k + 1) + 1] /\ l - (k + 1) + 1 \in DOMAIN judged[t]
    BY <1>1, <2>1 DEF RaisesRest
  <2> QED
    BY <2>2 DEF RaisesRest
<1>6. Drained(event[t].from)'
  BY <1>1, <1>2, <1>5, DrainedStays DEF FraudInv, Ordered
<1> QED
  BY <1>2, <1>3, <1>4, <1>6

LEMMA FreezeKeeps ==
  ASSUME FraudInv, NEW m \in Members, Freeze(m)
  PROVE  FraudInv'
<1>1. PICK t \in Transfers, rules \in Seq(Rules) :
        /\ worker[m] = [at |-> "freeze", transfer |-> t, rules |-> rules]
        /\ RaisesRest(t, "freeze", rules)
  BY WorkerAt DEF Freeze, FraudInv, Raising
<1>2. /\ frozen' = frozen \cup {event[t].from}
      /\ UNCHANGED <<event, accountVars, judged, activity, alerts, alertTopic>>
  BY <1>1 DEF Freeze, Effect, At, Alert
<1>3. /\ MoneyGoesOn /\ \A u \in Transfers : SameAlerts(u)
      /\ Ordered(t)'
      /\ \A a \in frozen' : a \in frozen \/ Drained(a)'
  BY <1>1, <1>2, FreezesOne
<1>4. judged[t] \in Seq(Rules) /\ NextAlert(m)
  BY DEF FraudInv, StoresTyped, Freeze
<1>5. /\ StoredFirst(t, Len(judged[t]) - Len(rules) + 1)'
      /\ PublishedFirst(t, Len(judged[t]) - Len(rules) + 1)'
  <2>1. PICK n : n = Len(judged[t]) - Len(rules) + 1
    OBVIOUS
  <2>2. StoredFirst(t, n) /\ PublishedFirst(t, n)
    BY <1>1, <2>1 DEF RaisesRest
  <2>3. StoredFirst(t, n)' /\ PublishedFirst(t, n)'
    BY <1>3, <2>2, OrderStays
  <2> QED
    BY <1>2, <2>1, <2>3
<1>6. /\ DOMAIN worker' = Members
      /\ \A o \in Members \ {m} : worker'[o] = worker[o]
      /\ WorkerKnows(m)'
      /\ \A u \in Transfers : Judges(m, u)' => u = t
  BY <1>1, <1>2, <1>4, <1>5, TurnsToNext DEF RaisesRest
<1>7. Judges(m, t) /\ t \in activity
  BY <1>1 DEF Judges, Raising, FraudInv, OneJudge
<1>8. StepOf(m, t)
  BY <1>2, <1>3, <1>6, <1>7 DEF StepOf
<1> QED
  BY <1>8, StepKeeps

\* What the answers say of a transfer.
LEMMA ValuesAreTrue ==
  ASSUME StoresTyped, NEW t \in Transfers
  PROVE  /\ ValueOf("count", t) \in Nat
         /\ ValueOf("total", t) \in 0..Outgoing(Spent(event[t].from))
         /\ ValueOf("balance", t) \in Nat
         /\ lowest[event[t].from] <= ValueOf("balance", t)
<1> DEFINE f == [u \in Transfers |-> event[u].amount]
           T == Spent(event[t].from)
           R == Recent(t, DrainWindow)
<1>1. Recent(t, VelocityWindow) \in SUBSET activity /\ R \in SUBSET T /\ T \in SUBSET activity
  BY DEF Recent, Spent
<1>2. /\ IsFiniteSet(T)
      /\ IsFiniteSet(Recent(t, VelocityWindow))
  BY <1>1, FS_Subset DEF StoresTyped
<1>3. ValueOf("count", t) \in Nat
  BY <1>2, FS_CardinalityType DEF ValueOf
<1>4. \A u \in T : f[u] \in Nat
  BY FraudAssumption DEF StoresTyped, Spent, Events
<1>5. ValueOf("total", t) = Sum(R, f) /\ Outgoing(T) = Sum(T, f)
  BY DEF ValueOf, Outgoing
<1>6. Sum(R, f) \in Nat /\ Sum(T, f) \in Nat /\ Sum(R, f) <= Sum(T, f)
  <2> HIDE DEF f, T, R
  <2> QED
    BY <1>1, <1>2, <1>4, SumSubset
<1>7. ValueOf("total", t) \in 0..Outgoing(T)
  <2> HIDE DEF f, T, R
  <2> QED
    BY <1>5, <1>6
<1>8. event[t].from \in AccountIds
  BY DEF StoresTyped, Events
<1>9. balance[event[t].from] \in Nat /\ lowest[event[t].from] <= balance[event[t].from]
  BY <1>8, FraudAssumption DEF StoresTyped
<1> QED
  BY <1>3, <1>7, <1>9 DEF ValueOf

\* An account that the rule finds drained is drained.
LEMMA FoundDrained ==
  ASSUME StoresTyped, NEW t \in Transfers, NEW values, ReadsTruly(t, values),
         NotRead \notin {values[w] : w \in Readings},
         RapidDrain(values.total, values.balance)
  PROVE  Drained(event[t].from)
<1>1. PICK total \in Nat, x \in Nat :
        total = values["total"] /\ x = Outgoing(Spent(event[t].from)) /\ total <= x
  <2>1. Outgoing(Spent(event[t].from)) \in Nat
    <3>1. ValueOf("total", t) \in 0..Outgoing(Spent(event[t].from))
      BY ValuesAreTrue
    <3>2. IsFiniteSet(Spent(event[t].from))
      BY FS_Subset DEF StoresTyped, Spent
    <3>3. \A u \in Spent(event[t].from) : [v \in Transfers |-> event[v].amount][u] \in Nat
      BY FraudAssumption DEF StoresTyped, Spent, Events
    <3> QED
      BY <3>2, <3>3, CentsFinite DEF Outgoing
  <2>2. values["total"] \in 0..Outgoing(Spent(event[t].from))
    BY DEF ReadsTruly, Spent, Readings
  <2> QED
    BY <2>1, <2>2
<1>2. event[t].from \in AccountIds
  BY DEF StoresTyped, Events
<1>3. PICK current \in Nat, v \in Nat :
        current = values["balance"] /\ v = lowest[event[t].from] /\ v <= current
  BY <1>2, FraudAssumption DEF StoresTyped, ReadsTruly, Readings
<1>4. 10 * total > 8 * current
  BY <1>1, <1>3 DEF RapidDrain
<1>5. 10 * x > 8 * v
  BY ONLY <1>1, <1>3, <1>4
<1> QED
  BY <1>1, <1>3, <1>5, DrainedIs

LEMMA ReadKeeps ==
  ASSUME FraudInv, NEW m \in Members, NEW what \in Readings, Read(m, what)
  PROVE  FraudInv'
<1>1. PICK t \in Transfers, old \in [Readings -> Int] :
        worker[m] = Reading(t, old) /\ ReadsTruly(t, old)
  BY WorkerAt DEF Read, FraudInv
<1>2. PICK values : values = [old EXCEPT ![what] = ValueOf(what, t)]
  OBVIOUS
<1>3. /\ IF NotRead \in {values[w] : w \in Readings}
         THEN Goto(m, Reading(t, values)) /\ UNCHANGED judged
         ELSE /\ Raise(m, t, Matching(t, values))
              /\ judged' = [judged EXCEPT ![t] = Matching(t, values)]
      /\ UNCHANGED <<event, copies, accountVars, stores, faults>>
  BY <1>1, <1>2 DEF Read, Reading
<1>4. ReadsTruly(t, values)
  <2>1. StoresTyped
    BY DEF FraudInv
  <2>2. /\ ValueOf("count", t) \in Int
        /\ ValueOf("total", t) \in Int
        /\ ValueOf("total", t) \in 0..Outgoing(Spent(event[t].from))
        /\ ValueOf("balance", t) \in Nat
        /\ lowest[event[t].from] <= ValueOf("balance", t)
    BY <2>1, ValuesAreTrue
  <2>3. CASE what = "count"
    BY <1>1, <1>2, <2>2, <2>3 DEF ReadsTruly, Readings
  <2>4. CASE what = "total"
    BY <1>1, <1>2, <2>2, <2>4 DEF ReadsTruly, Readings, Spent
  <2>5. CASE what = "balance"
    BY <1>1, <1>2, <2>2, <2>5 DEF ReadsTruly, Readings
  <2> QED
    BY <2>3, <2>4, <2>5 DEF Readings
<1>5. Judges(m, t) /\ t \in activity /\ StoresTyped
  BY <1>1 DEF Judges, Reading, FraudInv, OneJudge
<1>6. CASE NotRead \in {values[w] : w \in Readings}
  <2>1. MoneyGoesOn /\ \A u \in Transfers : SameAlerts(u)
    BY <1>3, <1>5, <1>6, SameStores DEF stores
  <2>2. Ordered(t)'
    BY <2>1, OrderedStays DEF FraudInv
  <2>3. /\ DOMAIN worker' = Members /\ worker'[m] = Reading(t, values)
        /\ \A o \in Members \ {m} : worker'[o] = worker[o]
    BY <1>3, <1>6 DEF FraudInv, Goto
  <2>4. ReadsTruly(t, values)'
    BY <1>3, <1>4, <1>6 DEF ReadsTruly, stores, accountVars, Outgoing
  <2>5. WorkerKnows(m)' /\ \A u \in Transfers : Judges(m, u)' => u = t
    <3>1. values \in [Readings -> Int]
      BY <2>4 DEF ReadsTruly
    <3>2. WorkerKnows(m)'
      BY <2>3, <2>4, <3>1 DEF WorkerKnows
    <3> QED
      BY <2>3, <3>2 DEF Judges, Reading
  <2>6. StepOf(m, t)
    BY <1>3, <1>5, <2>1, <2>2, <2>3, <2>5 DEF StepOf, stores
  <2> QED
    BY <2>6, StepKeeps
<1>7. CASE NotRead \notin {values[w] : w \in Readings}
  <2>1. PICK rules : rules = Matching(t, values)
    OBVIOUS
  <2>2. /\ rules \in Seq(Rules)
        /\ \A i, j \in DOMAIN rules : rules[i] = rules[j] => i = j
        /\ \A i \in DOMAIN rules :
             rules[i] = "rapid_drain" => RapidDrain(values.total, values.balance)
    BY <2>1, MatchingIs
  <2>3. /\ judged' = [judged EXCEPT ![t] = rules] /\ Raise(m, t, rules)
        /\ UNCHANGED <<event, balance, lowest, activity, alerts, alertTopic, frozen>>
    BY <1>3, <1>7, <2>1 DEF stores, accountVars
  <2>4. MoneyGoesOn
    BY <1>5, <2>2, <2>3 DEF StoresTyped, MoneyGoesOn
  <2>5. judged'[t] = rules /\ \A u \in Transfers \ {t} : SameAlerts(u)
    BY <1>5, <2>3 DEF StoresTyped, SameAlerts, Stored, Published
  <2>6. StoredFirst(t, 0)' /\ PublishedFirst(t, 0)'
    <3>1. judged[t] = <<>>
      BY <1>4 DEF ReadsTruly
    <3>2. StoredFirst(t, 0) /\ PublishedFirst(t, 0)
      BY <3>1 DEF FraudInv, Ordered, StoredFirst
    <3>3. Stored(t) = {} /\ Published(t) = {}
      BY <3>2, FS_EmptySet DEF StoredFirst, PublishedFirst
    <3>4. Stored(t)' = {} /\ Published(t)' = {}
      BY <2>3, <3>3 DEF Stored, Published
    <3>5. Len(rules) \in Nat
      BY <2>2
    <3> QED
      BY <2>5, <3>4, <3>5, FS_EmptySet DEF StoredFirst, PublishedFirst
  <2>7. Ordered(t)'
    <3>1. (\E i \in DOMAIN rules : rules[i] = "rapid_drain") => Drained(event[t].from)
      BY <1>4, <1>5, <1>7, <2>2, FoundDrained
    <3>2. Drained(event[t].from) => Drained(event[t].from)'
      BY <2>3 DEF Drained, Outgoing
    <3>3. t \in activity'
      BY <1>5, <2>3
    <3> QED
      BY <2>2, <2>3, <2>5, <2>6, <3>1, <3>2, <3>3 DEF Ordered
  <2>8. /\ DOMAIN worker' = Members
        /\ \A o \in Members \ {m} : worker'[o] = worker[o]
        /\ WorkerKnows(m)'
        /\ \A u \in Transfers : Judges(m, u)' => u = t
    <3>1. CASE rules = <<>>
      <4>1. Goto(m, [at |-> "commit", transfer |-> t])
        BY <2>3, <3>1 DEF Raise
      <4> QED
        BY <4>1, TurnsTo
    <3>2. CASE rules # <<>>
      <4>1. Goto(m, [at |-> "store", transfer |-> t, rules |-> rules])
        BY <2>3, <3>2 DEF Raise
      <4>2. PICK l \in Nat : l = Len(rules) /\ l <= l /\ l - l = 0 /\ \A i \in 1..l : l - l + i = i
        BY <2>2
      <4>3. RaisesRest(t, "store", rules)'
        BY <2>2, <2>5, <2>6, <3>2, <4>2 DEF RaisesRest
      <4> QED
        BY <2>2, <4>1, <4>3, TurnsToAlert DEF Raising
    <3> QED
      BY <3>1, <3>2
  <2>9. StepOf(m, t)
    BY <1>5, <2>3, <2>4, <2>5, <2>7, <2>8 DEF StepOf
  <2> QED
    BY <2>9, StepKeeps
<1> QED
  BY <1>6, <1>7

LEMMA CommitKeeps ==
  ASSUME FraudInv, NEW m \in Members, Commit(m)
  PROVE  FraudInv'
<1>1. PICK t \in Transfers : worker[m] = [at |-> "commit", transfer |-> t]
  BY WorkerAt DEF Commit, FraudInv
<1>2. UNCHANGED <<event, accountVars, judged, activity, alerts, alertTopic, frozen>>
  BY <1>1 DEF Commit, Effect, At
<1>3. MoneyGoesOn /\ \A u \in Transfers : SameAlerts(u)
  BY <1>2, SameStores DEF FraudInv
<1>4. /\ DOMAIN worker' = Members
      /\ \A o \in Members \ {m} : worker'[o] = worker[o]
      /\ WorkerKnows(m)'
      /\ \A u \in Transfers : ~Judges(m, u)'
  BY TurnsTo DEF Commit
<1>5. Ordered(t)'
  BY <1>3, OrderedStays DEF FraudInv
<1>6. StepOf(m, t)
  BY <1>2, <1>3, <1>4, <1>5 DEF StepOf
<1> QED
  BY <1>6, StepKeeps

\* A failure leaves what the await did, or nothing.
LEMMA FailsKeeps ==
  ASSUME FraudInv, NEW m \in Members, Fails(m)
  PROVE  FraudInv'
<1>1. /\ DOMAIN worker' = Members
      /\ \A o \in Members \ {m} : worker'[o] = worker[o]
      /\ WorkerKnows(m)'
      /\ \A u \in Transfers : ~Judges(m, u)'
  <2>1. WorkerKnows(m) /\ Goto(m, Idle) /\ worker[m].at # "idle"
    BY DEF Fails, FraudInv, At
  <2>2. PICK t \in Transfers : TRUE
    <3>1. worker[m] # Idle
      BY <2>1 DEF Idle
    <3> QED
      BY ONLY <2>1, <3>1 DEF WorkerKnows
  <2> QED
    BY <2>1, <2>2, TurnsTo
<1>2. /\ UNCHANGED <<event, accountVars, judged>>
      /\ Effect(m) \/ UNCHANGED stores
      /\ StoresTyped
  BY DEF Fails, FraudInv
<1>3. CASE UNCHANGED <<activity, alerts, alertTopic, frozen>>
  <2>1. MoneyGoesOn /\ \A u \in Transfers : SameAlerts(u)
    BY <1>2, <1>3, SameStores
  <2>2. PICK t \in Transfers : TRUE
    BY WorkerAt DEF Fails, FraudInv, At, Raising
  <2>3. Ordered(t)'
    BY <2>1, OrderedStays DEF FraudInv
  <2>4. StepOf(m, t)
    BY <1>1, <1>3, <2>1, <2>3 DEF StepOf
  <2> QED
    BY <2>4, StepKeeps
<1>4. CASE At(m, "record") /\ Effect(m)
  <2>1. PICK t \in Transfers : worker[m] = [at |-> "record", transfer |-> t]
    BY <1>4, WorkerAt DEF FraudInv
  <2>2. activity' = activity \cup {t} /\ UNCHANGED <<alerts, alertTopic, frozen>>
    BY <1>4, <2>1 DEF Effect, At
  <2>3. MoneyGoesOn /\ \A u \in Transfers : SameAlerts(u)
    BY <1>2, <2>2, Recorded
  <2>4. Ordered(t)'
    BY <2>3, OrderedStays DEF FraudInv
  <2>5. StepOf(m, t)
    BY <1>1, <2>2, <2>3, <2>4 DEF StepOf
  <2> QED
    BY <2>5, StepKeeps
<1>5. CASE At(m, "store") /\ Effect(m)
  <2>1. PICK t \in Transfers, rules \in Seq(Rules) :
          /\ worker[m] = [at |-> "store", transfer |-> t, rules |-> rules]
          /\ RaisesRest(t, "store", rules)
    BY <1>5, WorkerAt DEF FraudInv, Raising
  <2>2. /\ alerts' = alerts \cup {<<t, Head(rules)>>}
        /\ UNCHANGED <<activity, alertTopic, frozen>>
    BY <1>5, <2>1 DEF Effect, At, Alert
  <2>3. MoneyGoesOn /\ Ordered(t)' /\ \A u \in Transfers \ {t} : SameAlerts(u)
    BY <1>2, <2>1, <2>2, StoresOne
  <2>4. Judges(m, t)
    BY <2>1 DEF Judges, Raising
  <2>5. StepOf(m, t)
    BY <1>1, <2>2, <2>3, <2>4 DEF StepOf
  <2> QED
    BY <2>5, StepKeeps
<1>6. CASE At(m, "send") /\ Effect(m)
  <2>1. PICK t \in Transfers, rules \in Seq(Rules) :
          /\ worker[m] = [at |-> "send", transfer |-> t, rules |-> rules]
          /\ RaisesRest(t, "send", rules)
    BY <1>6, WorkerAt DEF FraudInv, Raising
  <2>2. /\ alertTopic' = Append(alertTopic, <<t, Head(rules)>>)
        /\ UNCHANGED <<activity, alerts, frozen>>
    BY <1>6, <2>1 DEF Effect, At, Alert
  <2>3. MoneyGoesOn /\ Ordered(t)' /\ \A u \in Transfers \ {t} : SameAlerts(u)
    BY <1>2, <2>1, <2>2, PublishesOne
  <2>4. Judges(m, t)
    BY <2>1 DEF Judges, Raising
  <2>5. StepOf(m, t)
    BY <1>1, <2>2, <2>3, <2>4 DEF StepOf
  <2> QED
    BY <2>5, StepKeeps
<1>7. CASE At(m, "freeze") /\ Effect(m)
  <2>1. PICK t \in Transfers, rules \in Seq(Rules) :
          /\ worker[m] = [at |-> "freeze", transfer |-> t, rules |-> rules]
          /\ RaisesRest(t, "freeze", rules)
    BY <1>7, WorkerAt DEF FraudInv, Raising
  <2>2. /\ frozen' = frozen \cup {event[t].from}
        /\ UNCHANGED <<activity, alerts, alertTopic>>
    BY <1>7, <2>1 DEF Effect, At
  <2>3. /\ MoneyGoesOn /\ Ordered(t)' /\ \A u \in Transfers : SameAlerts(u)
        /\ \A a \in frozen' : a \in frozen \/ Drained(a)'
    BY <1>2, <2>1, <2>2, FreezesOne
  <2>4. StepOf(m, t)
    BY <1>1, <2>3 DEF StepOf
  <2> QED
    BY <2>4, StepKeeps
<1> QED
  BY <1>2, <1>3, <1>4, <1>5, <1>6, <1>7 DEF Effect, stores

-----------------------------------------------------------------------------
(* The steps of the others, and the whole behaviour.                       *)

\* The workers stay where they are.
LEMMA OthersKeep ==
  ASSUME FraudInv, MoneyGoesOn, \A u \in Transfers : SameAlerts(u),
         UNCHANGED <<worker, frozen>>
  PROVE  FraudInv'
<1>1. StoresTyped /\ StoresTyped' /\ activity \subseteq activity'
  BY DEF FraudInv, MoneyGoesOn
<1>2. \A u \in Transfers : Ordered(u)'
  BY <1>1, OrderedStays DEF FraudInv
<1>3. \A m \in Members : WorkerKnows(m)'
  BY <1>1, KnowledgeStays DEF FraudInv
<1>4. OneJudge'
  BY <1>1 DEF FraudInv, OneJudge, Judges
<1>5. \A a \in frozen' : Drained(a)'
  BY <1>1, DrainedStays DEF FraudInv, StoresTyped
<1> QED
  BY <1>1, <1>2, <1>3, <1>4, <1>5 DEF FraudInv

\* Nothing the fraud service has stored changes: the outbox publishes, the
\* notification service works, nothing happens.
LEMMA NothingStored ==
  ASSUME FraudInv,
         UNCHANGED <<event, accountVars, worker, judged, activity, alerts, alertTopic, frozen>>
  PROVE  FraudInv'
<1>1. MoneyGoesOn /\ \A u \in Transfers : SameAlerts(u)
  BY SameStores DEF FraudInv
<1> QED
  BY <1>1, OthersKeep

LEMMA MinOfTwo ==
  ASSUME NEW x \in Int, NEW y \in Int
  PROVE  Min({x, y}) \in {x, y} /\ Min({x, y}) <= x /\ Min({x, y}) <= y
<1> DEFINE S == {x, y}
<1>1. \E z \in S : \A w \in S : z <= w
  BY x <= y \/ y <= x
<1>2. Min(S) \in S /\ \A w \in S : Min(S) <= w
  <2> HIDE DEF S
  <2> QED
    BY <1>1 DEF Min
<1> QED
  BY <1>2

LEMMA MoveKeeps ==
  ASSUME FraudInv, NEW a \in AccountIds, NEW amount \in Moves, Move(a, amount)
  PROVE  FraudInv'
<1>1. StoresTyped /\ MaxBalance \in Nat
  BY FraudAssumption DEF FraudInv
<1>2. PICK b \in 0..MaxBalance, l \in 0..MaxBalance, c \in 0..MaxBalance :
        b = balance[a] /\ l = lowest[a] /\ c = balance[a] + amount
  BY <1>1 DEF StoresTyped, Move
<1>3. /\ balance' = [balance EXCEPT ![a] = c]
      /\ lowest' = [lowest EXCEPT ![a] = Min({l, c})]
  BY <1>2 DEF Move
<1>4. PICK w \in 0..MaxBalance : w = Min({l, c}) /\ w <= l /\ w <= c
  <2>1. l \in Int /\ c \in Int
    BY <1>1
  <2>2. Min({l, c}) \in {l, c} /\ Min({l, c}) <= l /\ Min({l, c}) <= c
    BY <2>1, MinOfTwo
  <2> QED
    BY <2>2
<1>5. /\ balance' \in [AccountIds -> 0..MaxBalance]
      /\ lowest' \in [AccountIds -> 0..MaxBalance]
      /\ \A o \in AccountIds : lowest'[o] <= balance'[o] /\ lowest'[o] <= lowest[o]
  <2>1. /\ balance' = [balance EXCEPT ![a] = c] /\ balance \in [AccountIds -> 0..MaxBalance]
        /\ lowest' = [lowest EXCEPT ![a] = w] /\ lowest \in [AccountIds -> 0..MaxBalance]
        /\ \A o \in AccountIds : lowest[o] <= balance[o]
        /\ lowest[a] = l
    BY <1>1, <1>2, <1>3, <1>4 DEF StoresTyped
  <2> QED
    BY <1>1, <1>4, <2>1
<1>6. UNCHANGED <<event, worker, judged, activity, alerts, alertTopic, frozen>>
  BY DEF Move, stores
<1>7. MoneyGoesOn
  BY <1>1, <1>5, <1>6 DEF StoresTyped, MoneyGoesOn
<1>8. \A u \in Transfers : SameAlerts(u)
  BY <1>6 DEF SameAlerts, Stored, Published
<1> QED
  BY <1>6, <1>7, <1>8, OthersKeep

LEMMA FraudKeeps ==
  ASSUME FraudInv, FraudNext
  PROVE  FraudInv'
<1>1. ASSUME NEW m \in Members, Process(m) PROVE FraudInv'
  <2>1. CASE \E t \in Transfers : Deliver(m, t)
    BY <2>1, DeliverKeeps
  <2>2. CASE Record(m)
    BY <2>2, RecordKeeps
  <2>3. CASE Store(m)
    BY <2>3, StoreKeeps
  <2>4. CASE Send(m)
    BY <2>4, SendKeeps
  <2>5. CASE Freeze(m)
    BY <2>5, FreezeKeeps
  <2>6. CASE Commit(m)
    BY <2>6, CommitKeeps
  <2>7. CASE \E what \in Readings : Read(m, what)
    BY <2>7, ReadKeeps
  <2>8. CASE Refused(m)
    BY <2>8, RefusedKeeps
  <2> QED
    BY <1>1, <2>1, <2>2, <2>3, <2>4, <2>5, <2>6, <2>7, <2>8 DEF Process
<1>2. ASSUME NEW t \in Transfers, Publish(t) PROVE FraudInv'
  BY <1>2, NothingStored DEF Publish
<1> QED
  BY <1>1, <1>2, FailsKeeps, MoveKeeps DEF FraudNext

LEMMA FraudStarts ==
  ASSUME FraudInit
  PROVE  FraudInv
<1>1. StoresTyped
  <2>1. \A a \in AccountIds : lowest[a] \in 0..MaxBalance /\ lowest[a] <= balance[a]
    BY FraudAssumption DEF FraudInit
  <2> QED
    BY <2>1, FS_EmptySet DEF FraudInit, StoresTyped, Events
<1>2. ASSUME NEW t \in Transfers PROVE Ordered(t)
  <2>1. judged[t] = <<>> /\ Stored(t) = {} /\ Published(t) = {}
    BY DEF FraudInit, Stored, Published
  <2>2. StoredFirst(t, 0) /\ PublishedFirst(t, 0)
    BY <2>1, FS_EmptySet DEF StoredFirst, PublishedFirst
  <2> QED
    BY <2>1, <2>2 DEF Ordered
<1>3. \A m \in Members : WorkerKnows(m)
  BY DEF FraudInit, WorkerKnows
<1>4. OneJudge
  BY DEF FraudInit, OneJudge, Judges, Idle, Raising
<1> QED
  BY <1>1, <1>2, <1>3, <1>4 DEF FraudInit, FraudInv

LEMMA FraudInvariant == AlertsSpec => []FraudInv
<1>1. AlertsInit => FraudInv
  BY FraudStarts DEF AlertsInit
<1>2. FraudInv /\ [AlertsNext]_alertsVars => FraudInv'
  <2> SUFFICES ASSUME FraudInv, [AlertsNext]_alertsVars PROVE FraudInv'
    OBVIOUS
  <2>1. CASE Fraud
    BY <2>1, FraudKeeps DEF Fraud
  <2>2. ASSUME NEW t \in Transfers, NEW p \in DOMAIN endings, NEW a \in AccountIds, End(t, p, a)
        PROVE  FraudInv'
    BY <2>2, NothingStored DEF End, fraudVars, stores
  <2>3. ASSUME NEW p \in Notification!Topics, Notify(p) \/ NotifyFails(p)
        PROVE  FraudInv'
    BY <2>3, NothingStored DEF Notify, NotifyFails, fraudVars, stores
  <2>4. CASE UNCHANGED alertsVars
    BY <2>4, NothingStored DEF alertsVars, fraudVars, stores
  <2> QED
    BY <2>1, <2>2, <2>3, <2>4 DEF AlertsNext
<1> QED
  BY <1>1, <1>2, PTL DEF AlertsSpec

LEMMA StoredCount ==
  ASSUME FraudInv, NEW t \in Transfers, NEW n, StoredFirst(t, n)
  PROVE  Cardinality(Stored(t)) = n
<1> DEFINE f == [i \in 1..n |-> judged[t][i]]
<1>1. n \in Nat /\ 1..n \subseteq DOMAIN judged[t]
  BY DEF FraudInv, StoresTyped, StoredFirst
<1>2. \A i, j \in 1..n : judged[t][i] = judged[t][j] => i = j
  BY <1>1 DEF FraudInv, Ordered
<1>3. f \in Bijection(1..n, Stored(t))
  <2>1. \A i \in 1..n : f[i] \in Stored(t)
    BY DEF StoredFirst
  <2>2. \A r \in Stored(t) : \E i \in 1..n : f[i] = r
    BY DEF StoredFirst
  <2> QED
    BY <1>2, <2>1, <2>2 DEF Bijection, Injection, Surjection, IsInjective
<1> HIDE DEF f
<1> QED
  BY <1>1, <1>3, FS_CountingElements DEF ExistsBijection

\* The rules of an event are acted upon once and in their order, whatever is
\* redelivered, published twice, handled by two members at once or has failed.
THEOREM OrderOfAlerts == AlertsSpec => []AlertsComeInOrder
<1>1. FraudInv => AlertsComeInOrder
  <2> SUFFICES ASSUME FraudInv, NEW t \in Transfers
               PROVE  LET n == Cardinality(Stored(t))
                      IN  /\ n <= Len(judged[t])
                          /\ Stored(t) = {judged[t][i] : i \in 1..n}
                          /\ Cardinality(Published(t)) \in {n - 1, n}
                          /\ \A i \in Published(t) :
                               alertTopic[i][2] = judged[t][Rank(t, i)]
    BY DEF AlertsComeInOrder
  <2>1. PICK n \in Nat :
          /\ StoredFirst(t, n)
          /\ PublishedFirst(t, n) \/ (n > 0 /\ PublishedFirst(t, n - 1))
    BY DEF FraudInv, Ordered
  <2>2. Cardinality(Stored(t)) = n
    BY <2>1, StoredCount
  <2>3. n <= Len(judged[t]) /\ Stored(t) = {judged[t][i] : i \in 1..n}
    BY <2>1 DEF StoredFirst
  <2>4. /\ Cardinality(Published(t)) \in {n - 1, n}
        /\ \A i \in Published(t) : alertTopic[i][2] = judged[t][Rank(t, i)]
    BY <2>1 DEF PublishedFirst
  <2> QED
    BY <2>2, <2>3, <2>4
<1> QED
  BY <1>1, FraudInvariant, PTL

\* Whoever reads whatever balance meanwhile, an account is frozen only when
\* the transfers recorded for it exceed 80% of the least it ever held.
THEOREM FreezesWereDeserved == AlertsSpec => []FreezesAreDeserved
<1>1. FraudInv => FreezesAreDeserved
  BY DEF FraudInv, FreezesAreDeserved, Drained
<1> QED
  BY <1>1, FraudInvariant, PTL

-----------------------------------------------------------------------------
(* The inductive invariant of the notification service.                    *)

Topics  == {"completed", "failed", "alert"}
Endings == [from : AccountIds, to : AccountIds, severity : {"none"}, transfer : Transfers]

\* The messages, and how many are to be told of one.
Log == [p \in Topics |-> IF p = "alert" THEN AlertMessages ELSE endings[p]]
Size(p, offset) == Len(Notification!Plan(p, Log[p][offset + 1]))

NotifyTyped ==
  /\ endings \in [{"completed", "failed"} -> Seq(Endings)]
  /\ position \in [Topics -> Nat]
  /\ handler \in [Topics -> [at : {"idle", "lookup", "send", "commit"}, sent : Nat]]
  /\ told \in [DOMAIN told -> Nat \ {0}]
  /\ DOMAIN told \subseteq Topics \X Nat \X (Nat \ {0})
  /\ faults \in Nat

\* What has been told of the messages up to the one at hand.
Handled(p) ==
  /\ position[p] <= Len(Log[p])
  /\ handler[p].at # "idle" => position[p] < Len(Log[p])
  /\ handler[p].at \in {"idle", "lookup"} => handler[p].sent = 0
  /\ handler[p].at = "send" => handler[p].sent < Size(p, position[p])
  /\ handler[p].at = "commit" => handler[p].sent = Size(p, position[p])
  /\ \A i \in 1..handler[p].sent : <<p, position[p], i>> \in DOMAIN told
  /\ \A o \in Nat : o < position[p] =>
       \A i \in 1..Size(p, o) : <<p, o, i>> \in DOMAIN told

\* A notification that is still to come, if nothing fails.  It may have been
\* sent before, but then a failure has led back behind it.
Ahead(n) ==
  \/ position[n[1]] < n[2]
  \/ position[n[1]] = n[2] /\ handler[n[1]].sent < n[3]

Counted(n) ==
  /\ \A j \in 1..n[3] : <<n[1], n[2], j>> \in DOMAIN told
  /\ told[n] <= 1 + faults
  /\ Ahead(n) => told[n] <= faults

NotifyInv ==
  /\ NotifyTyped
  /\ \A p \in Topics : Handled(p)
  /\ \A n \in DOMAIN told : Counted(n)

-----------------------------------------------------------------------------
(* The topics grow, and keep what they have.                               *)

Grows ==
  \A p \in Topics :
    /\ Len(Log[p]) \in Nat /\ Len(Log[p])' \in Nat
    /\ Len(Log[p]) <= Len(Log[p])'
    /\ \A i \in 1..Len(Log[p]) : Log[p][i]' = Log[p][i]

LEMMA AlertsLength ==
  ASSUME alertTopic \in Seq(Transfers \X Rules)
  PROVE  Len(AlertMessages) = Len(alertTopic) /\ Len(alertTopic) \in Nat
<1> DEFINE S == {AlertMessages[i] : i \in 1..Len(alertTopic)}
<1>1. PICK n \in Nat : n = Len(alertTopic)
  OBVIOUS
<1>2. DOMAIN AlertMessages = 1..n /\ AlertMessages \in [1..n -> S]
  BY <1>1 DEF AlertMessages
<1>3. AlertMessages \in Seq(S)
  <2> HIDE DEF S
  <2> QED
    BY <1>2
<1>4. Len(AlertMessages) \in Nat /\ DOMAIN AlertMessages = 1..Len(AlertMessages)
  BY <1>3, LenProperties
<1> QED
  BY <1>1, <1>2, <1>4

LEMMA LogsAre ==
  Log["completed"] = endings["completed"] /\ Log["failed"] = endings["failed"]
  /\ Log["alert"] = AlertMessages
  BY DEF Log, Topics

LEMMA AppendKeeps ==
  ASSUME NEW S, NEW s \in Seq(S), NEW r, r = s \/ \E x \in S : r = Append(s, x)
  PROVE  /\ r \in Seq(S) /\ Len(s) \in Nat /\ Len(r) \in Nat /\ Len(s) <= Len(r)
         /\ \A i \in 1..Len(s) : r[i] = s[i]
  OBVIOUS

\* Nothing is published that anyone is told of, or one message is.
LEMMA LogGrows ==
  ASSUME StoresTyped, NotifyTyped, event' = event,
         \/ alertTopic' = alertTopic
         \/ \E a \in Transfers \X Rules : alertTopic' = Append(alertTopic, a),
         \/ endings' = endings
         \/ \E p \in DOMAIN endings, e \in Endings :
              endings' = [endings EXCEPT ![p] = Append(@, e)]
  PROVE  Grows /\ endings' \in [{"completed", "failed"} -> Seq(Endings)]
<1> DEFINE A == Transfers \X Rules
<1>9. alertTopic \in Seq(A) /\ (alertTopic' = alertTopic \/ \E a \in A : alertTopic' = Append(alertTopic, a))
  BY DEF StoresTyped
<1>1. /\ alertTopic \in Seq(A) /\ alertTopic' \in Seq(A)
      /\ Len(alertTopic) \in Nat /\ Len(alertTopic') \in Nat
      /\ Len(alertTopic) <= Len(alertTopic')
      /\ \A i \in 1..Len(alertTopic) : alertTopic'[i] = alertTopic[i]
  <2> HIDE DEF A
  <2> QED
    BY ONLY <1>9, AppendKeeps
<1>2. PICK n \in Nat, k \in Nat : n = Len(alertTopic) /\ k = Len(alertTopic') /\ n <= k
  BY <1>1
<1>3. /\ Len(AlertMessages) = n /\ Len(AlertMessages)' = k
      /\ \A i \in 1..n : alertTopic'[i] = alertTopic[i]
  <2>1. Len(AlertMessages) = Len(alertTopic)
    BY <1>1, AlertsLength
  <2>2. Len(AlertMessages)' = Len(alertTopic)'
    <3>1. alertTopic \in Seq(Transfers \X Rules) => Len(AlertMessages) = Len(alertTopic)
      BY AlertsLength
    <3>2. (alertTopic \in Seq(Transfers \X Rules) => Len(AlertMessages) = Len(alertTopic))'
      BY AlertsLength, PTL
    <3> QED
      BY <1>1, <3>2
  <2>3. \A i \in 1..Len(alertTopic) : alertTopic'[i] = alertTopic[i]
    BY <1>1
  <2> QED
    BY <1>2, <2>1, <2>2, <2>3
<1>4. \A i \in 1..n : AlertMessages'[i] = AlertMessages[i]
  BY <1>2, <1>3 DEF AlertMessages
<1>5. ASSUME NEW p \in {"completed", "failed"}
      PROVE  /\ endings[p] \in Seq(Endings) /\ endings'[p] \in Seq(Endings)
             /\ Len(endings[p]) <= Len(endings'[p])
             /\ \A i \in 1..Len(endings[p]) : endings'[p][i] = endings[p][i]
  <2>1. endings[p] \in Seq(Endings)
    BY DEF NotifyTyped
  <2>2. endings'[p] = endings[p] \/ \E e \in Endings : endings'[p] = Append(endings[p], e)
    BY DEF NotifyTyped
  <2> QED
    BY ONLY <2>1, <2>2, AppendKeeps
<1>6. endings' \in [{"completed", "failed"} -> Seq(Endings)]
  <2>1. endings' = [p \in {"completed", "failed"} |-> endings'[p]]
    BY DEF NotifyTyped
  <2> QED
    BY ONLY <1>5, <2>1
<1>7. (/\ Log["completed"] = endings["completed"] /\ Log["failed"] = endings["failed"]
       /\ Log["alert"] = AlertMessages)'
  BY LogsAre, PTL
<1>8. ASSUME NEW p \in Topics
      PROVE  /\ Len(Log[p]) \in Nat /\ Len(Log[p])' \in Nat
             /\ Len(Log[p]) <= Len(Log[p])'
             /\ \A i \in 1..Len(Log[p]) : Log[p][i]' = Log[p][i]
  <2>1. CASE p = "alert"
    <3>1. Log[p] = AlertMessages /\ Log'[p] = AlertMessages'
      BY <1>7, <2>1, LogsAre
    <3>2. Len(Log[p]) = n /\ Len(Log[p])' = k
      BY ONLY <1>3, <3>1
    <3>3. \A i \in 1..n : Log[p][i]' = Log[p][i]
      BY ONLY <1>4, <3>1
    <3> QED
      BY ONLY <1>2, <3>2, <3>3
  <2>2. CASE p \in {"completed", "failed"}
    <3>1. Log[p] = endings[p] /\ Log[p]' = endings[p]'
      BY <1>7, <2>2, LogsAre
    <3> QED
      BY ONLY <1>5, <2>2, <3>1
  <2> QED
    BY <2>1, <2>2 DEF Topics
<1> QED
  BY <1>6, <1>8 DEF Grows

LEMMA SizePositive ==
  ASSUME NEW p \in Topics, NEW o
  PROVE  Size(p, o) \in {1, 2}
  BY DEF Size, Topics, Notification!Plan, Notification!Email, Notification!Sms

LEMMA SizeStays ==
  ASSUME Grows, NEW p \in Topics, NEW o \in Nat, o < Len(Log[p])
  PROVE  Size(p, o)' = Size(p, o)
<1>1. o + 1 \in 1..Len(Log[p])
  BY DEF Grows
<1>2. Log[p][o + 1]' = Log[p][o + 1]
  BY <1>1 DEF Grows
<1> QED
  BY <1>2 DEF Size, Notification!Plan, Notification!Email, Notification!Sms

\* Another topic, while this one grows and more is told elsewhere.
LEMMA HandledStays ==
  ASSUME NotifyTyped, Grows, NEW p \in Topics, Handled(p),
         position'[p] = position[p], handler'[p] = handler[p],
         DOMAIN told \subseteq DOMAIN told'
  PROVE  Handled(p)'
<1>1. /\ position[p] \in Nat /\ handler[p].sent \in Nat
      /\ handler[p].at \in {"idle", "lookup", "send", "commit"}
  BY DEF NotifyTyped
<1>2. PICK c \in Nat, n \in Nat, k \in Nat :
        c = position[p] /\ n = Len(Log[p]) /\ k = Len(Log[p])' /\ n <= k
  BY <1>1 DEF Grows
<1>3. c <= k /\ (handler[p].at # "idle" => c < k)
  BY <1>2 DEF Handled
<1>4. handler[p].at \in {"send", "commit"} => Size(p, c)' = Size(p, c)
  BY <1>2, SizeStays DEF Handled
<1>5. ASSUME NEW o \in Nat, o < c PROVE Size(p, o)' = Size(p, o)
  BY <1>2, <1>5, SizeStays DEF Handled
<1>6. \A o \in Nat : o < c => \A i \in 1..Size(p, o)' : <<p, o, i>> \in DOMAIN told'
  BY <1>2, <1>5 DEF Handled
<1>7. /\ handler[p].at = "send" => handler[p].sent < Size(p, c)'
      /\ handler[p].at = "commit" => handler[p].sent = Size(p, c)'
  BY <1>2, <1>4 DEF Handled
<1>8. Size(p, c)' = Size(p, position[p])'
  BY <1>2
<1>9. \A i \in 1..handler[p].sent : <<p, position[p], i>> \in DOMAIN told'
  BY DEF Handled
<1> QED
  BY <1>2, <1>3, <1>6, <1>7, <1>8, <1>9 DEF Handled

-----------------------------------------------------------------------------
(* The steps of the notification service.                                  *)

Turns(p, label, sent) ==
  handler' = [handler EXCEPT ![p] = [at |-> label, sent |-> sent]]

\* The next of the plan is told.
Telling(p) ==
  LET n == <<p, position[p], handler[p].sent + 1>>
  IN  /\ handler[p].at = "send"
      /\ told' \in [DOMAIN told \cup {n} -> Nat \ {0}]
      /\ told'[n] = 1 + IF n \in DOMAIN told THEN told[n] ELSE 0
      /\ \A o \in DOMAIN told \ {n} : told'[o] = told[o]
      /\ position' = position

\* To wait, to look up, to begin to send; back to the start after a failure.
Starts(p) ==
  /\ \/ Turns(p, "idle", 0)
     \/ position[p] < Len(Log[p]) /\ (Turns(p, "lookup", 0) \/ Turns(p, "send", 0))
  /\ \/ faults' = faults /\ handler[p].sent = 0
     \/ faults' = faults + 1
  /\ UNCHANGED <<position, told>>

\* One is told, and it is noted or forgotten.
TellsNext(p) ==
  /\ Telling(p)
  /\ \/ /\ faults' = faults
        /\ LET sent == handler[p].sent + 1
           IN  Turns(p, IF sent = Size(p, position[p]) THEN "commit" ELSE "send", sent)
     \/ faults' = faults + 1 /\ Turns(p, "idle", 0)


\* The message is done with.
Finishes(p) ==
  /\ handler[p].at = "commit" /\ Turns(p, "idle", 0)
  /\ position' = [position EXCEPT ![p] = @ + 1]
  /\ faults' = faults \/ faults' = faults + 1
  /\ told' = told

LEMMA TellIs ==
  ASSUME NotifyTyped, NEW p \in Topics, handler[p].at = "send", Notification!Tell(p),
         position' = position
  PROVE  Telling(p)
<1> DEFINE n == <<p, position[p], handler[p].sent + 1>>
<1>1. told' = IF n \in DOMAIN told
              THEN [e \in DOMAIN told |-> IF e = n THEN told[e] + 1 ELSE told[e]]
              ELSE [e \in DOMAIN told \cup {n} |-> IF e = n THEN 1 ELSE told[e]]
  BY DEF Notification!Tell, Notification!BagAdd, Notification!Notice
<1>2. told \in [DOMAIN told -> Nat \ {0}]
  BY DEF NotifyTyped
<1>3. /\ told' \in [DOMAIN told \cup {n} -> Nat \ {0}]
      /\ told'[n] = 1 + IF n \in DOMAIN told THEN told[n] ELSE 0
      /\ \A o \in DOMAIN told \ {n} : told'[o] = told[o]
  <2> HIDE DEF n
  <2>1. CASE n \in DOMAIN told
    <3>1. DOMAIN told \cup {n} = DOMAIN told
      BY <2>1
    <3> QED
      BY <1>1, <1>2, <2>1, <3>1
  <2>2. CASE n \notin DOMAIN told
    BY <1>1, <1>2, <2>2
  <2> QED
    BY <2>1, <2>2
<1> QED
  BY <1>3 DEF Telling

LEMMA NotifySteps ==
  ASSUME NotifyInv, NEW p \in Topics, Notify(p) \/ NotifyFails(p)
  PROVE  /\ UNCHANGED <<event, accountVars, alertTopic, endings>>
         /\ Starts(p) \/ TellsNext(p) \/ Finishes(p)
<1>1. /\ NotifyTyped /\ Handled(p) /\ handler[p].sent \in Nat
      /\ handler[p].at \in {"idle", "lookup", "send", "commit"}
  BY DEF NotifyInv, NotifyTyped
<1>2. UNCHANGED <<event, accountVars, alertTopic, endings>>
  BY DEF Notify, NotifyFails, fraudVars, stores
<1>3. ASSUME Notify(p) PROVE Starts(p) \/ TellsNext(p) \/ Finishes(p)
  <2>1. faults' = faults
    BY <1>3 DEF Notify, fraudVars
  <2>2. CASE Notification!Take(p)
    <3>1. position[p] < Len(Log[p]) /\ Turns(p, "lookup", 0) /\ UNCHANGED <<position, told>>
      BY <2>2 DEF Notification!Take, Notification!Waiting, Notification!Goto, Turns, Log, Topics
    <3>2. handler[p].sent = 0
      BY <1>1, <2>2 DEF Handled, Notification!Take
    <3> QED
      BY <2>1, <3>1, <3>2 DEF Starts
  <2>3. CASE Notification!LookUp(p)
    <3>1. (Turns(p, "idle", 0) \/ Turns(p, "send", 0)) /\ UNCHANGED <<position, told>>
      BY <2>3 DEF Notification!LookUp, Notification!Goto, Turns
    <3>2. handler[p].sent = 0 /\ position[p] < Len(Log[p])
      BY <1>1, <2>3 DEF Handled, Notification!LookUp
    <3> QED
      BY <2>1, <3>1, <3>2 DEF Starts
  <2>4. CASE Notification!SendNext(p)
    <3>1. handler[p].at = "send" /\ Notification!Tell(p) /\ position' = position
      BY <2>4 DEF Notification!SendNext
    <3>2. LET sent == handler[p].sent + 1
          IN  Turns(p, IF sent = Size(p, position[p]) THEN "commit" ELSE "send", sent)
      BY <2>4 DEF Notification!SendNext, Notification!Goto, Notification!Current,
                  Turns, Size, Log, Topics
    <3> QED
      BY <1>1, <2>1, <3>1, <3>2, TellIs DEF TellsNext
  <2>5. CASE Notification!Commit(p)
    BY <2>1, <2>5 DEF Notification!Commit, Notification!Advance, Notification!Goto, Turns, Finishes
  <2> QED
    BY <1>3, <2>2, <2>3, <2>4, <2>5 DEF Notify, Notification!Handle
<1>4. ASSUME NotifyFails(p) PROVE Starts(p) \/ TellsNext(p) \/ Finishes(p)
  <2>1. /\ faults' = faults + 1 /\ Turns(p, "idle", 0)
        /\ \/ UNCHANGED <<position, told>>
           \/ handler[p].at = "send" /\ Notification!Tell(p) /\ position' = position
           \/ /\ handler[p].at = "commit"
              /\ position' = [position EXCEPT ![p] = @ + 1] /\ told' = told
    BY <1>4 DEF NotifyFails, Notification!Fails, Notification!Goto, Notification!Advance, Turns
  <2>2. CASE UNCHANGED <<position, told>>
    BY <2>1, <2>2 DEF Starts
  <2>3. CASE handler[p].at = "send" /\ Notification!Tell(p) /\ position' = position
    BY <1>1, <2>1, <2>3, TellIs DEF TellsNext
  <2>4. CASE /\ handler[p].at = "commit"
             /\ position' = [position EXCEPT ![p] = @ + 1] /\ told' = told
    BY <2>1, <2>4 DEF Finishes
  <2> QED
    BY <2>1, <2>2, <2>3, <2>4
<1> QED
  BY <1>2, <1>3, <1>4

\* Every message stays in its place.
LEMMA SameTopics ==
  ASSUME NotifyTyped, StoresTyped, UNCHANGED <<event, accountVars, alertTopic, endings>>
  PROVE  /\ Grows
         /\ endings' \in [{"completed", "failed"} -> Seq(Endings)]
         /\ \A p \in Topics : Len(Log[p])' = Len(Log[p]) /\ Len(Log[p]) \in Nat
         /\ \A p \in Topics : \A o : Size(p, o)' = Size(p, o)
<1>1. Grows /\ endings' \in [{"completed", "failed"} -> Seq(Endings)]
  BY LogGrows
<1>2. Log' = Log
  BY DEF Log, AlertMessages
<1>3. \A p \in Topics : Len(Log[p])' = Len(Log[p]) /\ Len(Log[p]) \in Nat
  BY <1>1, <1>2 DEF Grows
<1>4. \A p \in Topics : \A o : Size(p, o)' = Size(p, o)
  BY <1>2 DEF Size, Notification!Plan, Notification!Email, Notification!Sms
<1> QED
  BY <1>1, <1>3, <1>4

LEMMA TurnsIs ==
  ASSUME NotifyTyped, NEW p \in Topics, NEW label \in {"idle", "lookup", "send", "commit"},
         NEW sent \in Nat, Turns(p, label, sent)
  PROVE  /\ handler' \in [Topics -> [at : {"idle", "lookup", "send", "commit"}, sent : Nat]]
         /\ handler'[p].at = label /\ handler'[p].sent = sent
         /\ \A q \in Topics \ {p} : handler'[q] = handler[q]
  BY DEF NotifyTyped, Turns

\* A notification that has not been sent again, and is no more to come than before.
LEMMA CountStays ==
  ASSUME NotifyInv, NEW n \in DOMAIN told, DOMAIN told \subseteq DOMAIN told',
         told'[n] = told[n],
         \/ faults' = faults /\ (Ahead(n)' => Ahead(n))
         \/ faults' = faults + 1
  PROVE  Counted(n)'
<1>1. PICK c \in Nat, f \in Nat, g \in Nat :
        c = told[n] /\ c = told'[n] /\ f = faults /\ g = faults' /\ f <= g
  BY DEF NotifyInv, NotifyTyped
<1>2. \A j \in 1..n[3] : <<n[1], n[2], j>> \in DOMAIN told'
  BY DEF NotifyInv, Counted
<1>3. c <= 1 + f /\ (Ahead(n) => c <= f)
  BY <1>1 DEF NotifyInv, Counted
<1>4. c <= 1 + g /\ (Ahead(n)' => c <= g)
  BY <1>1, <1>3
<1> QED
  BY <1>1, <1>2, <1>4 DEF Counted

LEMMA TypedStays ==
  ASSUME NotifyTyped, told' = told, faults' = faults \/ faults' = faults + 1,
         endings' \in [{"completed", "failed"} -> Seq(Endings)],
         position' \in [Topics -> Nat],
         handler' \in [Topics -> [at : {"idle", "lookup", "send", "commit"}, sent : Nat]]
  PROVE  NotifyTyped'
<1>1. told' \in [DOMAIN told' -> Nat \ {0}] /\ DOMAIN told' \subseteq Topics \X Nat \X (Nat \ {0})
  BY DEF NotifyTyped
<1>2. faults' \in Nat
  BY DEF NotifyTyped
<1> QED
  BY <1>1, <1>2 DEF NotifyTyped

LEMMA StartsKeep ==
  ASSUME NotifyInv, StoresTyped, NEW p \in Topics, Starts(p),
         UNCHANGED <<event, accountVars, alertTopic, endings>>
  PROVE  NotifyInv'
<1>1. NotifyTyped /\ Handled(p) /\ position[p] \in Nat /\ faults \in Nat
  BY DEF NotifyInv, NotifyTyped
<1>2. /\ Grows /\ endings' \in [{"completed", "failed"} -> Seq(Endings)]
      /\ Len(Log[p])' = Len(Log[p]) /\ \A o : Size(p, o)' = Size(p, o)
  BY <1>1, SameTopics
<1>3. PICK label \in {"idle", "lookup", "send"} :
        Turns(p, label, 0) /\ (label # "idle" => position[p] < Len(Log[p]))
  BY DEF Starts
<1>4. /\ handler' \in [Topics -> [at : {"idle", "lookup", "send", "commit"}, sent : Nat]]
      /\ handler'[p].at = label /\ handler'[p].sent = 0
      /\ \A q \in Topics \ {p} : handler'[q] = handler[q]
  BY <1>1, <1>3, TurnsIs
<1>5. /\ position' = position /\ told' = told
      /\ (faults' = faults /\ handler[p].sent = 0) \/ faults' = faults + 1
  BY DEF Starts
<1>6. NotifyTyped'
  <2>1. position' \in [Topics -> Nat]
    BY <1>1, <1>5 DEF NotifyTyped
  <2> QED
    BY <1>1, <1>2, <1>4, <1>5, <2>1, TypedStays
<1>7. ASSUME NEW q \in Topics \ {p} PROVE Handled(q)'
  BY <1>1, <1>2, <1>4, <1>5, HandledStays DEF NotifyInv
<1>8. Handled(p)'
  <2>1. PICK c \in Nat : c = position[p] /\ c = position'[p]
    BY <1>1, <1>5
  <2>2. Size(p, c) \in {1, 2}
    BY SizePositive
  <2>3. Size(p, position[p])' > 0
    BY <1>2, <2>1, <2>2
  <2>4. /\ c <= Len(Log[p]) /\ (label # "idle" => c < Len(Log[p]))
        /\ \A o \in Nat : o < c => \A i \in 1..Size(p, o) : <<p, o, i>> \in DOMAIN told
    BY <1>1, <1>3, <2>1 DEF Handled
  <2>5. \A i \in 1..0 : <<p, c, i>> \in DOMAIN told
    OBVIOUS
  <2> QED
    BY <1>2, <1>4, <1>5, <2>1, <2>3, <2>4, <2>5 DEF Handled
<1>9. ASSUME NEW n \in DOMAIN told PROVE Counted(n)'
  <2>1. n[1] \in Topics
    BY <1>1 DEF NotifyTyped
  <2>2. CASE faults' = faults + 1
    BY <1>5, <2>2, CountStays
  <2>3. CASE faults' = faults /\ handler[p].sent = 0
    <3>1. handler'[n[1]].sent = handler[n[1]].sent
      BY <1>4, <2>1, <2>3
    <3>2. Ahead(n)' <=> Ahead(n)
      BY <1>5, <3>1 DEF Ahead
    <3> QED
      BY <1>5, <2>3, <3>2, CountStays
  <2> QED
    BY <1>5, <2>2, <2>3
<1> QED
  BY <1>5, <1>6, <1>7, <1>8, <1>9 DEF NotifyInv

LEMMA TellsKeep ==
  ASSUME NotifyInv, StoresTyped, NEW p \in Topics, TellsNext(p),
         UNCHANGED <<event, accountVars, alertTopic, endings>>
  PROVE  NotifyInv'
<1>1. /\ NotifyTyped /\ Handled(p) /\ faults \in Nat
      /\ told \in [DOMAIN told -> Nat \ {0}] /\ Telling(p)
  BY DEF NotifyInv, NotifyTyped, TellsNext
<1>2. /\ Grows /\ endings' \in [{"completed", "failed"} -> Seq(Endings)]
      /\ Len(Log[p])' = Len(Log[p]) /\ \A o : Size(p, o)' = Size(p, o)
  BY <1>1, SameTopics
<1>3. PICK c \in Nat, s \in Nat, z \in Nat :
        c = position[p] /\ s = handler[p].sent /\ z = Size(p, c) /\ s < z
  <2>1. position[p] \in Nat /\ handler[p].sent \in Nat
    BY <1>1 DEF NotifyTyped
  <2>4. Size(p, position[p]) \in {1, 2}
    BY SizePositive
  <2>3. handler[p].at = "send"
    BY <1>1 DEF Telling
  <2>2. handler[p].sent < Size(p, position[p])
    BY <1>1, <2>3 DEF Handled
  <2> QED
    BY <2>1, <2>2, <2>4
<1>4. PICK m : m = <<p, c, s + 1>>
  OBVIOUS
<1>5. /\ told' \in [DOMAIN told \cup {m} -> Nat \ {0}]
      /\ told'[m] = 1 + IF m \in DOMAIN told THEN told[m] ELSE 0
      /\ \A o \in DOMAIN told \ {m} : told'[o] = told[o]
      /\ position' = position /\ handler[p].at = "send"
  BY <1>3, <1>4 DEF TellsNext, Telling
<1>6. PICK label \in {"idle", "send", "commit"}, sent \in Nat :
        /\ Turns(p, label, sent)
        /\ \/ faults' = faults + 1 /\ label = "idle" /\ sent = 0
           \/ /\ faults' = faults /\ sent = s + 1
              /\ label = IF sent = z THEN "commit" ELSE "send"
  BY <1>3 DEF TellsNext
<1>7. /\ handler' \in [Topics -> [at : {"idle", "lookup", "send", "commit"}, sent : Nat]]
      /\ handler'[p].at = label /\ handler'[p].sent = sent
      /\ \A q \in Topics \ {p} : handler'[q] = handler[q]
  BY <1>1, <1>6, TurnsIs
<1>8. DOMAIN told' = DOMAIN told \cup {m} /\ DOMAIN told \subseteq DOMAIN told'
  BY <1>5
<1>9. NotifyTyped'
  <2>1. m \in Topics \X Nat \X (Nat \ {0})
    BY <1>4
  <2>2. faults' \in Nat
    BY <1>1, <1>6
  <2> QED
    BY <1>1, <1>2, <1>5, <1>7, <1>8, <2>1, <2>2 DEF NotifyTyped
<1>10. ASSUME NEW q \in Topics \ {p} PROVE Handled(q)'
  BY <1>1, <1>2, <1>5, <1>7, <1>8, HandledStays DEF NotifyInv
<1>11. \A i \in 1..(s + 1) : <<p, c, i>> \in DOMAIN told'
  <2>1. \A i \in 1..s : <<p, c, i>> \in DOMAIN told
    BY <1>1, <1>3 DEF Handled
  <2>2. 1..(s + 1) = 1..s \cup {s + 1}
    OBVIOUS
  <2> QED
    BY ONLY <1>4, <1>8, <2>1, <2>2
<1>12. Handled(p)'
  <2>1. /\ c <= Len(Log[p]) /\ c < Len(Log[p])
        /\ \A o \in Nat : o < c => \A i \in 1..Size(p, o) : <<p, o, i>> \in DOMAIN told
    BY <1>1, <1>3, <1>5 DEF Handled
  <2>2. /\ label \in {"idle", "lookup"} => sent = 0
        /\ label = "send" => sent < z
        /\ label = "commit" => sent = z
    BY <1>3, <1>6
  <2>3. \A i \in 1..sent : <<p, c, i>> \in DOMAIN told'
    BY <1>6, <1>11
  <2>4. position'[p] = c /\ Size(p, position[p])' = z
    BY <1>2, <1>3, <1>5
  <2> QED
    BY <1>2, <1>7, <1>8, <2>1, <2>2, <2>3, <2>4 DEF Handled
<1>13. ASSUME NEW n \in DOMAIN told, n # m PROVE Counted(n)'
  <2>1. n \in Topics \X Nat \X (Nat \ {0}) /\ told'[n] = told[n]
    BY <1>1, <1>5, <1>13 DEF NotifyTyped
  <2>2. CASE faults' = faults + 1
    BY <1>8, <2>1, <2>2, CountStays
  <2>3. CASE faults' = faults /\ sent = s + 1
    <3>1. Ahead(n)' => Ahead(n)
      <4>1. CASE n[1] = p
        <5>1. n[3] \in Nat /\ (s + 1 < n[3] => s < n[3])
          BY <2>1
        <5> QED
          BY <1>3, <1>5, <1>7, <2>3, <4>1, <5>1 DEF Ahead
      <4>2. CASE n[1] # p
        BY <1>5, <1>7, <2>1, <4>2 DEF Ahead
      <4> QED
        BY <4>1, <4>2
    <3> QED
      BY <1>8, <2>1, <2>3, <3>1, CountStays
  <2> QED
    BY <1>6, <2>2, <2>3
<1>14. Counted(m)'
  <2>1. m[1] = p /\ m[2] = c /\ m[3] = s + 1
    BY <1>4
  <2>2. m \in DOMAIN told => told[m] \in Nat /\ told[m] <= faults
    <3>1. Ahead(m)
      BY <1>3, <2>1 DEF Ahead
    <3> QED
      BY <1>1, <3>1 DEF NotifyInv, Counted
  <2>3. told'[m] <= 1 + faults /\ faults' \in {faults, faults + 1}
    BY <1>1, <1>5, <1>6, <2>2
  <2>4. Ahead(m)' => faults' = faults + 1
    <3>1. CASE faults' = faults /\ sent = s + 1
      BY <1>3, <1>5, <1>7, <2>1, <3>1 DEF Ahead
    <3> QED
      BY <1>6, <3>1
  <2>5. told'[m] \in Nat /\ told'[m] <= 1 + faults' /\ (Ahead(m)' => told'[m] <= faults')
    BY <1>1, <1>5, <1>8, <2>3, <2>4
  <2> QED
    BY <1>11, <2>1, <2>5 DEF Counted
<1> QED
  BY <1>8, <1>9, <1>10, <1>12, <1>13, <1>14 DEF NotifyInv

LEMMA FinishesKeep ==
  ASSUME NotifyInv, StoresTyped, NEW p \in Topics, Finishes(p),
         UNCHANGED <<event, accountVars, alertTopic, endings>>
  PROVE  NotifyInv'
<1>1. /\ NotifyTyped /\ Handled(p) /\ faults \in Nat
      /\ position \in [Topics -> Nat]
  BY DEF NotifyInv, NotifyTyped
<1>2. /\ Grows /\ endings' \in [{"completed", "failed"} -> Seq(Endings)]
      /\ Len(Log[p])' = Len(Log[p]) /\ \A o : Size(p, o)' = Size(p, o)
      /\ Len(Log[p]) \in Nat
  BY <1>1, SameTopics
<1>3. /\ handler' \in [Topics -> [at : {"idle", "lookup", "send", "commit"}, sent : Nat]]
      /\ handler'[p].at = "idle" /\ handler'[p].sent = 0
      /\ \A q \in Topics \ {p} : handler'[q] = handler[q]
  BY <1>1, TurnsIs DEF Finishes
<1>4. PICK c \in Nat : c = position[p]
  BY <1>1
<1>5. /\ told' = told /\ position' \in [Topics -> Nat] /\ position'[p] = c + 1
      /\ \A q \in Topics \ {p} : position'[q] = position[q]
      /\ faults' = faults \/ faults' = faults + 1
  BY <1>1, <1>4 DEF Finishes
<1>6. NotifyTyped'
  BY <1>1, <1>2, <1>3, <1>5, TypedStays
<1>7. ASSUME NEW q \in Topics \ {p} PROVE Handled(q)'
  BY <1>1, <1>2, <1>3, <1>5, HandledStays DEF NotifyInv
<1>8. Handled(p)'
  <2>1. /\ c < Len(Log[p])
        /\ \A i \in 1..Size(p, c) : <<p, c, i>> \in DOMAIN told
        /\ \A o \in Nat : o < c => \A i \in 1..Size(p, o) : <<p, o, i>> \in DOMAIN told
    BY <1>1, <1>4 DEF Handled, Finishes
  <2>2. \A o \in Nat : o < c + 1 => o < c \/ o = c
    OBVIOUS
  <2>3. \A o \in Nat : o < c + 1 => \A i \in 1..Size(p, o) : <<p, o, i>> \in DOMAIN told
    BY <2>1, <2>2
  <2>4. c + 1 <= Len(Log[p])
    BY <1>2, <2>1
  <2>5. \A i \in 1..0 : <<p, c + 1, i>> \in DOMAIN told
    OBVIOUS
  <2> QED
    BY <1>2, <1>3, <1>5, <2>3, <2>4, <2>5 DEF Handled
<1>9. ASSUME NEW n \in DOMAIN told PROVE Counted(n)'
  <2>1. n \in Topics \X Nat \X (Nat \ {0})
    BY <1>1 DEF NotifyTyped
  <2>2. Ahead(n)' => Ahead(n)
    <3>1. CASE n[1] = p
      <4>1. n[2] \in Nat /\ (c + 1 <= n[2] => c < n[2])
        BY <2>1
      <4> QED
        BY <1>4, <1>5, <3>1, <4>1 DEF Ahead
    <3>2. CASE n[1] # p
      BY <1>3, <1>5, <2>1, <3>2 DEF Ahead
    <3> QED
      BY <3>1, <3>2
  <2> QED
    BY <1>5, <2>2, CountStays
<1> QED
  BY <1>5, <1>6, <1>7, <1>8, <1>9 DEF NotifyInv

-----------------------------------------------------------------------------
(* The steps of the others, and the whole behaviour.                       *)

\* What the fraud service does to the topics.
LEMMA FraudPublishes ==
  ASSUME FraudInv, FraudNext
  PROVE  /\ event' = event
         /\ \/ alertTopic' = alertTopic
            \/ \E a \in Transfers \X Rules : alertTopic' = Append(alertTopic, a)
         /\ faults' = faults \/ faults' = faults + 1
<1>1. ASSUME NEW m \in Members, Process(m) \/ Fails(m)
      PROVE  /\ event' = event /\ (faults' = faults \/ faults' = faults + 1)
             /\ \/ alertTopic' = alertTopic
                \/ At(m, "send") /\ alertTopic' = Append(alertTopic, Alert(m))
  <2>1. Process(m) => event' = event /\ faults' = faults
    BY DEF Process, Deliver, Record, Read, Refused, Store, Send, Freeze, Commit
  <2>2. Fails(m) => event' = event /\ faults' = faults + 1
    BY DEF Fails
  <2>3. Process(m) \/ Fails(m) => Effect(m) \/ alertTopic' = alertTopic
    BY DEF Process, Fails, stores, Deliver, Record, Read, Refused, Store, Send, Freeze, Commit
  <2>4. Effect(m) => \/ alertTopic' = alertTopic
                     \/ At(m, "send") /\ alertTopic' = Append(alertTopic, Alert(m))
    BY DEF Effect
  <2> QED
    BY <1>1, <2>1, <2>2, <2>3, <2>4
<1>2. ASSUME NEW m \in Members, At(m, "send") PROVE Alert(m) \in Transfers \X Rules
  <2>1. PICK t \in Transfers, rules \in Seq(Rules) :
          /\ worker[m] = [at |-> "send", transfer |-> t, rules |-> rules]
          /\ RaisesRest(t, "send", rules)
    BY <1>2, WorkerAt DEF FraudInv, Raising
  <2>2. Head(rules) \in Rules
    BY <2>1 DEF RaisesRest
  <2> QED
    BY <2>1, <2>2 DEF Alert
<1>3. ASSUME NEW t \in Transfers, Publish(t)
      PROVE  event' = event /\ alertTopic' = alertTopic /\ faults' = faults
  BY <1>3 DEF Publish
<1>4. ASSUME NEW a \in AccountIds, NEW x \in Moves, Move(a, x)
      PROVE  event' = event /\ alertTopic' = alertTopic /\ faults' = faults
  BY <1>4 DEF Move, stores
<1> QED
  BY <1>1, <1>2, <1>3, <1>4 DEF FraudNext

LEMMA OthersNotify ==
  ASSUME NotifyInv, Grows, endings' \in [{"completed", "failed"} -> Seq(Endings)],
         UNCHANGED notifyVars, faults' = faults \/ faults' = faults + 1
  PROVE  NotifyInv'
<1>1. NotifyTyped /\ UNCHANGED <<position, handler, told>>
  BY DEF NotifyInv, notifyVars
<1>2. NotifyTyped'
  BY <1>1 DEF NotifyTyped
<1>3. ASSUME NEW p \in Topics PROVE Handled(p)'
  BY <1>1, HandledStays DEF NotifyInv
<1>4. ASSUME NEW n \in DOMAIN told PROVE Counted(n)'
  <2>1. Ahead(n)' <=> Ahead(n)
    BY <1>1 DEF Ahead
  <2> QED
    BY <1>1, <2>1, CountStays
<1> QED
  BY <1>1, <1>2, <1>3, <1>4 DEF NotifyInv

LEMMA EndsOne ==
  ASSUME FraudInv, NotifyTyped, NEW t \in Transfers, NEW p \in DOMAIN endings,
         NEW a \in AccountIds, End(t, p, a)
  PROVE  \E e \in Endings : endings' = [endings EXCEPT ![p] = Append(@, e)]
<1>1. event[t].from \in AccountIds
  BY DEF FraudInv, StoresTyped, Events
<1>2. [from |-> event[t].from, to |-> a, severity |-> "none", transfer |-> t] \in Endings
  BY <1>1 DEF Endings
<1> QED
  BY <1>2 DEF End

LEMMA NotifyInvariant == AlertsSpec => []NotifyInv
<1>1. AlertsInit => NotifyInv
  <2> SUFFICES ASSUME AlertsInit PROVE NotifyInv
    OBVIOUS
  <2>1. /\ endings = [p \in {"completed", "failed"} |-> <<>>] /\ faults = 0
        /\ alertTopic = <<>>
        /\ position = [p \in Topics |-> 0]
        /\ told \in [DOMAIN told -> Nat \ {0}] /\ DOMAIN told = {}
        /\ handler = [p \in Topics |-> [at |-> "idle", sent |-> 0]]
    BY DEF AlertsInit, FraudInit, Notification!NotificationInit, Notification!EmptyBag,
           Notification!SetToBag, Notification!Topics, Notification!Idle, Topics
  <2>2. NotifyTyped
    BY <2>1 DEF NotifyTyped
  <2>3. \A p \in Topics : Len(Log[p]) \in Nat
    <3>1. alertTopic \in Seq(Transfers \X Rules)
      BY <2>1
    <3>2. Len(AlertMessages) \in Nat
      BY <3>1, AlertsLength
    <3> QED
      BY <2>1, <3>2, LogsAre DEF Topics
  <2>4. ASSUME NEW p \in Topics PROVE Handled(p)
    BY <2>1, <2>3 DEF Handled
  <2> QED
    BY <2>1, <2>2, <2>4 DEF NotifyInv
<1>2. FraudInv /\ NotifyInv /\ [AlertsNext]_alertsVars => NotifyInv'
  <2> SUFFICES ASSUME FraudInv, NotifyInv, [AlertsNext]_alertsVars PROVE NotifyInv'
    OBVIOUS
  <2>0. StoresTyped /\ NotifyTyped
    BY DEF FraudInv, NotifyInv
  <2>1. CASE Fraud
    <3>1. /\ event' = event /\ endings' = endings /\ UNCHANGED notifyVars
          /\ \/ alertTopic' = alertTopic
             \/ \E a \in Transfers \X Rules : alertTopic' = Append(alertTopic, a)
          /\ faults' = faults \/ faults' = faults + 1
      BY <2>1, FraudPublishes DEF Fraud
    <3> QED
      BY <2>0, <3>1, LogGrows, OthersNotify
  <2>2. ASSUME NEW t \in Transfers, NEW p \in DOMAIN endings, NEW a \in AccountIds, End(t, p, a)
        PROVE  NotifyInv'
    <3>1. event' = event /\ alertTopic' = alertTopic /\ faults' = faults /\ UNCHANGED notifyVars
      BY <2>2 DEF End, fraudVars, stores
    <3>2. \E e \in Endings : endings' = [endings EXCEPT ![p] = Append(@, e)]
      BY <2>0, <2>2, EndsOne
    <3> QED
      BY <2>0, <3>1, <3>2, LogGrows, OthersNotify
  <2>3. ASSUME NEW p \in Notification!Topics, Notify(p) \/ NotifyFails(p)
        PROVE  NotifyInv'
    <3>1. p \in Topics
      BY DEF Topics, Notification!Topics
    <3>2. /\ UNCHANGED <<event, accountVars, alertTopic, endings>>
          /\ Starts(p) \/ TellsNext(p) \/ Finishes(p)
      BY <2>3, <3>1, NotifySteps
    <3> QED
      BY <2>0, <3>1, <3>2, StartsKeep, TellsKeep, FinishesKeep
  <2>4. CASE UNCHANGED alertsVars
    <3>1. UNCHANGED <<event, alertTopic, endings, faults>> /\ UNCHANGED notifyVars
      BY <2>4 DEF alertsVars, fraudVars, stores
    <3> QED
      BY <2>0, <3>1, LogGrows, OthersNotify
  <2> QED
    BY <2>1, <2>2, <2>3, <2>4 DEF AlertsNext
<1> QED
  BY <1>1, <1>2, FraudInvariant, PTL DEF AlertsSpec

\* Whatever fails, no recipient is passed over: a message whose offset is
\* committed has been told to each of them, one in hand from the first on.
THEOREM EverybodyIsTold == AlertsSpec => []NobodyIsSkipped
<1>1. NotifyInv => NobodyIsSkipped
  <2> SUFFICES ASSUME NotifyInv PROVE NobodyIsSkipped
    OBVIOUS
  <2>1. NotifyTyped /\ Notification!BagToSet(told) = DOMAIN told
    BY DEF NotifyInv, Notification!BagToSet
  <2>2. ASSUME NEW p \in Topics, NEW o \in 0..(Len(Log[p]) - 1), NEW i \in 1..Size(p, o)
        PROVE  /\ position[p] > o => <<p, o, i>> \in DOMAIN told
               /\ <<p, o, i>> \in DOMAIN told =>
                    \A j \in 1..i : <<p, o, j>> \in DOMAIN told
    <3>1. position[p] > o => <<p, o, i>> \in DOMAIN told
      BY <2>1 DEF NotifyInv, NotifyTyped, Handled
    <3>2. <<p, o, i>> \in DOMAIN told => \A j \in 1..i : <<p, o, j>> \in DOMAIN told
      BY DEF NotifyInv, Counted
    <3> QED
      BY <3>1, <3>2
  <2>3. NobodyIsSkipped <=>
          \A p \in Topics : \A o \in 0..(Len(Log[p]) - 1) : \A i \in 1..Size(p, o) :
            /\ position[p] > o => <<p, o, i>> \in Notification!BagToSet(told)
            /\ <<p, o, i>> \in Notification!BagToSet(told) =>
                 \A j \in 1..i : <<p, o, j>> \in Notification!BagToSet(told)
    BY Zenon DEF NobodyIsSkipped, Notification!NobodyIsSkipped, Notification!Plans,
                 Notification!Topics, Topics, Log, Size
  <2> QED
    BY ONLY <2>1, <2>2, <2>3
<1> QED
  BY <1>1, NotifyInvariant, PTL

\* Whoever is told again is told after a failure, once for each.
THEOREM RepeatsFollowFailures == AlertsSpec => []RepeatsHaveACause
<1>1. NotifyInv => RepeatsHaveACause
  <2>1. NotifyInv => \A n \in DOMAIN told : told[n] <= 1 + faults
    BY DEF NotifyInv, Counted
  <2>2. RepeatsHaveACause <=> \A n \in DOMAIN told : told[n] <= 1 + faults
    BY Zenon DEF RepeatsHaveACause, Notification!RepeatsHaveACause, Notification!BagToSet
  <2> QED
    BY <2>1, <2>2
<1> QED
  BY <1>1, NotifyInvariant, PTL
=============================================================================
