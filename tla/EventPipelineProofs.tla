-------------------------- MODULE EventPipelineProofs --------------------------
(***************************************************************************)
(* What the outbox and the ledger promise, proved for any number of        *)
(* transfers, replicas, rows per SELECT and failures.                      *)
(***************************************************************************)
EXTENDS EventPipeline, FiniteSetTheorems, SequenceTheorems,
        WellFoundedInduction, TLAPS

-----------------------------------------------------------------------------
(* Sequences with a row put between two others.                            *)

With(s, i, x) == SubSeq(s, 1, i) \o <<x>> \o SubSeq(s, i + 1, Len(s))

\* Where the rows of outbox are once Enqueue has put a row behind the first i.
LEMMA Inserted ==
  ASSUME NEW S, NEW s \in Seq(S), NEW i \in 0..Len(s), NEW x \in S
  PROVE  /\ With(s, i, x) \in Seq(S)
         /\ Len(With(s, i, x)) = Len(s) + 1
         /\ \A k \in 1..(Len(s) + 1) :
              With(s, i, x)[k] = IF k <= i THEN s[k]
                                 ELSE IF k = i + 1 THEN x ELSE s[k - 1]
<1> DEFINE a == SubSeq(s, 1, i)
           b == SubSeq(s, i + 1, Len(s))
           c == a \o <<x>>
<1>1. /\ a \in Seq(S) /\ Len(a) = i
      /\ \A k \in 1..i : a[k] = s[k]
  OBVIOUS
<1>2. /\ b \in Seq(S) /\ Len(b) = Len(s) - i
      /\ \A k \in 1..(Len(s) - i) : b[k] = s[k + i]
  OBVIOUS
<1>3. /\ c \in Seq(S) /\ Len(c) = i + 1
      /\ \A k \in 1..(i + 1) : c[k] = IF k <= i THEN s[k] ELSE x
  BY <1>1
<1> HIDE DEF a, b, c
<1>4. i \in Nat /\ Len(s) \in Nat /\ i <= Len(s)
  OBVIOUS
<1>5. /\ c \o b \in Seq(S)
      /\ Len(c \o b) = Len(c) + Len(b)
      /\ \A k \in 1..(Len(c) + Len(b)) :
           (c \o b)[k] = IF k <= Len(c) THEN c[k] ELSE b[k - Len(c)]
  BY <1>2, <1>3, ConcatProperties
<1>6. Len(c) + Len(b) = Len(s) + 1
  BY <1>2, <1>3, <1>4
<1>7. ASSUME NEW k \in 1..(Len(s) + 1), ~(k <= i + 1)
      PROVE  b[k - (i + 1)] = s[k - 1]
  <2>1. k - (i + 1) \in 1..(Len(s) - i)
    BY <1>4, <1>7
  <2>2. b[k - (i + 1)] = s[(k - (i + 1)) + i]
    BY <1>2, <2>1
  <2>3. (k - (i + 1)) + i = k - 1
    BY <1>4, <1>7
  <2> QED BY <2>2, <2>3
<1>8. ASSUME NEW k \in 1..(Len(s) + 1)
      PROVE  (c \o b)[k] = IF k <= i THEN s[k] ELSE IF k = i + 1 THEN x ELSE s[k - 1]
  <2>1. CASE k <= i + 1
    <3>1. (c \o b)[k] = c[k] /\ k \in 1..(i + 1)
      BY <1>3, <1>4, <1>5, <1>6, <2>1
    <3> QED BY <1>3, <1>4, <2>1, <3>1
  <2>2. CASE ~(k <= i + 1)
    <3>1. (c \o b)[k] = b[k - (i + 1)]
      BY <1>3, <1>5, <1>6, <2>2
    <3>2. ~(k <= i) /\ k # i + 1
      BY <1>4, <2>2
    <3> QED BY <1>7, <2>2, <3>1, <3>2
  <2> QED BY <2>1, <2>2
<1> QED
  BY <1>5, <1>6, <1>8 DEF a, b, c, With

-----------------------------------------------------------------------------
(* The order of the rows.                                                  *)

RowsAreDistinct ==
  \A i, j \in DOMAIN outbox : outbox[i] = outbox[j] => i = j

\* A new row is behind those of its transfer, and the others keep their order.
LEMMA EnqueueEffect ==
  ASSUME outbox \in Seq(Events), RowsAreDistinct,
         NEW t \in Transfers, NEW kind \in Kinds, Enqueue(t, kind)
  PROVE  /\ outbox' \in Seq(Events)
         /\ Elements(outbox)' = Elements(outbox) \cup {<<t, kind>>}
         /\ <<t, kind>> \notin Elements(outbox)
         /\ RowsAreDistinct'
         /\ \A e, f \in Elements(outbox) : Older(e, f)' <=> Older(e, f)
         /\ \A e \in Elements(outbox) : e[1] = t => Older(e, <<t, kind>>)'
<1> DEFINE n == Len(outbox)
           x == <<t, kind>>
<1>1. PICK i \in 0..n :
        /\ \A j \in (i + 1)..n : outbox[j][1] # t
        /\ outbox' = SubSeq(outbox, 1, i) \o <<x>> \o SubSeq(outbox, i + 1, n)
  BY DEF Enqueue
<1>2. x \in Events
  BY DEF Events
<1>3. x \notin Elements(outbox)
  BY DEF Enqueue, Written, Precede, Kinds, Topics
<1>4. /\ outbox' \in Seq(Events)
      /\ Len(outbox') = n + 1
      /\ \A k \in 1..(n + 1) :
           outbox'[k] = IF k <= i THEN outbox[k] ELSE IF k = i + 1 THEN x ELSE outbox[k - 1]
  <2>1. outbox' = With(outbox, i, x)
    BY <1>1 DEF With
  <2> HIDE DEF x
  <2>2. /\ With(outbox, i, x) \in Seq(Events)
        /\ Len(With(outbox, i, x)) = Len(outbox) + 1
        /\ \A k \in 1..(Len(outbox) + 1) :
             With(outbox, i, x)[k] = IF k <= i THEN outbox[k]
                                     ELSE IF k = i + 1 THEN x ELSE outbox[k - 1]
    BY ONLY outbox \in Seq(Events), i \in 0..Len(outbox), x \in Events, Inserted
  <2> QED BY <2>1, <2>2
<1>5. n \in Nat /\ DOMAIN outbox = 1..n /\ DOMAIN outbox' = 1..(n + 1)
  BY <1>4, LenProperties
<1> DEFINE at1(k) == IF k <= i THEN k ELSE k + 1
<1>6. ASSUME NEW k \in 1..n
      PROVE  at1(k) \in 1..(n + 1) /\ at1(k) # i + 1 /\ outbox'[at1(k)] = outbox[k]
  <2>1. CASE k <= i
    BY <1>4, <1>5, <2>1
  <2>2. CASE ~(k <= i)
    <3>1. k + 1 \in 1..(n + 1) /\ ~(k + 1 <= i) /\ k + 1 # i + 1 /\ (k + 1) - 1 = k
      BY <1>5, <2>2
    <3>2. outbox'[k + 1] = outbox[(k + 1) - 1]
      BY <1>4, <3>1
    <3> QED BY <2>2, <3>1, <3>2
  <2> QED BY <2>1, <2>2
<1>7. ASSUME NEW k \in 1..(n + 1), k # i + 1
      PROVE  \E j \in 1..n : k = at1(j)
  <2>1. CASE k <= i
    <3>1. k \in 1..n
      BY <1>5, <2>1
    <3> QED BY <2>1, <3>1
  <2>2. CASE ~(k <= i)
    <3>1. k - 1 \in 1..n /\ ~(k - 1 <= i) /\ (k - 1) + 1 = k
      BY <1>5, <1>7, <2>2
    <3> QED BY <3>1
  <2> QED BY <2>1, <2>2
<1>8. i + 1 \in 1..(n + 1) /\ outbox'[i + 1] = x
  <2>1. i + 1 \in 1..(n + 1) /\ ~(i + 1 <= i)
    BY <1>5
  <2> QED BY <1>4, <2>1
<1>9. \A j, k \in 1..n : j < k <=> at1(j) < at1(k)
  BY <1>5
<1> HIDE DEF n, x, at1
<1>10. Elements(outbox)' = Elements(outbox) \cup {x}
  <2>1. ASSUME NEW e \in Elements(outbox)' PROVE e \in Elements(outbox) \cup {x}
    <3>1. PICK k \in 1..(n + 1) : outbox'[k] = e
      BY <1>5, <2>1 DEF Elements
    <3> QED BY <1>5, <1>6, <1>7, <1>8, <3>1 DEF Elements
  <2>2. Elements(outbox) \cup {x} \subseteq Elements(outbox)'
    BY <1>5, <1>6, <1>8 DEF Elements
  <2> QED BY <2>1, <2>2
<1>11. RowsAreDistinct'
  <2> SUFFICES ASSUME NEW j \in 1..(n + 1), NEW k \in 1..(n + 1),
                      outbox'[j] = outbox'[k]
               PROVE  j = k
    BY <1>5 DEF RowsAreDistinct
  <2>1. \A m \in 1..n : outbox[m] # x
    BY <1>3, <1>5 DEF Elements
  <2>2. CASE j = i + 1 \/ k = i + 1
    BY <1>6, <1>7, <1>8, <2>1, <2>2
  <2>3. CASE j # i + 1 /\ k # i + 1
    <3>1. PICK jj \in 1..n, kk \in 1..n : j = at1(jj) /\ k = at1(kk)
      BY <1>7, <2>3
    <3>2. outbox[jj] = outbox[kk]
      BY <1>6, <3>1
    <3> QED BY <1>5, <3>1, <3>2 DEF RowsAreDistinct
  <2> QED BY <2>2, <2>3
<1>12. ASSUME NEW e \in Elements(outbox), NEW f \in Elements(outbox)
       PROVE  Older(e, f)' <=> Older(e, f)
  <2>1. ASSUME Older(e, f) PROVE Older(e, f)'
    BY <1>5, <1>6, <1>9, <2>1 DEF Older
  <2>2. ASSUME Older(e, f)' PROVE Older(e, f)
    <3>1. PICK j \in 1..(n + 1), k \in 1..(n + 1) :
            j < k /\ outbox'[j] = e /\ outbox'[k] = f
      BY <1>5, <2>2 DEF Older
    <3>2. j # i + 1 /\ k # i + 1
      BY <1>3, <1>8, <3>1
    <3>3. PICK jj \in 1..n, kk \in 1..n : j = at1(jj) /\ k = at1(kk)
      BY <1>7, <3>1, <3>2
    <3>4. jj < kk /\ outbox[jj] = e /\ outbox[kk] = f
      BY <1>6, <1>9, <3>1, <3>3
    <3> QED BY <1>5, <3>4 DEF Older
  <2> QED BY <2>1, <2>2
<1>13. ASSUME NEW e \in Elements(outbox), e[1] = t
       PROVE  Older(e, x)'
  <2>1. PICK k \in 1..n : outbox[k] = e
    BY <1>5 DEF Elements
  <2>2. k <= i
    BY <1>1, <1>5, <1>13, <2>1 DEF n
  <2>3. at1(k) = k /\ k < i + 1
    BY <1>5, <2>2 DEF at1
  <2> QED BY <1>5, <1>6, <1>8, <2>1, <2>3 DEF Older
<1> QED
  BY <1>3, <1>4, <1>10, <1>11, <1>12, <1>13 DEF x

LEMMA Least ==
  ASSUME NEW T \in SUBSET Nat, T # {}
  PROVE  \E x \in T : \A y \in T : x <= y
<1> DEFINE W == {1..x : x \in T}
<1>1. W \subseteq FiniteSubsetsOf(Nat)
  <2> SUFFICES ASSUME NEW x \in T PROVE 1..x \in FiniteSubsetsOf(Nat)
    OBVIOUS
  <2>1. IsFiniteSet(1..x)
    BY FS_Interval
  <2> QED BY <2>1 DEF FiniteSubsetsOf
<1>2. PICK u \in W : \A v \in W : ~(<<v, u>> \in StrictSubsetOrdering(Nat))
  <2>1. W # {}
    OBVIOUS
  <2> HIDE DEF W
  <2> QED BY <1>1, <2>1, WFMin, FS_StrictSubsetOrderingWellFounded
<1>3. PICK x \in T : u = 1..x
  OBVIOUS
<1>4. ASSUME NEW y \in T, y < x PROVE FALSE
  <2>1. 1..y \subseteq 1..x /\ 1..x \subseteq Nat /\ x \in 1..x /\ x \notin 1..y
    BY <1>4
  <2>2. 1..y # 1..x
    BY <2>1
  <2>3. ASSUME NEW A, NEW B, A \subseteq B, B \subseteq Nat, A # B
        PROVE  <<A, B>> \in StrictSubsetOrdering(Nat)
    BY <2>3 DEF StrictSubsetOrdering
  <2>4. 1..y \in W
    OBVIOUS
  <2>5. <<1..y, 1..x>> \in StrictSubsetOrdering(Nat)
    BY <2>1, <2>2, <2>3
  <2> HIDE DEF W
  <2> QED BY <1>2, <1>3, <2>4, <2>5
<1> QED
  BY <1>4

\* Of any rows one is the oldest, and only one.
LEMMA OneIsOldest ==
  ASSUME outbox \in Seq(Events), RowsAreDistinct,
         NEW rows \in SUBSET Elements(outbox), rows # {}
  PROVE  /\ \E e \in rows : \A f \in rows : ~Older(f, e)
         /\ \A e, f \in rows : e # f => Older(e, f) \/ Older(f, e)
<1> DEFINE T == {i \in DOMAIN outbox : outbox[i] \in rows}
<1>1. DOMAIN outbox \subseteq Nat
  BY LenProperties
<1>2. T \in SUBSET Nat /\ T # {}
  BY <1>1 DEF Elements
<1>3. PICK i \in T : \A j \in T : i <= j
  BY <1>2, Least
<1>4. ASSUME NEW f \in rows PROVE ~Older(f, outbox[i])
  <2> SUFFICES ASSUME Older(f, outbox[i]) PROVE FALSE
    OBVIOUS
  <2>1. PICK j, k \in DOMAIN outbox : j < k /\ outbox[j] = f /\ outbox[k] = outbox[i]
    BY DEF Older
  <2>2. k = i /\ j \in T
    BY <2>1 DEF RowsAreDistinct
  <2> QED BY <1>1, <1>3, <2>1, <2>2
<1>5. ASSUME NEW e \in rows, NEW f \in rows, e # f
      PROVE  Older(e, f) \/ Older(f, e)
  <2>1. PICK j, k \in DOMAIN outbox : outbox[j] = e /\ outbox[k] = f
    BY DEF Elements
  <2>2. j < k \/ k < j
    BY <1>1, <1>5, <2>1
  <2> QED BY <2>1, <2>2 DEF Older
<1> QED
  BY <1>3, <1>4, <1>5

\* Older is an order.
LEMMA OlderIsTransitive ==
  ASSUME outbox \in Seq(Events), RowsAreDistinct, NEW e, NEW f, NEW g,
         Older(e, f), Older(f, g)
  PROVE  Older(e, g)
<1>1. PICK i, j \in DOMAIN outbox : i < j /\ outbox[i] = e /\ outbox[j] = f
  BY DEF Older
<1>2. PICK k, l \in DOMAIN outbox : k < l /\ outbox[k] = f /\ outbox[l] = g
  BY DEF Older
<1>3. j = k /\ i < l
  BY <1>1, <1>2, LenProperties DEF RowsAreDistinct
<1> QED
  BY <1>1, <1>2, <1>3 DEF Older

\* The SELECT that finds a row finds the older ones too, and finds one if
\* there is any.
LEMMA FirstAreOldest ==
  ASSUME outbox \in Seq(Events), RowsAreDistinct,
         NEW rows \in SUBSET Elements(outbox)
  PROVE  /\ rows # {} => First(rows) # {}
         /\ \A e \in rows, g \in First(rows) : Older(e, g) => e \in First(rows)
<1>1. IsFiniteSet(rows)
  <2>1. outbox \in Surjection(1..Len(outbox), Elements(outbox))
    BY DEF Surjection, Elements
  <2>2. IsFiniteSet(1..Len(outbox))
    BY FS_Interval
  <2>3. IsFiniteSet(Elements(outbox))
    BY <2>1, <2>2, FS_Surjection
  <2> QED BY <2>3, FS_Subset
<1>2. ASSUME rows # {} PROVE First(rows) # {}
  <2>1. PICK e \in rows : \A f \in rows : ~Older(f, e)
    BY <1>2, OneIsOldest
  <2>2. {f \in rows : Older(f, e)} = {}
    BY <2>1
  <2>3. Cardinality({f \in rows : Older(f, e)}) = 0
    BY <2>2, FS_EmptySet
  <2> QED BY <2>3, OutboxAssumption DEF First
<1>3. ASSUME NEW e \in rows, NEW g \in First(rows), Older(e, g)
      PROVE  e \in First(rows)
  <2> DEFINE E == {f \in rows : Older(f, e)}
             G == {f \in rows : Older(f, g)}
  <2>1. E \in SUBSET G
    BY <1>3, OlderIsTransitive
  <2>2. IsFiniteSet(G) /\ IsFiniteSet(E)
    BY <1>1, FS_Subset
  <2>3. Cardinality(E) <= Cardinality(G) /\ Cardinality(E) \in Nat /\ Cardinality(G) \in Nat
    BY <2>1, <2>2, FS_Subset, FS_CardinalityType
  <2>4. Cardinality(G) < BatchSize
    BY DEF First
  <2>5. Cardinality(E) < BatchSize
    <3> HIDE DEF E, G
    <3> QED BY <2>3, <2>4, OutboxAssumption
  <2> QED BY <2>5 DEF First
<1> QED
  BY <1>2, <1>3

-----------------------------------------------------------------------------
(* The publishers.                                                         *)

Announcement(t) == <<t, "initiated">>
Settled(e)      == Sent(e) \/ e \in errored

AnnouncementsAreOlder ==
  \A t \in Transfers, kind \in Endings :
    Written(t, kind) =>
      Written(t, "initiated") /\ Older(Announcement(t), <<t, kind>>)

BatchesAreRows ==
  \A r \in Replicas :
    /\ batch[r] \subseteq Elements(outbox)
    /\ step[r] # "idle" <=> batch[r] # {}

MarkingIsSent == \A r \in Replicas : step[r] = "mark" => Sent(Current(r))

\* Whoever is to publish an ending has its announcement to publish before it,
\* or that one has been dealt with.
AnnouncementsAreHeld ==
  \A r \in Replicas, t \in Transfers, kind \in Endings :
    <<t, kind>> \in batch[r] =>
      Announcement(t) \in batch[r] \/ Settled(Announcement(t))

MessagesAreRows == \A e \in Events : Sent(e) => e \in Elements(outbox)

OutboxInv ==
  /\ TypeOK
  /\ RowsAreDistinct
  /\ AnnouncementsAreOlder
  /\ BatchesAreRows
  /\ MarkingIsSent
  /\ MarkedIsSent
  /\ AnnouncementsAreHeld
  /\ AnnouncedFirst
  /\ MessagesAreRows

\* Every event has a log.
LEMMA TopicOfEvent == \A e \in Events : TopicOf(e[2]) \in Topics
BY DEF Events, Kinds, Topics, TopicOf

LEMMA OutboxInit == Init => OutboxInv
<1> SUFFICES ASSUME Init PROVE OutboxInv
  OBVIOUS
<1>1. Elements(outbox) = {}
  BY DEF Init, Elements
<1>2. ASSUME NEW e \in Events PROVE ~Sent(e)
  BY TopicOfEvent DEF Init, Sent, Elements
<1>3. TypeOK
  BY OutboxAssumption DEF Init, TypeOK
<1>4. RowsAreDistinct /\ AnnouncementsAreOlder /\ BatchesAreRows
  BY <1>1 DEF Init, RowsAreDistinct, AnnouncementsAreOlder, BatchesAreRows, Written
<1>5. MarkingIsSent /\ MarkedIsSent /\ AnnouncementsAreHeld
  BY DEF Init, MarkingIsSent, MarkedIsSent, AnnouncementsAreHeld
<1>6. AnnouncedFirst /\ MessagesAreRows
  BY <1>2 DEF AnnouncedFirst, MessagesAreRows, Events, Endings, Kinds
<1> QED
  BY <1>3, <1>4, <1>5, <1>6 DEF OutboxInv

\* The loop is at the oldest row of its batch.
LEMMA CurrentRow ==
  ASSUME outbox \in Seq(Events), RowsAreDistinct, NEW r \in Replicas,
         batch[r] \subseteq Elements(outbox), batch[r] # {}
  PROVE  /\ Current(r) \in batch[r]
         /\ \A f \in batch[r] : ~Older(f, Current(r))
         /\ \A e \in batch[r] :
              (\A f \in batch[r] : ~Older(f, e)) => e = Current(r)
<1>1. \E e \in batch[r] : \A f \in batch[r] : ~Older(f, e)
  BY OneIsOldest
<1>2. Current(r) \in batch[r] /\ \A f \in batch[r] : ~Older(f, Current(r))
  BY <1>1 DEF Current
<1> QED
  BY <1>2, OneIsOldest

OldestIsCurrent ==
  \A r \in Replicas :
    /\ outbox \in Seq(Events)
    /\ RowsAreDistinct
    /\ batch[r] \subseteq Elements(outbox)
    /\ batch[r] # {}
    => \A e \in batch[r] : (\A f \in batch[r] : ~Older(f, e)) => e = Current(r)

LEMMA OldestIsCurrentNext == OldestIsCurrent'
<1>1. OldestIsCurrent
  BY CurrentRow DEF OldestIsCurrent
<1> QED
  BY <1>1, PTL

\* What is in a log after a message has been appended.
LEMMA AcceptEffect ==
  ASSUME log \in [Topics -> Seq(Events)], NEW e \in Events, Accept(e)
  PROVE  /\ log' \in [Topics -> Seq(Events)]
         /\ \A f \in Events : Sent(f)' <=> Sent(f) \/ f = e
<1>1. PICK p \in Topics : p = TopicOf(e[2])
  BY TopicOfEvent
<1>2. /\ log' = [log EXCEPT ![p] = Append(@, e)]
      /\ log' \in [Topics -> Seq(Events)]
  BY <1>1 DEF Accept
<1>3. ASSUME NEW f \in Events
      PROVE  Sent(f)' <=> Sent(f) \/ f = e
  <2>1. PICK q \in Topics : q = TopicOf(f[2])
    BY TopicOfEvent
  <2>2. CASE q # p
    <3>1. f # e /\ log'[q] = log[q]
      BY <1>1, <1>2, <2>1, <2>2
    <3> QED BY <2>1, <3>1 DEF Sent
  <2>3. CASE q = p
    <3> DEFINE s == log[p]
    <3>1. s \in Seq(Events) /\ log'[p] = Append(s, e)
      BY <1>2
    <3> HIDE DEF s
    <3>2. Elements(Append(s, e)) = Elements(s) \cup {e}
      <4>1. Len(s) \in Nat /\ DOMAIN s = 1..Len(s)
        BY <3>1
      <4>2. DOMAIN Append(s, e) = 1..(Len(s) + 1)
        BY <3>1
      <4>3. /\ \A i \in 1..Len(s) : Append(s, e)[i] = s[i]
            /\ Append(s, e)[Len(s) + 1] = e
        BY <3>1
      <4>4. 1..(Len(s) + 1) = (1..Len(s)) \cup {Len(s) + 1}
        BY <4>1
      <4> QED BY <4>1, <4>2, <4>3, <4>4 DEF Elements
    <3> QED BY <2>1, <2>3, <3>1, <3>2 DEF Sent, s
  <2> QED BY <2>2, <2>3
<1> QED
  BY <1>2, <1>3

\* What a step of the loop of a replica has to keep to.
LEMMA LoopKeeps ==
  ASSUME OutboxInv, NEW r \in Replicas, TypeOK', outbox' = outbox,
         \A q \in Replicas \ {r} : batch'[q] = batch[q] /\ step'[q] = step[q],
         batch'[r] \subseteq Elements(outbox),
         step'[r] # "idle" <=> batch'[r] # {},
         \A f \in Events : Sent(f) => Sent(f)',
         \A f \in Events : Sent(f)' => Sent(f) \/ (step[r] = "send" /\ f = Current(r)),
         \A e \in published' : Sent(e)',
         step'[r] = "mark" => Sent(Current(r))',
         \A e \in Events : Settled(e) => Settled(e)',
         \A t \in Transfers, kind \in Endings :
           <<t, kind>> \in batch'[r] =>
             Announcement(t) \in batch'[r] \/ Settled(Announcement(t))'
  PROVE  OutboxInv'
<1>1. TypeOK /\ RowsAreDistinct /\ outbox \in Seq(Events)
  BY DEF OutboxInv, TypeOK
<1>2. /\ Elements(outbox)' = Elements(outbox)
      /\ \A e, f : Older(e, f)' <=> Older(e, f)
      /\ \A t, kind : Written(t, kind)' <=> Written(t, kind)
  BY DEF Elements, Older, Written
<1>3. Elements(outbox) \subseteq Events
  BY <1>1 DEF Elements
<1>4. RowsAreDistinct' /\ AnnouncementsAreOlder'
  BY <1>2 DEF OutboxInv, RowsAreDistinct, AnnouncementsAreOlder
<1>5. BatchesAreRows'
  BY <1>2 DEF OutboxInv, BatchesAreRows
<1>6. MarkingIsSent'
  <2> SUFFICES ASSUME NEW q \in Replicas, step'[q] = "mark" PROVE Sent(Current(q))'
    BY DEF MarkingIsSent
  <2>1. CASE q # r
    <3>1. batch[q] \subseteq Elements(outbox) /\ batch[q] # {} /\ Sent(Current(q))
      BY <2>1 DEF OutboxInv, BatchesAreRows, MarkingIsSent
    <3>2. Current(q) \in batch[q] /\ \A f \in batch[q] : ~Older(f, Current(q))
      BY <1>1, <3>1, CurrentRow
    <3>3. \A e \in batch'[q] : (\A f \in batch'[q] : ~Older(f, e)') => e = Current(q)'
      <4>1. outbox' \in Seq(Events) /\ batch'[q] \subseteq Elements(outbox)' /\ batch'[q] # {}
        BY <1>1, <1>2, <2>1, <3>1
      <4> QED BY <1>4, <4>1, OldestIsCurrentNext DEF OldestIsCurrent
    <3>4. Current(q)' = Current(q)
      BY <1>2, <2>1, <3>2, <3>3
    <3> QED BY <1>3, <3>1, <3>2, <3>4 DEF Sent
  <2> QED BY <2>1
<1>7. MarkedIsSent'
  BY DEF MarkedIsSent
<1>8. \A t \in Transfers : Announcement(t) \in Events
  BY DEF Announcement, Events, Kinds, Topics
<1>9. AnnouncementsAreHeld'
  <2> SUFFICES ASSUME NEW q \in Replicas, NEW t \in Transfers, NEW kind \in Endings,
                      <<t, kind>> \in batch'[q]
               PROVE  Announcement(t) \in batch'[q] \/ Settled(Announcement(t))'
    BY DEF AnnouncementsAreHeld, Announcement
  <2>1. CASE q # r
    BY <1>8, <2>1 DEF OutboxInv, AnnouncementsAreHeld
  <2> QED BY <2>1
<1>10. AnnouncedFirst'
  <2> SUFFICES ASSUME NEW t \in Transfers, NEW kind \in Endings, Sent(<<t, kind>>)'
               PROVE  Settled(Announcement(t))'
    BY DEF AnnouncedFirst, Settled, Announcement
  <2>1. CASE Sent(<<t, kind>>)
    BY <1>8, <2>1 DEF OutboxInv, AnnouncedFirst, Settled, Announcement
  <2>2. CASE step[r] = "send" /\ <<t, kind>> = Current(r)
    <3>1. batch[r] \subseteq Elements(outbox) /\ batch[r] # {}
      BY <2>2 DEF OutboxInv, BatchesAreRows
    <3>2. Current(r) \in batch[r] /\ \A f \in batch[r] : ~Older(f, Current(r))
      BY <1>1, <3>1, CurrentRow
    <3>3. Older(Announcement(t), <<t, kind>>)
      BY <2>2, <3>1, <3>2 DEF OutboxInv, AnnouncementsAreOlder, Written
    <3>4. Settled(Announcement(t))
      BY <2>2, <3>2, <3>3 DEF OutboxInv, AnnouncementsAreHeld
    <3> QED BY <1>8, <3>4
  <2>3. <<t, kind>> \in Events
    BY DEF Events, Endings
  <2> QED BY <2>1, <2>2, <2>3
<1>11. MessagesAreRows'
  <2> SUFFICES ASSUME NEW e \in Events, Sent(e)' PROVE e \in Elements(outbox)
    BY <1>2 DEF MessagesAreRows
  <2>1. CASE Sent(e)
    BY <2>1 DEF OutboxInv, MessagesAreRows
  <2>2. CASE step[r] = "send" /\ e = Current(r)
    <3>1. batch[r] \subseteq Elements(outbox) /\ batch[r] # {}
      BY <2>2 DEF OutboxInv, BatchesAreRows
    <3> QED BY <1>1, <2>2, <3>1, CurrentRow
  <2> QED BY <2>1, <2>2
<1> QED
  BY <1>4, <1>5, <1>6, <1>7, <1>9, <1>10, <1>11 DEF OutboxInv

\* A new row is behind the announcement of its transfer.
LEMMA EnqueueKeeps ==
  ASSUME OutboxInv, NEW t \in Transfers, NEW kind \in Kinds, Enqueue(t, kind),
         faults' \in 0..MaxFaults
  PROVE  OutboxInv'
<1> DEFINE x == <<t, kind>>
<1>1. /\ TypeOK /\ RowsAreDistinct /\ outbox \in Seq(Events)
      /\ UNCHANGED <<published, errored, log, batch, step>>
  BY DEF OutboxInv, TypeOK, Enqueue
<1>2. /\ outbox' \in Seq(Events)
      /\ Elements(outbox)' = Elements(outbox) \cup {x}
      /\ RowsAreDistinct'
      /\ \A e, f \in Elements(outbox) : Older(e, f)' <=> Older(e, f)
      /\ \A e \in Elements(outbox) : e[1] = t => Older(e, x)'
  BY <1>1, EnqueueEffect
<1>3. \A e : Sent(e)' <=> Sent(e)
  BY <1>1 DEF Sent
<1>4. TypeOK'
  BY <1>1, <1>2 DEF TypeOK
<1>5. AnnouncementsAreOlder'
  <2> SUFFICES ASSUME NEW u \in Transfers, NEW q \in Endings, Written(u, q)'
               PROVE  Written(u, "initiated")' /\ Older(Announcement(u), <<u, q>>)'
    BY DEF AnnouncementsAreOlder, Announcement
  <2>1. CASE Written(u, q)
    BY <1>2, <2>1 DEF OutboxInv, AnnouncementsAreOlder, Written, Announcement
  <2>2. CASE ~Written(u, q)
    <3>1. <<u, q>> = x
      BY <1>2, <2>2 DEF Written
    <3>2. Written(t, "initiated")
      BY <3>1 DEF Enqueue, Endings
    <3> QED BY <1>2, <3>1, <3>2 DEF Written, Announcement
  <2> QED BY <2>1, <2>2
<1>6. BatchesAreRows'
  BY <1>1, <1>2 DEF OutboxInv, BatchesAreRows
<1>7. MarkingIsSent'
  <2> SUFFICES ASSUME NEW q \in Replicas, step'[q] = "mark" PROVE Sent(Current(q))'
    BY DEF MarkingIsSent
  <2>1. batch[q] \subseteq Elements(outbox) /\ batch[q] # {} /\ Sent(Current(q))
    BY <1>1 DEF OutboxInv, BatchesAreRows, MarkingIsSent
  <2>2. Current(q) \in batch[q] /\ \A f \in batch[q] : ~Older(f, Current(q))
    BY <1>1, <2>1, CurrentRow
  <2>3. \A e \in batch'[q] : (\A f \in batch'[q] : ~Older(f, e)') => e = Current(q)'
    BY <1>1, <1>2, <2>1, OldestIsCurrentNext DEF OldestIsCurrent
  <2>4. Current(q)' = Current(q)
    BY <1>1, <1>2, <2>1, <2>2, <2>3
  <2> QED BY <1>3, <2>1, <2>4, <1>1 DEF Sent
<1>8. MarkedIsSent'
  BY <1>1, <1>3 DEF OutboxInv, MarkedIsSent
<1>9. AnnouncementsAreHeld' /\ AnnouncedFirst'
  BY <1>1, <1>3 DEF OutboxInv, AnnouncementsAreHeld, AnnouncedFirst, Settled
<1>10. MessagesAreRows'
  BY <1>2, <1>3 DEF OutboxInv, MessagesAreRows
<1> QED
  BY <1>2, <1>4, <1>5, <1>6, <1>7, <1>8, <1>9, <1>10 DEF OutboxInv

\* What every step of a loop that changes no log leaves as it was.
LEMMA Silent ==
  ASSUME log' = log
  PROVE  \A f : Sent(f)' <=> Sent(f)
BY DEF Sent

LEMMA TickKeeps ==
  ASSUME OutboxInv, NEW r \in Replicas, Tick(r)
  PROVE  OutboxInv'
<1>1. TypeOK /\ RowsAreDistinct /\ outbox \in Seq(Events)
  BY DEF OutboxInv, TypeOK
<1>2. /\ batch' = [batch EXCEPT ![r] = First(Pending)]
      /\ step' = [step EXCEPT ![r] = "send"]
      /\ UNCHANGED <<outbox, published, errored, log, faults>>
  BY DEF Tick
<1>3. First(Pending) \subseteq Pending /\ Pending \subseteq Elements(outbox) /\ First(Pending) # {}
  BY <1>1, FirstAreOldest DEF First, Pending, Tick
<1>4. Elements(outbox) \subseteq Events
  BY <1>1 DEF Elements
<1>5. TypeOK'
  BY <1>1, <1>2, <1>3, <1>4 DEF TypeOK
<1>6. \A f : (Sent(f)' <=> Sent(f)) /\ (Settled(f)' <=> Settled(f))
  BY <1>2, Silent DEF Settled
<1>7. ASSUME NEW t \in Transfers, NEW kind \in Endings, <<t, kind>> \in batch'[r]
      PROVE  Announcement(t) \in batch'[r] \/ Settled(Announcement(t))'
  <2>1. <<t, kind>> \in First(Pending)
    BY <1>1, <1>2, <1>7 DEF TypeOK
  <2>2. Announcement(t) \in Elements(outbox) /\ Older(Announcement(t), <<t, kind>>)
    BY <1>3, <2>1 DEF OutboxInv, AnnouncementsAreOlder, Written, Announcement
  <2>3. CASE Announcement(t) \in published
    BY <1>6, <2>3 DEF OutboxInv, MarkedIsSent, Settled
  <2>4. CASE Announcement(t) \notin published
    <3>1. Announcement(t) \in First(Pending)
      BY <1>1, <1>3, <2>1, <2>2, <2>4, FirstAreOldest DEF Pending
    <3> QED BY <1>1, <1>2, <3>1 DEF TypeOK
  <2> QED BY <2>3, <2>4
<1>8. \A e \in published' : Sent(e)'
  BY <1>2, <1>6 DEF OutboxInv, MarkedIsSent
<1>9. /\ batch'[r] = First(Pending) /\ step'[r] = "send"
      /\ \A q \in Replicas \ {r} : batch'[q] = batch[q] /\ step'[q] = step[q]
  BY <1>1, <1>2 DEF TypeOK
<1> QED
  BY <1>2, <1>3, <1>5, <1>6, <1>7, <1>8, <1>9, LoopKeeps

\* What holds of the row a loop is at.
LEMMA InTheLoop ==
  ASSUME OutboxInv, NEW r \in Replicas, step[r] # "idle"
  PROVE  /\ TypeOK
         /\ Current(r) \in batch[r]
         /\ batch[r] \subseteq Elements(outbox)
         /\ batch[r] \subseteq Events
BY CurrentRow DEF OutboxInv, TypeOK, BatchesAreRows

\* Send, and a send that fails.
LEMMA SendKeeps ==
  ASSUME OutboxInv, NEW r \in Replicas, Send(r) \/ SendFails(r)
  PROVE  OutboxInv'
<1>1. /\ step[r] = "send"
      /\ Accept(Current(r)) \/ (UNCHANGED log /\ step'[r] # "mark")
      /\ \E label \in {"mark", "note"} : step' = [step EXCEPT ![r] = label]
      /\ UNCHANGED <<batch, outbox, published, errored>>
      /\ faults' \in 0..MaxFaults
  BY OutboxAssumption DEF Send, SendFails, Goto, Strikes, OutboxInv, TypeOK
<1>2. /\ TypeOK /\ Current(r) \in batch[r] /\ batch[r] \subseteq Elements(outbox)
      /\ batch[r] \subseteq Events
  BY <1>1, InTheLoop
<1>3. /\ log' \in [Topics -> Seq(Events)]
      /\ \A f \in Events : Sent(f) => Sent(f)'
      /\ \A f \in Events : Sent(f)' => Sent(f) \/ f = Current(r)
      /\ step'[r] = "mark" => Sent(Current(r))'
  <2>1. CASE Accept(Current(r))
    <3>1. /\ log' \in [Topics -> Seq(Events)]
          /\ \A f \in Events : Sent(f)' <=> Sent(f) \/ f = Current(r)
      BY <1>2, <2>1, AcceptEffect DEF TypeOK
    <3>2. Current(r)' = Current(r)
      BY <1>1 DEF Current, Older
    <3> QED BY <1>2, <3>1, <3>2 DEF Sent
  <2>2. CASE UNCHANGED log /\ step'[r] # "mark"
    BY <1>2, <2>2, Silent DEF TypeOK
  <2> QED BY <1>1, <2>1, <2>2
<1>4. TypeOK'
  BY <1>1, <1>2, <1>3 DEF TypeOK
<1>5. \A e \in Events : Settled(e) => Settled(e)'
  BY <1>1, <1>3 DEF Settled
<1>6. \A e \in published' : Sent(e)'
  BY <1>1, <1>2, <1>3 DEF OutboxInv, MarkedIsSent, TypeOK
<1>7. ASSUME NEW t \in Transfers, NEW kind \in Endings, <<t, kind>> \in batch'[r]
      PROVE  Announcement(t) \in batch'[r] \/ Settled(Announcement(t))'
  <2>1. Announcement(t) \in Events
    BY DEF Announcement, Events, Kinds, Topics
  <2> QED BY <1>1, <1>5, <1>7, <2>1 DEF OutboxInv, AnnouncementsAreHeld
<1>8. /\ batch'[r] = batch[r] /\ step'[r] # "idle" /\ batch[r] # {}
      /\ \A q \in Replicas \ {r} : batch'[q] = batch[q] /\ step'[q] = step[q]
  BY <1>1, <1>2 DEF TypeOK
<1>9. outbox' = outbox
  BY <1>1
<1> QED
  BY <1>1, <1>2, <1>3, <1>4, <1>5, <1>6, <1>7, <1>8, <1>9, LoopKeeps

\* Any step that sends nothing and either stays at its row, leaves it when it
\* has been settled, or gives the batch up.
LEMMA SilentKeeps ==
  ASSUME OutboxInv, NEW r \in Replicas, step[r] # "idle",
         UNCHANGED <<outbox, log>>,
         published' \in SUBSET Events, errored' \in SUBSET Events,
         faults' \in 0..MaxFaults,
         \A e \in published' : Sent(e),
         \A e \in Events : Settled(e) => Settled(e)',
         \/ Goto(r, "note")
         \/ NextRow(r) /\ (Sent(Current(r)) \/ Current(r) \in errored')
         \/ Abandon(r)
  PROVE  OutboxInv'
<1>1. /\ TypeOK /\ Current(r) \in batch[r] /\ batch[r] \subseteq Elements(outbox)
      /\ batch[r] \subseteq Events
  BY InTheLoop
<1>2. \A f : Sent(f)' <=> Sent(f)
  BY Silent
<1>3. /\ TypeOK'
      /\ batch'[r] \subseteq batch[r]
      /\ step'[r] # "idle" <=> batch'[r] # {}
      /\ step'[r] # "mark"
      /\ \A q \in Replicas \ {r} : batch'[q] = batch[q] /\ step'[q] = step[q]
      /\ \A e \in batch[r] \ batch'[r] : Settled(e)' \/ batch'[r] = {}
  <2>1. CASE Goto(r, "note")
    BY <1>1, <2>1 DEF Goto, TypeOK
  <2>2. CASE NextRow(r) /\ (Sent(Current(r)) \/ Current(r) \in errored')
    <3>1. /\ batch' = [batch EXCEPT ![r] = @ \ {Current(r)}]
          /\ step' = [step EXCEPT ![r] =
                       IF batch[r] = {Current(r)} THEN "idle" ELSE "send"]
      BY <2>2 DEF NextRow
    <3>2. batch'[r] = batch[r] \ {Current(r)} /\ (batch'[r] = {} <=> batch[r] = {Current(r)})
      BY <1>1, <3>1 DEF TypeOK
    <3>3. \A e \in batch[r] \ batch'[r] : Settled(e)'
      <4>1. \A e \in batch[r] \ batch'[r] : e = Current(r)
        BY <3>2
      <4> QED BY <1>2, <2>2, <4>1 DEF Settled
    <3>4. TypeOK'
      BY <1>1, <3>1 DEF TypeOK
    <3> QED BY <1>1, <3>1, <3>2, <3>3, <3>4 DEF TypeOK
  <2>3. CASE Abandon(r)
    BY <1>1, <2>3 DEF Abandon, TypeOK
  <2> QED BY <2>1, <2>2, <2>3
<1>4. ASSUME NEW t \in Transfers, NEW kind \in Endings, <<t, kind>> \in batch'[r]
      PROVE  Announcement(t) \in batch'[r] \/ Settled(Announcement(t))'
  <2>1. Announcement(t) \in Events
    BY DEF Announcement, Events, Kinds, Topics
  <2>2. Announcement(t) \in batch[r] \/ Settled(Announcement(t))
    BY <1>3, <1>4 DEF OutboxInv, AnnouncementsAreHeld
  <2> QED BY <1>3, <1>4, <2>1, <2>2
<1> QED
  BY <1>1, <1>2, <1>3, <1>4, LoopKeeps

LEMMA MarkKeeps ==
  ASSUME OutboxInv, NEW r \in Replicas, Mark(r) \/ MarkFails(r)
  PROVE  OutboxInv'
<1>1. step[r] = "mark" /\ Sent(Current(r))
  BY DEF Mark, MarkFails, OutboxInv, MarkingIsSent
<1>2. TypeOK /\ Current(r) \in Events
  BY <1>1, InTheLoop
<1>3. UNCHANGED <<outbox, log>> /\ faults' \in 0..MaxFaults
  BY <1>2, OutboxAssumption DEF Mark, MarkFails, Strikes, TypeOK
<1>4. MarkPublished(r) \/ UNCHANGED <<published, errored>>
  BY DEF Mark, MarkFails
<1>5. /\ published' \in SUBSET Events /\ errored' \in SUBSET Events
      /\ \A e \in published' : Sent(e)
      /\ \A e \in errored : e \in errored' \/ Sent(e)
  BY <1>1, <1>2, <1>4 DEF MarkPublished, OutboxInv, MarkedIsSent, TypeOK
<1>6. \A e \in Events : Settled(e) => Settled(e)'
  BY <1>3, <1>5, Silent DEF Settled
<1>7. Goto(r, "note") \/ NextRow(r)
  BY DEF Mark, MarkFails
<1> QED
  BY <1>1, <1>3, <1>5, <1>6, <1>7, SilentKeeps

LEMMA NoteKeeps ==
  ASSUME OutboxInv, NEW r \in Replicas, Note(r) \/ NoteFails(r) \/ Die(r)
  PROVE  OutboxInv'
<1>1. step[r] # "idle"
  BY DEF Note, NoteFails, Die
<1>2. TypeOK /\ Current(r) \in Events
  BY <1>1, InTheLoop
<1>3. /\ UNCHANGED <<outbox, log, published>> /\ faults' \in 0..MaxFaults
      /\ errored' \in {errored, errored \cup {Current(r)}}
  BY <1>2, OutboxAssumption DEF Note, NoteFails, Die, Strikes, TypeOK
<1>4. /\ published' \in SUBSET Events /\ errored' \in SUBSET Events
      /\ \A e \in published' : Sent(e)
  BY <1>2, <1>3 DEF OutboxInv, MarkedIsSent, TypeOK
<1>5. \A e \in Events : Settled(e) => Settled(e)'
  BY <1>3, Silent DEF Settled
<1>6. (NextRow(r) /\ Current(r) \in errored') \/ Abandon(r)
  BY DEF Note, NoteFails, Die
<1> QED
  BY <1>1, <1>3, <1>4, <1>5, <1>6, SilentKeeps

\* The steps of the ledger touch the outbox only in that something fails.
LEMMA ElsewhereKeeps ==
  ASSUME OutboxInv, UNCHANGED publisherVars, faults' \in 0..MaxFaults
  PROVE  OutboxInv'
<1>1. UNCHANGED <<outbox, published, errored, log, batch, step>>
  BY DEF publisherVars
<1>2. TypeOK'
  BY <1>1 DEF OutboxInv, TypeOK
<1>3. /\ \A e : Sent(e)' <=> Sent(e)
      /\ Elements(outbox)' = Elements(outbox)
      /\ \A e, f : Older(e, f)' <=> Older(e, f)
      /\ \A r : Current(r)' = Current(r)
  BY <1>1 DEF Sent, Elements, Older, Current
<1> QED
  BY <1>1, <1>2, <1>3
     DEF OutboxInv, RowsAreDistinct, AnnouncementsAreOlder, Written, BatchesAreRows,
         MarkingIsSent, MarkedIsSent, AnnouncementsAreHeld, Settled, AnnouncedFirst,
         MessagesAreRows

LEMMA LedgerStrikes ==
  ASSUME faults \in 0..MaxFaults, Ledger!Next
  PROVE  faults' \in 0..MaxFaults
BY OutboxAssumption
   DEF Ledger!Next, Ledger!Consume, Ledger!Disturb, Ledger!Land, Ledger!StartBatch,
       Ledger!Fetch, Ledger!Write, Ledger!Commit, Ledger!FetchFails, Ledger!WriteFails,
       Ledger!Interrupt, Ledger!Strikes, Ledger!batchVars

LEMMA EndTransferStrikes ==
  ASSUME faults \in 0..MaxFaults, NEW t, NEW o, EndTransfer(t, o)
  PROVE  faults' \in 0..MaxFaults /\ faults <= faults'
BY OutboxAssumption, PipelineAssumption DEF EndTransfer

LEMMA OutboxStep ==
  ASSUME OutboxInv, [PipelineNext]_pipelineVars
  PROVE  OutboxInv'
<1>1. CASE \E t \in Transfers : Announce(t)
  BY <1>1, EnqueueKeeps DEF Announce, Kinds, Topics, OutboxInv, TypeOK
<1>2. CASE \E t \in Transfers, o \in Ledger!Outcomes \ {"pending"} : EndTransfer(t, o)
  <2>1. PICK t \in Transfers, o \in Ledger!Outcomes \ {"pending"} : EndTransfer(t, o)
    BY <1>2
  <2>2. Enqueue(t, EventOf(o)) /\ EventOf(o) \in Kinds
    BY <2>1 DEF EndTransfer, EventOf, Kinds, Topics
  <2>3. faults' \in 0..MaxFaults
    BY <2>1, EndTransferStrikes DEF OutboxInv, TypeOK
  <2> QED BY <2>2, <2>3, EnqueueKeeps
<1>3. CASE Publishers
  <2>1. PICK r \in Replicas : Publish(r) \/ Disturb(r)
    BY <1>3 DEF Publishers
  <2> QED
    BY <2>1, TickKeeps, SendKeeps, MarkKeeps, NoteKeeps DEF Publish, Disturb
<1>4. CASE Consumers
  <2>1. faults \in 0..MaxFaults
    BY DEF OutboxInv, TypeOK
  <2>2. faults' \in 0..MaxFaults
    BY <1>4, <2>1, LedgerStrikes DEF Consumers
  <2> QED BY <1>4, <2>2, ElsewhereKeeps DEF Consumers
<1>5. CASE UNCHANGED pipelineVars
  <2>1. UNCHANGED publisherVars /\ faults' = faults
    BY <1>5 DEF pipelineVars, outboxVars
  <2> QED BY <2>1, ElsewhereKeeps DEF OutboxInv, TypeOK
<1> QED
  BY <1>1, <1>2, <1>3, <1>4, <1>5 DEF PipelineNext

LEMMA OutboxInvariant == PipelineSpec => []OutboxInv
<1>1. PipelineInit => OutboxInv
  BY OutboxInit DEF PipelineInit
<1>2. OutboxInv /\ [PipelineNext]_pipelineVars => OutboxInv'
  BY OutboxStep
<1> QED
  BY <1>1, <1>2, PTL DEF PipelineSpec

\* At least once: no row is marked published that Kafka has not accepted,
\* however many replicas send and mark it and whatever fails in between.
THEOREM RowsAreMarkedAfterSending == PipelineSpec => []MarkedIsSent
<1>1. OutboxInv => MarkedIsSent
  BY DEF OutboxInv
<1> QED
  BY <1>1, OutboxInvariant, PTL

\* No ending overtakes the announcement of its transfer, unless the row of the
\* announcement shows the error that held it back.
THEOREM AnnouncementsComeFirst == PipelineSpec => []AnnouncedFirst
<1>1. OutboxInv => AnnouncedFirst
  BY DEF OutboxInv
<1> QED
  BY <1>1, OutboxInvariant, PTL

-----------------------------------------------------------------------------
(* How often an event is sent.                                             *)

\* The replicas that will not send an event again without a failure: those
\* about to mark it and, once it is marked, those that do not hold it.
Accounted(e) ==
  {r \in Replicas : \/ step[r] = "mark" /\ Current(r) = e
                    \/ e \in published /\ e \notin batch[r]}

CopiesAreAccounted ==
  \A e \in Events : Copies(e) <= Cardinality(Accounted(e)) + faults

LEMMA AccountedIsFinite ==
  ASSUME NEW e
  PROVE  /\ Accounted(e) \in SUBSET Replicas /\ IsFiniteSet(Accounted(e))
         /\ Cardinality(Accounted(e)) \in Nat
         /\ Cardinality(Accounted(e)) <= Cardinality(Replicas)
         /\ Cardinality(Replicas) \in Nat
<1>1. Accounted(e) \in SUBSET Replicas
  BY DEF Accounted
<1> QED
  BY <1>1, OutboxAssumption, FS_Subset, FS_CardinalityType

AccountedAreFinite ==
  \A e \in Events :
    IsFiniteSet(Accounted(e)) /\ Cardinality(Accounted(e)) \in Nat

LEMMA AccountedNext == AccountedAreFinite'
<1>1. AccountedAreFinite
  BY AccountedIsFinite DEF AccountedAreFinite
<1> QED
  BY <1>1, PTL

LEMMA CopiesAreCounted ==
  ASSUME log \in [Topics -> Seq(Events)], NEW e \in Events
  PROVE  Copies(e) \in Nat
<1>1. PICK p \in Topics : p = TopicOf(e[2])
  BY TopicOfEvent
<1>2. DOMAIN log[p] = 1..Len(log[p]) /\ Len(log[p]) \in Nat
  BY <1>1, LenProperties
<1>3. IsFiniteSet(DOMAIN log[p])
  BY <1>2, FS_Interval
<1>4. {i \in DOMAIN log[p] : log[p][i] = e} \in SUBSET DOMAIN log[p]
  OBVIOUS
<1>5. Cardinality({i \in DOMAIN log[p] : log[p][i] = e}) \in Nat
  BY <1>3, <1>4, FS_Subset, FS_CardinalityType
<1> QED
  BY <1>1, <1>5 DEF Copies

CountedCopies ==
  log \in [Topics -> Seq(Events)] => \A e \in Events : Copies(e) \in Nat

LEMMA CopiesAreCountedNext == CountedCopies'
<1>1. CountedCopies
  BY CopiesAreCounted DEF CountedCopies
<1> QED
  BY <1>1, PTL

LEMMA AcceptCounts ==
  ASSUME log \in [Topics -> Seq(Events)], NEW e \in Events, NEW f \in Events,
         Accept(f)
  PROVE  /\ Copies(e)' <= Copies(e) + 1
         /\ e # f => Copies(e)' = Copies(e)
<1>1. PICK p \in Topics : p = TopicOf(e[2])
  BY TopicOfEvent
<1>2. PICK q \in Topics : q = TopicOf(f[2])
  BY TopicOfEvent
<1>3. log' = [log EXCEPT ![q] = Append(@, f)]
  BY <1>2 DEF Accept
<1>4. Copies(e) \in Nat
  BY CopiesAreCounted
<1>5. CASE p # q
  <2>1. log'[p] = log[p]
    BY <1>3, <1>5
  <2>2. Copies(e)' = Copies(e)
    BY <1>1, <2>1 DEF Copies
  <2> QED BY <1>4, <2>2
<1>6. CASE p = q
  <2> DEFINE s == log[p]
             D == {i \in DOMAIN s : s[i] = e}
             E == {i \in DOMAIN Append(s, f) : Append(s, f)[i] = e}
  <2>1. s \in Seq(Events) /\ log'[p] = Append(s, f)
    BY <1>3, <1>6
  <2>2. Copies(e) = Cardinality(D) /\ Copies(e)' = Cardinality(E)
    BY <1>1, <2>1 DEF Copies
  <2> HIDE DEF s
  <2>3. /\ Len(s) \in Nat /\ DOMAIN s = 1..Len(s)
        /\ DOMAIN Append(s, f) = 1..(Len(s) + 1)
        /\ \A i \in 1..Len(s) : Append(s, f)[i] = s[i]
        /\ Append(s, f)[Len(s) + 1] = f
    BY <2>1
  <2>4. 1..(Len(s) + 1) = (1..Len(s)) \cup {Len(s) + 1}
    BY <2>3
  <2>5. IsFiniteSet(D)
    <3>1. D \in SUBSET (1..Len(s)) /\ IsFiniteSet(1..Len(s))
      BY <2>3, FS_Interval
    <3> QED BY <3>1, FS_Subset
  <2>6. E \subseteq D \cup {Len(s) + 1} /\ D \subseteq E
    BY <2>3, <2>4
  <2>7. f # e => E = D
    BY <2>3, <2>4
  <2> HIDE DEF D, E
  <2>8. /\ IsFiniteSet(D \cup {Len(s) + 1})
        /\ Cardinality(D \cup {Len(s) + 1}) <= Cardinality(D) + 1
    <3>1. /\ IsFiniteSet(D \cup {Len(s) + 1})
          /\ \/ Cardinality(D \cup {Len(s) + 1}) = Cardinality(D)
             \/ Cardinality(D \cup {Len(s) + 1}) = Cardinality(D) + 1
      BY <2>5, FS_AddElement
    <3>2. Cardinality(D) \in Nat
      BY <2>5, FS_CardinalityType
    <3> QED BY <3>1, <3>2
  <2>9. Cardinality(E) <= Cardinality(D \cup {Len(s) + 1})
        /\ Cardinality(E) \in Nat /\ Cardinality(D \cup {Len(s) + 1}) \in Nat
    BY <2>6, <2>8, FS_Subset, FS_CardinalityType
  <2> QED BY <1>4, <2>2, <2>7, <2>8, <2>9
<1> QED
  BY <1>5, <1>6

\* The counting of CountStep, for numbers of copies and of failures before and
\* after a step, and sets of replicas accounted for.
LEMMA CountCore ==
  ASSUME NEW A, NEW B, IsFiniteSet(A), IsFiniteSet(B), NEW r,
         NEW m \in Nat, NEW n \in Nat, NEW f \in Nat, NEW g \in Nat,
         m <= Cardinality(A) + f,
         \/ n <= m /\ A \subseteq B /\ f <= g
         \/ n <= m + 1 /\ A \cup {r} \subseteq B /\ r \notin A /\ f <= g
         \/ n <= m + 1 /\ A \subseteq B /\ g = f + 1
         \/ n <= m /\ A \ {r} \subseteq B /\ g = f + 1
  PROVE  n <= Cardinality(B) + g
<1>1. PICK a \in Nat, b \in Nat : a = Cardinality(A) /\ b = Cardinality(B)
  BY FS_CardinalityType
<1>2. A \subseteq B => a <= b
  BY <1>1, FS_Subset
<1>3. A \cup {r} \subseteq B /\ r \notin A => a + 1 <= b
  <2>1. r \notin A => Cardinality(A \cup {r}) = a + 1
    BY <1>1, FS_AddElement
  <2>2. A \cup {r} \subseteq B => Cardinality(A \cup {r}) <= b
    BY <1>1, FS_Subset
  <2> QED BY <2>1, <2>2
<1>4. A \ {r} \subseteq B => a <= b + 1
  <2>1. PICK c \in Nat : c = Cardinality(A \ {r})
    BY FS_RemoveElement, FS_CardinalityType
  <2>2. c = a \/ c = a - 1
    BY <1>1, <2>1, FS_RemoveElement
  <2>3. A \ {r} \subseteq B => c <= b
    BY <1>1, <2>1, FS_Subset
  <2> QED BY <2>2, <2>3
<1>5. m <= a + f
  BY <1>1
<1>6. \/ n <= m /\ a <= b /\ f <= g
      \/ n <= m + 1 /\ a + 1 <= b /\ f <= g
      \/ n <= m + 1 /\ a <= b /\ g = f + 1
      \/ n <= m /\ a <= b + 1 /\ g = f + 1
  BY <1>2, <1>3, <1>4
<1>7. n <= b + g
  BY <1>5, <1>6
<1> QED
  BY <1>1, <1>7

\* What a step may do to the copies of an event: one more needs one more
\* replica accounted for, or a failure, and so does one less accounted for.
LEMMA CountStep ==
  ASSUME TypeOK, TypeOK', NEW e \in Events, NEW r,
         Copies(e) <= Cardinality(Accounted(e)) + faults,
         \/ /\ Copies(e)' <= Copies(e)
            /\ Accounted(e) \subseteq Accounted(e)'
            /\ faults <= faults'
         \/ /\ Copies(e)' <= Copies(e) + 1
            /\ Accounted(e) \cup {r} \subseteq Accounted(e)' /\ r \notin Accounted(e)
            /\ faults <= faults'
         \/ /\ Copies(e)' <= Copies(e) + 1
            /\ Accounted(e) \subseteq Accounted(e)'
            /\ faults' = faults + 1
         \/ /\ Copies(e)' <= Copies(e)
            /\ Accounted(e) \ {r} \subseteq Accounted(e)'
            /\ faults' = faults + 1
  PROVE  Copies(e)' <= Cardinality(Accounted(e)') + faults'
<1> DEFINE A == Accounted(e)
           B == Accounted(e)'
           m == Copies(e)
           n == Copies(e)'
<1>1. IsFiniteSet(A) /\ Cardinality(A) \in Nat
  BY AccountedIsFinite
<1>2. IsFiniteSet(B) /\ Cardinality(B) \in Nat
  BY AccountedNext DEF AccountedAreFinite, Events
<1>3. faults \in Nat /\ faults' \in Nat
  BY OutboxAssumption DEF TypeOK
<1>4. m \in Nat /\ n \in Nat
  BY CopiesAreCounted, CopiesAreCountedNext DEF TypeOK, CountedCopies, Events
<1> HIDE DEF A, B, m, n
<1>5. m <= Cardinality(A) + faults
  BY DEF A, m
<1>6. \/ n <= m /\ A \subseteq B /\ faults <= faults'
      \/ n <= m + 1 /\ A \cup {r} \subseteq B /\ r \notin A /\ faults <= faults'
      \/ n <= m + 1 /\ A \subseteq B /\ faults' = faults + 1
      \/ n <= m /\ A \ {r} \subseteq B /\ faults' = faults + 1
  BY DEF A, B, m, n
<1>7. n <= Cardinality(B) + faults'
  <2>1. PICK X, Y : X = A /\ Y = B
    OBVIOUS
  <2>2. PICK i \in Nat, j \in Nat, f \in Nat, g \in Nat :
          i = m /\ j = n /\ f = faults /\ g = faults'
    BY <1>3, <1>4
  <2>3. IsFiniteSet(X) /\ IsFiniteSet(Y) /\ i <= Cardinality(X) + f
    BY <1>1, <1>2, <1>5, <2>1, <2>2
  <2>4. \/ j <= i /\ X \subseteq Y /\ f <= g
        \/ j <= i + 1 /\ X \cup {r} \subseteq Y /\ r \notin X /\ f <= g
        \/ j <= i + 1 /\ X \subseteq Y /\ g = f + 1
        \/ j <= i /\ X \ {r} \subseteq Y /\ g = f + 1
    BY <1>6, <2>1, <2>2
  <2>5. j <= Cardinality(Y) + g
    BY ONLY <2>3, <2>4, i \in Nat, j \in Nat, f \in Nat, g \in Nat, CountCore
  <2> QED BY <2>1, <2>2, <2>5
<1> QED
  BY <1>7 DEF B, n

\* The replicas that do nothing stay accounted for.
LEMMA OthersAccount ==
  ASSUME outbox' = outbox, published \subseteq published', NEW e,
         NEW q \in Accounted(e), batch'[q] = batch[q], step'[q] = step[q]
  PROVE  q \in Accounted(e)'
<1>1. Current(q)' = Current(q)
  BY DEF Current, Older
<1> QED
  BY <1>1 DEF Accounted

\* What a step of the loop of a replica has to keep to, if it sends nothing.
LEMMA QuietCounts ==
  ASSUME OutboxInv, OutboxInv', CopiesAreAccounted, NEW r \in Replicas,
         UNCHANGED <<outbox, log>>, published \subseteq published',
         \A q \in Replicas \ {r} : batch'[q] = batch[q] /\ step'[q] = step[q],
         \A e \in Events : r \in Accounted(e) =>
           r \in Accounted(e)' \/ faults' = faults + 1,
         faults' = faults \/ faults' = faults + 1
  PROVE  CopiesAreAccounted'
<1> SUFFICES ASSUME NEW e \in Events
             PROVE  Copies(e)' <= Cardinality(Accounted(e)') + faults'
  BY DEF CopiesAreAccounted, Events
<1>1. TypeOK /\ TypeOK' /\ faults \in Nat
  BY OutboxAssumption DEF OutboxInv, TypeOK
<1>2. Copies(e) \in Nat /\ Copies(e)' = Copies(e)
  BY <1>1, CopiesAreCounted DEF Copies, TypeOK
<1>3. Accounted(e) \ {r} \subseteq Accounted(e)'
  BY OthersAccount DEF Accounted
<1>4. Copies(e) <= Cardinality(Accounted(e)) + faults
  BY DEF CopiesAreAccounted
<1>5. CASE faults' = faults + 1
  BY <1>1, <1>2, <1>3, <1>4, <1>5, CountStep
<1>6. CASE faults' # faults + 1
  <2>1. Accounted(e) \subseteq Accounted(e)' /\ faults <= faults'
    BY <1>1, <1>3, <1>6
  <2> QED BY <1>1, <1>2, <1>4, <2>1, CountStep
<1> QED
  BY <1>5, <1>6

LEMMA TickCounts ==
  ASSUME OutboxInv, OutboxInv', CopiesAreAccounted, NEW r \in Replicas, Tick(r)
  PROVE  CopiesAreAccounted'
<1>1. /\ batch' = [batch EXCEPT ![r] = First(Pending)]
      /\ step' = [step EXCEPT ![r] = "send"]
      /\ step[r] = "idle"
      /\ UNCHANGED <<outbox, published, errored, log, faults>>
  BY DEF Tick
<1>2. TypeOK
  BY DEF OutboxInv
<1>3. batch'[r] = First(Pending) /\ First(Pending) \cap published = {}
  BY <1>1, <1>2 DEF TypeOK, First, Pending
<1>4. \A e \in Events : r \in Accounted(e) => r \in Accounted(e)'
  BY <1>1, <1>3 DEF Accounted
<1>5. \A q \in Replicas \ {r} : batch'[q] = batch[q] /\ step'[q] = step[q]
  BY <1>1, <1>2 DEF TypeOK
<1> QED
  BY <1>1, <1>4, <1>5, QuietCounts

LEMMA SendCounts ==
  ASSUME OutboxInv, OutboxInv', CopiesAreAccounted, NEW r \in Replicas, Send(r)
  PROVE  CopiesAreAccounted'
<1> DEFINE c == Current(r)
<1>1. /\ step[r] = "send" /\ Accept(c)
      /\ step' = [step EXCEPT ![r] = "mark"]
      /\ UNCHANGED <<batch, outbox, published, errored, faults>>
  BY DEF Send, Goto
<1>2. TypeOK /\ TypeOK' /\ faults \in Nat /\ c \in batch[r] /\ c \in Events
  BY <1>1, InTheLoop, OutboxAssumption DEF OutboxInv, TypeOK
<1>3. c' = c
  BY <1>1 DEF Current, Older
<1>4. /\ step'[r] = "mark"
      /\ \A q \in Replicas \ {r} : batch'[q] = batch[q] /\ step'[q] = step[q]
  BY <1>1, <1>2 DEF TypeOK
<1> SUFFICES ASSUME NEW e \in Events
             PROVE  Copies(e)' <= Cardinality(Accounted(e)') + faults'
  BY DEF CopiesAreAccounted, Events
<1>5. Accounted(e) \ {r} \subseteq Accounted(e)'
  BY <1>1, <1>4, OthersAccount DEF Accounted
<1>6. Copies(e) <= Cardinality(Accounted(e)) + faults /\ Copies(e) \in Nat
  BY <1>2, CopiesAreCounted DEF CopiesAreAccounted, TypeOK
<1>7. CASE e = c
  <2>1. r \notin Accounted(e) /\ r \in Accounted(e)'
    BY <1>1, <1>2, <1>3, <1>4, <1>7 DEF Accounted
  <2>2. Copies(e)' <= Copies(e) + 1
    BY <1>1, <1>2, AcceptCounts DEF TypeOK
  <2>3. Accounted(e) \cup {r} \subseteq Accounted(e)' /\ faults <= faults'
    BY <1>1, <1>2, <1>5, <2>1
  <2> QED BY <1>2, <1>6, <2>1, <2>2, <2>3, CountStep
<1>8. CASE e # c
  <2>1. r \in Accounted(e) => r \in Accounted(e)'
    BY <1>1 DEF Accounted
  <2>2. Accounted(e) \subseteq Accounted(e)' /\ faults <= faults'
    BY <1>1, <1>2, <1>5, <2>1
  <2>3. Copies(e)' = Copies(e)
    BY <1>1, <1>2, <1>8, AcceptCounts DEF TypeOK
  <2> QED BY <1>2, <1>6, <2>2, <2>3, CountStep
<1> QED
  BY <1>7, <1>8

LEMMA SendFailsCounts ==
  ASSUME OutboxInv, OutboxInv', CopiesAreAccounted, NEW r \in Replicas, SendFails(r)
  PROVE  CopiesAreAccounted'
<1> DEFINE c == Current(r)
<1>1. /\ step[r] = "send" /\ (Accept(c) \/ UNCHANGED log)
      /\ step' = [step EXCEPT ![r] = "note"]
      /\ UNCHANGED <<batch, outbox, published, errored>> /\ faults' = faults + 1
  BY DEF SendFails, Goto, Strikes
<1>2. TypeOK /\ TypeOK' /\ faults \in Nat /\ c \in Events
  BY <1>1, InTheLoop, OutboxAssumption DEF OutboxInv, TypeOK
<1>3. \A q \in Replicas \ {r} : batch'[q] = batch[q] /\ step'[q] = step[q]
  BY <1>1, <1>2 DEF TypeOK
<1> SUFFICES ASSUME NEW e \in Events
             PROVE  Copies(e)' <= Cardinality(Accounted(e)') + faults'
  BY DEF CopiesAreAccounted, Events
<1>4. Accounted(e) \ {r} \subseteq Accounted(e)'
  BY <1>1, <1>3, OthersAccount DEF Accounted
<1>5. Copies(e) <= Cardinality(Accounted(e)) + faults /\ Copies(e) \in Nat
  BY <1>2, CopiesAreCounted DEF CopiesAreAccounted, TypeOK
<1>6. Accounted(e) \subseteq Accounted(e)'
  BY <1>1, <1>4 DEF Accounted
<1>7. Copies(e)' <= Copies(e) + 1
  <2>1. CASE Accept(c)
    BY <1>2, <2>1, AcceptCounts DEF TypeOK
  <2>2. CASE UNCHANGED log
    <3>1. Copies(e)' = Copies(e)
      BY <2>2 DEF Copies
    <3> QED BY <1>5, <3>1
  <2> QED BY <1>1, <2>1, <2>2
<1> QED
  BY <1>1, <1>2, <1>5, <1>6, <1>7, CountStep

LEMMA LoopCounts ==
  ASSUME OutboxInv, OutboxInv', CopiesAreAccounted, NEW r \in Replicas,
         Mark(r) \/ MarkFails(r) \/ Note(r) \/ NoteFails(r) \/ Die(r)
  PROVE  CopiesAreAccounted'
<1> DEFINE c == Current(r)
<1>1. TypeOK /\ TypeOK' /\ faults \in Nat
  BY OutboxAssumption DEF OutboxInv, TypeOK
<1>2. /\ UNCHANGED <<outbox, log>> /\ published \subseteq published'
      /\ faults' = faults \/ faults' = faults + 1
  BY DEF Mark, MarkFails, Note, NoteFails, Die, MarkPublished, Strikes
<1>3. \A q \in Replicas \ {r} : batch'[q] = batch[q] /\ step'[q] = step[q]
  BY <1>1 DEF TypeOK, Mark, MarkFails, Note, NoteFails, Die, NextRow, Abandon, Goto
<1>4. CASE MarkFails(r) \/ NoteFails(r) \/ Die(r)
  <2>1. faults' = faults + 1
    BY <1>4 DEF MarkFails, NoteFails, Die, Strikes
  <2> QED BY <1>1, <1>2, <1>3, <2>1, QuietCounts
<1>5. CASE Mark(r) \/ Note(r)
  <2>1. /\ batch'[r] = batch[r] \ {c} /\ step[r] \in {"mark", "note"}
        /\ step[r] = "mark" => c \in published'
    BY <1>1, <1>5 DEF TypeOK, Mark, Note, NextRow, MarkPublished
  <2>2. \A e \in Events : r \in Accounted(e) => r \in Accounted(e)'
    BY <1>2, <2>1 DEF Accounted
  <2> QED BY <1>1, <1>2, <1>3, <2>2, QuietCounts
<1> QED
  BY <1>4, <1>5

\* A new row does not move the loops from the rows they are at.
LEMMA EnqueueCounts ==
  ASSUME OutboxInv, OutboxInv', CopiesAreAccounted, NEW t \in Transfers,
         NEW kind \in Kinds, Enqueue(t, kind), faults <= faults'
  PROVE  CopiesAreAccounted'
<1>1. /\ UNCHANGED <<published, errored, log, batch, step>>
      /\ TypeOK /\ TypeOK' /\ outbox \in Seq(Events) /\ RowsAreDistinct
      /\ BatchesAreRows /\ BatchesAreRows' /\ outbox' \in Seq(Events) /\ RowsAreDistinct'
  BY DEF Enqueue, OutboxInv, TypeOK
<1>2. \A e, f \in Elements(outbox) : Older(e, f)' <=> Older(e, f)
  BY <1>1, EnqueueEffect
<1>3. ASSUME NEW q \in Replicas, step[q] = "mark" PROVE Current(q)' = Current(q)
  <2>1. batch[q] \subseteq Elements(outbox) /\ batch[q] # {}
    BY <1>1, <1>3 DEF BatchesAreRows
  <2>2. Current(q) \in batch[q] /\ \A f \in batch[q] : ~Older(f, Current(q))
    BY <1>1, <2>1, CurrentRow
  <2> DEFINE c == Current(q)
  <2>3. c \in batch'[q] /\ \A f \in batch'[q] : ~(\E i, j \in DOMAIN outbox' :
          i < j /\ outbox'[i] = f /\ outbox'[j] = c)
    <3> HIDE DEF c
    <3>1. c \in batch[q] /\ \A f \in batch[q] : ~Older(f, c)
      BY <2>2 DEF c
    <3> QED BY <1>1, <1>2, <2>1, <3>1 DEF Older
  <2>4. /\ batch'[q] \subseteq Elements(outbox)' /\ batch'[q] # {}
    BY <1>1, <1>3 DEF BatchesAreRows
  <2>5. \A e \in batch'[q] : (\A f \in batch'[q] : ~Older(f, e)') => e = Current(q)'
    BY <1>1, <2>4, OldestIsCurrentNext DEF OldestIsCurrent
  <2> QED BY <2>3, <2>5 DEF Older
<1>4. ASSUME NEW e \in Events
      PROVE  Copies(e)' <= Cardinality(Accounted(e)') + faults'
  <2>1. Accounted(e) \subseteq Accounted(e)'
    BY <1>1, <1>3 DEF Accounted
  <2>2. Copies(e)' = Copies(e) /\ Copies(e) \in Nat /\ faults \in Nat
    BY <1>1, CopiesAreCounted, OutboxAssumption DEF Copies, TypeOK
  <2>3. Copies(e) <= Cardinality(Accounted(e)) + faults
    BY DEF CopiesAreAccounted
  <2>4. Copies(e)' <= Copies(e) /\ faults <= faults'
    BY <1>1, <2>2
  <2> QED BY <1>1, <2>1, <2>3, <2>4, CountStep
<1> QED
  BY <1>4 DEF CopiesAreAccounted, Events

LEMMA ElsewhereCounts ==
  ASSUME OutboxInv, OutboxInv', CopiesAreAccounted, UNCHANGED publisherVars,
         faults <= faults'
  PROVE  CopiesAreAccounted'
<1> SUFFICES ASSUME NEW e \in Events
             PROVE  Copies(e)' <= Cardinality(Accounted(e)') + faults'
  BY DEF CopiesAreAccounted, Events
<1>1. UNCHANGED <<outbox, published, errored, log, batch, step>>
  BY DEF publisherVars
<1>2. TypeOK /\ TypeOK' /\ log \in [Topics -> Seq(Events)]
  BY DEF OutboxInv, TypeOK
<1>3. Copies(e)' = Copies(e) /\ Copies(e) \in Nat
  BY <1>1, <1>2, CopiesAreCounted DEF Copies
<1>4. Accounted(e) \subseteq Accounted(e)'
  BY <1>1, OthersAccount DEF Accounted
<1>5. Copies(e) <= Cardinality(Accounted(e)) + faults /\ Copies(e)' <= Copies(e)
  BY <1>3 DEF CopiesAreAccounted
<1> QED
  BY <1>2, <1>4, <1>5, CountStep

LEMMA LedgerStrikesOnce ==
  ASSUME faults \in Nat, Ledger!Next
  PROVE  faults <= faults'
BY DEF Ledger!Next, Ledger!Consume, Ledger!Disturb, Ledger!Land, Ledger!StartBatch,
       Ledger!Fetch, Ledger!Write, Ledger!Commit, Ledger!FetchFails, Ledger!WriteFails,
       Ledger!Interrupt, Ledger!Strikes, Ledger!batchVars

LEMMA CountsInit == Init => CopiesAreAccounted
<1> SUFFICES ASSUME Init, NEW e \in Events
             PROVE  Copies(e) <= Cardinality(Accounted(e)) + faults
  BY DEF CopiesAreAccounted
<1>1. log[TopicOf(e[2])] = <<>> /\ faults = 0
  BY TopicOfEvent DEF Init
<1>2. {i \in DOMAIN log[TopicOf(e[2])] : log[TopicOf(e[2])][i] = e} = {}
  BY <1>1
<1>3. Copies(e) = 0
  BY <1>2, FS_EmptySet DEF Copies
<1> QED
  BY <1>1, <1>3, AccountedIsFinite

LEMMA CountsStep ==
  ASSUME OutboxInv, OutboxInv', CopiesAreAccounted, [PipelineNext]_pipelineVars
  PROVE  CopiesAreAccounted'
<1>1. CASE \E t \in Transfers : Announce(t)
  <2>1. faults <= faults'
    BY <1>1, OutboxAssumption DEF Announce, OutboxInv, TypeOK
  <2> QED BY <1>1, <2>1, EnqueueCounts DEF Announce, Kinds, Topics
<1>2. CASE \E t \in Transfers, o \in Ledger!Outcomes \ {"pending"} : EndTransfer(t, o)
  <2>1. PICK t \in Transfers, o \in Ledger!Outcomes \ {"pending"} : EndTransfer(t, o)
    BY <1>2
  <2>2. Enqueue(t, EventOf(o)) /\ EventOf(o) \in Kinds
    BY <2>1 DEF EndTransfer, EventOf, Kinds, Topics
  <2>3. faults <= faults'
    BY <2>1, EndTransferStrikes DEF OutboxInv, TypeOK
  <2> QED BY <2>2, <2>3, EnqueueCounts
<1>3. CASE Publishers
  <2>1. PICK r \in Replicas : Publish(r) \/ Disturb(r)
    BY <1>3 DEF Publishers
  <2> QED
    BY <2>1, TickCounts, SendCounts, SendFailsCounts, LoopCounts DEF Publish, Disturb
<1>4. faults \in Nat
  BY OutboxAssumption DEF OutboxInv, TypeOK
<1>5. CASE Consumers
  BY <1>4, <1>5, LedgerStrikesOnce, ElsewhereCounts DEF Consumers
<1>6. CASE UNCHANGED pipelineVars
  <2>1. UNCHANGED publisherVars /\ faults <= faults'
    BY <1>4, <1>6 DEF pipelineVars, outboxVars
  <2> QED BY <2>1, ElsewhereCounts
<1> QED
  BY <1>1, <1>2, <1>3, <1>5, <1>6 DEF PipelineNext

\* However many replicas select the same rows, and whatever fails, each of them
\* and each failure sends an event once more at most.
THEOREM DuplicatesAreBounded == PipelineSpec => []DuplicatesHaveACause
<1>1. PipelineInit => OutboxInv /\ CopiesAreAccounted
  BY OutboxInit, CountsInit DEF PipelineInit
<1>2. OutboxInv /\ CopiesAreAccounted /\ [PipelineNext]_pipelineVars
        => (OutboxInv /\ CopiesAreAccounted)'
  BY OutboxStep, CountsStep
<1>3. OutboxInv /\ CopiesAreAccounted => DuplicatesHaveACause
  <2> SUFFICES ASSUME OutboxInv, CopiesAreAccounted, NEW e \in Events
               PROVE  Copies(e) <= Cardinality(Replicas) + faults
    BY DEF DuplicatesHaveACause
  <2>1. Copies(e) \in Nat /\ faults \in Nat
    BY CopiesAreCounted, OutboxAssumption DEF OutboxInv, TypeOK
  <2>2. Copies(e) <= Cardinality(Accounted(e)) + faults
    BY DEF CopiesAreAccounted
  <2> QED BY <2>1, <2>2, AccountedIsFinite
<1> QED
  BY <1>1, <1>2, <1>3, PTL DEF PipelineSpec

-----------------------------------------------------------------------------
(* The ledger, on top of what is proved of the outbox.                     *)

Failures == {"refused", "reversed", "stranded"}
Types    == {"debit", "credit"}

\* The rows of a transfer, and what the table says and has said of it.
OutcomesMatchRows ==
  /\ outcome \in [Transfers -> Ledger!Outcomes]
  /\ recorded \in [Transfers -> SUBSET Ledger!Outcomes]
  /\ \A t \in Transfers :
       /\ Written(t, "completed") => "completed" \in recorded[t]
       /\ Written(t, "failed") \/ Written(t, "stranded") => outcome[t] \in Failures
       /\ outcome[t] = "pending" => recorded[t] = {}
       /\ outcome[t] # "pending" => outcome[t] \in recorded[t]
       /\ outcome[t] = "refused" => recorded[t] = {"refused"}

LogsAreSorted ==
  \A p \in Topics : \A e \in Elements(log[p]) : TopicOf(e[2]) = p

StatusFor(o) == CASE o = "stranded" -> "failed" [] OTHER -> o

\* The transfer of a message.
Subject(p, o) == log[p][o + 1][1]

\* What an entry, or a request to write one, has to say.
Fits(e) ==
  /\ e \in Ledger!Entries
  /\ e.offset < Len(log[e.topic])
  /\ e.transfer = Subject(e.topic, e.offset)
  /\ \E o \in recorded[e.transfer] : e.status = StatusFor(o)

RequestsFit ==
  /\ \A e \in entries \cup stray : Fits(e)
  /\ \A p \in Ledger!Read : \A e \in writing[p] : Fits(e)

Has(p, o, type) ==
  \E e \in entries : e.topic = p /\ e.offset = o /\ e.entryType = type
Whole(p, o)     == \A type \in Types : Has(p, o, type)
Touched(p, o)   == \E e \in entries \cup stray : e.topic = p /\ e.offset = o

\* Where the consumer of a topic stands.
Position(p) ==
  /\ committed[p] <= Len(log[p])
  /\ at[p] # "idle" =>
       committed[p] <= cursor[p] /\ cursor[p] <= upto[p] /\ upto[p] <= Len(log[p])
  /\ at[p] \in {"fetch", "write"} => cursor[p] < upto[p]
  /\ at[p] = "commit" => cursor[p] = upto[p]
  /\ at[p] = "fetch" => p = "failed"

\* What has not been written of the message at the cursor is being written.
Writes(p) ==
  /\ at[p] # "write" => writing[p] = {}
  /\ \A e \in writing[p] : e.topic = p /\ e.offset = cursor[p]
  /\ at[p] = "write" =>
       \A type \in Types :
         Has(p, cursor[p], type) \/ \E e \in writing[p] : e.entryType = type

\* A message is in the ledger with both entries, or is of a failed transfer that
\* has none to write or had a failed lookup.
Done(p, o) ==
  \/ Whole(p, o)
  \/ p = "failed" /\ ~Touched(p, o) /\ outcome[Subject(p, o)] = "refused"
  \/ p = "failed" /\ Subject(p, o) \in skipped /\ (~Touched(p, o) \/ faults >= 2)

\* The messages the consumer has passed.
PassedAreWhole(p) ==
  \A o \in Nat :
    o < committed[p] \/ (at[p] # "idle" /\ o < cursor[p]) => Done(p, o)

\* A message that was begun, and is not being written, is written in whole, or
\* something has failed.
HalvesAreFailures(p) ==
  \A o \in Nat :
    Touched(p, o) /\ ~(at[p] = "write" /\ cursor[p] = o) =>
      Whole(p, o) \/ faults >= 1

PartitionInv(p) ==
  Position(p) /\ Writes(p) /\ PassedAreWhole(p) /\ HalvesAreFailures(p)

LedgerInv ==
  /\ OutcomesMatchRows
  /\ LogsAreSorted
  /\ Ledger!TypeOK
  /\ RequestsFit
  /\ \A p \in Ledger!Read : PartitionInv(p)

LEMMA LedgerInit == PipelineInit => LedgerInv
<1> SUFFICES ASSUME PipelineInit PROVE LedgerInv
  OBVIOUS
<1> USE DEF PipelineInit
<1>1. Ledger!TypeOK
  BY DEF Ledger!Init, Ledger!TypeOK
<1>2. OutcomesMatchRows
  BY DEF Init, OutcomesMatchRows, Written, Elements, Ledger!Outcomes, Failures
<1>0. LogsAreSorted
  BY DEF Init, LogsAreSorted, Elements
<1>3. RequestsFit
  BY DEF Ledger!Init, RequestsFit
<1>4. ASSUME NEW p \in Ledger!Read PROVE PartitionInv(p)
  <2>1. log[p] = <<>> /\ Len(log[p]) = 0
    BY DEF Init, Ledger!Read, Topics
  <2>2. Position(p)
    BY <2>1 DEF Ledger!Init, Position
  <2>3. Writes(p) /\ PassedAreWhole(p) /\ HalvesAreFailures(p)
    BY DEF Ledger!Init, Writes, PassedAreWhole, HalvesAreFailures, Touched
  <2> QED BY <2>2, <2>3 DEF PartitionInv
<1> QED
  BY <1>0, <1>1, <1>2, <1>3, <1>4 DEF LedgerInv

-----------------------------------------------------------------------------
\* What is done stays done.
LEMMA DoneStays ==
  ASSUME NEW p, NEW o, Done(p, o), log'[p][o + 1] = log[p][o + 1],
         outcome[Subject(p, o)] = "refused" => outcome'[Subject(p, o)] = "refused",
         Whole(p, o) => Whole(p, o)', Touched(p, o)' => Touched(p, o),
         skipped \subseteq skipped', faults \in Nat, faults' \in Nat, faults <= faults'
  PROVE  Done(p, o)'
<1>1. Subject(p, o)' = Subject(p, o)
  BY DEF Subject
<1> HIDE DEF Subject
<1>2. faults >= 2 => faults' >= 2
  OBVIOUS
<1> QED
  BY <1>1, <1>2 DEF Done

\* A partition whose consumer does nothing, while messages arrive, entries of
\* other topics are written, and those in flight land.
LEMMA PartitionStays ==
  ASSUME TypeOK, TypeOK', Ledger!TypeOK, NEW p \in Ledger!Read, PartitionInv(p),
         Len(log[p]) <= Len(log'[p]),
         \A i \in 1..Len(log[p]) : log'[p][i] = log[p][i],
         \A t : outcome[t] = "refused" => outcome'[t] = "refused",
         skipped \subseteq skipped',
         committed'[p] = committed[p], cursor'[p] = cursor[p], upto'[p] = upto[p],
         at'[p] = at[p], writing'[p] = writing[p],
         entries \subseteq entries',
         \A o \in Nat : Touched(p, o)' => Touched(p, o),
         faults <= faults'
  PROVE  PartitionInv(p)'
<1>1. /\ Len(log[p]) \in Nat /\ Len(log'[p]) \in Nat
      /\ faults \in Nat /\ faults' \in Nat
      /\ committed[p] \in Nat /\ cursor[p] \in Nat /\ upto[p] \in Nat
  <2>1. p \in Topics
    BY DEF Ledger!Read, Topics
  <2>2. log[p] \in Seq(Events) /\ log'[p] \in Seq(Events)
    BY <2>1 DEF TypeOK
  <2>3. Len(log[p]) \in Nat /\ Len(log'[p]) \in Nat
    BY <2>2, LenProperties
  <2>4. committed[p] \in Nat /\ cursor[p] \in Nat /\ upto[p] \in Nat
    BY DEF Ledger!TypeOK
  <2>5. faults \in Nat /\ faults' \in Nat
    BY OutboxAssumption DEF TypeOK
  <2> QED BY <2>3, <2>4, <2>5
<1>2. \A o, type : Has(p, o, type) => Has(p, o, type)'
  BY DEF Has
<1>3. Position(p)'
  BY <1>1 DEF PartitionInv, Position
<1>4. Writes(p)'
  <2>1. Writes(p)
    BY DEF PartitionInv
  <2>2. at'[p] # "write" => writing'[p] = {}
    BY <2>1 DEF Writes
  <2>3. \A e \in writing'[p] : e.topic = p /\ e.offset = cursor'[p]
    BY <2>1 DEF Writes
  <2>4. ASSUME at'[p] = "write", NEW type \in Types
        PROVE  Has(p, cursor[p], type)' \/ \E e \in writing'[p] : e.entryType = type
    <3>1. Has(p, cursor[p], type) \/ \E e \in writing[p] : e.entryType = type
      BY <2>1, <2>4 DEF Writes
    <3>2. Has(p, cursor[p], type) => Has(p, cursor[p], type)'
      BY DEF Has
    <3> QED BY <3>1, <3>2
  <2> QED BY <2>2, <2>3, <2>4 DEF Writes
<1>5. PassedAreWhole(p)'
  <2> SUFFICES ASSUME NEW o \in Nat,
                      o < committed[p] \/ (at[p] # "idle" /\ o < cursor[p])
               PROVE  Done(p, o)'
    BY DEF PassedAreWhole
  <2>1. Done(p, o)
    BY DEF PartitionInv, PassedAreWhole
  <2>2. o + 1 \in 1..Len(log[p])
    BY <1>1 DEF PartitionInv, Position
  <2>3. Whole(p, o) => Whole(p, o)'
    BY <1>2 DEF Whole
  <2> QED BY <1>1, <2>1, <2>2, <2>3, DoneStays
<1>6. HalvesAreFailures(p)'
  BY <1>1, <1>2 DEF PartitionInv, HalvesAreFailures, Whole
<1> QED
  BY <1>3, <1>4, <1>5, <1>6 DEF PartitionInv

\* Logs only grow.
LogsGrow ==
  \A p \in Ledger!Read :
    /\ Len(log[p]) <= Len(log'[p])
    /\ \A i \in 1..Len(log[p]) : log'[p][i] = log[p][i]

LEMMA FitsStays ==
  ASSUME TypeOK, LogsGrow, TypeOK',
         \A t \in Transfers : recorded[t] \subseteq recorded'[t],
         NEW e, Fits(e)
  PROVE  Fits(e)'
<1>1. e \in Ledger!Entries /\ e.topic \in Ledger!Read /\ e.offset \in Nat
      /\ e.transfer \in Transfers
  BY DEF Fits, Ledger!Entries
<1>2. e.topic \in Topics
  BY <1>1 DEF Ledger!Read, Topics
<1>3. Len(log[e.topic]) \in Nat /\ Len(log'[e.topic]) \in Nat
  BY <1>2, LenProperties DEF TypeOK
<1>4. e.offset + 1 \in 1..Len(log[e.topic]) /\ e.offset < Len(log'[e.topic])
  BY <1>1, <1>3 DEF Fits, LogsGrow
<1>5. e.transfer = Subject(e.topic, e.offset)'
  BY <1>1, <1>4 DEF Fits, LogsGrow, Subject
<1>6. recorded[e.transfer] \subseteq recorded'[e.transfer]
  BY <1>1
<1> QED
  BY <1>1, <1>4, <1>5, <1>6 DEF Fits

\* What the transfer service and its publishers do is all the same to what the
\* ledger has written.
LEMMA OutboxSideKeeps ==
  ASSUME OutboxInv, OutboxInv', LedgerInv, UNCHANGED ledgerVars, LogsGrow,
         faults <= faults', OutcomesMatchRows', LogsAreSorted',
         \A t : outcome[t] = "refused" => outcome'[t] = "refused",
         \A t \in Transfers : recorded[t] \subseteq recorded'[t]
  PROVE  LedgerInv'
<1>1. TypeOK /\ TypeOK' /\ Ledger!TypeOK /\ RequestsFit
  BY DEF OutboxInv, LedgerInv
<1>2. UNCHANGED <<committed, cursor, upto, at, writing, stray, entries, skipped>>
  BY DEF ledgerVars
<1>3. Ledger!TypeOK'
  BY <1>1, <1>2 DEF Ledger!TypeOK
<1>4. RequestsFit'
  BY <1>1, <1>2, FitsStays DEF RequestsFit
<1>5. ASSUME NEW p \in Ledger!Read PROVE PartitionInv(p)'
  <2>1. PartitionInv(p)
    BY DEF LedgerInv
  <2>2. \A o \in Nat : Touched(p, o)' => Touched(p, o)
    BY <1>2 DEF Touched
  <2>3. Len(log[p]) <= Len(log'[p]) /\ \A i \in 1..Len(log[p]) : log'[p][i] = log[p][i]
    BY DEF LogsGrow
  <2> QED BY <1>1, <1>2, <2>1, <2>2, <2>3, PartitionStays
<1> QED
  BY <1>3, <1>4, <1>5 DEF LedgerInv

LEMMA SameLogGrows ==
  ASSUME TypeOK, log' = log
  PROVE  LogsGrow
<1> SUFFICES ASSUME NEW p \in Ledger!Read PROVE Len(log[p]) \in Nat
  BY DEF LogsGrow
<1>1. p \in Topics
  BY DEF Ledger!Read, Topics
<1> QED
  BY <1>1, LenProperties DEF TypeOK

LEMMA AcceptGrows ==
  ASSUME TypeOK, NEW e \in Events, Accept(e)
  PROVE  LogsGrow
<1> SUFFICES ASSUME NEW p \in Ledger!Read
             PROVE  /\ Len(log[p]) <= Len(log'[p])
                    /\ \A i \in 1..Len(log[p]) : log'[p][i] = log[p][i]
  BY DEF LogsGrow
<1>1. p \in Topics /\ log[p] \in Seq(Events)
  BY DEF Ledger!Read, Topics, TypeOK
<1>2. log'[p] = log[p] \/ log'[p] = Append(log[p], e)
  BY <1>1 DEF Accept, TypeOK
<1> QED
  BY <1>1, <1>2

LEMMA SameLogIsSorted ==
  ASSUME LogsAreSorted, log' = log
  PROVE  LogsAreSorted'
BY DEF LogsAreSorted, Elements

LEMMA AcceptSorts ==
  ASSUME TypeOK, LogsAreSorted, NEW e \in Events, Accept(e)
  PROVE  LogsAreSorted'
<1> SUFFICES ASSUME NEW p \in Topics, NEW i \in DOMAIN log'[p]
             PROVE  TopicOf(log'[p][i][2]) = p
  BY DEF LogsAreSorted, Elements
<1>1. PICK q \in Topics : q = TopicOf(e[2])
  BY TopicOfEvent
<1>2. log' = [log EXCEPT ![q] = Append(@, e)] /\ log[p] \in Seq(Events)
  BY <1>1 DEF Accept, TypeOK
<1>3. \A k \in DOMAIN log[p] : TopicOf(log[p][k][2]) = p
  BY DEF LogsAreSorted, Elements
<1>4. CASE p # q
  BY <1>2, <1>3, <1>4 DEF TypeOK
<1>5. CASE p = q
  <2> DEFINE s == log[p]
  <2>1. log'[p] = Append(s, e) /\ s \in Seq(Events)
    BY <1>2, <1>5 DEF TypeOK
  <2> HIDE DEF s
  <2>2. (i \in 1..Len(s) /\ log'[p][i] = s[i]) \/ log'[p][i] = e
    BY <2>1
  <2>3. i \in 1..Len(s) => i \in DOMAIN s
    BY <2>1
  <2> QED BY <1>1, <1>3, <1>5, <2>2, <2>3 DEF s
<1> QED
  BY <1>4, <1>5

LEMMA AnnounceKeeps ==
  ASSUME OutboxInv, OutboxInv', LedgerInv, NEW t \in Transfers, Announce(t)
  PROVE  LedgerInv'
<1>1. TypeOK /\ RowsAreDistinct /\ outbox \in Seq(Events) /\ faults \in Int
  BY OutboxAssumption DEF OutboxInv, TypeOK
<1>2. /\ UNCHANGED <<log, faults, outcome, recorded, ledgerVars>>
      /\ Enqueue(t, "initiated")
  BY DEF Announce, Enqueue, tableVars
<1>3. Elements(outbox)' = Elements(outbox) \cup {<<t, "initiated">>}
  BY <1>1, <1>2, EnqueueEffect DEF Kinds, Topics
<1>4. OutcomesMatchRows'
  BY <1>2, <1>3 DEF LedgerInv, OutcomesMatchRows, Written
<1> QED
  BY <1>1, <1>2, <1>4, SameLogGrows, SameLogIsSorted, OutboxSideKeeps DEF LedgerInv

\* The outcome that follows is one the table may say, and is not forgotten.
LEMMA EndTransferKeeps ==
  ASSUME OutboxInv, OutboxInv', LedgerInv, NEW t \in Transfers,
         NEW o \in Ledger!Outcomes \ {"pending"}, EndTransfer(t, o)
  PROVE  LedgerInv'
<1> DEFINE kind == EventOf(o)
<1>1. TypeOK /\ RowsAreDistinct /\ outbox \in Seq(Events)
  BY DEF OutboxInv, TypeOK
<1>2. /\ UNCHANGED <<log, ledgerVars>>
      /\ outcome' = [outcome EXCEPT ![t] = o]
      /\ recorded' = [recorded EXCEPT ![t] = @ \cup {o}]
      /\ outcome[t] \in EndsFrom(o)
      /\ Enqueue(t, kind)
      /\ kind \in Kinds
  BY DEF EndTransfer, Enqueue, EventOf, Kinds, Topics
<1>3. Elements(outbox)' = Elements(outbox) \cup {<<t, kind>>}
  BY <1>1, <1>2, EnqueueEffect
<1>4. OutcomesMatchRows /\ LogsAreSorted
  BY DEF LedgerInv
<1>5. faults <= faults'
  BY EndTransferStrikes DEF OutboxInv, TypeOK
<1>6. OutcomesMatchRows'
  <2>1. /\ outcome' \in [Transfers -> Ledger!Outcomes]
        /\ recorded' \in [Transfers -> SUBSET Ledger!Outcomes]
    BY <1>2, <1>4 DEF OutcomesMatchRows
  <2>2. ASSUME NEW u \in Transfers
        PROVE  /\ Written(u, "completed")' => "completed" \in recorded'[u]
               /\ Written(u, "failed")' \/ Written(u, "stranded")' => outcome'[u] \in Failures
               /\ outcome'[u] = "pending" => recorded'[u] = {}
               /\ outcome'[u] # "pending" => outcome'[u] \in recorded'[u]
               /\ outcome'[u] = "refused" => recorded'[u] = {"refused"}
    <3>1. CASE u = t
      <4>1. outcome'[u] = o /\ recorded'[u] = recorded[u] \cup {o}
        BY <1>2, <1>4, <3>1 DEF OutcomesMatchRows
      <4>2. Written(u, "completed")' => "completed" \in recorded'[u]
        BY <1>3, <1>4, <3>1, <4>1 DEF Written, OutcomesMatchRows, EventOf
      <4>3. o \in {"completed", "refused"} => outcome[u] = "pending" /\ recorded[u] = {}
        BY <1>2, <1>4, <3>1 DEF OutcomesMatchRows, EndsFrom
      <4>4. o # "completed" => o \in Failures
        BY DEF Failures, Ledger!Outcomes
      <4>5. o = "completed" => ~Written(u, "failed")' /\ ~Written(u, "stranded")'
        BY <1>3, <1>4, <3>1, <4>3 DEF Written, OutcomesMatchRows, EventOf, Failures
      <4> QED BY <4>1, <4>2, <4>3, <4>4, <4>5
    <3>2. CASE u # t
      <4>1. outcome'[u] = outcome[u] /\ recorded'[u] = recorded[u]
        BY <1>2, <1>4, <3>2 DEF OutcomesMatchRows
      <4> QED BY <1>3, <1>4, <3>2, <4>1 DEF OutcomesMatchRows, Written
    <3> QED BY <3>1, <3>2
  <2> QED BY <2>1, <2>2 DEF OutcomesMatchRows
<1>7. \A u : outcome[u] = "refused" => outcome'[u] = "refused"
  <2>1. outcome[t] # "refused"
    BY <1>2 DEF EndsFrom, Ledger!Outcomes
  <2> QED BY <1>2, <2>1
<1>8. \A u \in Transfers : recorded[u] \subseteq recorded'[u]
  BY <1>2, <1>4 DEF OutcomesMatchRows
<1> QED
  BY <1>1, <1>2, <1>4, <1>5, <1>6, <1>7, <1>8, SameLogGrows, SameLogIsSorted, OutboxSideKeeps

LEMMA PublishersKeep ==
  ASSUME OutboxInv, OutboxInv', LedgerInv, Publishers
  PROVE  LedgerInv'
<1>1. PICK r \in Replicas : Publish(r) \/ Disturb(r)
  BY DEF Publishers
<1>2. TypeOK /\ faults \in Int
  BY OutboxAssumption DEF OutboxInv, TypeOK
<1>3. UNCHANGED <<outbox, outcome, recorded, ledgerVars>> /\ faults <= faults'
  BY <1>1, <1>2 DEF Publishers, tableVars, Publish, Disturb, Tick, Send, Mark, Note, SendFails,
     MarkFails, NoteFails, Die, Strikes
<1>4. log' = log \/ (step[r] = "send" /\ Accept(Current(r)))
  BY <1>1 DEF Publish, Disturb, Tick, Send, Mark, Note, SendFails, MarkFails, NoteFails, Die
<1>5. LogsGrow /\ LogsAreSorted'
  <2>1. CASE log' = log
    BY <1>2, <2>1, SameLogGrows, SameLogIsSorted DEF LedgerInv
  <2>2. CASE step[r] = "send" /\ Accept(Current(r))
    BY <1>2, <2>2, InTheLoop, AcceptGrows, AcceptSorts DEF LedgerInv
  <2> QED BY <1>4, <2>1, <2>2
<1>6. OutcomesMatchRows'
  BY <1>3 DEF LedgerInv, OutcomesMatchRows, Written, Elements
<1> QED
  BY <1>3, <1>5, <1>6, OutboxSideKeeps

-----------------------------------------------------------------------------
(* The consumer.                                                           *)

\* A message tells truly how its transfer ended, for good or for a time.
LEMMA MessageIsTrue ==
  ASSUME OutboxInv, LedgerInv, NEW p \in Ledger!Read, NEW offset \in Nat,
         offset < Len(log[p])
  PROVE  /\ Subject(p, offset) \in Transfers
         /\ p = "completed" => "completed" \in recorded[Subject(p, offset)]
         /\ p = "failed" =>
              /\ outcome[Subject(p, offset)] \in Failures
              /\ outcome[Subject(p, offset)] \in recorded[Subject(p, offset)]
<1> DEFINE e == log[p][offset + 1]
<1>1. p \in Topics /\ log[p] \in Seq(Events)
  BY DEF Ledger!Read, Topics, OutboxInv, TypeOK
<1>2. offset + 1 \in DOMAIN log[p] /\ e \in Events
  BY <1>1
<1>3. e \in Elements(log[p])
  BY <1>2 DEF Elements
<1> HIDE DEF e
<1>4. TopicOf(e[2]) = p
  BY <1>1, <1>3 DEF LedgerInv, LogsAreSorted
<1>5. PICK t \in Transfers, kind \in Kinds : e = <<t, kind>>
  BY <1>2 DEF Events
<1>6. Written(t, kind)
  BY <1>2, <1>3, <1>4, <1>5 DEF Sent, OutboxInv, MessagesAreRows, Written
<1>7. /\ p = "completed" => kind = "completed"
      /\ p = "failed" => kind \in {"failed", "stranded"}
  BY <1>4, <1>5 DEF TopicOf, Kinds, Topics
<1>8. /\ p = "completed" => "completed" \in recorded[t]
      /\ p = "failed" => outcome[t] \in Failures /\ outcome[t] \in recorded[t]
  BY <1>6, <1>7 DEF LedgerInv, OutcomesMatchRows, Failures
<1> QED
  BY <1>5, <1>8 DEF e, Subject

LEMMA EntriesForFit ==
  ASSUME OutboxInv, LedgerInv, NEW p \in Ledger!Read, NEW offset \in Nat,
         offset < Len(log[p]), NEW status \in {"completed", "failed", "reversed"},
         NEW o \in recorded[Subject(p, offset)], status = StatusFor(o)
  PROVE  /\ \A e \in Ledger!EntriesFor(p, offset, status) :
              Fits(e) /\ e.topic = p /\ e.offset = offset
         /\ \A type \in Types :
              \E e \in Ledger!EntriesFor(p, offset, status) : e.entryType = type
<1> DEFINE t == Subject(p, offset)
<1>1. t \in Transfers /\ Ledger!TransferAt(p, offset) = t
  BY MessageIsTrue DEF Subject, Ledger!TransferAt
<1> HIDE DEF t
<1>2. ASSUME NEW type \in Types
      PROVE  Fits([topic |-> p, offset |-> offset, transfer |-> t,
                   entryType |-> type, status |-> status])
  BY <1>1 DEF Fits, Ledger!Entries, Types, t
<1> QED
  BY <1>1, <1>2 DEF Ledger!EntriesFor, Types

\* A consumer acts on its partition: the others do not notice.
LEMMA PartitionActs ==
  ASSUME OutboxInv, OutboxInv', LedgerInv, UNCHANGED <<publisherVars, tableVars>>,
         NEW p \in Ledger!Read, Ledger!TypeOK', PartitionInv(p)',
         \A q \in Ledger!Read \ {p} :
           /\ committed'[q] = committed[q] /\ cursor'[q] = cursor[q]
           /\ upto'[q] = upto[q] /\ at'[q] = at[q] /\ writing'[q] = writing[q],
         entries \subseteq entries', faults <= faults', skipped \subseteq skipped',
         \A e \in entries' \cup stray' :
           e \in entries \cup stray \/ (Fits(e) /\ e.topic = p),
         \A e \in writing'[p] : Fits(e)
  PROVE  LedgerInv'
<1>1. TypeOK /\ TypeOK' /\ Ledger!TypeOK /\ RequestsFit /\ OutcomesMatchRows
  BY DEF OutboxInv, LedgerInv
<1>2. UNCHANGED <<log, outbox, outcome, recorded>>
  BY DEF publisherVars, tableVars
<1>3. \A e : Fits(e)' <=> Fits(e)
  BY <1>2 DEF Fits, Subject
<1>4. OutcomesMatchRows' /\ LogsAreSorted'
  BY <1>1, <1>2, SameLogIsSorted DEF LedgerInv, OutcomesMatchRows, Written, Elements
<1>5. RequestsFit'
  BY <1>1, <1>3 DEF RequestsFit
<1>6. ASSUME NEW q \in Ledger!Read PROVE PartitionInv(q)'
  <2>1. CASE q = p
    BY <2>1
  <2>2. CASE q # p
    <3>1. \A o \in Nat : Touched(q, o)' => Touched(q, o)
      BY <2>2 DEF Touched
    <3>2. /\ PartitionInv(q) /\ Len(log[q]) <= Len(log'[q])
          /\ \A i \in 1..Len(log[q]) : log'[q][i] = log[q][i]
      BY <1>1, <1>2, SameLogGrows DEF LedgerInv, LogsGrow
    <3> QED BY <1>1, <1>2, <2>2, <3>1, <3>2, PartitionStays
  <2> QED BY <2>1, <2>2
<1> QED
  BY <1>4, <1>5, <1>6 DEF LedgerInv

\* The consumer turns to the next message, or to the end of the batch.
LEMMA TakeKeeps ==
  ASSUME OutboxInv, OutboxInv', LedgerInv,
         UNCHANGED <<publisherVars, tableVars, committed, stray>>,
         NEW p \in Ledger!Read, NEW offset \in Nat, NEW end \in Nat,
         Ledger!Take(p, offset, end),
         committed[p] <= offset, offset <= end, end <= Len(log[p]),
         entries \subseteq entries', faults <= faults',
         skipped \subseteq skipped', skipped' \subseteq Transfers,
         \A e \in entries' : e \in entries \/ (Fits(e) /\ e.topic = p),
         \A o \in Nat : o < offset => Done(p, o)',
         \A o \in Nat : Touched(p, o)' => Whole(p, o)' \/ faults' >= 1
  PROVE  LedgerInv'
<1>1. TypeOK /\ TypeOK' /\ Ledger!TypeOK /\ RequestsFit
  BY DEF OutboxInv, LedgerInv
<1>2. /\ cursor' = [cursor EXCEPT ![p] = offset]
      /\ upto' = [upto EXCEPT ![p] = end]
      /\ at' = [at EXCEPT ![p] = IF offset = end THEN "commit"
                                    ELSE IF p = "completed" THEN "write" ELSE "fetch"]
      /\ writing' = [writing EXCEPT ![p] =
                       IF offset < end /\ p = "completed"
                       THEN Ledger!EntriesFor(p, offset, "completed") ELSE {}]
  BY DEF Ledger!Take
<1>3. /\ cursor'[p] = offset /\ upto'[p] = end
      /\ at'[p] = IF offset = end THEN "commit"
                  ELSE IF p = "completed" THEN "write" ELSE "fetch"
      /\ writing'[p] = IF offset < end /\ p = "completed"
                       THEN Ledger!EntriesFor(p, offset, "completed") ELSE {}
      /\ \A q \in Ledger!Read \ {p} :
           /\ cursor'[q] = cursor[q] /\ upto'[q] = upto[q]
           /\ at'[q] = at[q] /\ writing'[q] = writing[q]
  <2>1. /\ p \in DOMAIN cursor /\ p \in DOMAIN upto
        /\ p \in DOMAIN at /\ p \in DOMAIN writing
        /\ \A q \in Ledger!Read :
             /\ q \in DOMAIN cursor /\ q \in DOMAIN upto
             /\ q \in DOMAIN at /\ q \in DOMAIN writing
    BY <1>1 DEF Ledger!TypeOK
  <2>2. cursor'[p] = offset /\ upto'[p] = end
    BY <1>2, <2>1
  <2>3. at'[p] = IF offset = end THEN "commit"
                 ELSE IF p = "completed" THEN "write" ELSE "fetch"
    BY <1>2, <2>1
  <2>4. writing'[p] = IF offset < end /\ p = "completed"
                      THEN Ledger!EntriesFor(p, offset, "completed") ELSE {}
    BY <1>2, <2>1
  <2>5. \A q \in Ledger!Read \ {p} :
          /\ cursor'[q] = cursor[q] /\ upto'[q] = upto[q]
          /\ at'[q] = at[q] /\ writing'[q] = writing[q]
    BY <1>2, <2>1
  <2> QED BY <2>2, <2>3, <2>4, <2>5
<1>4. committed[p] \in Nat /\ Len(log[p]) \in Nat /\ log' = log
  <2>1. p \in Topics
    BY DEF Ledger!Read, Topics
  <2> QED BY <1>1, <2>1, LenProperties DEF TypeOK, Ledger!TypeOK, publisherVars
<1>5. CASE offset < end /\ p = "completed"
  <2>1. offset < Len(log[p])
    BY <1>4, <1>5
  <2>2. "completed" \in recorded[Subject(p, offset)] /\ "completed" = StatusFor("completed")
    BY <1>5, <2>1, MessageIsTrue DEF StatusFor
  <2>3. /\ \A e \in writing'[p] : Fits(e) /\ e.topic = p /\ e.offset = offset
        /\ \A type \in Types : \E e \in writing'[p] : e.entryType = type
    BY <1>3, <1>5, <2>1, <2>2, EntriesForFit
  <2>4. Ledger!TypeOK'
    BY <1>1, <1>2, <1>3, <2>3 DEF Ledger!TypeOK, Fits
  <2>5. PartitionInv(p)'
    <3>1. Position(p)' /\ Writes(p)'
      BY <1>3, <1>4, <1>5, <2>3 DEF Position, Writes
    <3>2. PassedAreWhole(p)' /\ HalvesAreFailures(p)'
      BY <1>3, <1>4 DEF PassedAreWhole, HalvesAreFailures
    <3> QED BY <3>1, <3>2 DEF PartitionInv
  <2> QED BY <1>3, <2>3, <2>4, <2>5, PartitionActs
<1>6. CASE ~(offset < end /\ p = "completed")
  <2>1. writing'[p] = {}
    BY <1>3, <1>6
  <2>2. Ledger!TypeOK'
    BY <1>1, <1>2, <1>3, <2>1 DEF Ledger!TypeOK, Fits
  <2>3. PartitionInv(p)'
    <3>1. at'[p] \in {"commit", "fetch"}
      BY <1>3, <1>6
    <3>2. Position(p)' /\ Writes(p)'
      BY <1>3, <1>4, <1>6, <2>1, <3>1 DEF Position, Writes, Ledger!Read
    <3>3. PassedAreWhole(p)' /\ HalvesAreFailures(p)'
      BY <1>3, <1>4 DEF PassedAreWhole, HalvesAreFailures
    <3> QED BY <3>2, <3>3 DEF PartitionInv
  <2> QED BY <1>3, <2>1, <2>2, <2>3, PartitionActs
<1> QED
  BY <1>5, <1>6

\* What is known of a partition whose consumer is about to act.
LEMMA Acting ==
  ASSUME OutboxInv, LedgerInv, NEW p \in Ledger!Read
  PROVE  /\ committed[p] \in Nat /\ cursor[p] \in Nat /\ upto[p] \in Nat
         /\ Len(log[p]) \in Nat /\ faults \in Nat
         /\ Position(p) /\ Writes(p) /\ PassedAreWhole(p) /\ HalvesAreFailures(p)
         /\ Ledger!TypeOK /\ RequestsFit /\ TypeOK
<1>1. p \in Topics
  BY DEF Ledger!Read, Topics
<1>2. Len(log[p]) \in Nat
  BY <1>1, LenProperties DEF OutboxInv, TypeOK
<1> QED
  BY <1>2, OutboxAssumption DEF OutboxInv, LedgerInv, TypeOK, Ledger!TypeOK, PartitionInv

\* Nothing is written.
LEMMA Unwritten ==
  ASSUME UNCHANGED <<entries, stray>>
  PROVE  /\ \A p, o : Whole(p, o)' <=> Whole(p, o)
         /\ \A p, o : Touched(p, o)' <=> Touched(p, o)
         /\ \A p, o, type : Has(p, o, type)' <=> Has(p, o, type)
BY DEF Whole, Touched, Has

\* What is done stays done while the consumer acts elsewhere.
LEMMA DoneElsewhere ==
  ASSUME UNCHANGED <<publisherVars, tableVars>>, NEW p, NEW o, Done(p, o),
         Whole(p, o) => Whole(p, o)', Touched(p, o)' => Touched(p, o),
         skipped \subseteq skipped', faults \in Nat, faults' \in Nat, faults <= faults'
  PROVE  Done(p, o)'
BY DoneStays DEF publisherVars, tableVars

LEMMA StartBatchKeeps ==
  ASSUME OutboxInv, OutboxInv', LedgerInv, UNCHANGED <<publisherVars, tableVars>>,
         NEW p \in Ledger!Read, Ledger!StartBatch(p)
  PROVE  LedgerInv'
<1>1. at[p] = "idle" /\ UNCHANGED <<committed, stray, entries, skipped, faults>>
  BY DEF Ledger!StartBatch
<1>2. PICK end \in (committed[p] + 1)..Len(log[p]) : Ledger!Take(p, committed[p], end)
  BY DEF Ledger!StartBatch
<1>3. /\ committed[p] \in Nat /\ Len(log[p]) \in Nat /\ faults \in Nat
      /\ PassedAreWhole(p) /\ HalvesAreFailures(p)
  BY Acting
<1>4. end \in Nat /\ committed[p] <= committed[p] /\ committed[p] <= end /\ end <= Len(log[p])
  BY <1>2, <1>3
<1>5. \A o \in Nat : o < committed[p] => Done(p, o)'
  BY <1>1, <1>3, Unwritten, DoneElsewhere DEF PassedAreWhole
<1>6. \A o \in Nat : Touched(p, o)' => Whole(p, o)' \/ faults' >= 1
  BY <1>1, <1>3, Unwritten DEF HalvesAreFailures
<1>7. /\ entries \subseteq entries' /\ faults <= faults' /\ \A e \in entries' : e \in entries
      /\ skipped \subseteq skipped' /\ skipped' \subseteq Transfers
  BY <1>1, <1>3, Acting DEF Ledger!TypeOK
<1> QED
  BY <1>1, <1>2, <1>3, <1>4, <1>5, <1>6, <1>7, TakeKeeps

\* A message of a failed transfer is passed without an entry.
LEMMA SkipKeeps ==
  ASSUME OutboxInv, OutboxInv', LedgerInv, UNCHANGED <<publisherVars, tableVars>>,
         NEW p \in Ledger!Read, at[p] = "fetch", Ledger!Skip(p),
         UNCHANGED <<committed, stray, entries>>, faults <= faults',
         skipped \subseteq skipped', skipped' \subseteq Transfers,
         \A o : o = cursor[p] => Done(p, o)'
  PROVE  LedgerInv'
<1>1. /\ committed[p] \in Nat /\ cursor[p] \in Nat /\ upto[p] \in Nat
      /\ Len(log[p]) \in Nat /\ faults \in Nat /\ faults' \in Nat
      /\ Position(p) /\ PassedAreWhole(p) /\ HalvesAreFailures(p)
  BY Acting, OutboxAssumption DEF OutboxInv, TypeOK
<1>2. Ledger!Take(p, cursor[p] + 1, upto[p])
  BY DEF Ledger!Skip
<1>3. /\ cursor[p] + 1 \in Nat /\ committed[p] <= cursor[p] + 1
      /\ cursor[p] + 1 <= upto[p] /\ upto[p] <= Len(log[p]) /\ p = "failed"
  BY <1>1 DEF Position
<1>4. ASSUME NEW o \in Nat, o < cursor[p] + 1
      PROVE  Done(p, o)'
  <2>1. CASE o = cursor[p]
    BY <2>1
  <2>2. CASE o # cursor[p]
    <3>1. o < cursor[p]
      BY <1>1, <1>4, <2>2
    <3>2. Done(p, o)
      BY <1>1, <3>1 DEF PassedAreWhole
    <3> QED BY <1>1, <3>2, Unwritten, DoneElsewhere
  <2> QED BY <2>1, <2>2
<1>5. \A o \in Nat : Touched(p, o)' => Whole(p, o)' \/ faults' >= 1
  BY <1>1, Unwritten DEF HalvesAreFailures
<1>6. entries \subseteq entries' /\ \A e \in entries' : e \in entries
  OBVIOUS
<1> QED
  BY <1>1, <1>2, <1>3, <1>4, <1>5, <1>6, TakeKeeps

LEMMA FetchFailsKeeps ==
  ASSUME OutboxInv, OutboxInv', LedgerInv, UNCHANGED <<publisherVars, tableVars>>,
         NEW p \in Ledger!Read, Ledger!FetchFails(p)
  PROVE  LedgerInv'
<1> DEFINE t == Subject(p, cursor[p])
<1>1. /\ at[p] = "fetch" /\ Ledger!Skip(p) /\ faults' = faults + 1
      /\ skipped' = skipped \cup {t}
      /\ UNCHANGED <<committed, stray, entries>>
  BY DEF Ledger!FetchFails, Ledger!Strikes, Ledger!TransferAt, Subject
<1>2. /\ faults \in Nat /\ cursor[p] \in Nat /\ upto[p] \in Nat /\ Len(log[p]) \in Nat
      /\ HalvesAreFailures(p) /\ Position(p) /\ Ledger!TypeOK
  BY Acting
<1>3. p = "failed" /\ cursor[p] < Len(log[p])
  BY <1>1, <1>2 DEF Position
<1>4. t \in Transfers
  BY <1>2, <1>3, MessageIsTrue
<1>5. Touched(p, cursor[p]) => Whole(p, cursor[p]) \/ faults >= 1
  BY <1>1, <1>2 DEF HalvesAreFailures
<1>6. ASSUME NEW o, o = cursor[p] PROVE Done(p, o)'
  <2>1. Subject(p, o)' = t
    BY <1>6 DEF Subject, publisherVars
  <2>2. Touched(p, o)' => Whole(p, o)' \/ faults' >= 2
    BY <1>1, <1>2, <1>5, <1>6, Unwritten
  <2> HIDE DEF t
  <2> QED BY <1>1, <1>3, <2>1, <2>2 DEF Done
<1>7. skipped \subseteq skipped' /\ skipped' \subseteq Transfers /\ faults <= faults'
  BY <1>1, <1>2, <1>4 DEF Ledger!TypeOK
<1> QED
  BY <1>1, <1>6, <1>7, SkipKeeps

LEMMA FetchKeeps ==
  ASSUME OutboxInv, OutboxInv', LedgerInv, UNCHANGED <<publisherVars, tableVars>>,
         NEW p \in Ledger!Read, Ledger!Fetch(p)
  PROVE  LedgerInv'
<1> DEFINE t     == Subject(p, cursor[p])
           found == Ledger!FailedStatus(t)
<1>1. /\ at[p] = "fetch"
      /\ UNCHANGED <<committed, stray, entries, skipped, faults>>
  BY DEF Ledger!Fetch
<1>2. /\ committed[p] \in Nat /\ cursor[p] \in Nat /\ upto[p] \in Nat
      /\ Len(log[p]) \in Nat /\ faults \in Nat
      /\ Position(p) /\ Writes(p) /\ PassedAreWhole(p) /\ HalvesAreFailures(p)
      /\ Ledger!TypeOK /\ RequestsFit
  BY Acting
<1>3. p = "failed" /\ cursor[p] < Len(log[p])
  BY <1>1, <1>2 DEF Position
<1>4. /\ t \in Transfers /\ t = Ledger!TransferAt(p, cursor[p])
      /\ outcome[t] \in Failures /\ outcome[t] \in recorded[t]
  BY <1>2, <1>3, MessageIsTrue DEF Ledger!TransferAt, Subject
<1> HIDE DEF t
<1>5. CASE found = "none"
  <2>1. Ledger!Skip(p)
    BY <1>4, <1>5 DEF Ledger!Fetch
  <2>2. outcome[t] = "refused"
    BY <1>4, <1>5 DEF Ledger!FailedStatus, Failures
  <2>3. ~Touched(p, cursor[p])
    <3> SUFFICES ASSUME NEW e \in entries \cup stray, e.topic = p, e.offset = cursor[p]
                 PROVE  FALSE
      BY DEF Touched
    <3>1. Fits(e)
      BY <1>2 DEF RequestsFit
    <3>2. e.transfer = t
      BY <3>1 DEF Fits, t
    <3>3. recorded[t] = {"refused"}
      BY <1>4, <2>2 DEF LedgerInv, OutcomesMatchRows
    <3>4. e.status = "refused" /\ e.status \in {"completed", "failed", "reversed"}
      BY <3>1, <3>2, <3>3 DEF Fits, Ledger!Entries, StatusFor
    <3> QED BY <3>4
  <2>4. ASSUME NEW o, o = cursor[p] PROVE Done(p, o)'
    <3>1. Done(p, o)
      BY <1>3, <2>2, <2>3, <2>4 DEF Done, t
    <3> QED BY <1>1, <1>2, <3>1, Unwritten, DoneElsewhere
  <2>5. skipped \subseteq skipped' /\ skipped' \subseteq Transfers
    BY <1>1, <1>2 DEF Ledger!TypeOK
  <2> QED BY <1>1, <1>2, <2>1, <2>4, <2>5, SkipKeeps
<1>6. CASE found # "none"
  <2>1. /\ at' = [at EXCEPT ![p] = "write"]
        /\ writing' = [writing EXCEPT ![p] = Ledger!EntriesFor(p, cursor[p], found)]
        /\ UNCHANGED <<cursor, upto>>
    BY <1>4, <1>6 DEF Ledger!Fetch
  <2>2. /\ at'[p] = "write" /\ writing'[p] = Ledger!EntriesFor(p, cursor[p], found)
        /\ cursor'[p] = cursor[p] /\ upto'[p] = upto[p]
        /\ committed'[p] = committed[p] /\ faults' = faults /\ log' = log
        /\ \A q \in Ledger!Read \ {p} :
             /\ committed'[q] = committed[q] /\ cursor'[q] = cursor[q]
             /\ upto'[q] = upto[q] /\ at'[q] = at[q] /\ writing'[q] = writing[q]
    BY <1>1, <1>2, <2>1 DEF Ledger!TypeOK, publisherVars
  <2>3. /\ found \in {"completed", "failed", "reversed"}
        /\ found = StatusFor(outcome[t])
    BY <1>4, <1>6 DEF Ledger!FailedStatus, Failures, StatusFor
  <2>4. /\ \A e \in writing'[p] : Fits(e) /\ e.topic = p /\ e.offset = cursor[p]
        /\ \A type \in Types : \E e \in writing'[p] : e.entryType = type
    <3> HIDE DEF found
    <3> QED BY <1>2, <1>3, <1>4, <2>2, <2>3, EntriesForFit DEF t
  <2>5. Ledger!TypeOK'
    BY <1>1, <1>2, <2>1, <2>2, <2>4 DEF Ledger!TypeOK, Fits
  <2>6. Position(p)' /\ Writes(p)'
    BY <1>1, <1>2, <2>2, <2>4 DEF Position, Writes
  <2>7. PassedAreWhole(p)'
    BY <1>1, <1>2, <2>2, Unwritten, DoneElsewhere DEF PassedAreWhole
  <2>8. HalvesAreFailures(p)'
    BY <1>1, <1>2, <2>2, Unwritten DEF HalvesAreFailures
  <2>9. PartitionInv(p)'
    BY <2>6, <2>7, <2>8 DEF PartitionInv
  <2> QED BY <1>1, <1>2, <2>2, <2>4, <2>5, <2>9, PartitionActs
<1> QED
  BY <1>5, <1>6

\* An upsert leaves an entry of its identity, and every other as it was.
LEMMA UpsertEffect ==
  ASSUME NEW e, Ledger!Upsert(e)
  PROVE  /\ entries \subseteq entries'
         /\ \A f \in entries' : f \in entries \/ f = e
         /\ Has(e.topic, e.offset, e.entryType)'
         /\ \A p, o, type : Has(p, o, type) => Has(p, o, type)'
         /\ \A p, o : Whole(p, o) => Whole(p, o)'
<1>1. /\ entries \subseteq entries'
      /\ \A f \in entries' : f \in entries \/ f = e
  BY DEF Ledger!Upsert
<1>2. Has(e.topic, e.offset, e.entryType)'
  BY DEF Ledger!Upsert, Ledger!SameId, Has
<1>3. \A p, o, type : Has(p, o, type) => Has(p, o, type)'
  BY <1>1 DEF Has
<1> QED
  BY <1>1, <1>2, <1>3 DEF Whole

LEMMA WriteKeeps ==
  ASSUME OutboxInv, OutboxInv', LedgerInv, UNCHANGED <<publisherVars, tableVars>>,
         NEW p \in Ledger!Read, Ledger!Write(p)
  PROVE  LedgerInv'
<1>1. at[p] = "write" /\ UNCHANGED <<committed, stray, skipped, faults>>
  BY DEF Ledger!Write
<1>2. PICK e \in writing[p] : Ledger!Upsert(e) /\ Ledger!Settle(p, e)
  BY DEF Ledger!Write
<1>3. /\ committed[p] \in Nat /\ cursor[p] \in Nat /\ upto[p] \in Nat
      /\ Len(log[p]) \in Nat /\ faults \in Nat
      /\ Position(p) /\ Writes(p) /\ PassedAreWhole(p) /\ HalvesAreFailures(p)
      /\ Ledger!TypeOK /\ RequestsFit
  BY Acting
<1>4. Fits(e) /\ e.topic = p /\ e.offset = cursor[p] /\ e \in Ledger!Entries
  BY <1>3 DEF RequestsFit, Writes, Fits
<1>5. /\ entries \subseteq entries'
      /\ \A f \in entries' : f \in entries \/ f = e
      /\ Has(p, e.offset, e.entryType)'
      /\ \A o, type : Has(p, o, type) => Has(p, o, type)'
      /\ \A o : Whole(p, o) => Whole(p, o)'
  BY <1>2, <1>4, UpsertEffect
<1>6. \A o \in Nat : o # e.offset => (Touched(p, o)' => Touched(p, o))
  BY <1>1, <1>4, <1>5 DEF Touched
<1>7. \A o \in Nat : o # e.offset /\ Touched(p, o)' => Whole(p, o)' \/ faults' >= 1
  BY <1>1, <1>3, <1>4, <1>5, <1>6 DEF HalvesAreFailures
<1>8. \A o \in Nat : o < cursor[p] => Done(p, o)'
  <2> SUFFICES ASSUME NEW o \in Nat, o < cursor[p]
               PROVE  Done(p, o)'
    OBVIOUS
  <2>1. Done(p, o)
    BY <1>1, <1>3 DEF PassedAreWhole
  <2>2. o # e.offset
    BY <1>3, <1>4
  <2> QED BY <1>1, <1>3, <1>5, <1>6, <2>1, <2>2, DoneElsewhere
<1>9. CASE writing[p] = {e}
  <2>1. Ledger!Take(p, cursor[p] + 1, upto[p])
    BY <1>2, <1>9 DEF Ledger!Settle, Ledger!Skip
  <2>2. Whole(p, e.offset)'
    <3> SUFFICES ASSUME NEW type \in Types PROVE Has(p, e.offset, type)'
      BY DEF Whole
    <3>1. Has(p, e.offset, type) \/ e.entryType = type
      BY <1>1, <1>3, <1>4, <1>9 DEF Writes
    <3> QED BY <1>5, <3>1
  <2>3. /\ cursor[p] + 1 \in Nat /\ committed[p] <= cursor[p] + 1
        /\ cursor[p] + 1 <= upto[p] /\ upto[p] <= Len(log[p])
    BY <1>1, <1>3 DEF Position
  <2>4. ASSUME NEW o \in Nat, o < cursor[p] + 1
        PROVE  Done(p, o)'
    <3>1. o < cursor[p] \/ o = e.offset
      BY <1>3, <1>4, <2>4
    <3> QED BY <1>8, <2>2, <3>1 DEF Done
  <2>5. \A o \in Nat : Touched(p, o)' => Whole(p, o)' \/ faults' >= 1
    BY <1>7, <2>2
  <2>6. /\ faults <= faults' /\ \A f \in entries' : f \in entries \/ (Fits(f) /\ f.topic = p)
        /\ skipped \subseteq skipped' /\ skipped' \subseteq Transfers
    BY <1>1, <1>3, <1>4, <1>5 DEF Ledger!TypeOK
  <2> QED BY <1>1, <1>3, <1>5, <2>1, <2>3, <2>4, <2>5, <2>6, TakeKeeps
<1>10. CASE writing[p] # {e}
  <2>1. writing' = [writing EXCEPT ![p] = @ \ {e}] /\ UNCHANGED <<cursor, upto, at>>
    BY <1>2, <1>10 DEF Ledger!Settle
  <2>2. /\ at'[p] = "write" /\ writing'[p] = writing[p] \ {e}
        /\ cursor'[p] = cursor[p] /\ upto'[p] = upto[p]
        /\ committed'[p] = committed[p] /\ faults' = faults /\ log' = log
        /\ \A q \in Ledger!Read \ {p} :
             /\ committed'[q] = committed[q] /\ cursor'[q] = cursor[q]
             /\ upto'[q] = upto[q] /\ at'[q] = at[q] /\ writing'[q] = writing[q]
    BY <1>1, <1>3, <2>1 DEF Ledger!TypeOK, publisherVars
  <2>3. Ledger!TypeOK'
    BY <1>1, <1>3, <1>4, <1>5, <2>1 DEF Ledger!TypeOK
  <2>4. Position(p)'
    BY <1>1, <1>3, <2>2 DEF Position
  <2>5. Writes(p)'
    <3>1. ASSUME NEW type \in Types
          PROVE  Has(p, e.offset, type)' \/ \E f \in writing'[p] : f.entryType = type
      <4>1. Has(p, e.offset, type) \/ \E f \in writing[p] : f.entryType = type
        BY <1>1, <1>3, <1>4 DEF Writes
      <4> QED BY <1>5, <2>2, <4>1
    <3> QED BY <1>3, <1>4, <2>2, <3>1 DEF Writes
  <2>6. PassedAreWhole(p)'
    BY <1>1, <1>3, <1>8, <2>2 DEF PassedAreWhole, Position
  <2>7. HalvesAreFailures(p)'
    BY <1>4, <1>7, <2>2 DEF HalvesAreFailures
  <2>8. PartitionInv(p)'
    BY <2>4, <2>5, <2>6, <2>7 DEF PartitionInv
  <2>9. \A f \in writing'[p] : Fits(f)
    BY <1>3, <2>2 DEF RequestsFit
  <2> QED BY <1>1, <1>3, <1>4, <1>5, <2>2, <2>3, <2>8, <2>9, PartitionActs
<1> QED
  BY <1>9, <1>10

\* The consumer gives a batch up, for a fault: what it was writing may have
\* been written in part, and the rest may be written later.
LEMMA GiveUpKeeps ==
  ASSUME OutboxInv, OutboxInv', LedgerInv, UNCHANGED <<publisherVars, tableVars>>,
         NEW p \in Ledger!Read, at[p] # "idle", committed' = committed, skipped' = skipped,
         NEW left \in SUBSET writing[p], Ledger!GiveUp(p, left), faults' = faults + 1,
         entries \subseteq entries', \A e \in entries' : e \in entries \/ e \in writing[p]
  PROVE  LedgerInv'
<1>1. /\ committed[p] \in Nat /\ cursor[p] \in Nat /\ upto[p] \in Nat
      /\ Len(log[p]) \in Nat /\ faults \in Nat
      /\ Position(p) /\ Writes(p) /\ PassedAreWhole(p) /\ HalvesAreFailures(p)
      /\ Ledger!TypeOK /\ RequestsFit
  BY Acting
<1>2. /\ at' = [at EXCEPT ![p] = "idle"]
      /\ writing' = [writing EXCEPT ![p] = {}]
      /\ stray' = stray \cup left
      /\ UNCHANGED <<cursor, upto>>
  BY DEF Ledger!GiveUp
<1>3. /\ at'[p] = "idle" /\ writing'[p] = {} /\ committed'[p] = committed[p] /\ log' = log
      /\ \A q \in Ledger!Read \ {p} :
           /\ committed'[q] = committed[q] /\ cursor'[q] = cursor[q]
           /\ upto'[q] = upto[q] /\ at'[q] = at[q] /\ writing'[q] = writing[q]
  BY <1>1, <1>2 DEF Ledger!TypeOK, publisherVars
<1>4. \A e \in writing[p] :
        Fits(e) /\ e \in Ledger!Entries /\ e.topic = p /\ e.offset = cursor[p]
  BY <1>1 DEF RequestsFit, Writes, Fits
<1>5. \A e \in entries' \cup stray' : e \in entries \cup stray \/ e \in writing[p]
  BY <1>2
<1>6. Ledger!TypeOK'
  BY <1>1, <1>2, <1>4 DEF Ledger!TypeOK
<1>7. Position(p)' /\ Writes(p)'
  BY <1>1, <1>3 DEF Position, Writes
<1>8. PassedAreWhole(p)'
  <2> SUFFICES ASSUME NEW o \in Nat, o < committed[p]
               PROVE  Done(p, o)'
    BY <1>3 DEF PassedAreWhole
  <2>1. Done(p, o)
    BY <1>1 DEF PassedAreWhole
  <2>2. o # cursor[p] \/ writing[p] = {}
    BY <1>1 DEF Position
  <2>3. Touched(p, o)' => Touched(p, o)
    BY <1>4, <1>5, <2>2 DEF Touched
  <2>4. Whole(p, o) => Whole(p, o)'
    BY DEF Whole, Has
  <2> QED BY <1>1, <2>1, <2>3, <2>4, DoneElsewhere
<1>9. HalvesAreFailures(p)'
  BY <1>1 DEF HalvesAreFailures
<1>10. PartitionInv(p)' /\ faults <= faults'
  BY <1>1, <1>7, <1>8, <1>9 DEF PartitionInv
<1>11. /\ \A e \in entries' \cup stray' :
            e \in entries \cup stray \/ (Fits(e) /\ e.topic = p)
       /\ \A e \in writing'[p] : Fits(e)
  BY <1>3, <1>4, <1>5
<1> QED
  BY <1>3, <1>6, <1>10, <1>11, PartitionActs

LEMMA WriteFailsKeeps ==
  ASSUME OutboxInv, OutboxInv', LedgerInv, UNCHANGED <<publisherVars, tableVars>>,
         NEW p \in Ledger!Read, Ledger!WriteFails(p)
  PROVE  LedgerInv'
<1>1. at[p] # "idle" /\ faults' = faults + 1 /\ committed' = committed /\ skipped' = skipped
  BY DEF Ledger!WriteFails, Ledger!Strikes
<1>2. PICK e \in writing[p] :
        (Ledger!Upsert(e) \/ UNCHANGED entries) /\ Ledger!GiveUp(p, writing[p] \ {e})
  BY DEF Ledger!WriteFails
<1>3. entries \subseteq entries' /\ \A f \in entries' : f \in entries \/ f \in writing[p]
  BY <1>2, UpsertEffect
<1> QED
  BY <1>1, <1>2, <1>3, GiveUpKeeps

LEMMA InterruptKeeps ==
  ASSUME OutboxInv, OutboxInv', LedgerInv, UNCHANGED <<publisherVars, tableVars>>,
         NEW p \in Ledger!Read, Ledger!Interrupt(p)
  PROVE  LedgerInv'
<1>1. /\ at[p] # "idle" /\ faults' = faults + 1 /\ committed' = committed
      /\ entries' = entries /\ skipped' = skipped /\ Ledger!GiveUp(p, writing[p])
  BY DEF Ledger!Interrupt, Ledger!Strikes
<1> QED
  BY <1>1, GiveUpKeeps

LEMMA CommitKeeps ==
  ASSUME OutboxInv, OutboxInv', LedgerInv, UNCHANGED <<publisherVars, tableVars>>,
         NEW p \in Ledger!Read, Ledger!Commit(p)
  PROVE  LedgerInv'
<1>1. /\ at[p] = "commit"
      /\ committed' = [committed EXCEPT ![p] = upto[p]]
      /\ at' = [at EXCEPT ![p] = "idle"]
      /\ UNCHANGED <<cursor, upto, writing, stray, entries, skipped, faults>>
  BY DEF Ledger!Commit
<1>2. /\ committed[p] \in Nat /\ cursor[p] \in Nat /\ upto[p] \in Nat
      /\ Len(log[p]) \in Nat /\ faults \in Nat
      /\ Position(p) /\ Writes(p) /\ PassedAreWhole(p) /\ HalvesAreFailures(p)
      /\ Ledger!TypeOK /\ RequestsFit
  BY Acting
<1>3. /\ committed'[p] = upto[p] /\ at'[p] = "idle" /\ log' = log
      /\ cursor'[p] = cursor[p] /\ upto'[p] = upto[p] /\ writing'[p] = writing[p]
      /\ \A q \in Ledger!Read \ {p} :
           /\ committed'[q] = committed[q] /\ cursor'[q] = cursor[q]
           /\ upto'[q] = upto[q] /\ at'[q] = at[q] /\ writing'[q] = writing[q]
  BY <1>1, <1>2 DEF Ledger!TypeOK, publisherVars
<1>4. upto[p] = cursor[p] /\ upto[p] <= Len(log[p]) /\ writing[p] = {}
  BY <1>1, <1>2 DEF Position, Writes
<1>5. Ledger!TypeOK'
  BY <1>1, <1>2 DEF Ledger!TypeOK
<1>6. Position(p)' /\ Writes(p)'
  BY <1>3, <1>4 DEF Position, Writes
<1>7. PassedAreWhole(p)'
  BY <1>1, <1>2, <1>3, <1>4, Unwritten, DoneElsewhere DEF PassedAreWhole
<1>8. HalvesAreFailures(p)'
  BY <1>1, <1>2, <1>3, Unwritten DEF HalvesAreFailures
<1>9. PartitionInv(p)'
  BY <1>6, <1>7, <1>8 DEF PartitionInv
<1>10. entries \subseteq entries' /\ faults <= faults' /\ skipped \subseteq skipped'
       /\ (\A e \in entries' \cup stray' : e \in entries \cup stray)
       /\ (\A e \in writing'[p] : Fits(e))
  BY <1>1, <1>2, <1>3, <1>4
<1> QED
  BY <1>3, <1>5, <1>9, <1>10, PartitionActs

LEMMA LandKeeps ==
  ASSUME OutboxInv, OutboxInv', LedgerInv, UNCHANGED <<publisherVars, tableVars>>,
         Ledger!Land
  PROVE  LedgerInv'
<1>1. PICK e \in stray :
        /\ Ledger!Upsert(e) \/ UNCHANGED entries
        /\ stray' = stray \ {e}
        /\ UNCHANGED <<committed, cursor, upto, at, writing, skipped, faults>>
  BY DEF Ledger!Land, Ledger!batchVars
<1>2. TypeOK /\ TypeOK' /\ Ledger!TypeOK /\ RequestsFit /\ OutcomesMatchRows
  BY DEF OutboxInv, LedgerInv
<1>3. UNCHANGED <<log, outbox, outcome, recorded>>
  BY DEF publisherVars, tableVars
<1>4. entries \subseteq entries' /\ \A f \in entries' : f \in entries \/ f = e
  BY <1>1, UpsertEffect
<1>5. Ledger!TypeOK'
  BY <1>1, <1>2, <1>4 DEF Ledger!TypeOK
<1>6. \A f : Fits(f)' <=> Fits(f)
  BY <1>3 DEF Fits, Subject
<1>7. RequestsFit'
  BY <1>1, <1>2, <1>4, <1>6 DEF RequestsFit
<1>8. OutcomesMatchRows' /\ LogsAreSorted'
  BY <1>2, <1>3, SameLogIsSorted DEF LedgerInv, OutcomesMatchRows, Written, Elements
<1>9. ASSUME NEW p \in Ledger!Read PROVE PartitionInv(p)'
  <2>1. \A o \in Nat : Touched(p, o)' => Touched(p, o)
    BY <1>1, <1>4 DEF Touched
  <2>2. /\ PartitionInv(p) /\ Len(log[p]) <= Len(log'[p]) /\ faults <= faults'
        /\ \A i \in 1..Len(log[p]) : log'[p][i] = log[p][i]
    BY <1>1, <1>2, <1>3, SameLogGrows, Acting DEF LedgerInv, LogsGrow
  <2> QED BY <1>1, <1>2, <1>3, <1>4, <2>1, <2>2, PartitionStays
<1> QED
  BY <1>5, <1>7, <1>8, <1>9 DEF LedgerInv

LEMMA ConsumersKeep ==
  ASSUME OutboxInv, OutboxInv', LedgerInv, Consumers
  PROVE  LedgerInv'
<1>1. UNCHANGED <<publisherVars, tableVars>> /\ Ledger!Next
  BY DEF Consumers
<1>2. CASE Ledger!Land
  BY <1>1, <1>2, LandKeeps
<1>3. ASSUME NEW p \in Ledger!Read, Ledger!Consume(p)
      PROVE  LedgerInv'
  BY <1>1, <1>3, StartBatchKeeps, FetchKeeps, WriteKeeps, CommitKeeps
     DEF Ledger!Consume
<1>4. ASSUME NEW p \in Ledger!Read, Ledger!Disturb(p)
      PROVE  LedgerInv'
  BY <1>1, <1>4, FetchFailsKeeps, WriteFailsKeeps, InterruptKeeps DEF Ledger!Disturb
<1> QED
  BY <1>1, <1>2, <1>3, <1>4 DEF Ledger!Next

LEMMA LedgerStep ==
  ASSUME OutboxInv, OutboxInv', LedgerInv, [PipelineNext]_pipelineVars
  PROVE  LedgerInv'
<1>1. CASE \E t \in Transfers : Announce(t)
  BY <1>1, AnnounceKeeps
<1>2. CASE \E t \in Transfers, o \in Ledger!Outcomes \ {"pending"} : EndTransfer(t, o)
  BY <1>2, EndTransferKeeps
<1>3. CASE Publishers
  BY <1>3, PublishersKeep
<1>4. CASE Consumers
  BY <1>4, ConsumersKeep
<1>5. CASE UNCHANGED pipelineVars
  <2>1. /\ UNCHANGED <<log, outbox, faults, outcome, recorded>>
        /\ UNCHANGED ledgerVars
    BY <1>5 DEF pipelineVars, outboxVars, publisherVars, tableVars
  <2>2. TypeOK /\ faults \in Int
    BY OutboxAssumption DEF OutboxInv, TypeOK
  <2>3. OutcomesMatchRows'
    BY <2>1 DEF LedgerInv, OutcomesMatchRows, Written, Elements
  <2> QED BY <2>1, <2>2, <2>3, SameLogGrows, SameLogIsSorted, OutboxSideKeeps DEF LedgerInv
<1> QED
  BY <1>1, <1>2, <1>3, <1>4, <1>5 DEF PipelineNext

LEMMA LedgerInvariant == PipelineSpec => [](OutboxInv /\ LedgerInv)
<1>1. PipelineInit => OutboxInv /\ LedgerInv
  BY OutboxInit, LedgerInit DEF PipelineInit
<1>2. OutboxInv /\ LedgerInv /\ [PipelineNext]_pipelineVars
        => (OutboxInv /\ LedgerInv)'
  BY OutboxStep, LedgerStep
<1> QED
  BY <1>1, <1>2, PTL DEF PipelineSpec

-----------------------------------------------------------------------------
\* The state of the outbox, of its publishers, of the consumer and of the
\* ledger keep their types.
THEOREM PipelineIsTyped == PipelineSpec => []PipelineTypeOK
<1>1. OutboxInv /\ LedgerInv => PipelineTypeOK
  BY DEF OutboxInv, LedgerInv, OutcomesMatchRows, PipelineTypeOK
<1> QED
  BY <1>1, LedgerInvariant, PTL

\* Whatever was sent twice, delivered twice, given up halfway or landed late,
\* an entry of the ledger says of its transfer what the table says of it, or
\* what the table said before the saga recorded another ending.
THEOREM EntriesAgreeWithTheTable == PipelineSpec => []EntriesAreTrue
<1>1. LedgerInv => EntriesAreTrue
  BY DEF LedgerInv, RequestsFit, Fits, StatusFor, EntriesAreTrue,
         Ledger!EntriesTellTheOutcome
<1> QED
  BY <1>1, LedgerInvariant, PTL

\* Double entry: a message whose offset is committed has its debit and its
\* credit in the ledger; or it is of a failed transfer and has neither, because
\* no money moved or a lookup failed; or two things failed, that lookup and one
\* that left half a pair.
THEOREM CommittedPairsBalance == PipelineSpec => []PairsAreWhole
<1>1. ASSUME LedgerInv, NEW p \in Ledger!Read, NEW offset \in 0..(committed[p] - 1)
      PROVE  LET types == {e.entryType : e \in Ledger!EntriesOf(p, offset)}
                 t     == Ledger!TransferAt(p, offset)
             IN  \/ types = {"debit", "credit"}
                 \/ p = "failed" /\ types = {} /\ outcome[t] = "refused"
                 \/ p = "failed" /\ t \in skipped /\ (types = {} \/ faults >= 2)
  <2> DEFINE types == {e.entryType : e \in Ledger!EntriesOf(p, offset)}
             t     == Ledger!TransferAt(p, offset)
  <2>1. offset \in Nat /\ offset < committed[p] /\ entries \subseteq Ledger!Entries
    BY <1>1 DEF LedgerInv, Ledger!TypeOK
  <2>2. Done(p, offset)
    BY <1>1, <2>1 DEF LedgerInv, PartitionInv, PassedAreWhole
  <2>3. ASSUME Whole(p, offset) PROVE types = {"debit", "credit"}
    BY <2>1, <2>3 DEF Whole, Has, Types, Ledger!EntriesOf, Ledger!Entries
  <2>4. ASSUME ~Touched(p, offset) PROVE types = {}
    BY <2>4 DEF Touched, Ledger!EntriesOf
  <2>5. t = Subject(p, offset)
    BY DEF Subject, Ledger!TransferAt
  <2> HIDE DEF types, t
  <2>6. \/ types = {"debit", "credit"}
        \/ p = "failed" /\ types = {} /\ outcome[t] = "refused"
        \/ p = "failed" /\ t \in skipped /\ (types = {} \/ faults >= 2)
    BY <2>2, <2>3, <2>4, <2>5 DEF Done
  <2> QED BY <2>6 DEF types, t
<1>2. LedgerInv => PairsAreWhole
  BY <1>1 DEF PairsAreWhole, Ledger!CommittedPairsAreWhole
<1> QED
  BY <1>2, LedgerInvariant, PTL
=============================================================================
