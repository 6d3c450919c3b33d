-------------------------------- MODULE Outbox --------------------------------
(***************************************************************************)
(* The transactional outbox of the transfer service                        *)
(* (shared/types/src/outbox.ts): the table outbox_events, which a          *)
(* transaction of the saga fills, and the publisher that every replica     *)
(* runs once a second to move its rows to Kafka.                           *)
(*                                                                         *)
(* The publishers do not lock the rows they select, so two replicas work   *)
(* on overlapping snapshots of the table.  A row is an event of a          *)
(* transfer, and its message is that event in the log of its topic.        *)
(***************************************************************************)
EXTENDS Integers, Sequences, FiniteSets

CONSTANTS
  Transfers,
  Replicas,    \* of the transfer service
  BatchSize,   \* LIMIT of the SELECT
  MaxFaults    \* how often something may fail in a behaviour

ASSUME OutboxAssumption ==
  /\ IsFiniteSet(Replicas)
  /\ BatchSize \in Nat \ {0}
  /\ MaxFaults \in Nat

VARIABLES
  outbox,     \* the rows, in the order of created_at
  published,  \* those whose published_at is set
  errored,    \* those whose last_error is set
  log,        \* the messages Kafka has accepted on each topic
  batch,      \* the rows a publisher has selected and has not done yet
  step,       \* the await its loop is at; "idle" when publishing is false
  faults      \* how often something has failed

publisherVars == <<outbox, published, errored, log, batch, step>>
outboxVars    == <<publisherVars, faults>>

Topics   == {"initiated", "completed", "failed"}

\* What the saga writes of a transfer; "stranded" is the event that goes with
\* COMPENSATION_FAILED, on the topic of failed transfers.
Kinds    == Topics \cup {"stranded"}
Endings  == Kinds \ {"initiated"}
Events   == Transfers \X Kinds

TopicOf(kind) == IF kind = "stranded" THEN "failed" ELSE kind

Elements(s) == {s[i] : i \in DOMAIN s}

TypeOK ==
  /\ outbox \in Seq(Events)
  /\ published \subseteq Events
  /\ errored \subseteq Events
  /\ log \in [Topics -> Seq(Events)]
  /\ batch \in [Replicas -> SUBSET Events]
  /\ step \in [Replicas -> {"idle", "send", "mark", "note"}]
  /\ faults \in 0..MaxFaults

Init ==
  /\ outbox = <<>>
  /\ published = {}
  /\ errored = {}
  /\ log = [topic \in Topics |-> <<>>]
  /\ batch = [r \in Replicas |-> {}]
  /\ step = [r \in Replicas |-> "idle"]
  /\ faults = 0

-----------------------------------------------------------------------------
Written(t, kind) == <<t, kind>> \in Elements(outbox)

\* The events that may be there already when the saga writes one.  It takes the
\* error of a commit that took place for an error of the transfer: a completed
\* one is then compensated, and a refund recorded as failed is recorded again
\* as one that failed itself.
Precede(kind) ==
  CASE kind = "initiated" -> {}
    [] kind = "completed" -> {"initiated"}
    [] kind = "failed"    -> {"initiated", "completed"}
    [] kind = "stranded"  -> {"initiated", "completed", "failed"}

\* A transaction of the saga commits a row, the announcement of its transfer
\* before the endings.  created_at is when the transaction started, so the row
\* may come before rows of other transfers that are already there.
Enqueue(t, kind) ==
  /\ kind # "initiated" => Written(t, "initiated")
  /\ {k \in Kinds : Written(t, k)} \subseteq Precede(kind)
  /\ \E i \in 0..Len(outbox) :
       /\ \A j \in (i + 1)..Len(outbox) : outbox[j][1] # t
       /\ outbox' = SubSeq(outbox, 1, i) \o <<<<t, kind>>>>
                      \o SubSeq(outbox, i + 1, Len(outbox))
  /\ UNCHANGED <<published, errored, log, batch, step>>

-----------------------------------------------------------------------------
(* publishPendingOutboxEvents.                                             *)

Strikes == faults < MaxFaults /\ faults' = faults + 1

\* Mutant: rows that failed once are not selected again.
Pending_SkipsErrors == Elements(outbox) \ (published \cup errored)

\* The rows the SELECT asks for, and those it returns: the oldest of them.
Pending == Elements(outbox) \ published

Older(e, f) ==
  \E i, j \in DOMAIN outbox : i < j /\ outbox[i] = e /\ outbox[j] = f

First(rows) ==
  {e \in rows : Cardinality({f \in rows : Older(f, e)}) < BatchSize}

\* Mutant: a tick does not ask whether the last one is still publishing.
Tick_Overlaps(r) ==
  /\ Pending # {}
  /\ batch' = [batch EXCEPT ![r] = First(Pending)]
  /\ step' = [step EXCEPT ![r] = "send"]
  /\ UNCHANGED <<outbox, published, errored, log, faults>>

\* A tick of the interval, ignored while the last one is still publishing.  A
\* SELECT that fails or finds nothing changes nothing.
Tick(r) ==
  /\ step[r] = "idle"
  /\ Pending # {}
  /\ batch' = [batch EXCEPT ![r] = First(Pending)]
  /\ step' = [step EXCEPT ![r] = "send"]
  /\ UNCHANGED <<outbox, published, errored, log, faults>>

\* The row the loop is at: the oldest of what is left.
Current(r) ==
  CHOOSE e \in batch[r] : \A f \in batch[r] : ~Older(f, e)

Goto(r, label) == step' = [step EXCEPT ![r] = label] /\ UNCHANGED batch

\* The loop takes the next row of the batch.
NextRow(r) ==
  /\ batch' = [batch EXCEPT ![r] = @ \ {Current(r)}]
  /\ step' = [step EXCEPT ![r] = IF batch[r] = {Current(r)} THEN "idle" ELSE "send"]

Abandon(r) ==
  /\ batch' = [batch EXCEPT ![r] = {}]
  /\ step' = [step EXCEPT ![r] = "idle"]

Accept(e) == log' = [log EXCEPT ![TopicOf(e[2])] = Append(@, e)]

\* The row goes out whether or not another replica has published it since.
Send(r) ==
  /\ step[r] = "send"
  /\ Accept(Current(r))
  /\ Goto(r, "mark")
  /\ UNCHANGED <<outbox, published, errored, faults>>

\* Mutant: an error of send is swallowed.
SendFails_Marks(r) ==
  /\ step[r] = "send"
  /\ Strikes
  /\ Accept(Current(r)) \/ UNCHANGED log
  /\ Goto(r, "mark")
  /\ UNCHANGED <<outbox, published, errored>>

\* send throws, and Kafka may have accepted the message.
SendFails(r) ==
  /\ step[r] = "send"
  /\ Strikes
  /\ Accept(Current(r)) \/ UNCHANGED log
  /\ Goto(r, "note")
  /\ UNCHANGED <<outbox, published, errored>>

MarkPublished(r) ==
  /\ published' = published \cup {Current(r)}
  /\ errored' = errored \ {Current(r)}

Mark(r) ==
  /\ step[r] = "mark"
  /\ MarkPublished(r)
  /\ NextRow(r)
  /\ UNCHANGED <<outbox, log, faults>>

\* The UPDATE throws, with or without effect.
MarkFails(r) ==
  /\ step[r] = "mark"
  /\ Strikes
  /\ MarkPublished(r) \/ UNCHANGED <<published, errored>>
  /\ Goto(r, "note")
  /\ UNCHANGED <<outbox, log>>

\* The catch clause stores the error, even on a row that is published.
Note(r) ==
  /\ step[r] = "note"
  /\ errored' = errored \cup {Current(r)}
  /\ NextRow(r)
  /\ UNCHANGED <<outbox, published, log, faults>>

\* Mutant: an error that cannot be stored does not leave the loop.
NoteFails_GoesOn(r) ==
  /\ step[r] = "note"
  /\ Strikes
  /\ NextRow(r)
  /\ UNCHANGED <<outbox, published, errored, log>>

\* That UPDATE throws out of the loop: the rest of the batch waits for a tick.
NoteFails(r) ==
  /\ step[r] = "note"
  /\ Strikes
  /\ errored' \in {errored, errored \cup {Current(r)}}
  /\ Abandon(r)
  /\ UNCHANGED <<outbox, published, log>>

\* A replica dies in the loop; the one that replaces it starts with a tick.
Die(r) ==
  /\ step[r] # "idle"
  /\ Strikes
  /\ Abandon(r)
  /\ UNCHANGED <<outbox, published, errored, log>>

Publish(r) == Tick(r) \/ Send(r) \/ Mark(r) \/ Note(r)
Disturb(r) == SendFails(r) \/ MarkFails(r) \/ NoteFails(r) \/ Die(r)

Next ==
  \/ \E t \in Transfers, kind \in Kinds : Enqueue(t, kind) /\ UNCHANGED faults
  \/ \E r \in Replicas : Publish(r) \/ Disturb(r)

\* The interval fires in every replica and its awaits settle.
Fairness == \A r \in Replicas : WF_outboxVars(Publish(r))

Spec == Init /\ [][Next]_outboxVars /\ Fairness

-----------------------------------------------------------------------------
Sent(e)   == e \in Elements(log[TopicOf(e[2])])
Copies(e) ==
  LET topic == log[TopicOf(e[2])] IN Cardinality({i \in DOMAIN topic : topic[i] = e})

\* At least once: a row marked published has been accepted by Kafka, whatever
\* failed between the two and whichever replica marked it.
MarkedIsSent == \A e \in published : Sent(e)

\* An ending reaches Kafka before the announcement of its transfer only while
\* the row of the announcement shows the error that held it back, although
\* replicas publish overlapping snapshots and give them up halfway.
AnnouncedFirst ==
  \A t \in Transfers, kind \in Endings :
    Sent(<<t, kind>>) =>
      Sent(<<t, "initiated">>) \/ <<t, "initiated">> \in errored

\* An event is sent again only by another replica that selected its row before
\* it was marked, or after a failure.
DuplicatesHaveACause ==
  \A e \in Events : Copies(e) <= Cardinality(Replicas) + faults

\* While the database and Kafka recover from every failure, every row that was
\* committed is published: no error strands it or the rows behind it.
RowsArePublished ==
  \A e \in Events : e \in Elements(outbox) ~> e \in published
=============================================================================
