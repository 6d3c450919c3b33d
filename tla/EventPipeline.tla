---------------------------- MODULE EventPipeline ----------------------------
(***************************************************************************)
(* From the transaction that ends a transfer to its entries in the ledger: *)
(* the outbox and its publishers, Kafka, the consumer of the ledger.       *)
(***************************************************************************)
EXTENDS Outbox

CONSTANT LostCommitWeight  \* failures a commit whose result is lost counts for

ASSUME PipelineAssumption == LostCommitWeight \in Nat

VARIABLES outcome, recorded, committed, cursor, upto, at, writing, stray, entries,
          skipped

Ledger == INSTANCE LedgerConsumer

tableVars    == <<outcome, recorded>>
ledgerVars   == <<committed, cursor, upto, at, writing, stray, entries, skipped>>
pipelineVars == <<outboxVars, tableVars, ledgerVars>>

PipelineTypeOK ==
  /\ TypeOK
  /\ outcome \in [Transfers -> Ledger!Outcomes]
  /\ recorded \in [Transfers -> SUBSET Ledger!Outcomes]
  /\ Ledger!TypeOK

PipelineInit ==
  /\ Init
  /\ outcome = [t \in Transfers |-> "pending"]
  /\ recorded = [t \in Transfers |-> {}]
  /\ Ledger!Init

-----------------------------------------------------------------------------
\* The saga announces the transfer.
Announce(t) ==
  /\ Enqueue(t, "initiated")
  /\ UNCHANGED <<faults, tableVars, ledgerVars>>

EventOf(o) == IF o \in {"completed", "stranded"} THEN o ELSE "failed"

\* What the table may say of a transfer when the saga records an outcome: what
\* failed before the debit has no other, and what follows a commit whose result
\* was lost had one already.  COMPENSATING, which lasts while the refund is on
\* its way, is left out: no consumer looks a transfer up before it has failed.
EndsFrom(o) ==
  CASE o \in {"completed", "refused"} -> {"pending"}
    [] o = "reversed"                 -> {"pending", "completed"}
    [] o = "stranded"                 -> {"pending", "completed", "reversed"}

\* The transaction that records a terminal status writes its event.
EndTransfer(t, o) ==
  /\ outcome[t] \in EndsFrom(o)
  /\ Enqueue(t, EventOf(o))
  /\ faults' = IF outcome[t] = "pending" THEN faults ELSE faults + LostCommitWeight
  /\ faults' <= MaxFaults
  /\ outcome' = [outcome EXCEPT ![t] = o]
  /\ recorded' = [recorded EXCEPT ![t] = @ \cup {o}]
  /\ UNCHANGED ledgerVars

Publishers == /\ \E r \in Replicas : Publish(r) \/ Disturb(r)
              /\ UNCHANGED <<tableVars, ledgerVars>>

Consumers  == Ledger!Next /\ UNCHANGED <<publisherVars, tableVars>>

PipelineNext ==
  \/ \E t \in Transfers :
       Announce(t) \/ \E o \in Ledger!Outcomes \ {"pending"} : EndTransfer(t, o)
  \/ Publishers
  \/ Consumers

\* Intervals fire, awaits settle, and the broker delivers what it has.
PipelineFairness ==
  /\ \A r \in Replicas :
       WF_pipelineVars(Publish(r) /\ UNCHANGED <<tableVars, ledgerVars>>)
  /\ \A p \in Ledger!Read :
       WF_pipelineVars(Ledger!Consume(p) /\ UNCHANGED <<publisherVars, tableVars>>)

PipelineSpec == PipelineInit /\ [][PipelineNext]_pipelineVars /\ PipelineFairness

-----------------------------------------------------------------------------
\* The double entry of the ledger, with real publishers in front of it.
PairsAreWhole == Ledger!CommittedPairsAreWhole

\* The entries agree with the table, as it is or as it was before a second ending,
\* with real publishers in front of them: the entries posted for a transfer that
\* is refunded after all stay posted beside the reversal.
EntriesAreTrue == Ledger!EntriesTellTheOutcome

EntryTypes(t, p) == {e.entryType : e \in {x \in entries : x.transfer = t /\ x.topic = p}}

\* A completed transfer reaches the ledger with both its entries, whatever
\* fails and recovers on the way; one that moved money and failed does so too,
\* unless a lookup of it failed: that error skips its entries for good.
EndingsReachTheLedger ==
  \A t \in Transfers :
    /\ outcome[t] = "completed" ~> EntryTypes(t, "completed") = {"debit", "credit"}
    /\ outcome[t] \in {"reversed", "stranded"} ~>
         EntryTypes(t, "failed") = {"debit", "credit"} \/ t \in skipped

\* "each completed transfer produces exactly two ledger entries": an event sent
\* twice has two offsets, and the entries are identified by the offset.
TwoEntriesPerTransfer ==
  \A t \in Transfers :
    outcome[t] = "completed" =>
      \A e, f \in entries :
        e.transfer = t /\ f.transfer = t /\ e.entryType = f.entryType => e = f
=============================================================================
