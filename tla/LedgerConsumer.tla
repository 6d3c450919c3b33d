---------------------------- MODULE LedgerConsumer ----------------------------
(***************************************************************************)
(* The consumer of the ledger service                                      *)
(* (services/ledger-service/src/consumer.ts): it reads the topics of       *)
(* completed and failed transfers in batches and writes a debit and a      *)
(* credit entry for each message, identified by the position of the        *)
(* message in its topic.                                                   *)
(*                                                                         *)
(* The log of each topic and the outcome of each transfer, which           *)
(* GET /transfers/:id shows, belong to the transfer service; here they are *)
(* only read.  One partition per topic: partitions share nothing.          *)
(***************************************************************************)
EXTENDS Integers, Sequences

CONSTANTS Transfers, MaxFaults

VARIABLES
  log,        \* the messages of each topic: events, transfer first
  outcome,    \* how each transfer ended, for those that have
  recorded,   \* the outcomes the table has shown of it (history)
  committed,  \* the offset the consumer group has committed
  cursor,     \* the offset of the message being processed
  upto,       \* the end of the batch being processed
  at,         \* the await the batch is at; "idle" between batches
  writing,    \* the upserts of the message that have not settled
  stray,      \* upserts in flight that nobody waits for any more
  entries,    \* collection ledger_entries
  skipped,    \* transfers a lookup of which failed (history)
  faults      \* how often something has failed

batchVars  == <<cursor, upto, at, writing>>
ledgerVars == <<committed, batchVars, stray, entries, skipped>>

Read     == {"completed", "failed"}
\* Refused before any debit; debited and refunded; debited and not refunded.
Outcomes == {"pending", "completed", "refused", "reversed", "stranded"}
Entries  == [topic : Read, offset : Nat, transfer : Transfers,
             entryType : {"debit", "credit"},
             status : {"completed", "failed", "reversed"}]

TypeOK ==
  /\ committed \in [Read -> Nat]
  /\ cursor \in [Read -> Nat]
  /\ upto \in [Read -> Nat]
  /\ at \in [Read -> {"idle", "fetch", "write", "commit"}]
  /\ writing \in [Read -> SUBSET Entries]
  /\ stray \subseteq Entries
  /\ entries \subseteq Entries
  /\ skipped \subseteq Transfers

Init ==
  /\ committed = [p \in Read |-> 0]
  /\ cursor = [p \in Read |-> 0]
  /\ upto = [p \in Read |-> 0]
  /\ at = [p \in Read |-> "idle"]
  /\ writing = [p \in Read |-> {}]
  /\ stray = {}
  /\ entries = {}
  /\ skipped = {}

-----------------------------------------------------------------------------
\* The transfer of the message at an offset; offsets count from 0.
TransferAt(p, offset) == log[p][offset + 1][1]

\* buildEntries: identified by topic, offset and type, not by transfer.
EntriesFor(p, offset, entryStatus) ==
  {[topic |-> p, offset |-> offset, transfer |-> TransferAt(p, offset),
    entryType |-> type, status |-> entryStatus] : type \in {"debit", "credit"}}

SameId(e, f) ==
  e.topic = f.topic /\ e.offset = f.offset /\ e.entryType = f.entryType

\* Mutant: debit_completed is not asked for.
FailedStatus_AnyFailure(t) ==
  IF outcome[t] = "stranded" THEN "failed" ELSE "reversed"

\* Mutant: the status of the transfer is stored as it is.
FailedStatus_Raw(t) == IF outcome[t] = "refused" THEN "none" ELSE outcome[t]

\* The status of the entries of a failed transfer, "none" when its saga_state
\* has no debit, from what GET /transfers/:id answers.
FailedStatus(t) ==
  CASE outcome[t] = "stranded"              -> "failed"
    [] outcome[t] \in {"pending", "refused"} -> "none"
    [] OTHER                                -> "reversed"

Strikes == faults < MaxFaults /\ faults' = faults + 1

\* processLedgerEvent starts on the message at an offset, or the batch is done.
Take(p, offset, end) ==
  /\ cursor' = [cursor EXCEPT ![p] = offset]
  /\ upto' = [upto EXCEPT ![p] = end]
  /\ at' = [at EXCEPT ![p] = IF offset = end THEN "commit"
                                ELSE IF p = "completed" THEN "write" ELSE "fetch"]
  /\ writing' = [writing EXCEPT ![p] =
                   IF offset < end /\ p = "completed"
                   THEN EntriesFor(p, offset, "completed") ELSE {}]

\* A batch is what the broker returns of the messages not yet committed.
StartBatch(p) ==
  /\ at[p] = "idle"
  /\ \E end \in (committed[p] + 1)..Len(log[p]) :
       Take(p, committed[p], end)
  /\ UNCHANGED <<committed, stray, entries, skipped, faults>>

\* fetchTransfer answers; a transfer without a debit, or unknown, writes nothing.
Skip(p) == Take(p, cursor[p] + 1, upto[p])

Fetch(p) ==
  LET found == FailedStatus(TransferAt(p, cursor[p]))
  IN  /\ at[p] = "fetch"
      /\ IF found = "none"
         THEN Skip(p)
         ELSE /\ at' = [at EXCEPT ![p] = "write"]
              /\ writing' = [writing EXCEPT ![p] = EntriesFor(p, cursor[p], found)]
              /\ UNCHANGED <<cursor, upto>>
      /\ UNCHANGED <<committed, stray, entries, skipped, faults>>

\* It answers null because anything went wrong: taken for no debit.
FetchFails(p) ==
  /\ at[p] = "fetch"
  /\ Strikes
  /\ Skip(p)
  /\ skipped' = skipped \cup {TransferAt(p, cursor[p])}
  /\ UNCHANGED <<committed, stray, entries>>

\* updateOne with $setOnInsert and upsert: the first write of an id stays.
Upsert(e) ==
  entries' = IF \E f \in entries : SameId(e, f) THEN entries ELSE entries \cup {e}

Settle(p, e) ==
  IF writing[p] = {e} THEN Skip(p)
  ELSE /\ writing' = [writing EXCEPT ![p] = @ \ {e}]
       /\ UNCHANGED <<cursor, upto, at>>

Write(p) ==
  /\ at[p] = "write"
  /\ \E e \in writing[p] : Upsert(e) /\ Settle(p, e)
  /\ UNCHANGED <<committed, stray, skipped, faults>>

\* The batch is given up: it will be delivered again from the committed offset,
\* while upserts that were sent may still land.
GiveUp(p, left) ==
  /\ at' = [at EXCEPT ![p] = "idle"]
  /\ writing' = [writing EXCEPT ![p] = {}]
  /\ stray' = stray \cup left
  /\ UNCHANGED <<cursor, upto>>

\* Mutant: an upsert that throws counts as settled.
WriteFails_Swallowed(p) ==
  /\ at[p] = "write"
  /\ Strikes
  /\ \E e \in writing[p] : Settle(p, e)
  /\ UNCHANGED <<committed, stray, entries, skipped>>

\* An upsert throws, with or without effect, and Promise.all with it.
WriteFails(p) ==
  /\ at[p] = "write"
  /\ Strikes
  /\ \E e \in writing[p] :
       /\ Upsert(e) \/ UNCHANGED entries
       /\ GiveUp(p, writing[p] \ {e})
  /\ UNCHANGED <<committed, skipped>>

Commit(p) ==
  /\ at[p] = "commit"
  /\ committed' = [committed EXCEPT ![p] = upto[p]]
  /\ at' = [at EXCEPT ![p] = "idle"]
  /\ UNCHANGED <<cursor, upto, writing, stray, entries, skipped, faults>>

\* Mutant: the offsets of a batch that was given up are committed.
Interrupt_Commits(p) ==
  /\ at[p] # "idle"
  /\ Strikes
  /\ GiveUp(p, writing[p])
  /\ committed' = [committed EXCEPT ![p] = upto[p]]
  /\ UNCHANGED <<entries, skipped>>

\* The member dies, its heartbeat fails or its partition moves to another
\* member before the offset is committed.
Interrupt(p) ==
  /\ at[p] # "idle"
  /\ Strikes
  /\ GiveUp(p, writing[p])
  /\ UNCHANGED <<committed, entries, skipped>>

Land ==
  \E e \in stray :
    /\ Upsert(e) \/ UNCHANGED entries
    /\ stray' = stray \ {e}
    /\ UNCHANGED <<committed, batchVars, skipped, faults>>

Consume(p) == StartBatch(p) \/ Fetch(p) \/ Write(p) \/ Commit(p)
Disturb(p) == FetchFails(p) \/ WriteFails(p) \/ Interrupt(p)

Next == (\E p \in Read : Consume(p) \/ Disturb(p)) \/ Land

-----------------------------------------------------------------------------
EntriesOf(p, offset) == {e \in entries : e.topic = p /\ e.offset = offset}

\* Double entry: once the offset of a message is committed its debit and its
\* credit are both in the ledger.  A failed transfer has neither when it moved
\* nothing, and may have neither when a lookup of it failed; half a pair takes
\* two failures, that lookup and an upsert of an earlier delivery.
CommittedPairsAreWhole ==
  \A p \in Read : \A offset \in 0..(committed[p] - 1) :
    LET types == {e.entryType : e \in EntriesOf(p, offset)}
        t     == TransferAt(p, offset)
    IN  \/ types = {"debit", "credit"}
        \/ p = "failed" /\ types = {} /\ outcome[t] = "refused"
        \/ p = "failed" /\ t \in skipped /\ (types = {} \/ faults >= 2)

\* Whatever was delivered twice, given up halfway or landed late, an entry says
\* of its transfer what the table says of it, or what the table said before the
\* saga took back an ending whose commit it believed to have failed.
EntriesTellTheOutcome ==
  \A e \in entries :
    \E o \in recorded[e.transfer] :
      e.status = CASE o = "stranded" -> "failed"
                   [] OTHER          -> o
=============================================================================
