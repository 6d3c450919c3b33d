# Verification of the CN Banking Transaction System

TLA+ models of the services that move money, of the queues and caches around
them, and of the browser tab in front of them, checked with TLC, with theorems
checked by TLAPS. Paths below are relative to `services/` in the repository
unless they start with another of its directories.

## 1. The system

Money lives in one PostgreSQL table of the **account-service**. A transfer is a
saga in the memory of a **transfer-service** replica: HTTP calls debit the
sender, credit the receiver and, if something fails after the debit, credit the
sender again. Each transaction of the saga also writes **outbox** rows; every
replica polls them and publishes to Kafka, where the **ledger-**, **fraud-** and
**notification-service** consume them. Clients enter through the
**api-gateway**, which authenticates (JWT and refresh tokens in Redis), makes
`POST /transfers` idempotent (Redis) and proxies. The **web-portal** keeps a
session, an idempotency key for its transfer form, and one mounted page whose
panels are filled by chains of requests.

| Component | State it keeps | Operations | Talks to | What is hard | What makes it correct |
|---|---|---|---|---|---|
| account-service (`account-service/src/routes.ts`) | table `accounts`, outbox rows | create, KYC, freeze, debit, credit | PostgreSQL; called by saga, fraud, notification, portal | guarded UPDATE then a second query; a commit whose result is lost; overflow of `NUMERIC(18,2)` | no overdraft, freezes final, no effect without its amount, refusals that stay true |
| transfer saga (`transfer-service/src/saga.ts`, `routes.ts`) | `transfers.status`, `saga_state`, `SagaState` in memory | `execute`: create, debit, credit, complete, fail, compensate | account-service by HTTP, its own database | every await can fail with or without effect; crash in mid-saga; freezes between debit and refund | money is never created, terminal statuses tell where it is, the refund is logged first |
| outbox (`shared/types/src/outbox.ts`) | table `outbox_events`, `publishing` flag | poll, send, mark, note the error | PostgreSQL, Kafka | replicas with overlapping snapshots; send without mark | at least once, order of announcement and ending, no row stranded |
| ledger-service (`ledger-service/src/consumer.ts`) | `ledger_entries`, consumer offsets | batches, lookup, two upserts | Kafka, transfer-service, MongoDB | redelivery with upserts in flight, failing lookups | whole pairs, entries that tell what the table told, nothing missing |
| gateway idempotency (`api-gateway/src/middleware/idempotency.js`, `proxy.js`) | cached answers and locks in Redis | look up, lock, forward, cache, release | Redis, transfer-service | check and lock are two commands; the lock expires; connections break | no concurrent execution, no second effect after an answer, no repetition without a reason |
| fraud-service (`fraud-service/src/consumer.ts`, `rules.ts`) | `transfer_activity`, `fraud_events` | record, count, read a balance, evaluate, alert, freeze | Kafka, MongoDB, account-service | activity stored before the rules run; alert stored before it is sent; stale balance | alerts once and in order, freezes deserved |
| notification-service (`notification-service/src/consumer.ts`) | none | look up addresses, send one after the other | Kafka, account-service | partial sends and redelivery; lookups that are refused for ever | nobody skipped, repeats have a cause |
| gateway authentication (`api-gateway/src/routes/auth.js`, `middleware/auth.js`) | users, e-mails, refresh tokens, blacklist in Redis | register, login, refresh, logout, verify | Redis | check-then-set on the e-mail; refresh against logout; a command that fails half-way | an e-mail leads to its user, tokens end |
| portal session (`web-portal/src/lib/api/auth.ts`, `client.ts`, `app/auth`) | session in memory, the rest of it in `sessionStorage` | sign in, restore, retry after 401, sign out | gateway | answers heard after a logout, after another login, after a reload | one user's session, signing out lasts |
| portal pages (`web-portal/src/app`, `lib/api`) | panels, busy button, transfer form with its key | look up, refresh, create, KYC, freeze, filter | gateway | answers are not numbered; one flag for all buttons; retries and their key; pages that are left | what is shown is of one record and what was asked; one payment per form and answer that is not kept; nothing waits in vain |

Not protocol logic: rate limits and CORS (configuration of library middleware),
the Kafka and Mongo wrappers, infrastructure, monitoring, load tests, design
assets.

## 2. Plan

The order was that of the money: what can lose it first. All of it is done.

1. `AccountService`, then `TransferSaga`, which instantiates it, against the
   abstract `TransferContract`.
2. `Outbox` and `LedgerConsumer`, composed by `EventPipeline`;
   `GatewayIdempotency`.
3. `FraudConsumer` and `NotificationConsumer`, composed by `Alerts`.
4. `GatewayAuth`, which `PortalSession` extends with the tab that talks to it.
5. The portal's pages, on the common `PageState`, composed by `PortalPages`.
6. Theorems: the account service, the saga and its refinement of
   `TransferContract`, its events, the sums of money, gateway idempotency, the
   session, the outbox and the ledger behind it, the alerts, the portal's pages.

Every invariant that a passing run checks is now stated by a theorem, and so are
both of its properties of single steps, `FrozenIsFinal` and
`ImplementsContract`. Liveness and fairness stay with TLC.

## 3. Modules

**`AccountService`** is one handler per operation and one SQL statement per
action, because every statement commits by itself. A debit or credit call is a
record: the request, the phase of its handler (`sent`, `missed` between the
UPDATE that matched no row and the query that explains it, `answered`, `lost`),
and the history field `applied`, whether the UPDATE changed the balance.
`DebitMatches` and `CreditMatches` are the two WHERE clauses; the credit's does
not ask for KYC. `Freeze`, `UpdateKyc` and `CreateAccount` are the managing
handlers; they run at any moment. GET handlers change nothing and are left out,
as are owner names, service tokens and validation of malformed bodies. The
status `inactive` is written by no handler.

**`TransferSaga`** instantiates it with one debit, credit and refund call per
transfer. `pc[t]` is the await `execute` is suspended at, and an action is the
code up to the next one, catch clauses included: `Catch` is the outer clause,
`RefundThrows` and `GiveUp` the inner one. `saga` is the object in memory,
`saved` the `saga_state` column, `row` the status column, `events` the outbox
rows written by the same transactions, `cause` the error being handled, `reply`
the answer of the route. `Create` may name accounts that exist or an unknown one.
`order` is the body of the request, drawn at the start.
A transaction has three `Outcomes`: done, failed, or committed with its result
lost. A call can break at any time under `"net"`, before or after the account
service handled it, and the account service may handle it after the saga has
gone on. A crash takes any set of running sagas; nothing in the code resumes
them. `updateTransferState` answering null (no such row) cannot happen, since
rows are never deleted.

**`TransferContract`** is the promise without saga or calls: a recorded transfer
moves its money from the sender into the air and from there to the receiver or
back, and ends with the outcome that tells where it is. `ImplementsContract` maps
`applied` and `row` to it.

**`Outbox`** keeps the table in the order of `created_at`, the columns
`published_at` and `last_error` as sets, Kafka's log of each topic, and for each
replica what is left of its batch and the await of its loop; `step = "idle"` is
`publishing = false`. A batch is a set: its order is that of the table, whose rows
never change places, and `Current` is the oldest row left. `created_at` is the start of a transaction, so `Enqueue` may insert before
rows of other transfers. Sends, UPDATEs and the UPDATE of the catch clause fail
with or without effect (`SendFails`, `MarkFails`, `NoteFails`), and replicas die.
The publisher of the account service is the same code on other rows.

**`LedgerConsumer`** reads a topic as a partition: `committed`, `cursor` and `upto`
are its offsets, `at` the await of the batch, `writing` the upserts of the current
message, `stray` those still in flight after the batch was given up. Entries are
identified by topic, offset and type, as `createLedgerEntryId` does. `Outcomes`
is what `GET /transfers/:id` shows: status, and whether `saga_state` has the debit.
A member that dies or loses its partition, and a heartbeat that throws, are one
action, `Interrupt`. A group that starts with no committed offset skips what was
published before (`fromBeginning: false`); the model starts after that.

**`EventPipeline`** composes the two over the logs: the transaction that ends a
transfer sets its outcome and writes its row (`EndTransfer`). A transfer can end
twice, or three times: after a commit of `COMPLETED` whose result was lost the catch
clause refunds and writes `FAILED`, and after a lost commit of that
`COMPENSATION_FAILED`. `Precede` and `EndsFrom` are those ways. The two failures
share a topic, so a row of the outbox is of a transfer and a kind (`Kinds`), the
topic is `TopicOf` the kind. `recorded` is history: every outcome the table has
shown.

**`GatewayIdempotency`** is the life of the attempts that share a key, one command
to Redis per action. `exec` is what the transfer service makes of each forwarded
request, wherever the attempt itself has gone; `reply` is the execution the client
hears of, or the 409 or 502 it gets. `Release` deletes the lock whoever set it. A
rejected `get` or `set` in the middleware is an unhandled rejection, which ends
the replica (`Die`). The answer of a transfer is one of 201, 4xx, 5xx; a 5xx may
or may not have moved money. The pipeline that caches an answer is no transaction:
when Redis fails (`CutOff`) the answer may stay uncached, the lock be deleted or
not. `unstored`, `overtaken`, `late` and `expiries` are history; an attempt is
overtaken that is forwarded although the answer was cached after it had looked.

**`FraudConsumer`** is `processFraudEvent` in any member of the group:
`worker[m].at` is its await (record, the counts and sums, the balance, store an
alert, send it, freeze), `event` the announced transfers, `inbox` the messages
whose offsets are not committed. A message may be at two members at once, after a
rebalance, and may have been published twice. `judged` remembers what the rules
said when they were evaluated, `lowest` the least balance an account has had.
`Move` is every debit and credit of the accounts, by this or other transfers: it
makes the balance stale. The rules are `LargeTransfer`, velocity, round amount and
rapid drain with their thresholds as constants. An account in `Owned` answers 403,
because the lookup carries no identity.

**`NotificationConsumer`** is `handleNotificationEvent` for the message at the
group's offset in each topic: lookups, then one send after another. Nothing is
stored, so `told` is a bag of what the adapters have logged: topic, offset, place
in the plan. **`Alerts`** composes the two: the alert topic of the first is a log
of the second, beside the endings of transfers.

**`GatewayAuth`** is Redis with users, e-mails, refresh tokens and blacklist, and
one record per HTTP exchange whose `at` is the command its handler is about to
make. A token is its user and the second it was issued: two tokens of one user and
second are equal, as the JWTs are. `Tick` advances the clock. `RedisFails` rejects
a command with or without effect. **`PortalSession`** extends it with one tab:
`mem` and `stored` are the session in memory and in `sessionStorage`, `flow[c]` the
promise chain that waits for exchange `c` (login, restore, request, renewal of the
token, retry, logout), `Hear` and `Break` settle it, `Reload` loses memory and
chains, `Browse` moves between the access pages and the protected ones.
`signedOut` is history: signed out while no login or refresh was waiting.

**`PageState`** is what the pages have in common: `route`, the panels `main` and
`side`, `mutation` (the flag of the busy button), the transfer form, and `chain`,
the promise chains that wait for the gateway, each with the panel it will fill and
the record it is about. A record is the id it is of. `frozen` holds the accounts that
this page has had suspended: a read of one of these finds it suspended, and a read of
any other may, since other users and the fraud service suspend accounts too, and so
does a freeze that was sent by a page that is left. Of such a page only the creations
are followed, since they navigate when they end. Four variables are history:
`asked`, for each panel what the user last asked it to show, with what was under
way for it at that time; `left`, what it showed before, when that request started
nothing because the address names it already; `stranded`, the panels, button or
form whose chain was rejected; `acked`, the accounts the page was told are frozen.
**`TransferPage`**, **`AccountPage`**,
**`LedgerPage`**, **`FraudPage`** and **`OverviewPages`** (dashboard,
notifications, platform health, observability) are the handlers of each page and
what each request may be answered by the routes behind it. For the form's key the
gateway does what `GatewayIdempotency` shows: a 409, 429 or 503 of its own executes
nothing, a final answer that was cached is repeated, and an execution that ended in
a 5xx, whose connection, replica or `SET` failed, or that outlived its lock is kept
for nobody, so that the next attempt executes again (`Unkept`; `form.unkept` counts
these). The answer of an execution that goes on may be kept at last, even over a
refusal (`Creates`). **`PortalPages`** composes them with the routes, the roles, and the
effects that run when a page is mounted or its address changes.

**`Sums`** counts money cent by cent: `Sum(S, f)` is the cardinality of the set
in which every member `x` of `S` lays `f[x]` marked cents, so that sums need no
recursion and can be reasoned about. `EffectsAddUp`, `BooksBalance` and the
windows of the fraud rules (`Outgoing`) are such sums.

The `MC` modules add symmetry sets and small sets of values for the constants.
Operators named `X_...` after a definition `X`, each under a comment that starts
with "Mutant", are `X` with a plausible bug: each property is violated when one
of them takes the place of its definition.

**Proofs** are in modules of their own: `SumsProofs` (the lemmas about sums),
`AccountServiceProofs`, `TransferSagaProofs` (with the events, the contract and the
books), `GatewayIdempotencyProofs`, `PortalSessionProofs`, `EventPipelineProofs`
(the outbox and the ledger, in the composition), `AlertsProofs` and
`PortalPagesProofs`.

## 4. Runs

| Run | Instance | Question |
|---|---|---|
| `accounts` | 2 accounts, 2 calls, amounts 1 and 2, deposits 0 and 2, largest balance 3; failing statements, lost commits, lost requests | no overdraft or overflow, balances follow effects, answers and refusals are true, freezes are final |
| `saga` | 2 transfers between 2 accounts and an unknown one, failing statements, replicas that die | `NeverPaidTwice`; terminal statuses tell where the money is; `BooksBalance`: when no saga is running or was cut short, deposits minus `COMPENSATION_FAILED` transfers are what the accounts hold; the saga implements `TransferContract` |
| `saga_faults` | 1 transfer, every fault | what the row, `saga_state` and the events still tell; every request is answered and its transfer ends, or the answer is 500 |
| `pipeline` | 1 transfer, 2 replicas, batches of 2, 2 faults | at least once, announcement first, bounded duplicates, whole pairs, entries that tell what the table told, with the second endings of lost commits; every row is published, every ending that moved money reaches the ledger |
| `gateway` | 3 attempts, every fault | overlaps only after expiry, nothing executed after an answer, true replies, no key executed again without a reason |
| `alerts` | 1 transfer published up to twice, 2 accounts of which one is owned, 2 members, a balance of 4, 2 or 0, 1 fault | alerts once and in order, deserved freezes, nobody skipped, repeats only after failures, messages consumed unless an owned account blocks them |
| `session` | 1 e-mail, 2 users, 2 exchanges at once, 1 second or failure | e-mails lead to users, one user's session, signing out lasts |
| `pages` | every page and role, 2 ids, 1 service, 2 chains at once, 1 execution that is not kept | panels whole and as asked for, one payment per form but for what was not kept, nothing waits in vain |
| `saga_frozen`, `pipeline_twice`, `gateway_twice`, `alerts_owned` | as small as needed | counterexamples, section 6 |

**Bounds.** Largest balance and amounts are chosen so that a debit can fall short,
a balance can be drained and a credit can overflow. Sagas interact only through
accounts, so two suffice for interference (`saga`) and one for the fault run,
where freezes and KYC changes come from outside anyway. Two replicas overlap; a
third repeats what the second does. Two faults are what it takes to leave half a
pair in the ledger, and `PairsAreWhole` says that nothing less does. Two copies of
one event make batches longer than one, so one transfer suffices there. A lost
commit of the saga takes both failures (`LostCommitWeight`), so that TLC has second
endings with no other failure; the theorems have any weight, 0 included, and so any
combination. Three
attempts are the least in which one attempt deletes the lock of a second and a
third comes in; the theorems cover any number. In `alerts`, the thresholds make one
transfer of 3 match two rules, or three when it is a drain, so that a failure can
fall between any two alerts; other transfers take the balance from 4, of which 3 is
75% and no drain, to 2, where the freeze follows, and to 0, where the rule is
silent. In `session`, two exchanges make every race of two
answers, and `MaxEvents` = 1 lets a token expire (`AccessTTL` = 1) or a command
fail; the theorems cover any clock, users and exchanges. In `pages`, two chains are
what it takes for one answer to overtake another, and a third would again overtake
one of them; two ids are the record shown and the one asked for; one execution that
is not kept (`MaxUnkept`) is one payment more than the key alone would allow. Symmetry is used
only in runs without liveness properties; the properties treat accounts, transfers,
calls, ids and replicas alike.

**Fairness.** `TransferSaga`: weak fairness of each started saga (promises settle,
queries return) and of each accepted call. Requests and answers may be lost, and
axios calls have no timeout: `TransfersEnd` excuses a saga one of whose requests
was lost. `EventPipeline`: weak fairness of each publisher (an interval fires
every second) and each consumer (the broker delivers what it has); failures strike
at most `MaxFaults` times, so they pass. `Alerts`: weak fairness of each member and
of each topic of the notification service, for the same reasons.
Nothing is assumed fair that a client decides. `GatewayIdempotency`, `PortalSession`
and `PortalPages` state no fairness and no liveness: that Redis frees a key after 30
seconds is what `EX 30` says, and that nothing waits in vain is an invariant of the
pages: whatever shows that it is waiting has a chain under way that will end it.

**Deadlock** is checked where something can always happen: accounts can be managed,
tabs used. The pipeline, the gateway and the alerts stop when all is done.

## 5. Proofs

The theorems hold for any accounts, calls, transfers, attempts, users, amounts and
faults that satisfy the named assumptions of the modules.

- **`AccountServiceProofs`**. `TypeCorrect` includes `balance \in 0..MaxBalance`:
  no interleaving overdraws or overflows. It is inductive, because each UPDATE
  checks the balance it changes. `FreezeIsFinal` is the action property
  `FrozenIsFinal`. `RefusalsStayTrue` proves `PermanentRefusalsAreTrue` from
  `RefusalInv`: a call names an account that exists or never will, and a credit
  whose UPDATE selected no row still finds no active row. `CallsTell` (an effect
  only in an answered call, an `OK` only with an effect) and `HandleGoesOn` (a
  handler answers, misses or loses its call and touches no other) are what the
  saga's proofs need of the service. `EffectsAreExact` proves `EffectsAddUp`
  under every fault: an UPDATE changes a balance by the amount of one call and
  marks that call `applied` in the same step (`MoneyInv`), and a call answered as
  refused was never applied (`RefusedMoved`).
- **`SumsProofs`**: a sum is a finite number; it changes by what one member changes,
  joins over disjoint sets, and is the same when its members are renamed. The
  proofs about money cite these lemmas.
- **`TransferSagaProofs`**: type correctness of the composition and, under every
  fault, `CompletedIsPaid`, `RefundIsLogged`, `NothingFromNothing`,
  `SavedFlagsAreTrue`. None of these is inductive: that a saga at `complete` has
  been paid needs what its memory says, and that needs what its calls say. The
  inductive invariant `Inv` is type correctness, `CallsTell` for the calls, and
  `SagaInv(t)` for each transfer: the flags of `saga` are backed by `applied` calls,
  `saved` is not ahead of `saga`, each `pc` implies which calls have been sent and
  which statuses the row can have. It is proved action by action; a step of the
  account service can only complete calls.

  `EventsTellTheStatus` holds under every fault too. Added to
  `Inv` is `StatusAt(t)`, which statuses the saga can find in the table at each
  await: a commit whose result was lost makes `compensate` meet a `COMPLETED` row
  and `giveUp` a `FAILED` one, and nothing else.

  The rest is proved under the assumption `Reliable` that no fault of
  `"transfersDb"`, `"commit"` or `"net"` strikes: the transfer service reads every
  answer and commits every transaction it survives, while replicas may die,
  statements of the account service fail and accounts be frozen at any moment.
  `ContractInv` adds to `Inv` that an answer tells whether money moved, that each
  status tells which calls were applied or refused for good (`StatusTells`), and
  each await which status is in the table (`AwaitTells`). From it follow
  `StatusTellsTheMoney`, `NeverPaidTwice`, and `SagaImplementsContract`: a saga's
  step records, concludes or changes nothing in `TransferContract`, a step of the
  account service moves the money of one transfer that is under way. Without
  `Reliable` all three are false (section 6).

  `MoneyIsKept` proves `BooksBalance` under `Reliable`. `BooksInv` is `Inv`,
  `MoneyInv` of the account service, and that a call carries the amount of its
  order (`CallsMatch`). When no saga is running or was cut short, `ContractInv`
  splits the transfers that were debited into those repaid, to the receiver or the
  sender, and those recorded as `COMPENSATION_FAILED`; the sums over calls are then
  sums over transfers, and the difference is what the table tells.
- **`GatewayIdempotencyProofs`**, for any finite set of attempts and every fault:
  type correctness, `OverlapsNeedExpiry`, `LateAttemptsAreNotExecuted`,
  `RepliesAreTrue`, `RepeatsHaveAReason`. The invariant counts: an attempt that has
  deleted a lock which is not its own did so because its own lock had expired, so
  locks held and locks expired together pay for the executions under way
  (`LocksPay`); as long as nothing is cached they also pay for every execution that
  is over, but for those that gave their lock back without an answer to cache
  (`LocksAreOwed`), and once something is cached only overtaken attempts are
  forwarded. Besides, a final answer heard by a client is in the cache, since it is
  cached before it is returned (`FinalIsCached`, `LateAreServed`).
- **`PortalSessionProofs`**, for any e-mails, exchanges and clock: `EmailsLeadToUsers`,
  `SessionIsWhole`, `SigningOutLasts`. The invariant says of each exchange what its
  handler has found (`HandlersTell`) and of each chain what it waits for
  (`ChainsWait`), that a registration writes the user before the e-mail
  (`Registrations`), and that after a sign-out no chain is left that could bring a
  session back (`NothingBack`).

- **`EventPipelineProofs`**, for any transfers, replicas, batch size and failures:
  `MarkedIsSent`, `AnnouncedFirst`, `DuplicatesHaveACause`. `OutboxInv` says that
  rows are distinct and an announcement is older than the endings of its transfer,
  that whoever holds an ending in a batch holds its announcement too, unless that
  has been sent or shows an error (`AnnouncementsAreHeld`: `First` takes the oldest
  rows, and an insertion keeps their order), and that only rows are sent.
  `CopiesAreAccounted` counts copies: each is paid for by a failure or by a replica
  that will not send the event again without one (`Accounted`).

  For the ledger behind the outbox: the types of the whole pipeline,
  `EntriesAreTrue`, `PairsAreWhole`. `LedgerInv` relates the rows to the outcomes
  (`OutcomesMatchRows`): the message of a completion tells what the table has shown,
  and once that of a failure is written the table shows a failure; every entry, and every
  upsert not settled or in flight, fits its message (`RequestsFit`); and of each
  topic: where the consumer stands (`Position`), that what is not yet written of the
  message at the cursor is being written (`Writes`), and that a message which was
  passed is whole or untouched (`PassedAreWhole`). One failure alone can leave half
  a pair only at a message that will be delivered again (`HalvesAreFailures`), which
  is why it takes two to leave it for good.

- **`AlertsProofs`**, for any transfers, accounts, thresholds, members of the group,
  copies and failures. `FraudInv` proves `AlertsComeInOrder` and
  `FreezesAreDeserved`: only the worker that recorded a transfer judges it
  (`OneJudge`), because the others meet its activity; what that worker has read is
  true enough (`ReadsTruly`: balances no less than the least there was, sums no more
  than what is recorded), and what it still has to raise are the last of the rules
  that were met (`RaisesRest`). So the alerts stored are the first `n` of them, in
  the order of the rules, those published the first `n` or `n - 1` (`Ordered`), and
  whoever is frozen has been drained (`Drained`). `NotifyInv` proves
  `NobodyIsSkipped` and `RepeatsHaveACause`: everything up to the place a topic's
  handler stands at has been told (`Handled`), and a notification has been told at
  most once more than failures struck, and no more often than they struck while it
  is still ahead (`Counted`), since only a failure leads back behind it.
- **`PortalPagesProofs`**, for any ids, services, number of chains and roles; ids
  are neither "none" nor "bad" (`PagesAssumption`). `PagesInv` says of each chain
  what it has heard and which panel it will fill (`Orderly`), that an account whose
  freeze it was told of is suspended (`Truthful`), of each panel that it shows one
  record (`Whole`, `Placed`), that what it shows and every chain under way for it are of what was asked for or
  under way then (`Current`: a chain can only start because it is asked for, or for
  what is shown), that whatever waits has a chain unless it is stranded (`Waits`),
  that one chain at most sends the form and only while it shows that it is being sent
  (`Single`), and that what the gateway keeps for the form's key tells what was paid
  but for what it did not keep (`Counted`). Each of the pages' handlers does one of four things, and
  each of these preserves the invariant: it starts chains (`Launch`), goes on with one
  (`Alters`), ends one (`Settles`), or arrives on a route (`Arrive`). From `PagesInv`
  follow `PanelsAreWhole`, `PanelsFollowTheUser`, `RetriesPayOnce` and
  `NobodyWaitsInVain`.

Only model-checked: liveness under fairness, which TLAPS does not cover (that sagas
end, rows are published, endings reach the ledger and messages are consumed), and the four properties whose runs end in a counterexample.

## 6. What the models show of the code

Four runs end in a counterexample to what a document or a comment promises.

- `saga_frozen`: the sender is frozen between debit and refund; the refund is an
  ordinary credit and is refused; the money is with nobody.
- `pipeline_twice`: two replicas publish one event at two offsets and the ledger,
  which identifies entries by offset, records the transfer twice.
- `gateway_twice`: an attempt reads the cache before the first one ends, takes the
  lock after it has been released, and transfers again.
- `alerts_owned`: the fraud service may not read the balance of an owned account;
  the error leaves the handler, the redelivered event is a duplicate, and a large
  transfer has no alert.

Short of a run:

- A credit whose answer is lost is refunded: the receiver keeps the money and the
  transfer is `failed`. A replica that dies leaves its sagas announced and pending
  for good. A lost commit of `COMPLETED` makes the saga tell consumers two endings,
  and the entries posted for the first stay beside the reversal of the second.
- Both refusals 422 of the account service reach the client as
  `INSUFFICIENT_FUNDS`, and the first explanation of a refused debit may be stale.
- A lookup that fails after one upsert failed leaves half a pair in the ledger.
- An execution of which the gateway keeps no answer (502, 5xx after money moved, a
  replica that died, a lock that expired first) is paid again when the form is sent
  again with the same key. `RetriesPayOnce` counts one payment more for each, and
  `RepeatsHaveAReason` says that nothing else makes the gateway execute a key again.
- A lookup of the transfer service that fails skips the entries of a failed transfer
  for good.
- Two registrations of one e-mail can both be answered 201; one of the two users is
  then found by no login.
- The gateway compares no payloads, so a reused key answers for another transfer.
- A fraud alert that was stored and not sent is never sent; what the rules found
  after it is lost. Draining an account to exactly zero is not a rapid drain, and
  transfers that were refused count as outgoing.
- A notification about an owned account is refused and retried for ever, and blocks
  the partition behind it.
- Logout blacklists the access token it is given; another one of the same user
  stays valid until it expires. A refresh under way at a logout can put a session
  back, also over that of the next user; the theorem states what excludes it.
- `register` ignores the role the portal offers: every account is a customer's.
- A lookup of the id that is already in the address runs no effect: on the ledger
  page, after an account lookup, looking up the routed transfer leaves the
  account's entries on display, which is why `PanelsFollowTheUser` allows what was
  shown before (`left`). A panel shows the last answer it hears, which may be that
  of an older request. A refresh of the fraud page applies filter fields
  that were not applied.
- The pages share one flag for their buttons, and the lookup forms clear it: a
  button can be pressed again while its call is under way. The account form has no
  guard of its own and can create twice, which is answered 409.
- After a final 4xx the transfer form keeps its key, so a corrected form is answered
  the cached 4xx; after a lost answer an edited form is answered the cached 201 of
  the transfer that was made.
- The gateway has no routes for the dashboard's lists, so it always shows the lists
  that ship with the portal, and the stats of their first account, whose id is not a
  UUID, are always refused.
- A creation that is answered after its page was left still navigates. The second
  attempt of `requestJson` is returned and not awaited, so what it throws passes the
  `catch`: the page stays loading.

## 7. Not modelled

Formats, validation, logging and metrics; the two-decimal strings of amounts, which
are integers of cents here; times, except as the expiry of a lock or a token and the
windows of the fraud rules; the day after which a cached answer expires; partitions
of a topic, which share nothing; a message of Kafka that arrives after the publisher
that sent it has died and been replaced; the counters of the rate limits (a 429 is
one of the answers that fail); passwords, which are right or wrong; more than one
tab, since `sessionStorage` is of a tab; wording and layout of the pages; the reads,
freezes and KYC changes that a page of the portal started before it was left, whose
answers set the state of nobody; deployment files, dashboards, load
tests, and the wrappers around Kafka and MongoDB.
