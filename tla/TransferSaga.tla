---------------------------- MODULE TransferSaga ----------------------------
(***************************************************************************)
(* TransferSaga.execute (services/transfer-service/src/saga.ts) and the    *)
(* account service it calls.  A transfer is a POST /transfers: a debit of  *)
(* the sender, a credit of the receiver and, when anything fails after the *)
(* debit, a compensating credit of the sender.                             *)
(*                                                                         *)
(* An action is what execute does between two awaits: the value pc[t] is   *)
(* the await the saga of transfer t is suspended at.  Any number of sagas  *)
(* run at once, in any number of replicas, against the same accounts.      *)
(* Faults selects what can go wrong around them:                           *)
(*   "transfersDb"  a transaction of the transfer service fails;           *)
(*   "commit"       a transaction commits but its result is lost;          *)
(*   "net"          a call breaks, whatever the account service did or     *)
(*                  will still do with it;                                 *)
(*   "accountsDb"   a statement of the account service fails;              *)
(*   "crash"        a replica of the transfer service dies, and the sagas  *)
(*                  it was running with it: nothing resumes them.          *)
(***************************************************************************)
EXTENDS Integers, Sequences, Sums

CONSTANTS AccountIds, Unknown, Amounts, Deposits, MaxBalance, Faults,
          Transfers     \* the requests POST /transfers

VARIABLES created, balance, status, kyc, initialDeposit, call,
  order,     \* the body of the request: from, to, amount
  pc,        \* the await the saga is at
  saga,      \* the SagaState object of execute, in memory
  row,       \* column status of the transfers table, "none" without a row
  saved,     \* column saga_state
  cause,     \* the error execute is handling
  reply,     \* the answer to the client
  events     \* the outbox rows of the transfer, in the order of their commits

Kinds == {"debit", "credit", "refund"}
TransferCalls == Transfers \X Kinds

Account == INSTANCE AccountService WITH Calls <- TransferCalls

accountVars  == <<created, balance, status, kyc, initialDeposit, call>>
accountRows  == <<created, balance, status, kyc, initialDeposit>>
transferVars == <<order, pc, saga, row, saved, cause, reply, events>>
vars         == <<accountVars, transferVars>>

ASSUME TransferAssumption ==
  /\ Account!AccountAssumption
  /\ Transfers # {}

Steps        == {"CREATE", "DEBIT", "CREDIT", "COMPLETED", "COMPENSATION"}
SagaStates   == [step : Steps, debit : BOOLEAN, credit : BOOLEAN,
                 compensation : BOOLEAN]
Terminal     == {"COMPLETED", "FAILED", "COMPENSATION_FAILED"}
RowStatuses  == {"none", "INITIATED", "COMPENSATING"} \cup Terminal
EventTypes   == {"initiated", "completed", "failed"}
Errors       == {"INSUFFICIENT_FUNDS", "ACCOUNT_FROZEN", "NOT_FOUND",
                 "TRANSFER_FAILED"}
Replies      == {"none", "CREATED"} \cup Errors
Running      == {"markDebit", "debit", "markCredit", "credit", "complete",
                 "fail", "compensate", "refund", "refunded", "giveUp"}
PCs          == {"idle", "ended", "crashed"} \cup Running

NewSaga == [step |-> "CREATE", debit |-> FALSE, credit |-> FALSE,
            compensation |-> FALSE]

Orders == {o \in [from : Account!Ids, to : Account!Ids, amount : Amounts] :
             o.from # o.to}

TypeOK ==
  /\ Account!TypeOK
  /\ order \in [Transfers -> Orders]
  /\ pc \in [Transfers -> PCs]
  /\ saga \in [Transfers -> SagaStates]
  /\ row \in [Transfers -> RowStatuses]
  /\ saved \in [Transfers -> SagaStates]
  /\ cause \in [Transfers -> {"none"} \cup Errors]
  /\ reply \in [Transfers -> Replies]
  /\ events \in [Transfers -> Seq(EventTypes)]

Init ==
  /\ Account!Init
  /\ order \in [Transfers -> Orders]
  /\ pc = [t \in Transfers |-> "idle"]
  /\ saga = [t \in Transfers |-> NewSaga]
  /\ row = [t \in Transfers |-> "none"]
  /\ saved = [t \in Transfers |-> NewSaga]
  /\ cause = [t \in Transfers |-> "none"]
  /\ reply = [t \in Transfers |-> "none"]
  /\ events = [t \in Transfers |-> <<>>]

-----------------------------------------------------------------------------
(* The two awaits of a saga: a transaction and a call.                     *)

\* The results of a transaction, and the two questions execute can ask about
\* one: did it take effect, and did the await return.
Outcomes == {"done"} \cup (IF "transfersDb" \in Faults THEN {"failed"} ELSE {})
                     \cup (IF "commit" \in Faults THEN {"unknown"} ELSE {})
Commits(o) == o \in {"done", "unknown"}
Returns(o) == o = "done"

\* Mutant: the flag of the debit is saved before the debit is made.
SaveSaga_Ahead(t, o) ==
  saved' = IF Commits(o) THEN [saved EXCEPT ![t] = [saga[t] EXCEPT !.debit = TRUE]]
           ELSE saved

\* updateSagaState: UPDATE transfers SET saga_state.
SaveSaga(t, o) ==
  saved' = IF Commits(o) THEN [saved EXCEPT ![t] = saga[t]] ELSE saved

\* A transaction that writes the status and saga_state of the transfer and
\* adds outbox rows (createTransferRecord, updateTransferState).
SaveTransfer(t, o, newStatus, newEvents) ==
  /\ SaveSaga(t, o)
  /\ row' = IF Commits(o) THEN [row EXCEPT ![t] = newStatus] ELSE row
  /\ events' = IF Commits(o) THEN [events EXCEPT ![t] = @ \o newEvents]
               ELSE events

Goto(t, label) == pc' = [pc EXCEPT ![t] = label]

\* execute suspends at an httpClient.patch.
Request(t, kind) ==
  /\ Goto(t, kind)
  /\ Account!Send(<<t, kind>>, IF kind = "debit" THEN "debit" ELSE "credit",
                  IF kind = "credit" THEN order[t].to ELSE order[t].from,
                  order[t].amount)

Answered(t, kind, answer) ==
  /\ call[<<t, kind>>].phase = "answered"
  /\ call[<<t, kind>>].answer = answer

\* The error a refused call throws, as routes.ts reports it: both 422 answers
\* of the account service become INSUFFICIENT_FUNDS.
ErrorOf(answer) ==
  CASE answer \in {"INSUFFICIENT_FUNDS", "KYC_NOT_VERIFIED"} -> "INSUFFICIENT_FUNDS"
    [] answer \in {"ACCOUNT_FROZEN", "NOT_FOUND"} -> answer
    [] OTHER -> "TRANSFER_FAILED"

\* A call throws when it is refused, or when its connection breaks before an
\* answer is read: the account service may have handled the request, or may
\* still do so.
Throws(t, kind, error) ==
  \/ \E answer \in Account!Answers \ {"none", "OK"} :
       Answered(t, kind, answer) /\ error = ErrorOf(answer)
  \/ "net" \in Faults /\ error = "TRANSFER_FAILED"

\* Mutant: the catch clause asks for the credit instead of the debit.
Catch_AsksForCredit(t, error) ==
  /\ cause' = [cause EXCEPT ![t] = error]
  /\ Goto(t, IF saga[t].credit THEN "compensate" ELSE "fail")
  /\ UNCHANGED saga

\* Mutant: the catch clause compensates without asking for the debit.
Catch_Compensates(t, error) ==
  /\ cause' = [cause EXCEPT ![t] = error]
  /\ Goto(t, "compensate")
  /\ UNCHANGED saga

\* The catch clause of execute, which asks the saga whether the debit was done.
Catch(t, error) ==
  /\ cause' = [cause EXCEPT ![t] = error]
  /\ IF saga[t].debit
     THEN /\ saga' = [saga EXCEPT ![t].step = "COMPENSATION"]
          /\ Goto(t, "compensate")
     ELSE /\ Goto(t, "fail")
          /\ UNCHANGED saga

\* execute returns or throws, and the route answers.
End(t, answer) ==
  /\ Goto(t, "ended")
  /\ reply' = [reply EXCEPT ![t] = answer]

-----------------------------------------------------------------------------
(* execute, from one await to the next.                                    *)

\* createTransferRecord: the row and the initiated event.  It is outside the
\* try block, so a failure answers 500 and leaves whatever was committed.
Create(t, o) ==
  /\ pc[t] = "idle"
  /\ {order[t].from, order[t].to} \subseteq created \cup {Unknown}
  /\ SaveTransfer(t, o, "INITIATED", <<"initiated">>)
  /\ IF Returns(o)
     THEN /\ saga' = [saga EXCEPT ![t].step = "DEBIT"]
          /\ Goto(t, "markDebit")
          /\ UNCHANGED reply
     ELSE /\ End(t, "TRANSFER_FAILED")
          /\ UNCHANGED saga
  /\ UNCHANGED <<accountVars, order, cause>>

\* The saga records that it is about to debit, then sends the debit.
MarkDebit(t, o) ==
  /\ pc[t] = "markDebit"
  /\ SaveSaga(t, o)
  /\ IF Returns(o)
     THEN /\ Request(t, "debit")
          /\ UNCHANGED <<saga, cause>>
     ELSE /\ Catch(t, "TRANSFER_FAILED")
          /\ UNCHANGED call
  /\ UNCHANGED <<accountRows, order, row, reply, events>>

\* Mutant: the saga forgets the credit.
DebitDone_SkipsCredit(t) ==
  /\ pc[t] = "debit"
  /\ Answered(t, "debit", "OK")
  /\ saga' = [saga EXCEPT ![t].debit = TRUE]
  /\ Goto(t, "complete")
  /\ UNCHANGED <<accountVars, order, row, saved, cause, reply, events>>

DebitDone(t) ==
  /\ pc[t] = "debit"
  /\ Answered(t, "debit", "OK")
  /\ saga' = [saga EXCEPT ![t].debit = TRUE, ![t].step = "CREDIT"]
  /\ Goto(t, "markCredit")
  /\ UNCHANGED <<accountVars, order, row, saved, cause, reply, events>>

DebitThrows(t, error) ==
  /\ pc[t] = "debit"
  /\ Throws(t, "debit", error)
  /\ Catch(t, error)
  /\ UNCHANGED <<accountVars, order, row, saved, reply, events>>

\* The saga records that it is about to credit, then sends the credit.
MarkCredit(t, o) ==
  /\ pc[t] = "markCredit"
  /\ SaveSaga(t, o)
  /\ IF Returns(o)
     THEN /\ Request(t, "credit")
          /\ UNCHANGED <<saga, cause>>
     ELSE /\ Catch(t, "TRANSFER_FAILED")
          /\ UNCHANGED call
  /\ UNCHANGED <<accountRows, order, row, reply, events>>

\* Mutant: a successful credit is taken for an error.
CreditDone_Throws(t) ==
  /\ pc[t] = "credit"
  /\ Answered(t, "credit", "OK")
  /\ Catch(t, "TRANSFER_FAILED")
  /\ UNCHANGED <<accountVars, order, row, saved, reply, events>>

CreditDone(t) ==
  /\ pc[t] = "credit"
  /\ Answered(t, "credit", "OK")
  /\ saga' = [saga EXCEPT ![t].credit = TRUE, ![t].step = "COMPLETED"]
  /\ Goto(t, "complete")
  /\ UNCHANGED <<accountVars, order, row, saved, cause, reply, events>>

CreditThrows(t, error) ==
  /\ pc[t] = "credit"
  /\ Throws(t, "credit", error)
  /\ Catch(t, error)
  /\ UNCHANGED <<accountVars, order, row, saved, reply, events>>

\* COMPLETED and its event; if this transaction throws, the catch clause
\* compensates a transfer whose credit was done.
Complete(t, o) ==
  /\ pc[t] = "complete"
  /\ SaveTransfer(t, o, "COMPLETED", <<"completed">>)
  /\ IF Returns(o)
     THEN /\ End(t, "CREATED")
          /\ UNCHANGED <<saga, cause>>
     ELSE /\ Catch(t, "TRANSFER_FAILED")
          /\ UNCHANGED reply
  /\ UNCHANGED <<accountVars, order>>

\* The error thrown to the route: the one being handled, or the new one when
\* the transaction that was to record it throws.
Rethrow(t, o) == End(t, IF Returns(o) THEN cause[t] ELSE "TRANSFER_FAILED")

\* No debit was seen to succeed: FAILED and its event.
Fail(t, o) ==
  /\ pc[t] = "fail"
  /\ SaveTransfer(t, o, "FAILED", <<"failed">>)
  /\ Rethrow(t, o)
  /\ UNCHANGED <<accountVars, order, saga, cause>>

\* What the mutants of Compensate save, and whether they refund.
Compensating(t, o, newStatus, newEvents, refunds) ==
  /\ pc[t] = "compensate"
  /\ SaveTransfer(t, o, newStatus, newEvents)
  /\ IF refunds
     THEN Request(t, "refund") /\ UNCHANGED reply
     ELSE Rethrow(t, o) /\ UNCHANGED call
  /\ UNCHANGED <<accountRows, order, saga, cause>>

\* Mutants: the refund does not wait for the record; the record is FAILED
\* before the refund; COMPENSATING is announced as a failure.
Compensate_Unlogged(t, o)   == Compensating(t, o, "COMPENSATING", <<>>, TRUE)
Compensate_FailsFirst(t, o) == Compensating(t, o, "FAILED", <<>>, Returns(o))
Compensate_Announces(t, o)  ==
  Compensating(t, o, "COMPENSATING", <<"failed">>, Returns(o))

\* COMPENSATING, without an event, then the refund; if this transaction
\* throws, execute ends without a refund.
Compensate(t, o) ==
  /\ pc[t] = "compensate"
  /\ SaveTransfer(t, o, "COMPENSATING", <<>>)
  /\ IF Returns(o)
     THEN /\ Request(t, "refund")
          /\ UNCHANGED reply
     ELSE /\ Rethrow(t, o)
          /\ UNCHANGED call
  /\ UNCHANGED <<accountRows, order, saga, cause>>

RefundDone(t) ==
  /\ pc[t] = "refund"
  /\ Answered(t, "refund", "OK")
  /\ saga' = [saga EXCEPT ![t].compensation = TRUE]
  /\ Goto(t, "refunded")
  /\ UNCHANGED <<accountVars, order, row, saved, cause, reply, events>>

\* Mutants: a refused refund is taken for a refund; it is not recorded.
RefundThrows_Swallowed(t, error) ==
  /\ pc[t] = "refund"
  /\ Throws(t, "refund", error)
  /\ Goto(t, "refunded")
  /\ UNCHANGED <<accountVars, order, saga, row, saved, cause, reply, events>>

RefundThrows_Unrecorded(t, error) ==
  /\ pc[t] = "refund"
  /\ Throws(t, "refund", error)
  /\ End(t, cause[t])
  /\ UNCHANGED <<accountVars, order, saga, row, saved, cause, events>>

\* The inner catch clause: the original error stays the one to rethrow.
RefundThrows(t, error) ==
  /\ pc[t] = "refund"
  /\ Throws(t, "refund", error)
  /\ Goto(t, "giveUp")
  /\ UNCHANGED <<accountVars, order, saga, row, saved, cause, reply, events>>

\* FAILED and its event after the refund; if this transaction throws, the
\* inner catch clause takes the refund for failed.
Refunded(t, o) ==
  /\ pc[t] = "refunded"
  /\ SaveTransfer(t, o, "FAILED", <<"failed">>)
  /\ IF Returns(o)
     THEN Rethrow(t, o)
     ELSE Goto(t, "giveUp") /\ UNCHANGED reply
  /\ UNCHANGED <<accountVars, order, saga, cause>>

GiveUp(t, o) ==
  /\ pc[t] = "giveUp"
  /\ SaveTransfer(t, o, "COMPENSATION_FAILED", <<"failed">>)
  /\ Rethrow(t, o)
  /\ UNCHANGED <<accountVars, order, saga, cause>>

-----------------------------------------------------------------------------
Execute(t) ==
  \/ \E o \in Outcomes :
       \/ Create(t, o) \/ MarkDebit(t, o) \/ MarkCredit(t, o) \/ Complete(t, o)
       \/ Fail(t, o) \/ Compensate(t, o) \/ Refunded(t, o) \/ GiveUp(t, o)
  \/ DebitDone(t) \/ CreditDone(t) \/ RefundDone(t)
  \/ \E e \in Errors : DebitThrows(t, e) \/ CreditThrows(t, e) \/ RefundThrows(t, e)

\* A replica dies with the sagas it was running.
Crash ==
  /\ "crash" \in Faults
  /\ \E died \in (SUBSET {t \in Transfers : pc[t] \in Running}) \ {{}} :
       pc' = [t \in Transfers |-> IF t \in died THEN "crashed" ELSE pc[t]]
  /\ UNCHANGED <<accountVars, order, saga, row, saved, cause, reply, events>>

Accounts ==
  /\ \/ Account!Manage
     \/ \E c \in TransferCalls : Account!Handle(c) \/ Account!LoseCall(c)
  /\ UNCHANGED transferVars

Next == Accounts \/ Crash \/ \E t \in Transfers : Execute(t)

\* Promises settle and queries return: a saga that can take its next step is
\* not left behind, nor is a request the account service has accepted.
Fairness ==
  /\ \A t \in Transfers : WF_vars(pc[t] # "idle" /\ Execute(t))
  /\ \A c \in TransferCalls : WF_vars(Account!Handle(c) /\ UNCHANGED transferVars)

Spec == Init /\ [][Next]_vars
FairSpec == Spec /\ Fairness

-----------------------------------------------------------------------------
(* What holds whatever fails.                                              *)

Applied(t, kind) == call[<<t, kind>>].applied
Sent(t, kind)    == call[<<t, kind>>].phase # "idle"

\* A transfer the table calls COMPLETED has been debited and credited, and no
\* refund of it is, was or will be under way, even when a COMPLETED whose
\* commit was not seen sends execute into its catch clause.
CompletedIsPaid ==
  \A t \in Transfers :
    row[t] = "COMPLETED" =>
      Applied(t, "debit") /\ Applied(t, "credit") /\ ~Sent(t, "refund")

\* The refund is written ahead: it is on its way only when the table shows, to
\* whoever looks after a crash, that the transfer was being compensated.
RefundIsLogged ==
  \A t \in Transfers :
    Sent(t, "refund") =>
      row[t] \in {"COMPENSATING", "FAILED", "COMPENSATION_FAILED"}

\* No money reaches the receiver, or returns to the sender, that the sender
\* was not debited: the saga trusts only an answer 200 of its own debit.
NothingFromNothing ==
  \A t \in Transfers :
    Applied(t, "credit") \/ Applied(t, "refund") => Applied(t, "debit")

\* The flags in the saga_state column, which the ledger service reads to decide
\* whether a failed transfer moved money, never run ahead of the money.
SavedFlagsAreTrue ==
  \A t \in Transfers :
    /\ saved[t].debit => Applied(t, "debit")
    /\ saved[t].credit => Applied(t, "credit")
    /\ saved[t].compensation => Applied(t, "refund")

\* The last ending that consumers are told agrees with the status.  When the
\* result of a commit is lost they may be told two, but a failure is never
\* followed by a completion, and nothing is told of a compensation under way.
EventsTellTheStatus ==
  \A t \in Transfers :
    LET told == events[t]
    IN  /\ row[t] = "none" <=> told = <<>>
        /\ \A i \in DOMAIN told : /\ told[i] = "initiated" <=> i = 1
                                  /\ told[i] = "completed" => i = 2
        /\ row[t] = "INITIATED" => Len(told) = 1
        /\ row[t] = "COMPENSATING" => \A i \in DOMAIN told : told[i] # "failed"
        /\ row[t] = "COMPLETED" => told[Len(told)] = "completed"
        /\ row[t] \in {"FAILED", "COMPENSATION_FAILED"} => told[Len(told)] = "failed"

-----------------------------------------------------------------------------
(* What holds while the transfer service reads every answer and commits    *)
(* every transaction it survives.                                          *)

\* The terminal statuses tell where the money is: COMPLETED with the receiver,
\* FAILED back with or still with the sender, COMPENSATION_FAILED with neither.
StatusTellsTheMoney ==
  \A t \in Transfers :
    /\ row[t] = "FAILED" =>
         ~Applied(t, "credit") /\ (Applied(t, "debit") <=> Applied(t, "refund"))
    /\ row[t] = "COMPENSATION_FAILED" =>
         /\ Applied(t, "debit")
         /\ ~Applied(t, "credit") /\ ~Applied(t, "refund")

\* A transfer never pays both sides.
NeverPaidTwice ==
  \A t \in Transfers : ~(Applied(t, "credit") /\ Applied(t, "refund"))

\* When no saga is running or was cut short, the money in the accounts is the
\* money deposited, less the transfers the table shows as COMPENSATION_FAILED:
\* an operator who repays those has repaid everything.
BooksBalance ==
  (\A t \in Transfers : pc[t] \in {"idle", "ended"}) =>
    Sum(created, balance) =
      Sum(created, initialDeposit)
        - Sum({t \in Transfers : row[t] = "COMPENSATION_FAILED"},
              [t \in Transfers |-> order[t].amount])

\* The saga implements the contract: where the accounts and the calls have put
\* the money is the money of the contract, the status column is its outcome.
Money(t) == IF ~Applied(t, "debit") THEN "sender"
            ELSE IF Applied(t, "credit") THEN "receiver"
            ELSE IF Applied(t, "refund") THEN "returned"
            ELSE "held"

Outcome(t) == CASE row[t] = "none"                -> "none"
                [] row[t] = "COMPLETED"           -> "completed"
                [] row[t] = "FAILED"              -> "failed"
                [] row[t] = "COMPENSATION_FAILED" -> "stranded"
                [] OTHER                          -> "pending"

Contract == INSTANCE TransferContract
              WITH outcome <- [t \in Transfers |-> Outcome(t)],
                   money   <- [t \in Transfers |-> Money(t)]

\* Every step of the saga is a step of the contract or changes nothing in it.
ImplementsContract == Contract!Spec

-----------------------------------------------------------------------------
(* What the fairness of promises and queries brings about.                 *)

\* Every request is answered, and its transfer has then reached a terminal
\* status or the client was told 500 because a transaction failed, however
\* freezes, KYC changes, other transfers and failing statements interfere; only
\* a saga whose replica died, or one of whose requests was lost, is excused.
TransfersEnd ==
  \A t \in Transfers :
    pc[t] # "idle" ~>
      \/ pc[t] = "ended" /\ (row[t] \in Terminal \/ reply[t] = "TRANSFER_FAILED")
      \/ pc[t] = "crashed"
      \/ \E kind \in Kinds : call[<<t, kind>>].phase = "lost"

-----------------------------------------------------------------------------
(* What the documents say and the code does not do.                        *)

\* "If anything goes wrong after the debit succeeds, the debit is automatically
\* reversed so no money is lost": a transfer that ended is not left debited
\* with nobody paid.  A freeze of the sender between debit and refund does it.
NoMoneyIsLost ==
  \A t \in Transfers :
    pc[t] = "ended" /\ Applied(t, "debit") =>
      Applied(t, "credit") \/ Applied(t, "refund")
=============================================================================
