------------------------- MODULE TransferSagaProofs -------------------------
(***************************************************************************)
(* Theorems about the transfer saga, for any accounts, amounts, transfers  *)
(* and faults.  What its steps do to the calls is taken from the theorems  *)
(* about the account service.                                              *)
(***************************************************************************)
EXTENDS TransferSaga, SumsProofs, SequenceTheorems

AccountProofs == INSTANCE AccountServiceProofs WITH Calls <- TransferCalls

-----------------------------------------------------------------------------
(* The account service as the saga and as its theorems name it.            *)

LEMMA AccountAssumed == AccountProofs!AccountAssumption
  BY TransferAssumption DEF Account!AccountAssumption, Account!FaultKinds,
     AccountProofs!AccountAssumption, AccountProofs!FaultKinds

LEMMA SameType ==
  /\ Account!TypeOK <=> AccountProofs!TypeOK
  /\ Account!TypeOK' <=> AccountProofs!TypeOK'
  BY DEF Account!TypeOK, Account!Phases, Account!Answers, Account!Refusals,
         Account!Statuses, Account!KycStatuses, Account!Ids,
         AccountProofs!TypeOK, AccountProofs!Phases, AccountProofs!Answers,
         AccountProofs!Refusals, AccountProofs!Statuses,
         AccountProofs!KycStatuses, AccountProofs!Ids

LEMMA SameManage == Account!Manage => AccountProofs!Manage
  BY DEF Account!Manage, Account!CreateAccount, Account!UpdateKyc,
         Account!Freeze, Account!KycStatuses,
         AccountProofs!Manage, AccountProofs!CreateAccount,
         AccountProofs!UpdateKyc, AccountProofs!Freeze,
         AccountProofs!KycStatuses

LEMMA SameHandle ==
  ASSUME NEW c \in TransferCalls, Account!Handle(c) \/ Account!LoseCall(c)
  PROVE  AccountProofs!Handle(c) \/ AccountProofs!LoseCall(c)
<1>1. Account!DebitMatches(c) <=> AccountProofs!DebitMatches(c)
  BY DEF Account!DebitMatches, AccountProofs!DebitMatches
<1>2. Account!CreditMatches(c) <=> AccountProofs!CreditMatches(c)
  BY DEF Account!CreditMatches, AccountProofs!CreditMatches
<1>3. ASSUME NEW applied, NEW answer, Account!Answer(c, applied, answer)
      PROVE  AccountProofs!Answer(c, applied, answer)
  BY <1>3 DEF Account!Answer, AccountProofs!Answer
<1>4. Account!AppliedAnswers = AccountProofs!AppliedAnswers
  BY DEF Account!AppliedAnswers, AccountProofs!AppliedAnswers
<1>5. ASSUME Account!Debit(c) PROVE AccountProofs!Debit(c)
  BY <1>1, <1>3, <1>4, <1>5 DEF Account!Debit, AccountProofs!Debit
<1>6. ASSUME Account!Credit(c) PROVE AccountProofs!Credit(c)
  BY <1>2, <1>3, <1>4, <1>6 DEF Account!Credit, AccountProofs!Credit
<1>7. ASSUME Account!CreditOverflows(c) PROVE AccountProofs!CreditOverflows(c)
  BY <1>2, <1>3, <1>7 DEF Account!CreditOverflows, Account!accountRows,
     AccountProofs!CreditOverflows, AccountProofs!accountRows
<1>8. ASSUME Account!Miss(c) PROVE AccountProofs!Miss(c)
  BY <1>1, <1>2, <1>8 DEF Account!Miss, Account!accountRows,
     AccountProofs!Miss, AccountProofs!accountRows
<1>9. ASSUME Account!Explain(c) PROVE AccountProofs!Explain(c)
  BY <1>3, <1>9 DEF Account!Explain, Account!DebitRefusal,
     Account!CreditRefusal, Account!accountRows,
     AccountProofs!Explain, AccountProofs!DebitRefusal,
     AccountProofs!CreditRefusal, AccountProofs!accountRows
<1>10. ASSUME Account!StatementFails(c) PROVE AccountProofs!StatementFails(c)
  BY <1>3, <1>10 DEF Account!StatementFails, Account!accountRows,
     AccountProofs!StatementFails, AccountProofs!accountRows
<1>11. ASSUME Account!LoseCall(c) PROVE AccountProofs!LoseCall(c)
  BY <1>11 DEF Account!LoseCall, Account!accountRows,
     AccountProofs!LoseCall, AccountProofs!accountRows
<1>. QED
  BY <1>5, <1>6, <1>7, <1>8, <1>9, <1>10, <1>11
     DEF Account!Handle, AccountProofs!Handle

LEMMA SameSend ==
  ASSUME NEW c \in TransferCalls, NEW op, NEW a, NEW m, Account!Send(c, op, a, m)
  PROVE  AccountProofs!Send(c, op, a, m)
  BY DEF Account!Send, AccountProofs!Send

\* The request of a saga is a well-formed request to the account service.
LEMMA RequestSends ==
  ASSUME TypeOK, NEW t \in Transfers, NEW kind \in Kinds, Request(t, kind)
  PROVE  \E op \in {"debit", "credit"}, a \in Account!Ids, m \in Amounts :
           Account!Send(<<t, kind>>, op, a, m)
<1>. DEFINE op == IF kind = "debit" THEN "debit" ELSE "credit"
            a  == IF kind = "credit" THEN order[t].to ELSE order[t].from
<1>1. order[t] \in Orders
  BY DEF TypeOK
<1>2. a \in Account!Ids /\ order[t].amount \in Amounts /\ op \in {"debit", "credit"}
  BY <1>1 DEF Orders
<1>3. Account!Send(<<t, kind>>, op, a, order[t].amount)
  BY DEF Request
<1>. QED
  BY <1>2, <1>3

-----------------------------------------------------------------------------
(* Type correctness.                                                       *)

\* TypeOK of the transfer service alone.
TransferTypeOK ==
  /\ order \in [Transfers -> Orders]
  /\ pc \in [Transfers -> PCs]
  /\ saga \in [Transfers -> SagaStates]
  /\ row \in [Transfers -> RowStatuses]
  /\ saved \in [Transfers -> SagaStates]
  /\ cause \in [Transfers -> {"none"} \cup Errors]
  /\ reply \in [Transfers -> Replies]
  /\ events \in [Transfers -> Seq(EventTypes)]

LEMMA TypeSplit ==
  /\ TypeOK <=> Account!TypeOK /\ TransferTypeOK
  /\ TypeOK' <=> Account!TypeOK' /\ TransferTypeOK'
  BY DEF TypeOK, TransferTypeOK

LEMMA InitType == Init => TypeOK
<1>. SUFFICES ASSUME Init PROVE TypeOK
  OBVIOUS
<1>1. Account!TypeOK
  BY AccountAssumed, SameType, AccountProofs!InitType
     DEF Init, Account!Init, Account!NoCall, AccountProofs!Init, AccountProofs!NoCall
<1>2. TransferTypeOK
  BY DEF Init, TransferTypeOK, PCs, NewSaga, SagaStates, Steps, RowStatuses, Replies
<1>. QED
  BY <1>1, <1>2, TypeSplit

\* Sending a call keeps the types of the account service, and moves the saga
\* to the await of that call.
LEMMA RequestType ==
  ASSUME TypeOK, NEW t \in Transfers, NEW kind \in Kinds,
         Request(t, kind), UNCHANGED accountRows
  PROVE  /\ Account!TypeOK'
         /\ pc' \in [Transfers -> PCs]
<1>1. PICK op \in {"debit", "credit"}, a \in Account!Ids, m \in Amounts :
        Account!Send(<<t, kind>>, op, a, m)
  BY RequestSends
<1>2. /\ <<t, kind>> \in TransferCalls
      /\ a \in AccountProofs!Ids
      /\ UNCHANGED AccountProofs!accountRows
  BY DEF TransferCalls, Account!Ids, AccountProofs!Ids, accountRows, AccountProofs!accountRows
<1>3. AccountProofs!Send(<<t, kind>>, op, a, m)
  BY <1>1, <1>2, SameSend
<1>4. AccountProofs!TypeOK'
  BY <1>2, <1>3, AccountAssumed, SameType, TypeSplit, AccountProofs!SendType
<1>5. pc' \in [Transfers -> PCs]
  BY DEF Request, Goto, TypeOK, PCs, Running, Kinds
<1>. QED
  BY <1>4, <1>5, SameType

\* The columns and the outbox after a transaction.
LEMMA SaveTransferType ==
  ASSUME TypeOK, NEW t \in Transfers, NEW o \in Outcomes,
         NEW newStatus \in RowStatuses, NEW newEvents \in Seq(EventTypes),
         SaveTransfer(t, o, newStatus, newEvents)
  PROVE  /\ row' \in [Transfers -> RowStatuses]
         /\ saved' \in [Transfers -> SagaStates]
         /\ events' \in [Transfers -> Seq(EventTypes)]
<1>1. events[t] \o newEvents \in Seq(EventTypes)
  BY ConcatProperties DEF TypeOK
<1>. QED
  BY <1>1 DEF SaveTransfer, SaveSaga, TypeOK

LEMMA SaveSagaType ==
  ASSUME TypeOK, NEW t \in Transfers, NEW o \in Outcomes, SaveSaga(t, o)
  PROVE  saved' \in [Transfers -> SagaStates]
  BY DEF SaveSaga, TypeOK

\* The assignments execute makes to its SagaState.
LEMMA SagaStatesClosed ==
  ASSUME NEW s \in SagaStates, NEW step \in Steps
  PROVE  /\ [s EXCEPT !.step = step] \in SagaStates
         /\ [s EXCEPT !.debit = TRUE, !.step = step] \in SagaStates
         /\ [s EXCEPT !.credit = TRUE, !.step = step] \in SagaStates
         /\ [s EXCEPT !.compensation = TRUE] \in SagaStates
  BY DEF SagaStates

LEMMA CatchType ==
  ASSUME TypeOK, NEW t \in Transfers, NEW error \in Errors, Catch(t, error)
  PROVE  /\ cause' \in [Transfers -> {"none"} \cup Errors]
         /\ saga' \in [Transfers -> SagaStates]
         /\ pc' \in [Transfers -> PCs]
<1>1. [saga[t] EXCEPT !.step = "COMPENSATION"] \in SagaStates
  BY SagaStatesClosed DEF TypeOK, Steps
<1>2. saga' \in [Transfers -> SagaStates]
  BY <1>1 DEF Catch, TypeOK
<1>. QED
  BY <1>2 DEF Catch, Goto, TypeOK, PCs, Running

LEMMA EndType ==
  ASSUME TypeOK, NEW t \in Transfers, NEW answer \in Replies, End(t, answer)
  PROVE  /\ pc' \in [Transfers -> PCs]
         /\ reply' \in [Transfers -> Replies]
  BY DEF End, Goto, TypeOK, PCs

LEMMA RethrowType ==
  ASSUME TypeOK, NEW t \in Transfers, NEW o \in Outcomes, Rethrow(t, o)
  PROVE  /\ pc' \in [Transfers -> PCs]
         /\ reply' \in [Transfers -> Replies]
<1>1. cause[t] \in Replies /\ "TRANSFER_FAILED" \in Replies
  BY DEF TypeOK, Replies, Errors
<1>. QED
  BY <1>1, EndType DEF Rethrow

\* The steps that run a transaction.
LEMMA TransactionType ==
  ASSUME TypeOK, NEW t \in Transfers, NEW o \in Outcomes,
         \/ Create(t, o) \/ MarkDebit(t, o) \/ MarkCredit(t, o)
         \/ Complete(t, o) \/ Fail(t, o) \/ Compensate(t, o)
         \/ Refunded(t, o) \/ GiveUp(t, o)
  PROVE  TypeOK'
<1>. USE TypeSplit DEF EventTypes, Kinds
<1>a. UNCHANGED accountVars => Account!TypeOK'
  BY DEF accountVars, Account!TypeOK
<1>b. UNCHANGED <<accountRows, call>> => UNCHANGED accountVars
  BY DEF accountRows, accountVars
<1>c. /\ "TRANSFER_FAILED" \in Errors
      /\ {"CREATED", "TRANSFER_FAILED"} \subseteq Replies
      /\ {"INITIATED", "COMPLETED", "FAILED", "COMPENSATING",
          "COMPENSATION_FAILED"} \subseteq RowStatuses
      /\ {"markDebit", "giveUp"} \subseteq PCs
  BY DEF Errors, Replies, RowStatuses, Terminal, PCs, Running
<1>d. /\ <<"initiated">> \in Seq(EventTypes) /\ <<"completed">> \in Seq(EventTypes)
      /\ <<"failed">> \in Seq(EventTypes) /\ <<>> \in Seq(EventTypes)
  OBVIOUS
<1>1. CASE Create(t, o)
  <2>1. Account!TypeOK'
    BY <1>1, <1>a DEF Create
  <2>2. /\ row' \in [Transfers -> RowStatuses]
        /\ saved' \in [Transfers -> SagaStates]
        /\ events' \in [Transfers -> Seq(EventTypes)]
    BY <1>1, <1>c, <1>d, SaveTransferType DEF Create
  <2>3. [saga[t] EXCEPT !.step = "DEBIT"] \in SagaStates
    BY SagaStatesClosed DEF TypeOK, Steps
  <2>4. /\ saga' \in [Transfers -> SagaStates]
        /\ pc' \in [Transfers -> PCs]
        /\ reply' \in [Transfers -> Replies]
    BY <1>1, <1>c, <2>3, EndType DEF Create, Goto, TypeOK
  <2>. QED
    BY <1>1, <2>1, <2>2, <2>4 DEF Create, TransferTypeOK
<1>2. CASE MarkDebit(t, o)
  <2>1. saved' \in [Transfers -> SagaStates]
    BY <1>2, SaveSagaType DEF MarkDebit
  <2>2. CASE Returns(o)
    BY <1>2, <2>1, <2>2, RequestType DEF MarkDebit, TransferTypeOK
  <2>3. CASE ~Returns(o)
    BY <1>2, <1>a, <1>b, <1>c, <2>1, <2>3, CatchType DEF MarkDebit, TransferTypeOK
  <2>. QED
    BY <2>2, <2>3
<1>3. CASE MarkCredit(t, o)
  <2>1. saved' \in [Transfers -> SagaStates]
    BY <1>3, SaveSagaType DEF MarkCredit
  <2>2. CASE Returns(o)
    BY <1>3, <2>1, <2>2, RequestType DEF MarkCredit, TransferTypeOK
  <2>3. CASE ~Returns(o)
    BY <1>3, <1>a, <1>b, <1>c, <2>1, <2>3, CatchType DEF MarkCredit, TransferTypeOK
  <2>. QED
    BY <2>2, <2>3
<1>4. CASE Complete(t, o)
  <2>1. /\ row' \in [Transfers -> RowStatuses]
        /\ saved' \in [Transfers -> SagaStates]
        /\ events' \in [Transfers -> Seq(EventTypes)]
    BY <1>4, <1>c, <1>d, SaveTransferType DEF Complete
  <2>2. CASE Returns(o)
    BY <1>4, <1>a, <1>c, <2>1, <2>2, EndType DEF Complete, TransferTypeOK
  <2>3. CASE ~Returns(o)
    BY <1>4, <1>a, <1>c, <2>1, <2>3, CatchType DEF Complete, TransferTypeOK
  <2>. QED
    BY <2>2, <2>3
<1>5. CASE Fail(t, o)
  BY <1>5, <1>a, <1>c, <1>d, SaveTransferType, RethrowType DEF Fail, TransferTypeOK
<1>6. CASE Compensate(t, o)
  <2>1. /\ row' \in [Transfers -> RowStatuses]
        /\ saved' \in [Transfers -> SagaStates]
        /\ events' \in [Transfers -> Seq(EventTypes)]
    BY <1>6, <1>c, <1>d, SaveTransferType DEF Compensate
  <2>2. CASE Returns(o)
    BY <1>6, <2>1, <2>2, RequestType DEF Compensate, TransferTypeOK
  <2>3. CASE ~Returns(o)
    BY <1>6, <1>a, <1>b, <2>1, <2>3, RethrowType DEF Compensate, TransferTypeOK
  <2>. QED
    BY <2>2, <2>3
<1>7. CASE Refunded(t, o)
  <2>1. /\ row' \in [Transfers -> RowStatuses]
        /\ saved' \in [Transfers -> SagaStates]
        /\ events' \in [Transfers -> Seq(EventTypes)]
    BY <1>7, <1>c, <1>d, SaveTransferType DEF Refunded
  <2>2. pc' \in [Transfers -> PCs] /\ reply' \in [Transfers -> Replies]
    BY <1>7, <1>c, RethrowType DEF Refunded, Goto, TypeOK
  <2>. QED
    BY <1>7, <1>a, <2>1, <2>2 DEF Refunded, TransferTypeOK
<1>8. CASE GiveUp(t, o)
  BY <1>8, <1>a, <1>c, <1>d, SaveTransferType, RethrowType DEF GiveUp, TransferTypeOK
<1>. QED
  BY <1>1, <1>2, <1>3, <1>4, <1>5, <1>6, <1>7, <1>8

\* The steps that end an await on a call.
LEMMA AwaitType ==
  ASSUME TypeOK, NEW t \in Transfers,
         \/ DebitDone(t) \/ CreditDone(t) \/ RefundDone(t)
         \/ \E e \in Errors :
              DebitThrows(t, e) \/ CreditThrows(t, e) \/ RefundThrows(t, e)
  PROVE  TypeOK'
<1>. USE TypeSplit
<1>a. UNCHANGED accountVars => Account!TypeOK'
  BY DEF accountVars, Account!TypeOK
<1>1. CASE DebitDone(t) \/ CreditDone(t) \/ RefundDone(t)
  <2>1. PICK s \in SagaStates : saga' = [saga EXCEPT ![t] = s]
    <3>. DEFINE s1 == [saga[t] EXCEPT !.debit = TRUE, !.step = "CREDIT"]
                s2 == [saga[t] EXCEPT !.credit = TRUE, !.step = "COMPLETED"]
                s3 == [saga[t] EXCEPT !.compensation = TRUE]
    <3>1. s1 \in SagaStates /\ s2 \in SagaStates /\ s3 \in SagaStates
      BY SagaStatesClosed DEF TypeOK, Steps
    <3>2. \/ saga' = [saga EXCEPT ![t] = s1] \/ saga' = [saga EXCEPT ![t] = s2]
          \/ saga' = [saga EXCEPT ![t] = s3]
      BY <1>1 DEF DebitDone, CreditDone, RefundDone
    <3>. QED
      BY <3>1, <3>2
  <2>2. pc' \in [Transfers -> PCs]
    BY <1>1 DEF DebitDone, CreditDone, RefundDone, Goto, TypeOK, PCs, Running
  <2>3. UNCHANGED <<accountVars, order, row, saved, cause, reply, events>>
    BY <1>1 DEF DebitDone, CreditDone, RefundDone
  <2>. QED
    BY <1>a, <2>1, <2>2, <2>3 DEF TransferTypeOK
<1>2. ASSUME NEW e \in Errors, DebitThrows(t, e) \/ CreditThrows(t, e)
      PROVE  TypeOK'
  BY <1>2, <1>a, CatchType DEF DebitThrows, CreditThrows, TransferTypeOK
<1>3. ASSUME NEW e \in Errors, RefundThrows(t, e)
      PROVE  TypeOK'
  BY <1>3, <1>a DEF RefundThrows, Goto, TransferTypeOK, PCs, Running
<1>. QED
  BY <1>1, <1>2, <1>3

LEMMA ElsewhereType ==
  ASSUME TypeOK, Accounts \/ Crash \/ UNCHANGED vars
  PROVE  TypeOK'
<1>. USE TypeSplit
<1>1. CASE Accounts
  <2>1. TransferTypeOK'
    BY <1>1 DEF Accounts, transferVars, TransferTypeOK
  <2>2. AccountProofs!TypeOK'
    BY <1>1, AccountAssumed, SameType, SameManage, SameHandle,
       AccountProofs!ManageType, AccountProofs!HandleType DEF Accounts
  <2>. QED
    BY <2>1, <2>2, SameType
<1>2. CASE Crash
  BY <1>2 DEF Crash, accountVars, Account!TypeOK, TransferTypeOK, PCs
<1>3. CASE UNCHANGED vars
  BY <1>3 DEF vars, accountVars, transferVars, Account!TypeOK, TransferTypeOK
<1>. QED
  BY <1>1, <1>2, <1>3

LEMMA StepType == TypeOK /\ [Next]_vars => TypeOK'
  BY TransactionType, AwaitType, ElsewhereType DEF Next, Execute

\* Type correctness: balances stay in their column and every saga at one of its
\* awaits, whatever fails.
THEOREM TypeCorrect == Spec => []TypeOK
  BY InitType, StepType, PTL DEF Spec

-----------------------------------------------------------------------------
(* What holds whatever fails: the inductive invariant.                     *)

Compensated == {"COMPENSATING", "FAILED", "COMPENSATION_FAILED"}

\* The flags of a SagaState never run ahead of the money.
FlagsAreTrue(t, s) ==
  /\ s.debit => Applied(t, "debit")
  /\ s.credit => Applied(t, "credit")
  /\ s.compensation => Applied(t, "refund")

\* The awaits from which a call has not been sent yet, and those the saga
\* reaches only after it saw its debit succeed.
BeforeDebit  == {"idle", "markDebit"}
BeforeCredit == BeforeDebit \cup {"debit", "fail", "markCredit"}
BeforeRefund == BeforeCredit \cup {"credit", "complete", "compensate"}
AfterDebit   == {"markCredit", "credit", "complete", "compensate", "refund",
                 "refunded", "giveUp"}

SagaInv(t) ==
  /\ FlagsAreTrue(t, saga[t])
  /\ FlagsAreTrue(t, saved[t])
  /\ Sent(t, "credit") \/ Sent(t, "refund") => Applied(t, "debit")
  /\ Sent(t, "refund") => row[t] \in Compensated
  /\ row[t] = "COMPLETED" =>
       Applied(t, "debit") /\ Applied(t, "credit") /\ ~Sent(t, "refund")
  /\ pc[t] \in BeforeDebit => ~Sent(t, "debit")
  /\ pc[t] \in BeforeCredit => ~Sent(t, "credit")
  /\ pc[t] \in BeforeRefund => ~Sent(t, "refund")
  /\ pc[t] \in AfterDebit => saga[t].debit
  /\ pc[t] = "complete" => Applied(t, "credit")

Inv == /\ TypeOK
       /\ AccountProofs!CallsTell
       /\ \A t \in Transfers : SagaInv(t)

\* The effects of the calls only grow.
EffectsGrow ==
  \A t \in Transfers, kind \in Kinds : Applied(t, kind) => Applied(t, kind)'

\* A saga that sends a call touches no other call.
LEMMA RequestStep ==
  ASSUME TypeOK, AccountProofs!CallsTell, NEW t \in Transfers,
         NEW kind \in Kinds, Request(t, kind)
  PROVE  /\ AccountProofs!CallsTell'
         /\ EffectsGrow
         /\ Sent(t, kind)'
         /\ \A u \in Transfers, k \in Kinds :
              <<u, k>> # <<t, kind>> => call'[<<u, k>>] = call[<<u, k>>]
         /\ pc' = [pc EXCEPT ![t] = kind]
<1>1. PICK op, a, m : Account!Send(<<t, kind>>, op, a, m)
  BY RequestSends
<1>2. <<t, kind>> \in TransferCalls
  BY DEF TransferCalls
<1>3. AccountProofs!TypeOK
  BY TypeSplit, SameType
<1>4. /\ AccountProofs!CallsTell'
      /\ call'[<<t, kind>>].phase = "sent" /\ ~call[<<t, kind>>].applied
      /\ \A d \in TransferCalls \ {<<t, kind>>} : call'[d] = call[d]
  BY <1>1, <1>2, <1>3, SameSend, AccountAssumed, AccountProofs!SendStep
<1>5. \A u \in Transfers, k \in Kinds :
        <<u, k>> # <<t, kind>> => call'[<<u, k>>] = call[<<u, k>>]
  BY <1>4 DEF TransferCalls
<1>6. EffectsGrow
  <2>. SUFFICES ASSUME NEW u \in Transfers, NEW k \in Kinds, Applied(u, k)
                PROVE  Applied(u, k)'
    BY DEF EffectsGrow
  <2>1. <<u, k>> # <<t, kind>>
    BY <1>4 DEF Applied
  <2>. QED
    BY <1>5, <2>1 DEF Applied
<1>. QED
  BY <1>4, <1>5, <1>6 DEF Sent, Request, Goto

\* The saga leaves the calls alone.
LEMMA CallsAlone ==
  ASSUME AccountProofs!CallsTell, UNCHANGED call
  PROVE  /\ AccountProofs!CallsTell'
         /\ EffectsGrow
         /\ \A u \in Transfers, k \in Kinds : call'[<<u, k>>] = call[<<u, k>>]
  BY DEF AccountProofs!CallsTell, EffectsGrow, Applied

\* An answer 200 that a saga reads is about money that moved.
LEMMA AnsweredOK ==
  ASSUME AccountProofs!CallsTell, NEW t \in Transfers, NEW kind \in Kinds,
         Answered(t, kind, "OK")
  PROVE  Applied(t, kind)
<1>1. <<t, kind>> \in TransferCalls
  BY DEF TransferCalls
<1>. QED
  BY <1>1 DEF AccountProofs!CallsTell, Answered, Applied

\* The invariant of a saga survives every step that is not its own.
LEMMA OthersKeep ==
  ASSUME NEW u \in Transfers, SagaInv(u), EffectsGrow,
         \A k \in Kinds : Sent(u, k)' <=> Sent(u, k),
         saga'[u] = saga[u], saved'[u] = saved[u], row'[u] = row[u],
         pc'[u] = pc[u] \/ pc'[u] = "crashed"
  PROVE  SagaInv(u)'
<1>. DEFINE A(k) == Applied(u, k)
            S(k) == Sent(u, k)
<1>1. /\ A("debit") => A("debit")'
      /\ A("credit") => A("credit")'
      /\ A("refund") => A("refund")'
  BY DEF EffectsGrow, Kinds
<1>2. /\ S("debit")' <=> S("debit")
      /\ S("credit")' <=> S("credit")
      /\ S("refund")' <=> S("refund")
  BY DEF Kinds
<1>3. "crashed" \notin BeforeRefund \cup AfterDebit
  BY DEF BeforeDebit, BeforeCredit, BeforeRefund, AfterDebit
<1>. HIDE DEF A, S
<1>. QED
  BY <1>1, <1>2, <1>3 DEF SagaInv, FlagsAreTrue, A, S,
     BeforeDebit, BeforeCredit, BeforeRefund

\* What a step of saga t leaves alone: everything of the other sagas.
OthersAlone(t) ==
  \A u \in Transfers \ {t} :
    /\ saga'[u] = saga[u] /\ saved'[u] = saved[u]
    /\ row'[u] = row[u]   /\ pc'[u] = pc[u]
    /\ \A k \in Kinds : Sent(u, k)' <=> Sent(u, k)

\* The columns after a transaction: those of t are the ones written, if it
\* committed, and the others stay.
LEMMA SaveTransferStep ==
  ASSUME TypeOK, NEW t \in Transfers, NEW o, NEW s, NEW e, SaveTransfer(t, o, s, e)
  PROVE  /\ row'[t] = IF Commits(o) THEN s ELSE row[t]
         /\ saved'[t] = IF Commits(o) THEN saga[t] ELSE saved[t]
         /\ \A u \in Transfers \ {t} : row'[u] = row[u] /\ saved'[u] = saved[u]
  BY DEF SaveTransfer, SaveSaga, TypeOK

LEMMA SaveSagaStep ==
  ASSUME TypeOK, NEW t \in Transfers, NEW o, SaveSaga(t, o)
  PROVE  /\ saved'[t] = saga[t] \/ saved'[t] = saved[t]
         /\ \A u \in Transfers \ {t} : saved'[u] = saved[u]
  BY DEF SaveSaga, TypeOK

\* The catch clause changes no flag, and asks debit_completed where to go.
LEMMA CatchStep ==
  ASSUME TypeOK, NEW t \in Transfers, NEW error, Catch(t, error)
  PROVE  /\ saga'[t].debit = saga[t].debit
         /\ saga'[t].credit = saga[t].credit
         /\ saga'[t].compensation = saga[t].compensation
         /\ pc'[t] = IF saga[t].debit THEN "compensate" ELSE "fail"
         /\ \A u \in Transfers \ {t} : saga'[u] = saga[u] /\ pc'[u] = pc[u]
<1>1. saga[t] \in SagaStates
  BY DEF TypeOK
<1>. DEFINE s == [saga[t] EXCEPT !.step = "COMPENSATION"]
<1>2. s.debit = saga[t].debit /\ s.credit = saga[t].credit
      /\ s.compensation = saga[t].compensation
  BY <1>1 DEF SagaStates
<1>3. saga' = saga \/ saga' = [saga EXCEPT ![t] = s]
  BY DEF Catch
<1>. HIDE DEF s
<1>. QED
  BY <1>2, <1>3 DEF Catch, Goto, TypeOK

LEMMA GotoStep ==
  ASSUME TypeOK, NEW t \in Transfers, NEW label, Goto(t, label)
  PROVE  pc'[t] = label /\ \A u \in Transfers \ {t} : pc'[u] = pc[u]
  BY DEF Goto, TypeOK

\* A step that sends a call of t, or none.
LEMMA CallsOfOthersAlone ==
  ASSUME NEW t \in Transfers, NEW kind \in Kinds,
         \A u \in Transfers, k \in Kinds :
           <<u, k>> # <<t, kind>> => call'[<<u, k>>] = call[<<u, k>>]
  PROVE  /\ \A u \in Transfers \ {t}, k \in Kinds : Sent(u, k)' <=> Sent(u, k)
         /\ \A k \in Kinds \ {kind} : Sent(t, k)' <=> Sent(t, k)
  BY DEF Sent

\* The steps of a saga in an await on a call.
LEMMA AwaitStep ==
  ASSUME Inv, NEW t \in Transfers,
         \/ DebitDone(t) \/ CreditDone(t) \/ RefundDone(t)
         \/ \E e \in Errors :
              DebitThrows(t, e) \/ CreditThrows(t, e) \/ RefundThrows(t, e)
  PROVE  /\ AccountProofs!CallsTell'
         /\ EffectsGrow
         /\ OthersAlone(t)
         /\ SagaInv(t)'
<1>1. TypeOK /\ AccountProofs!CallsTell /\ SagaInv(t)
  BY DEF Inv
<1>2. UNCHANGED <<call, row, saved>>
  BY DEF DebitDone, CreditDone, RefundDone, DebitThrows, CreditThrows,
         RefundThrows, accountVars
<1>3. /\ AccountProofs!CallsTell' /\ EffectsGrow
      /\ \A u \in Transfers, k \in Kinds : Sent(u, k)' <=> Sent(u, k)
      /\ \A k \in Kinds : Applied(t, k)' <=> Applied(t, k)
  BY <1>1, <1>2, CallsAlone DEF Sent, Applied
<1>4. saga[t] \in SagaStates /\ saga[t].debit \in BOOLEAN
  BY <1>1 DEF TypeOK, SagaStates
<1>5. /\ Sent(t, "debit")' <=> Sent(t, "debit")
      /\ Sent(t, "credit")' <=> Sent(t, "credit")
      /\ Sent(t, "refund")' <=> Sent(t, "refund")
      /\ Applied(t, "debit")' <=> Applied(t, "debit")
      /\ Applied(t, "credit")' <=> Applied(t, "credit")
      /\ Applied(t, "refund")' <=> Applied(t, "refund")
  BY <1>3 DEF Kinds
<1>6. CASE DebitDone(t)
  <2>. DEFINE s == [saga[t] EXCEPT !.debit = TRUE, !.step = "CREDIT"]
  <2>1. s.debit /\ s.credit = saga[t].credit /\ s.compensation = saga[t].compensation
    BY <1>4 DEF SagaStates
  <2>2. saga' = [saga EXCEPT ![t] = s]
    BY <1>6 DEF DebitDone
  <2>. HIDE DEF s
  <2>3. saga'[t] = s /\ \A u \in Transfers \ {t} : saga'[u] = saga[u]
    BY <1>1, <2>2 DEF TypeOK
  <2>4. /\ pc[t] = "debit" /\ pc'[t] = "markCredit" /\ Applied(t, "debit")
        /\ \A u \in Transfers \ {t} : pc'[u] = pc[u]
    BY <1>1, <1>6, AnsweredOK, GotoStep DEF DebitDone, Kinds
  <2>5. SagaInv(t)'
    BY <1>1, <1>2, <1>5, <2>1, <2>3, <2>4 DEF SagaInv, FlagsAreTrue,
       BeforeDebit, BeforeCredit, BeforeRefund, AfterDebit
  <2>. QED
    BY <1>2, <1>3, <2>3, <2>4, <2>5 DEF OthersAlone
<1>7. CASE CreditDone(t)
  <2>. DEFINE s == [saga[t] EXCEPT !.credit = TRUE, !.step = "COMPLETED"]
  <2>1. s.debit = saga[t].debit /\ s.credit /\ s.compensation = saga[t].compensation
    BY <1>4 DEF SagaStates
  <2>2. saga' = [saga EXCEPT ![t] = s]
    BY <1>7 DEF CreditDone
  <2>. HIDE DEF s
  <2>3. saga'[t] = s /\ \A u \in Transfers \ {t} : saga'[u] = saga[u]
    BY <1>1, <2>2 DEF TypeOK
  <2>4. /\ pc[t] = "credit" /\ pc'[t] = "complete" /\ Applied(t, "credit")
        /\ \A u \in Transfers \ {t} : pc'[u] = pc[u]
    BY <1>1, <1>7, AnsweredOK, GotoStep DEF CreditDone, Kinds
  <2>5. SagaInv(t)'
    BY <1>1, <1>2, <1>5, <2>1, <2>3, <2>4 DEF SagaInv, FlagsAreTrue,
       BeforeDebit, BeforeCredit, BeforeRefund, AfterDebit
  <2>. QED
    BY <1>2, <1>3, <2>3, <2>4, <2>5 DEF OthersAlone
<1>8. CASE RefundDone(t)
  <2>. DEFINE s == [saga[t] EXCEPT !.compensation = TRUE]
  <2>1. s.debit = saga[t].debit /\ s.credit = saga[t].credit /\ s.compensation
    BY <1>4 DEF SagaStates
  <2>2. saga' = [saga EXCEPT ![t] = s]
    BY <1>8 DEF RefundDone
  <2>. HIDE DEF s
  <2>3. saga'[t] = s /\ \A u \in Transfers \ {t} : saga'[u] = saga[u]
    BY <1>1, <2>2 DEF TypeOK
  <2>4. /\ pc[t] = "refund" /\ pc'[t] = "refunded" /\ Applied(t, "refund")
        /\ \A u \in Transfers \ {t} : pc'[u] = pc[u]
    BY <1>1, <1>8, AnsweredOK, GotoStep DEF RefundDone, Kinds
  <2>5. SagaInv(t)'
    BY <1>1, <1>2, <1>5, <2>1, <2>3, <2>4 DEF SagaInv, FlagsAreTrue,
       BeforeDebit, BeforeCredit, BeforeRefund, AfterDebit
  <2>. QED
    BY <1>2, <1>3, <2>3, <2>4, <2>5 DEF OthersAlone
<1>9. ASSUME NEW e \in Errors, DebitThrows(t, e) \/ CreditThrows(t, e)
      PROVE  SagaInv(t)' /\ OthersAlone(t)
  <2>1. /\ saga'[t].debit = saga[t].debit
        /\ saga'[t].credit = saga[t].credit
        /\ saga'[t].compensation = saga[t].compensation
        /\ pc'[t] = IF saga[t].debit THEN "compensate" ELSE "fail"
        /\ \A u \in Transfers \ {t} : saga'[u] = saga[u] /\ pc'[u] = pc[u]
    BY <1>1, <1>9, CatchStep DEF DebitThrows, CreditThrows
  <2>2. pc[t] \in {"debit", "credit"}
    BY <1>9 DEF DebitThrows, CreditThrows
  <2>3. SagaInv(t)'
    BY <1>1, <1>2, <1>4, <1>5, <2>1, <2>2 DEF SagaInv, FlagsAreTrue,
       BeforeDebit, BeforeCredit, BeforeRefund, AfterDebit
  <2>. QED
    BY <1>2, <1>3, <2>1, <2>3 DEF OthersAlone
<1>10. ASSUME NEW e \in Errors, RefundThrows(t, e)
       PROVE  SagaInv(t)' /\ OthersAlone(t)
  <2>1. /\ pc[t] = "refund" /\ pc'[t] = "giveUp" /\ saga' = saga
        /\ \A u \in Transfers \ {t} : pc'[u] = pc[u]
    BY <1>1, <1>10, GotoStep DEF RefundThrows
  <2>2. SagaInv(t)'
    BY <1>1, <1>2, <1>5, <2>1 DEF SagaInv, FlagsAreTrue,
       BeforeDebit, BeforeCredit, BeforeRefund, AfterDebit
  <2>. QED
    BY <1>2, <1>3, <2>1, <2>2 DEF OthersAlone
<1>. QED
  BY <1>3, <1>6, <1>7, <1>8, <1>9, <1>10

LEMMA EndStep ==
  ASSUME TypeOK, NEW t \in Transfers, NEW answer, End(t, answer)
  PROVE  pc'[t] = "ended" /\ \A u \in Transfers \ {t} : pc'[u] = pc[u]
  BY GotoStep DEF End

\* The transactions that send no call.
LEMMA QuietStep ==
  ASSUME Inv, NEW t \in Transfers, NEW o \in Outcomes,
         \/ Create(t, o) \/ Complete(t, o) \/ Fail(t, o)
         \/ Refunded(t, o) \/ GiveUp(t, o)
  PROVE  /\ AccountProofs!CallsTell'
         /\ EffectsGrow
         /\ OthersAlone(t)
         /\ SagaInv(t)'
<1>1. TypeOK /\ AccountProofs!CallsTell /\ SagaInv(t)
  BY DEF Inv
<1>2. UNCHANGED call
  BY DEF Create, Complete, Fail, Refunded, GiveUp, accountVars
<1>3. /\ AccountProofs!CallsTell' /\ EffectsGrow
      /\ \A u \in Transfers, k \in Kinds : Sent(u, k)' <=> Sent(u, k)
      /\ \A k \in Kinds : Applied(t, k)' <=> Applied(t, k)
  BY <1>1, <1>2, CallsAlone DEF Sent, Applied
<1>4. saga[t] \in SagaStates /\ saga[t].debit \in BOOLEAN
  BY <1>1 DEF TypeOK, SagaStates
<1>5. /\ Sent(t, "debit")' <=> Sent(t, "debit")
      /\ Sent(t, "credit")' <=> Sent(t, "credit")
      /\ Sent(t, "refund")' <=> Sent(t, "refund")
      /\ Applied(t, "debit")' <=> Applied(t, "debit")
      /\ Applied(t, "credit")' <=> Applied(t, "credit")
      /\ Applied(t, "refund")' <=> Applied(t, "refund")
  BY <1>3 DEF Kinds
<1>6. CASE Create(t, o)
  <2>. DEFINE s == [saga[t] EXCEPT !.step = "DEBIT"]
  <2>1. s.debit = saga[t].debit /\ s.credit = saga[t].credit
        /\ s.compensation = saga[t].compensation
    BY <1>4 DEF SagaStates
  <2>2. saga' = saga \/ saga' = [saga EXCEPT ![t] = s]
    BY <1>6 DEF Create
  <2>. HIDE DEF s
  <2>3. /\ saga'[t] = saga[t] \/ saga'[t] = s
        /\ \A u \in Transfers \ {t} : saga'[u] = saga[u]
    BY <1>1, <2>2 DEF TypeOK
  <2>4. /\ pc[t] = "idle" /\ pc'[t] \in {"markDebit", "ended"}
        /\ \A u \in Transfers \ {t} : pc'[u] = pc[u]
    BY <1>1, <1>6, GotoStep, EndStep DEF Create
  <2>5. /\ row'[t] = "INITIATED" \/ row'[t] = row[t]
        /\ saved'[t] = saga[t] \/ saved'[t] = saved[t]
        /\ \A u \in Transfers \ {t} : row'[u] = row[u] /\ saved'[u] = saved[u]
    BY <1>1, <1>6, SaveTransferStep DEF Create
  <2>6. SagaInv(t)'
    BY <1>1, <1>5, <2>1, <2>3, <2>4, <2>5 DEF SagaInv, FlagsAreTrue,
       BeforeDebit, BeforeCredit, BeforeRefund, AfterDebit
  <2>. QED
    BY <1>3, <2>3, <2>4, <2>5, <2>6 DEF OthersAlone
<1>7. CASE Complete(t, o)
  <2>1. /\ saga'[t].debit = saga[t].debit
        /\ saga'[t].credit = saga[t].credit
        /\ saga'[t].compensation = saga[t].compensation
        /\ pc'[t] \in {"ended", "compensate", "fail"}
        /\ pc'[t] = "fail" => ~saga[t].debit
        /\ \A u \in Transfers \ {t} : saga'[u] = saga[u] /\ pc'[u] = pc[u]
    BY <1>1, <1>7, CatchStep, EndStep DEF Complete
  <2>2. /\ row'[t] = "COMPLETED" \/ row'[t] = row[t]
        /\ saved'[t] = saga[t] \/ saved'[t] = saved[t]
        /\ \A u \in Transfers \ {t} : row'[u] = row[u] /\ saved'[u] = saved[u]
    BY <1>1, <1>7, SaveTransferStep DEF Complete
  <2>3. pc[t] = "complete"
    BY <1>7 DEF Complete
  <2>4. SagaInv(t)'
    BY <1>1, <1>5, <2>1, <2>2, <2>3 DEF SagaInv, FlagsAreTrue,
       BeforeDebit, BeforeCredit, BeforeRefund, AfterDebit
  <2>. QED
    BY <1>3, <2>1, <2>2, <2>4 DEF OthersAlone
<1>8. CASE Fail(t, o) \/ Refunded(t, o) \/ GiveUp(t, o)
  <2>1. /\ pc[t] \in {"fail", "refunded", "giveUp"} /\ saga' = saga
        /\ pc'[t] = "ended" \/ (pc[t] = "refunded" /\ pc'[t] = "giveUp")
        /\ \A u \in Transfers \ {t} : pc'[u] = pc[u]
    BY <1>1, <1>8, EndStep, GotoStep DEF Fail, Refunded, GiveUp, Rethrow
  <2>2. /\ row'[t] \in {"FAILED", "COMPENSATION_FAILED"} \/ row'[t] = row[t]
        /\ saved'[t] = saga[t] \/ saved'[t] = saved[t]
        /\ \A u \in Transfers \ {t} : row'[u] = row[u] /\ saved'[u] = saved[u]
    BY <1>1, <1>8, SaveTransferStep DEF Fail, Refunded, GiveUp
  <2>3. SagaInv(t)'
    BY <1>1, <1>5, <2>1, <2>2 DEF SagaInv, FlagsAreTrue, Compensated,
       BeforeDebit, BeforeCredit, BeforeRefund, AfterDebit
  <2>. QED
    BY <1>3, <2>1, <2>2, <2>3 DEF OthersAlone
<1>. QED
  BY <1>3, <1>6, <1>7, <1>8

\* A transaction that is followed by a call: of the calls, only that one is
\* sent, and no effect of t is undone.
LEMMA SendingStep ==
  ASSUME Inv, NEW t \in Transfers, NEW o \in Outcomes,
         MarkDebit(t, o) \/ MarkCredit(t, o) \/ Compensate(t, o)
  PROVE  /\ AccountProofs!CallsTell'
         /\ EffectsGrow
         /\ OthersAlone(t)
         /\ SagaInv(t)'
<1>1. TypeOK /\ AccountProofs!CallsTell /\ SagaInv(t)
  BY DEF Inv
<1>2. saga[t] \in SagaStates /\ saga[t].debit \in BOOLEAN
  BY <1>1 DEF TypeOK, SagaStates
<1>3. PICK kind \in Kinds :
        \/ kind = "debit" /\ MarkDebit(t, o)
        \/ kind = "credit" /\ MarkCredit(t, o)
        \/ kind = "refund" /\ Compensate(t, o)
  BY DEF Kinds
<1>4. Request(t, kind) \/ UNCHANGED call
  BY <1>3 DEF MarkDebit, MarkCredit, Compensate
<1>5. /\ AccountProofs!CallsTell' /\ EffectsGrow
      /\ \A u \in Transfers, k \in Kinds :
           <<u, k>> # <<t, kind>> => call'[<<u, k>>] = call[<<u, k>>]
  BY <1>1, <1>4, RequestStep, CallsAlone
<1>6. /\ \A u \in Transfers \ {t}, k \in Kinds : Sent(u, k)' <=> Sent(u, k)
      /\ \A k \in Kinds \ {kind} : Sent(t, k)' <=> Sent(t, k)
  BY <1>5, CallsOfOthersAlone
<1>7. /\ Applied(t, "debit") => Applied(t, "debit")'
      /\ Applied(t, "credit") => Applied(t, "credit")'
      /\ Applied(t, "refund") => Applied(t, "refund")'
  BY <1>5 DEF EffectsGrow, Kinds
<1>8. /\ kind # "debit" => (Sent(t, "debit")' <=> Sent(t, "debit"))
      /\ kind # "credit" => (Sent(t, "credit")' <=> Sent(t, "credit"))
      /\ kind # "refund" => (Sent(t, "refund")' <=> Sent(t, "refund"))
  BY <1>6 DEF Kinds
<1>9. UNCHANGED call => (Sent(t, kind)' <=> Sent(t, kind))
  BY DEF Sent
<1>10. Request(t, kind) =>
         pc'[t] = kind /\ \A u \in Transfers \ {t} : pc'[u] = pc[u]
  BY <1>1, GotoStep DEF Request
<1>11. CASE MarkDebit(t, o) \/ MarkCredit(t, o)
  <2>1. /\ saga'[t].debit = saga[t].debit
        /\ saga'[t].credit = saga[t].credit
        /\ saga'[t].compensation = saga[t].compensation
        /\ \A u \in Transfers \ {t} : saga'[u] = saga[u] /\ pc'[u] = pc[u]
        /\ \/ Request(t, kind) /\ pc'[t] = kind
           \/ /\ UNCHANGED call
              /\ pc'[t] = IF saga[t].debit THEN "compensate" ELSE "fail"
    BY <1>1, <1>3, <1>10, <1>11, CatchStep DEF MarkDebit, MarkCredit, Compensate
  <2>2. /\ saved'[t] = saga[t] \/ saved'[t] = saved[t]
        /\ \A u \in Transfers \ {t} : saved'[u] = saved[u]
        /\ row' = row
    BY <1>1, <1>11, SaveSagaStep DEF MarkDebit, MarkCredit
  <2>3. /\ kind = "debit" => pc[t] = "markDebit"
        /\ kind = "credit" => pc[t] = "markCredit"
        /\ kind \in {"debit", "credit"}
    BY <1>3, <1>11 DEF MarkDebit, MarkCredit, Compensate
  <2>4. SagaInv(t)'
    BY <1>1, <1>2, <1>7, <1>8, <1>9, <2>1, <2>2, <2>3 DEF SagaInv, FlagsAreTrue,
       BeforeDebit, BeforeCredit, BeforeRefund, AfterDebit
  <2>. QED
    BY <1>5, <1>6, <2>1, <2>2, <2>4 DEF OthersAlone
<1>12. CASE Compensate(t, o)
  <2>1. /\ kind = "refund" /\ pc[t] = "compensate" /\ saga' = saga
        /\ \A u \in Transfers \ {t} : pc'[u] = pc[u]
        /\ \/ Returns(o) /\ pc'[t] = "refund"
           \/ UNCHANGED call /\ pc'[t] = "ended"
    BY <1>1, <1>3, <1>10, <1>12, EndStep
       DEF MarkDebit, MarkCredit, Compensate, Rethrow
  <2>2. /\ row'[t] = IF Commits(o) THEN "COMPENSATING" ELSE row[t]
        /\ saved'[t] = saga[t] \/ saved'[t] = saved[t]
        /\ \A u \in Transfers \ {t} : row'[u] = row[u] /\ saved'[u] = saved[u]
    BY <1>1, <1>12, SaveTransferStep DEF Compensate
  <2>3. Returns(o) => Commits(o)
    BY DEF Returns, Commits
  <2>4. SagaInv(t)'
    BY <1>1, <1>7, <1>8, <1>9, <2>1, <2>2, <2>3 DEF SagaInv, FlagsAreTrue,
       Compensated, BeforeDebit, BeforeCredit, BeforeRefund, AfterDebit
  <2>. QED
    BY <1>5, <1>6, <2>1, <2>2, <2>4 DEF OthersAlone
<1>. QED
  BY <1>5, <1>11, <1>12

\* The steps of the account service and of the replicas.
LEMMA ElsewhereStep ==
  ASSUME Inv, Accounts \/ Crash \/ UNCHANGED vars
  PROVE  AccountProofs!CallsTell' /\ \A t \in Transfers : SagaInv(t)'
<1>1. TypeOK /\ AccountProofs!CallsTell /\ \A t \in Transfers : SagaInv(t)
  BY DEF Inv
<1>2. AccountProofs!TypeOK
  BY <1>1, TypeSplit, SameType
<1>3. CASE Accounts
  <2>1. CASE Account!Manage
    <3>1. UNCHANGED call
      BY <1>2, <2>1, SameManage, AccountAssumed, AccountProofs!ManageType
    <3>2. AccountProofs!CallsTell' /\ EffectsGrow
          /\ \A t \in Transfers, k \in Kinds : Sent(t, k)' <=> Sent(t, k)
      BY <1>1, <3>1, CallsAlone DEF Sent
    <3>3. UNCHANGED transferVars
      BY <1>3 DEF Accounts
    <3>. QED
      BY <1>1, <3>2, <3>3, OthersKeep DEF transferVars
  <2>2. ASSUME NEW c \in TransferCalls, Account!Handle(c) \/ Account!LoseCall(c)
        PROVE  AccountProofs!CallsTell' /\ \A t \in Transfers : SagaInv(t)'
    <3>1. AccountProofs!CallsTell' /\ AccountProofs!CallsGrow
      BY <1>1, <1>2, <2>2, SameHandle, AccountAssumed, AccountProofs!HandleStep
    <3>2. \A t \in Transfers, k \in Kinds :
            /\ Sent(t, k)' <=> Sent(t, k)
            /\ Applied(t, k) => Applied(t, k)'
      BY <3>1 DEF AccountProofs!CallsGrow, TransferCalls, Sent, Applied
    <3>3. UNCHANGED transferVars
      BY <1>3 DEF Accounts
    <3>. QED
      BY <1>1, <3>1, <3>2, <3>3, OthersKeep DEF transferVars, EffectsGrow
  <2>. QED
    BY <1>3, <2>1, <2>2 DEF Accounts
<1>4. CASE Crash \/ UNCHANGED vars
  <2>1. AccountProofs!CallsTell' /\ EffectsGrow
        /\ \A t \in Transfers, k \in Kinds : Sent(t, k)' <=> Sent(t, k)
    BY <1>1, <1>4, CallsAlone DEF Crash, vars, accountVars, Sent
  <2>2. ASSUME NEW t \in Transfers
        PROVE  /\ saga'[t] = saga[t] /\ saved'[t] = saved[t] /\ row'[t] = row[t]
               /\ pc'[t] = pc[t] \/ pc'[t] = "crashed"
    BY <1>4 DEF Crash, vars, transferVars
  <2>. QED
    BY <1>1, <2>1, <2>2, OthersKeep
<1>. QED
  BY <1>3, <1>4

LEMMA InvInit == Init => Inv
<1>. SUFFICES ASSUME Init PROVE Inv
  OBVIOUS
<1>1. \A c \in TransferCalls : call[c] = Account!NoCall
  BY DEF Init, Account!Init
<1>2. AccountProofs!CallsTell
  BY <1>1 DEF AccountProofs!CallsTell, Account!NoCall
<1>3. ASSUME NEW t \in Transfers PROVE SagaInv(t)
  <2>1. \A k \in Kinds : ~Sent(t, k)
    BY <1>1 DEF Sent, TransferCalls, Account!NoCall
  <2>2. ~Sent(t, "debit") /\ ~Sent(t, "credit") /\ ~Sent(t, "refund")
    BY <2>1 DEF Kinds
  <2>. QED
    BY <2>2 DEF Init, SagaInv, FlagsAreTrue, NewSaga, AfterDebit
<1>. QED
  BY <1>2, <1>3, InitType DEF Inv

LEMMA InvStep == Inv /\ [Next]_vars => Inv'
<1>. SUFFICES ASSUME Inv, [Next]_vars PROVE Inv'
  OBVIOUS
<1>1. TypeOK'
  BY StepType DEF Inv
<1>2. ASSUME NEW t \in Transfers, Execute(t)
      PROVE  AccountProofs!CallsTell' /\ \A u \in Transfers : SagaInv(u)'
  <2>1. AccountProofs!CallsTell' /\ EffectsGrow /\ OthersAlone(t) /\ SagaInv(t)'
    BY <1>2, AwaitStep, QuietStep, SendingStep DEF Execute
  <2>2. ASSUME NEW u \in Transfers \ {t} PROVE SagaInv(u)'
    BY <2>1, OthersKeep DEF Inv, OthersAlone
  <2>. QED
    BY <2>1, <2>2
<1>3. AccountProofs!CallsTell' /\ \A t \in Transfers : SagaInv(t)'
  BY <1>2, ElsewhereStep DEF Next
<1>. QED
  BY <1>1, <1>3 DEF Inv

LEMMA Invariance == Spec => []Inv
  BY InvInit, InvStep, PTL DEF Spec

\* COMPLETED is never wrong and never taken back by a refund, whatever fails.
THEOREM CompletedTransfersArePaid == Spec => []CompletedIsPaid
<1>1. Inv => CompletedIsPaid
  BY DEF Inv, SagaInv, CompletedIsPaid
<1>. QED
  BY <1>1, Invariance, PTL

\* Every refund is preceded by its durable COMPENSATING record, whatever fails.
THEOREM RefundsAreLogged == Spec => []RefundIsLogged
<1>1. Inv => RefundIsLogged
  BY DEF Inv, SagaInv, RefundIsLogged, Compensated
<1>. QED
  BY <1>1, Invariance, PTL

\* Nobody is paid, or repaid, from a debit that did not happen, whatever fails.
THEOREM NothingComesFromNothing == Spec => []NothingFromNothing
<1>1. ASSUME Inv PROVE NothingFromNothing
  <2>1. ASSUME NEW t \in Transfers, NEW kind \in Kinds, Applied(t, kind)
        PROVE  Sent(t, kind)
    <3>1. <<t, kind>> \in TransferCalls
      BY DEF TransferCalls
    <3>. QED
      BY <1>1, <2>1, <3>1 DEF Inv, AccountProofs!CallsTell, Applied, Sent
  <2>. QED
    BY <1>1, <2>1 DEF Inv, SagaInv, NothingFromNothing, Kinds
<1>. QED
  BY <1>1, Invariance, PTL

\* The saga_state column never claims an effect that did not happen.
THEOREM SavedFlagsAreNeverAhead == Spec => []SavedFlagsAreTrue
<1>1. Inv => SavedFlagsAreTrue
  BY DEF Inv, SagaInv, FlagsAreTrue, SavedFlagsAreTrue
<1>. QED
  BY <1>1, Invariance, PTL

-----------------------------------------------------------------------------
(* What consumers are told of a transfer agrees with its status, whatever  *)
(* fails: the rows of the outbox are written by the transactions that      *)
(* write the status.                                                       *)

\* EventsTellTheStatus, of one transfer.
EventsTell(t) ==
  LET told == events[t]
  IN  /\ row[t] = "none" <=> told = <<>>
      /\ \A i \in DOMAIN told : /\ told[i] = "initiated" <=> i = 1
                                /\ told[i] = "completed" => i = 2
      /\ row[t] = "INITIATED" => Len(told) = 1
      /\ row[t] = "COMPENSATING" => \A i \in DOMAIN told : told[i] # "failed"
      /\ row[t] = "COMPLETED" => told[Len(told)] = "completed"
      /\ row[t] \in {"FAILED", "COMPENSATION_FAILED"} => told[Len(told)] = "failed"

\* The statuses a saga can find in the table, which tell what it may announce,
\* and whether its catch clause will compensate.
StatusAt(t) ==
  /\ pc[t] = "idle" => row[t] = "none"
  /\ pc[t] \in {"markDebit", "debit", "fail", "markCredit", "credit", "complete"}
       => row[t] = "INITIATED"
  /\ pc[t] = "compensate" => row[t] \in {"INITIATED", "COMPLETED"}
  /\ pc[t] \in {"refund", "refunded"} => row[t] = "COMPENSATING"
  /\ pc[t] = "giveUp" => row[t] \in {"COMPENSATING", "FAILED"}
  /\ pc[t] \in {"idle", "markDebit", "debit"} => ~saga[t].debit

EventsInv == Inv /\ \A t \in Transfers : EventsTell(t) /\ StatusAt(t)

-----------------------------------------------------------------------------
(* Announcements.                                                          *)

LEMMA OneMore ==
  ASSUME NEW s \in Seq(EventTypes), NEW e \in EventTypes
  PROVE  /\ s \o <<e>> \in Seq(EventTypes)
         /\ Len(s \o <<e>>) = Len(s) + 1
         /\ (s \o <<e>>)[Len(s) + 1] = e
         /\ DOMAIN (s \o <<e>>) = 1..(Len(s) + 1)
         /\ \A i \in 1..Len(s) : (s \o <<e>>)[i] = s[i]
  OBVIOUS

LEMMA NoMore == ASSUME NEW s \in Seq(EventTypes) PROVE s \o <<>> = s
  OBVIOUS

\* What a transaction announces.
LEMMA Announced ==
  ASSUME TypeOK, NEW t \in Transfers, NEW o, NEW s, NEW e, SaveTransfer(t, o, s, e)
  PROVE  /\ events'[t] = IF Commits(o) THEN events[t] \o e ELSE events[t]
         /\ \A u \in Transfers \ {t} : events'[u] = events[u]
  BY DEF SaveTransfer, TypeOK

\* The events after the first announcement, after that of the end of a
\* transfer under way, and after that of a failure.
LEMMA AnnounceFirst ==
  ASSUME TypeOK, NEW t \in Transfers, EventsTell(t), row[t] = "none",
         row'[t] = "INITIATED", events'[t] = events[t] \o <<"initiated">>
  PROVE  EventsTell(t)'
<1>1. events[t] \in Seq(EventTypes) /\ "initiated" \in EventTypes
  BY DEF TypeOK, EventTypes
<1>2. Len(events[t]) = 0
  BY DEF EventsTell
<1>3. /\ Len(events'[t]) = 1 /\ DOMAIN events'[t] = 1..1
      /\ events'[t][1] = "initiated"
  BY <1>1, <1>2, OneMore
<1>4. events'[t] # <<>>
  BY <1>3
<1> QED
  BY <1>3, <1>4 DEF EventsTell

LEMMA AnnounceCompleted ==
  ASSUME TypeOK, NEW t \in Transfers, EventsTell(t), row[t] = "INITIATED",
         row'[t] = "COMPLETED", events'[t] = events[t] \o <<"completed">>
  PROVE  EventsTell(t)'
<1>1. events[t] \in Seq(EventTypes) /\ "completed" \in EventTypes
  BY DEF TypeOK, EventTypes
<1>2. Len(events[t]) = 1 /\ events[t][1] = "initiated"
  BY <1>1 DEF EventsTell
<1>3. /\ Len(events'[t]) = 2 /\ DOMAIN events'[t] = 1..2
      /\ events'[t][1] = "initiated" /\ events'[t][2] = "completed"
  BY <1>1, <1>2, OneMore
<1>4. events'[t] # <<>>
  BY <1>3
<1> QED
  BY <1>3, <1>4 DEF EventsTell

LEMMA AnnounceFailed ==
  ASSUME TypeOK, NEW t \in Transfers, EventsTell(t), row[t] # "none",
         row'[t] \in {"FAILED", "COMPENSATION_FAILED"},
         events'[t] = events[t] \o <<"failed">>
  PROVE  EventsTell(t)'
<1>1. events[t] \in Seq(EventTypes) /\ "failed" \in EventTypes
  BY DEF TypeOK, EventTypes
<1> DEFINE n == Len(events[t])
<1>2. n \in Nat /\ n # 0
  BY <1>1 DEF EventsTell
<1>3. /\ Len(events'[t]) = n + 1 /\ DOMAIN events'[t] = 1..(n + 1)
      /\ events'[t][n + 1] = "failed"
      /\ \A i \in 1..n : events'[t][i] = events[t][i]
  BY <1>1, OneMore
<1>4. \A i \in 1..n : /\ events[t][i] = "initiated" <=> i = 1
                      /\ events[t][i] = "completed" => i = 2
  BY <1>1 DEF EventsTell
<1>5. \A i \in DOMAIN events'[t] : /\ events'[t][i] = "initiated" <=> i = 1
                                   /\ events'[t][i] = "completed" => i = 2
  <2> SUFFICES ASSUME NEW i \in 1..(n + 1)
               PROVE  /\ events'[t][i] = "initiated" <=> i = 1
                      /\ events'[t][i] = "completed" => i = 2
    BY <1>3
  <2>1. CASE i = n + 1
    BY <1>2, <1>3, <2>1
  <2>2. CASE i \in 1..n
    BY <1>3, <1>4, <2>2
  <2> QED
    BY <1>2, <2>1, <2>2
<1>6. events'[t] # <<>>
  BY <1>2, <1>3
<1> QED
  BY <1>2, <1>3, <1>5, <1>6 DEF EventsTell

\* COMPENSATING is written over INITIATED or COMPLETED, and announced to nobody.
LEMMA AnnounceNothing ==
  ASSUME TypeOK, NEW t \in Transfers, EventsTell(t),
         row[t] \in {"INITIATED", "COMPLETED"}, row'[t] = "COMPENSATING",
         events'[t] = events[t]
  PROVE  EventsTell(t)'
<1>1. events[t] \in Seq(EventTypes)
  BY DEF TypeOK
<1> QED
  BY <1>1 DEF EventsTell

-----------------------------------------------------------------------------
(* The steps of a saga.                                                    *)

EventsStep(t) ==
  /\ EventsTell(t)' /\ StatusAt(t)'
  /\ \A u \in Transfers \ {t} :
       /\ row'[u] = row[u] /\ saga'[u] = saga[u] /\ pc'[u] = pc[u]
       /\ events'[u] = events[u]

LEMMA SameTold ==
  ASSUME NEW u \in Transfers, EventsTell(u), row'[u] = row[u], events'[u] = events[u]
  PROVE  EventsTell(u)'
  BY DEF EventsTell

\* The steps that write neither status nor events.
LEMMA AwaitEvents ==
  ASSUME EventsInv, NEW t \in Transfers,
         \/ DebitDone(t) \/ CreditDone(t) \/ RefundDone(t)
         \/ \E e \in Errors :
              DebitThrows(t, e) \/ CreditThrows(t, e) \/ RefundThrows(t, e)
  PROVE  EventsStep(t)
<1>1. TypeOK /\ SagaInv(t) /\ EventsTell(t) /\ StatusAt(t)
  BY DEF EventsInv, Inv
<1>2. UNCHANGED <<row, events>>
  BY DEF DebitDone, CreditDone, RefundDone, DebitThrows, CreditThrows, RefundThrows
<1>3. EventsTell(t)'
  BY <1>1, <1>2, SameTold
<1>4. OthersAlone(t)
  BY AwaitStep DEF EventsInv
<1>5. StatusAt(t)'
  <2>1. ASSUME DebitDone(t) PROVE StatusAt(t)'
    <3>1. pc[t] = "debit" /\ pc'[t] = "markCredit"
      BY <1>1, <2>1, GotoStep DEF DebitDone
    <3> QED
      BY <1>1, <1>2, <3>1 DEF StatusAt
  <2>2. ASSUME CreditDone(t) PROVE StatusAt(t)'
    <3>1. pc[t] = "credit" /\ pc'[t] = "complete"
      BY <1>1, <2>2, GotoStep DEF CreditDone
    <3> QED
      BY <1>1, <1>2, <3>1 DEF StatusAt
  <2>3. ASSUME RefundDone(t) PROVE StatusAt(t)'
    <3>1. pc[t] = "refund" /\ pc'[t] = "refunded"
      BY <1>1, <2>3, GotoStep DEF RefundDone
    <3> QED
      BY <1>1, <1>2, <3>1 DEF StatusAt
  <2>4. ASSUME NEW e \in Errors, DebitThrows(t, e) PROVE StatusAt(t)'
    <3>1. pc[t] = "debit" /\ pc'[t] = "fail"
      BY <1>1, <2>4, CatchStep DEF DebitThrows, StatusAt
    <3> QED
      BY <1>1, <1>2, <3>1 DEF StatusAt
  <2>5. ASSUME NEW e \in Errors, CreditThrows(t, e) PROVE StatusAt(t)'
    <3>1. pc[t] = "credit" /\ pc'[t] = "compensate"
      BY <1>1, <2>5, CatchStep DEF CreditThrows, SagaInv, AfterDebit
    <3> QED
      BY <1>1, <1>2, <3>1 DEF StatusAt
  <2>6. ASSUME NEW e \in Errors, RefundThrows(t, e) PROVE StatusAt(t)'
    <3>1. pc[t] = "refund" /\ pc'[t] = "giveUp"
      BY <1>1, <2>6, GotoStep DEF RefundThrows
    <3> QED
      BY <1>1, <1>2, <3>1 DEF StatusAt
  <2> QED
    BY <2>1, <2>2, <2>3, <2>4, <2>5, <2>6
<1> QED
  BY <1>2, <1>3, <1>4, <1>5 DEF EventsStep, OthersAlone

LEMMA MarkEvents ==
  ASSUME EventsInv, NEW t \in Transfers, NEW o \in Outcomes,
         MarkDebit(t, o) \/ MarkCredit(t, o)
  PROVE  EventsStep(t)
<1>1. TypeOK /\ SagaInv(t) /\ EventsTell(t) /\ StatusAt(t)
  BY DEF EventsInv, Inv
<1>2. UNCHANGED <<row, events>>
  BY DEF MarkDebit, MarkCredit
<1>3. EventsTell(t)'
  BY <1>1, <1>2, SameTold
<1>4. OthersAlone(t)
  BY SendingStep DEF EventsInv
<1>5. ASSUME MarkDebit(t, o) PROVE StatusAt(t)'
  <2>1. pc[t] = "markDebit" /\ ~saga[t].debit
    BY <1>1, <1>5 DEF MarkDebit, StatusAt
  <2>2. \/ pc'[t] = "debit" /\ saga' = saga
        \/ pc'[t] = "fail"
    BY <1>1, <1>5, <2>1, GotoStep, CatchStep DEF MarkDebit, Request
  <2> QED
    BY <1>1, <1>2, <2>1, <2>2 DEF StatusAt
<1>6. ASSUME MarkCredit(t, o) PROVE StatusAt(t)'
  <2>1. pc[t] = "markCredit" /\ saga[t].debit
    BY <1>1, <1>6 DEF MarkCredit, SagaInv, AfterDebit
  <2>2. pc'[t] = "credit" \/ pc'[t] = "compensate"
    BY <1>1, <1>6, <2>1, GotoStep, CatchStep DEF MarkCredit, Request
  <2> QED
    BY <1>1, <1>2, <2>1, <2>2 DEF StatusAt
<1> QED
  BY <1>2, <1>3, <1>4, <1>5, <1>6 DEF EventsStep, OthersAlone

\* The transactions that write the status: committed, they announce what they
\* write; otherwise nothing has changed but the await.
LEMMA CreateEvents ==
  ASSUME EventsInv, NEW t \in Transfers, NEW o \in Outcomes, Create(t, o)
  PROVE  EventsTell(t)' /\ StatusAt(t)' /\ \A u \in Transfers \ {t} : events'[u] = events[u]
<1>1. TypeOK /\ EventsTell(t) /\ StatusAt(t)
  BY DEF EventsInv, Inv
<1>2. /\ row'[t] = IF Commits(o) THEN "INITIATED" ELSE row[t]
      /\ events'[t] = IF Commits(o) THEN events[t] \o <<"initiated">> ELSE events[t]
      /\ \A u \in Transfers \ {t} : events'[u] = events[u]
  BY <1>1, SaveTransferStep, Announced DEF Create
<1>3. row[t] = "none" /\ ~saga[t].debit
  BY <1>1 DEF Create, StatusAt
<1>4. EventsTell(t)'
  BY <1>1, <1>2, <1>3, AnnounceFirst, SameTold
<1>5. CASE Returns(o)
  <2>1. pc'[t] = "markDebit" /\ row'[t] = "INITIATED"
    BY <1>1, <1>2, <1>5, GotoStep DEF Create, Returns, Commits
  <2>2. saga'[t].debit = saga[t].debit
    BY <1>1, <1>5 DEF Create, TypeOK, SagaStates
  <2> QED
    BY <1>2, <1>3, <1>4, <2>1, <2>2 DEF StatusAt
<1>6. CASE ~Returns(o)
  <2>1. pc'[t] = "ended"
    BY <1>1, <1>6, EndStep DEF Create
  <2> QED
    BY <1>2, <1>4, <2>1 DEF StatusAt
<1> QED
  BY <1>5, <1>6

LEMMA CompleteEvents ==
  ASSUME EventsInv, NEW t \in Transfers, NEW o \in Outcomes, Complete(t, o)
  PROVE  EventsTell(t)' /\ StatusAt(t)' /\ \A u \in Transfers \ {t} : events'[u] = events[u]
<1>1. TypeOK /\ SagaInv(t) /\ EventsTell(t) /\ StatusAt(t)
  BY DEF EventsInv, Inv
<1>2. /\ row'[t] = IF Commits(o) THEN "COMPLETED" ELSE row[t]
      /\ events'[t] = IF Commits(o) THEN events[t] \o <<"completed">> ELSE events[t]
      /\ \A u \in Transfers \ {t} : events'[u] = events[u]
  BY <1>1, SaveTransferStep, Announced DEF Complete
<1>3. row[t] = "INITIATED" /\ saga[t].debit
  BY <1>1 DEF Complete, StatusAt, SagaInv, AfterDebit
<1>4. EventsTell(t)'
  BY <1>1, <1>2, <1>3, AnnounceCompleted, SameTold
<1>5. pc'[t] = "ended" \/ pc'[t] = "compensate"
  BY <1>1, <1>3, EndStep, CatchStep DEF Complete
<1> QED
  BY <1>2, <1>3, <1>4, <1>5 DEF StatusAt

LEMMA CompensateEvents ==
  ASSUME EventsInv, NEW t \in Transfers, NEW o \in Outcomes, Compensate(t, o)
  PROVE  EventsTell(t)' /\ StatusAt(t)' /\ \A u \in Transfers \ {t} : events'[u] = events[u]
<1>1. TypeOK /\ EventsTell(t) /\ StatusAt(t)
  BY DEF EventsInv, Inv
<1>2. /\ row'[t] = IF Commits(o) THEN "COMPENSATING" ELSE row[t]
      /\ events'[t] = IF Commits(o) THEN events[t] \o <<>> ELSE events[t]
      /\ \A u \in Transfers \ {t} : events'[u] = events[u]
  <2>1. SaveTransfer(t, o, "COMPENSATING", <<>>)
    BY DEF Compensate
  <2>2. row'[t] = IF Commits(o) THEN "COMPENSATING" ELSE row[t]
    BY <1>1, <2>1, SaveTransferStep
  <2>3. /\ events'[t] = IF Commits(o) THEN events[t] \o <<>> ELSE events[t]
        /\ \A u \in Transfers \ {t} : events'[u] = events[u]
    BY <1>1, <2>1 DEF SaveTransfer, TypeOK
  <2> QED
    BY <2>2, <2>3
<1>3. events'[t] = events[t]
  <2>1. events[t] \in Seq(EventTypes)
    BY <1>1 DEF TypeOK
  <2>2. events[t] \o <<>> = events[t]
    BY <2>1, NoMore
  <2> QED
    BY <1>2, <2>2
<1>4. row[t] \in {"INITIATED", "COMPLETED"}
  BY <1>1 DEF Compensate, StatusAt
<1>5. EventsTell(t)'
  BY <1>1, <1>2, <1>3, <1>4, AnnounceNothing, SameTold
<1>6. \/ pc'[t] = "refund" /\ row'[t] = "COMPENSATING"
      \/ pc'[t] = "ended"
  BY <1>1, <1>2, GotoStep, EndStep DEF Compensate, Request, Rethrow, Returns, Commits
<1> QED
  BY <1>2, <1>5, <1>6 DEF StatusAt

\* The three that announce a failure.
LEMMA FailureEvents ==
  ASSUME EventsInv, NEW t \in Transfers, NEW o \in Outcomes,
         Fail(t, o) \/ Refunded(t, o) \/ GiveUp(t, o)
  PROVE  EventsTell(t)' /\ StatusAt(t)' /\ \A u \in Transfers \ {t} : events'[u] = events[u]
<1>1. TypeOK /\ EventsTell(t) /\ StatusAt(t)
  BY DEF EventsInv, Inv
<1>2. PICK s \in {"FAILED", "COMPENSATION_FAILED"} :
        /\ SaveTransfer(t, o, s, <<"failed">>)
        /\ Refunded(t, o) => s = "FAILED"
  <2>1. CASE Fail(t, o) \/ Refunded(t, o)
    BY <2>1 DEF Fail, Refunded
  <2>2. CASE GiveUp(t, o) /\ ~Refunded(t, o)
    BY <2>2 DEF GiveUp
  <2> QED
    BY <2>1, <2>2
<1>3. /\ row'[t] = IF Commits(o) THEN s ELSE row[t]
      /\ events'[t] = IF Commits(o) THEN events[t] \o <<"failed">> ELSE events[t]
      /\ \A u \in Transfers \ {t} : events'[u] = events[u]
  BY <1>1, <1>2, SaveTransferStep, Announced
<1>4. row[t] # "none"
  BY <1>1 DEF Fail, Refunded, GiveUp, StatusAt
<1>5. EventsTell(t)'
  BY <1>1, <1>3, <1>4, AnnounceFailed, SameTold
<1>6. \/ pc'[t] = "ended"
      \/ pc'[t] = "giveUp" /\ row[t] = "COMPENSATING" /\ Refunded(t, o)
  BY <1>1, GotoStep, EndStep DEF Fail, Refunded, GiveUp, Rethrow, StatusAt
<1>7. pc'[t] = "giveUp" => row'[t] \in {"COMPENSATING", "FAILED"}
  BY <1>2, <1>3, <1>6
<1> QED
  BY <1>3, <1>5, <1>6, <1>7 DEF StatusAt

LEMMA ExecuteEvents ==
  ASSUME EventsInv, NEW t \in Transfers, Execute(t)
  PROVE  EventsStep(t)
<1>1. CASE \/ DebitDone(t) \/ CreditDone(t) \/ RefundDone(t)
           \/ \E e \in Errors :
                DebitThrows(t, e) \/ CreditThrows(t, e) \/ RefundThrows(t, e)
  BY <1>1, AwaitEvents
<1>2. ASSUME NEW o \in Outcomes, MarkDebit(t, o) \/ MarkCredit(t, o)
      PROVE  EventsStep(t)
  BY <1>2, MarkEvents
<1>3. ASSUME NEW o \in Outcomes,
             \/ Create(t, o) \/ Complete(t, o) \/ Compensate(t, o)
             \/ Fail(t, o) \/ Refunded(t, o) \/ GiveUp(t, o)
      PROVE  EventsStep(t)
  <2>1. EventsTell(t)' /\ StatusAt(t)' /\ \A u \in Transfers \ {t} : events'[u] = events[u]
    BY <1>3, CreateEvents, CompleteEvents, CompensateEvents, FailureEvents
  <2>2. OthersAlone(t)
    BY <1>3, QuietStep, SendingStep DEF EventsInv
  <2> QED
    BY <2>1, <2>2 DEF EventsStep, OthersAlone
<1> QED
  BY <1>1, <1>2, <1>3 DEF Execute

-----------------------------------------------------------------------------
LEMMA EventsInit == Init => EventsInv
<1> SUFFICES ASSUME Init PROVE EventsInv
  OBVIOUS
<1>1. ASSUME NEW t \in Transfers PROVE EventsTell(t) /\ StatusAt(t)
  BY DEF Init, EventsTell, StatusAt, NewSaga
<1> QED
  BY <1>1, InvInit DEF EventsInv

LEMMA EventsStepInv == EventsInv /\ [Next]_vars => EventsInv'
<1> SUFFICES ASSUME EventsInv, [Next]_vars PROVE EventsInv'
  OBVIOUS
<1>1. Inv'
  BY InvStep DEF EventsInv
<1>2. ASSUME NEW u \in Transfers,
             row'[u] = row[u], saga'[u] = saga[u], events'[u] = events[u],
             pc'[u] = pc[u] \/ pc'[u] = "crashed"
      PROVE  EventsTell(u)' /\ StatusAt(u)'
  BY <1>2, SameTold DEF EventsInv, StatusAt
<1>3. ASSUME NEW t \in Transfers, Execute(t)
      PROVE  \A u \in Transfers : EventsTell(u)' /\ StatusAt(u)'
  BY <1>2, <1>3, ExecuteEvents DEF EventsStep
<1>4. ASSUME Accounts \/ Crash \/ UNCHANGED vars
      PROVE  \A u \in Transfers : EventsTell(u)' /\ StatusAt(u)'
  <2>1. ASSUME NEW u \in Transfers
        PROVE  /\ row'[u] = row[u] /\ saga'[u] = saga[u] /\ events'[u] = events[u]
               /\ pc'[u] = pc[u] \/ pc'[u] = "crashed"
    BY <1>4 DEF Accounts, Crash, vars, transferVars
  <2> QED
    BY <1>2, <2>1
<1> QED
  BY <1>1, <1>3, <1>4 DEF Next, EventsInv

\* Whatever fails, the last ending that consumers are told of a transfer agrees
\* with its status, a failure is never followed by a completion, and nothing is
\* told of a compensation under way.
THEOREM EventsAgree == Spec => []EventsTellTheStatus
<1>1. EventsInv => EventsTellTheStatus
  BY DEF EventsInv, EventsTell, EventsTellTheStatus
<1> QED
  BY <1>1, EventsInit, EventsStepInv, PTL DEF Spec

-----------------------------------------------------------------------------
(* The money of all transfers, whatever fails.                             *)

\* Every call moves, in its direction, the amount of its transfer.
CallsMatch ==
  \A t \in Transfers, kind \in Kinds :
    Sent(t, kind) =>
      /\ call[<<t, kind>>].op = IF kind = "debit" THEN "debit" ELSE "credit"
      /\ call[<<t, kind>>].amount = order[t].amount

BooksInv == Inv /\ AccountProofs!MoneyInv /\ CallsMatch

\* What execute does outside the tables of the transfer service: at most it
\* sends a call.
LEMMA ExecuteSends ==
  ASSUME NEW t \in Transfers, Execute(t)
  PROVE  /\ UNCHANGED <<accountRows, order>>
         /\ UNCHANGED call \/ \E kind \in Kinds : Request(t, kind)
<1>1. ASSUME NEW o \in Outcomes,
             \/ Create(t, o) \/ Complete(t, o) \/ Fail(t, o)
             \/ Refunded(t, o) \/ GiveUp(t, o)
      PROVE  UNCHANGED <<accountVars, order>>
  BY <1>1 DEF Create, Complete, Fail, Refunded, GiveUp
<1>2. ASSUME NEW o \in Outcomes,
             MarkDebit(t, o) \/ MarkCredit(t, o) \/ Compensate(t, o)
      PROVE  /\ UNCHANGED <<accountRows, order>>
             /\ UNCHANGED call \/ \E kind \in Kinds : Request(t, kind)
  BY <1>2 DEF MarkDebit, MarkCredit, Compensate, Kinds
<1>3. ASSUME \/ DebitDone(t) \/ CreditDone(t) \/ RefundDone(t)
             \/ \E e \in Errors :
                  DebitThrows(t, e) \/ CreditThrows(t, e) \/ RefundThrows(t, e)
      PROVE  UNCHANGED <<accountVars, order>>
  BY <1>3 DEF DebitDone, CreditDone, RefundDone, DebitThrows, CreditThrows, RefundThrows
<1>. QED
  BY <1>1, <1>2, <1>3 DEF Execute, accountVars, accountRows

\* A saga that sends a call moves no money by it.
LEMMA RequestBooks ==
  ASSUME BooksInv, NEW t \in Transfers, NEW kind \in Kinds, Request(t, kind),
         UNCHANGED <<accountRows, order>>
  PROVE  AccountProofs!MoneyInv' /\ CallsMatch'
<1>1. TypeOK /\ AccountProofs!TypeOK /\ AccountProofs!CallsTell
  BY TypeSplit, SameType DEF BooksInv, Inv
<1>2. <<t, kind>> \in TransferCalls
  BY DEF TransferCalls
<1>3. PICK op, a, m :
        /\ Account!Send(<<t, kind>>, op, a, m)
        /\ op = IF kind = "debit" THEN "debit" ELSE "credit"
        /\ m = order[t].amount
  BY DEF Request
<1>4. AccountProofs!Send(<<t, kind>>, op, a, m) /\ UNCHANGED AccountProofs!accountRows
  BY <1>2, <1>3, SameSend DEF accountRows, AccountProofs!accountRows
<1>5. AccountProofs!MoneyInv'
  BY <1>1, <1>2, <1>4, AccountAssumed, AccountProofs!SendMoney DEF BooksInv
<1>6. /\ call'[<<t, kind>>].op = op /\ call'[<<t, kind>>].amount = m
      /\ \A d \in TransferCalls \ {<<t, kind>>} : call'[d] = call[d]
  <2>1. call \in [TransferCalls -> AccountProofs!CallRecords]
    BY <1>1 DEF AccountProofs!TypeOK, AccountProofs!CallRecords
  <2>. QED
    BY <1>2, <1>3, <2>1 DEF Account!Send
<1>7. ASSUME NEW u \in Transfers, NEW k \in Kinds, Sent(u, k)'
      PROVE  /\ call'[<<u, k>>].op = IF k = "debit" THEN "debit" ELSE "credit"
             /\ call'[<<u, k>>].amount = order'[u].amount
  <2>1. CASE <<u, k>> = <<t, kind>>
    BY <1>3, <1>6, <2>1
  <2>2. CASE <<u, k>> # <<t, kind>>
    <3>1. call'[<<u, k>>] = call[<<u, k>>]
      BY <1>6, <2>2 DEF TransferCalls
    <3>. QED
      BY <1>7, <3>1 DEF BooksInv, CallsMatch, Sent
  <2>. QED
    BY <2>1, <2>2
<1>. QED
  BY <1>5, <1>7 DEF CallsMatch

LEMMA AccountsBooks ==
  ASSUME BooksInv, Accounts
  PROVE  AccountProofs!MoneyInv' /\ CallsMatch'
<1>1. /\ AccountProofs!TypeOK /\ AccountProofs!CallsTell /\ AccountProofs!MoneyInv
      /\ CallsMatch /\ UNCHANGED order
  BY TypeSplit, SameType DEF BooksInv, Inv, Accounts, transferVars
<1>2. CASE Account!Manage
  <2>1. UNCHANGED call /\ AccountProofs!MoneyInv'
    BY <1>1, <1>2, SameManage, AccountAssumed, AccountProofs!ManageType,
       AccountProofs!ManageMoney
  <2>. QED
    BY <1>1, <2>1 DEF CallsMatch, Sent
<1>3. ASSUME NEW c \in TransferCalls, Account!Handle(c) \/ Account!LoseCall(c)
      PROVE  AccountProofs!MoneyInv' /\ CallsMatch'
  <2>1. AccountProofs!Handle(c) \/ AccountProofs!LoseCall(c)
    BY <1>3, SameHandle
  <2>2. AccountProofs!MoneyInv' /\ AccountProofs!CallsGrow
    BY <1>1, <2>1, AccountAssumed, AccountProofs!HandleMoney, AccountProofs!HandleStep
  <2>3. /\ call'[c].op = call[c].op /\ call'[c].amount = call[c].amount
        /\ \A d \in TransferCalls \ {c} : call'[d] = call[d]
    BY <1>1, <2>1, AccountAssumed, AccountProofs!HandlePays
  <2>4. ASSUME NEW u \in Transfers, NEW k \in Kinds
        PROVE  /\ call'[<<u, k>>].op = call[<<u, k>>].op
               /\ call'[<<u, k>>].amount = call[<<u, k>>].amount
               /\ Sent(u, k)' <=> Sent(u, k)
    BY <2>2, <2>3 DEF TransferCalls, AccountProofs!CallsGrow, Sent
  <2>. QED
    BY <1>1, <2>2, <2>4 DEF CallsMatch
<1>. QED
  BY <1>2, <1>3 DEF Accounts

LEMMA BooksStep == BooksInv /\ [Next]_vars => BooksInv'
<1>. SUFFICES ASSUME BooksInv, [Next]_vars PROVE BooksInv'
  OBVIOUS
<1>1. Inv'
  BY InvStep DEF BooksInv
<1>2. ASSUME UNCHANGED <<accountVars, order>>
      PROVE  AccountProofs!MoneyInv' /\ CallsMatch'
  <2>1. /\ UNCHANGED <<created, balance, initialDeposit, call>>
        /\ AccountProofs!TypeOK
    BY <1>2, TypeSplit, SameType DEF BooksInv, Inv, accountVars
  <2>2. AccountProofs!Untouched
    BY <2>1 DEF AccountProofs!Untouched
  <2>3. AccountProofs!MoneyInv'
    BY <2>1, <2>2, AccountAssumed, AccountProofs!UntouchedMoney DEF BooksInv
  <2>. QED
    BY <1>2, <2>1, <2>3 DEF BooksInv, CallsMatch, Sent
<1>3. ASSUME NEW t \in Transfers, Execute(t)
      PROVE  AccountProofs!MoneyInv' /\ CallsMatch'
  BY <1>2, <1>3, ExecuteSends, RequestBooks DEF accountVars, accountRows
<1>4. ASSUME Crash \/ UNCHANGED vars
      PROVE  AccountProofs!MoneyInv' /\ CallsMatch'
  BY <1>2, <1>4 DEF Crash, vars, transferVars
<1>5. AccountProofs!MoneyInv' /\ CallsMatch'
  BY <1>3, <1>4, AccountsBooks DEF Next
<1>. QED
  BY <1>1, <1>5 DEF BooksInv

LEMMA BooksInit == Init => BooksInv
<1>. SUFFICES ASSUME Init PROVE BooksInv
  OBVIOUS
<1>1. AccountProofs!Init
  BY DEF Init, Account!Init, Account!NoCall, AccountProofs!Init, AccountProofs!NoCall
<1>2. AccountProofs!MoneyInv
  BY <1>1, AccountAssumed, AccountProofs!InitMoney
<1>3. \A t \in Transfers, kind \in Kinds : ~Sent(t, kind)
  BY DEF Init, Account!Init, Account!NoCall, TransferCalls, Sent
<1>. QED
  BY <1>2, <1>3, InvInit DEF BooksInv, CallsMatch

LEMMA BooksAlways == Spec => []BooksInv
  BY BooksInit, BooksStep, PTL DEF Spec

-----------------------------------------------------------------------------
(* The transfer saga implements its contract, for any accounts, amounts    *)
(* and transfers, while the transfer service reads every answer and        *)
(* commits every transaction it survives: replicas may die, statements of  *)
(* the account service may fail, accounts may be frozen at any moment.     *)

Reliable == Faults \cap {"transfersDb", "commit", "net"} = {}

\* The account service answered without having moved money, for good.
Refused(t, kind) ==
  call[<<t, kind>>].phase = "answered" /\ ~Applied(t, kind)

\* With every result read, a call that moved money is answered OK, and an
\* answer says something.
AnswersTell ==
  \A c \in TransferCalls :
    /\ call[c].applied => call[c].answer = "OK"
    /\ call[c].phase = "answered" => call[c].answer # "none"

Initiated == {"markDebit", "debit", "markCredit", "credit", "complete", "fail", "compensate"}
Undoing   == {"refund", "refunded", "giveUp"}

\* What the status of a transfer says of its calls, and the await of its saga
\* of its status.
StatusTells(t) ==
  /\ row[t] = "none" => ~Sent(t, "debit") /\ ~Sent(t, "credit") /\ ~Sent(t, "refund")
  /\ row[t] = "COMPENSATING" => Applied(t, "debit") /\ Refused(t, "credit")
  /\ row[t] = "FAILED" =>
       \/ Refused(t, "debit") /\ ~Sent(t, "credit") /\ ~Sent(t, "refund")
       \/ Applied(t, "debit") /\ Refused(t, "credit") /\ Applied(t, "refund")
  /\ row[t] = "COMPENSATION_FAILED" =>
       Applied(t, "debit") /\ Refused(t, "credit") /\ Refused(t, "refund")

AwaitTells(t) ==
  /\ pc[t] = "idle" => row[t] = "none"
  /\ pc[t] \in Initiated => row[t] = "INITIATED"
  /\ pc[t] \in Undoing => row[t] = "COMPENSATING"
  /\ pc[t] \in {"idle", "markDebit", "debit"} => ~saga[t].debit
  /\ pc[t] = "fail" => Refused(t, "debit")
  /\ pc[t] = "compensate" => Refused(t, "credit")
  /\ pc[t] = "refunded" => Applied(t, "refund")
  /\ pc[t] = "giveUp" => Refused(t, "refund")
  /\ pc[t] = "ended" => row[t] \in Terminal

ContractInv == /\ Inv /\ AnswersTell
               /\ \A t \in Transfers : StatusTells(t) /\ AwaitTells(t)

-----------------------------------------------------------------------------
(* The calls.                                                              *)

LEMMA CallsOfTransfers ==
  ASSUME NEW t \in Transfers, NEW kind \in Kinds
  PROVE  <<t, kind>> \in TransferCalls
  BY DEF TransferCalls

\* An effect comes of a call that was sent, and a refusal is not an effect.
LEMMA CallFacts ==
  ASSUME Inv, NEW t \in Transfers, NEW kind \in Kinds
  PROVE  /\ Applied(t, kind) => Sent(t, kind)
         /\ Refused(t, kind) => Sent(t, kind) /\ ~Applied(t, kind)
  BY CallsOfTransfers DEF Inv, AccountProofs!CallsTell, Applied, Refused, Sent

\* A saga that reads anything but OK reads a refusal.
LEMMA ReadsRefusal ==
  ASSUME Reliable, ContractInv, NEW t \in Transfers, NEW kind \in Kinds, NEW error,
         Throws(t, kind, error)
  PROVE  Refused(t, kind)
  BY CallsOfTransfers DEF Reliable, ContractInv, AnswersTell, Throws, Answered, Refused, Applied

\* No transaction fails.
LEMMA Committed ==
  ASSUME Reliable, NEW o \in Outcomes
  PROVE  Commits(o) /\ Returns(o)
  BY DEF Reliable, Outcomes, Commits, Returns

\* What is known of the calls stays known when other calls are sent.
CallsKeep(u) ==
  \A k \in Kinds : /\ Sent(u, k)' <=> Sent(u, k)
                   /\ Applied(u, k)' <=> Applied(u, k)
                   /\ Refused(u, k)' <=> Refused(u, k)

LEMMA SameCall ==
  ASSUME NEW u, NEW k, call'[<<u, k>>] = call[<<u, k>>]
  PROVE  /\ Sent(u, k)' <=> Sent(u, k)
         /\ Applied(u, k)' <=> Applied(u, k)
         /\ Refused(u, k)' <=> Refused(u, k)
  BY DEF Sent, Applied, Refused

\* A saga that sends one call.
LEMMA SendsOne ==
  ASSUME TypeOK, AccountProofs!CallsTell, AnswersTell, NEW t \in Transfers, NEW kind \in Kinds,
         Request(t, kind)
  PROVE  /\ \A u \in Transfers, k \in Kinds :
              <<u, k>> # <<t, kind>> =>
                /\ Sent(u, k)' <=> Sent(u, k)
                /\ Applied(u, k)' <=> Applied(u, k)
                /\ Refused(u, k)' <=> Refused(u, k)
         /\ Sent(t, kind)' /\ ~Applied(t, kind)' /\ ~Refused(t, kind)'
         /\ ~Sent(t, kind) /\ ~Applied(t, kind)
         /\ AnswersTell'
<1>1. PICK op, a, m : Account!Send(<<t, kind>>, op, a, m)
  BY RequestSends
<1>2. <<t, kind>> \in TransferCalls
  BY CallsOfTransfers
<1>3. AccountProofs!TypeOK
  BY TypeSplit, SameType
<1>4. /\ AccountProofs!CallsTell'
      /\ call'[<<t, kind>>].phase = "sent"
      /\ ~call'[<<t, kind>>].applied /\ ~call[<<t, kind>>].applied
      /\ \A d \in TransferCalls \ {<<t, kind>>} : call'[d] = call[d]
  BY <1>1, <1>2, <1>3, SameSend, AccountAssumed, AccountProofs!SendStep
<1>5. call[<<t, kind>>].phase = "idle"
  BY <1>1 DEF Account!Send
<1>6. \A u \in Transfers, k \in Kinds :
        <<u, k>> # <<t, kind>> => call'[<<u, k>>] = call[<<u, k>>]
  BY <1>4, CallsOfTransfers
<1>7. AnswersTell'
  BY <1>4 DEF AnswersTell
<1> QED
  BY <1>4, <1>5, <1>6, <1>7, SameCall DEF Sent, Applied, Refused

-----------------------------------------------------------------------------
(* The invariant of one transfer survives what is not a step of its saga.  *)

LEMMA OthersKeepContract ==
  ASSUME NEW u \in Transfers, StatusTells(u), AwaitTells(u),
         \A k \in Kinds : /\ Sent(u, k)' <=> Sent(u, k)
                          /\ Applied(u, k) => Applied(u, k)'
                          /\ Refused(u, k) => Refused(u, k)',
         saga'[u] = saga[u], row'[u] = row[u],
         pc'[u] = pc[u] \/ pc'[u] = "crashed"
  PROVE  StatusTells(u)' /\ AwaitTells(u)'
<1> DEFINE A(k) == Applied(u, k)
           S(k) == Sent(u, k)
           R(k) == Refused(u, k)
<1>1. /\ A("debit") => A("debit")'
      /\ A("credit") => A("credit")'
      /\ A("refund") => A("refund")'
      /\ R("debit") => R("debit")'
      /\ R("credit") => R("credit")'
      /\ R("refund") => R("refund")'
      /\ S("debit")' <=> S("debit")
      /\ S("credit")' <=> S("credit")
      /\ S("refund")' <=> S("refund")
  BY DEF Kinds
<1>2. "crashed" \notin Initiated \cup Undoing
  BY DEF Initiated, Undoing
<1> HIDE DEF A, S, R
<1>3. StatusTells(u)'
  BY <1>1 DEF StatusTells, A, S, R
<1>4. AwaitTells(u)'
  BY <1>1, <1>2 DEF AwaitTells, A, S, R
<1> QED
  BY <1>3, <1>4

-----------------------------------------------------------------------------
(* The steps of a saga.                                                    *)

\* What a step of saga t does to the record and the effects of its transfer:
\* no money moves, and the record is written when the money is where it says.
Outcomes3(t) ==
  \/ row'[t] = row[t]
  \/ row[t] = "none" /\ row'[t] = "INITIATED"
  \/ row[t] = "INITIATED" /\ row'[t] = "COMPENSATING"
  \/ /\ row[t] = "INITIATED" /\ row'[t] = "COMPLETED"
     /\ Applied(t, "debit") /\ Applied(t, "credit")
  \/ /\ row[t] = "INITIATED" /\ row'[t] = "FAILED"
     /\ ~Applied(t, "debit")
  \/ /\ row[t] = "COMPENSATING" /\ row'[t] = "FAILED"
     /\ Applied(t, "debit") /\ ~Applied(t, "credit") /\ Applied(t, "refund")
  \/ /\ row[t] = "COMPENSATING" /\ row'[t] = "COMPENSATION_FAILED"
     /\ Applied(t, "debit") /\ ~Applied(t, "credit") /\ ~Applied(t, "refund")

SagaStep(t) ==
  /\ AnswersTell' /\ StatusTells(t)' /\ AwaitTells(t)'
  /\ \A u \in Transfers \ {t} :
       /\ row'[u] = row[u] /\ saga'[u] = saga[u] /\ pc'[u] = pc[u]
       /\ CallsKeep(u)
  /\ \A u \in Transfers, k \in Kinds : Applied(u, k)' <=> Applied(u, k)
  /\ Outcomes3(t)

\* Steps that send nothing.
LEMMA QuietCalls ==
  ASSUME AnswersTell, UNCHANGED call
  PROVE  AnswersTell' /\ \A u \in Transfers : CallsKeep(u)
  BY DEF AnswersTell, CallsKeep, Sent, Applied, Refused

LEMMA AwaitContract ==
  ASSUME Reliable, ContractInv, NEW t \in Transfers,
         \/ DebitDone(t) \/ CreditDone(t) \/ RefundDone(t)
         \/ \E e \in Errors :
              DebitThrows(t, e) \/ CreditThrows(t, e) \/ RefundThrows(t, e)
  PROVE  SagaStep(t)
<1>1. TypeOK /\ AccountProofs!CallsTell /\ SagaInv(t) /\ StatusTells(t) /\ AwaitTells(t)
  BY DEF ContractInv, Inv
<1>2. UNCHANGED <<call, row>>
  BY DEF DebitDone, CreditDone, RefundDone, DebitThrows, CreditThrows,
         RefundThrows, accountVars
<1>3. AnswersTell' /\ \A u \in Transfers : CallsKeep(u)
  BY <1>2, QuietCalls DEF ContractInv
<1>4. OthersAlone(t)
  BY AwaitStep DEF ContractInv
<1>5. /\ Sent(t, "debit")' <=> Sent(t, "debit")
      /\ Sent(t, "credit")' <=> Sent(t, "credit")
      /\ Sent(t, "refund")' <=> Sent(t, "refund")
      /\ Applied(t, "debit")' <=> Applied(t, "debit")
      /\ Applied(t, "credit")' <=> Applied(t, "credit")
      /\ Applied(t, "refund")' <=> Applied(t, "refund")
      /\ Refused(t, "debit")' <=> Refused(t, "debit")
      /\ Refused(t, "credit")' <=> Refused(t, "credit")
      /\ Refused(t, "refund")' <=> Refused(t, "refund")
  BY <1>3 DEF CallsKeep, Kinds
<1>6. StatusTells(t)'
  BY <1>1, <1>2, <1>5 DEF StatusTells
<1>7. ASSUME DebitDone(t) PROVE AwaitTells(t)'
  <2>1. pc[t] = "debit" /\ pc'[t] = "markCredit"
    BY <1>1, <1>7, GotoStep DEF DebitDone
  <2> QED
    BY <1>1, <1>2, <1>5, <2>1 DEF AwaitTells, Initiated, Undoing, Terminal
<1>8. ASSUME CreditDone(t) PROVE AwaitTells(t)'
  <2>1. pc[t] = "credit" /\ pc'[t] = "complete"
    BY <1>1, <1>8, GotoStep DEF CreditDone
  <2> QED
    BY <1>1, <1>2, <1>5, <2>1 DEF AwaitTells, Initiated, Undoing, Terminal
<1>9. ASSUME RefundDone(t) PROVE AwaitTells(t)'
  <2>1. pc[t] = "refund" /\ pc'[t] = "refunded" /\ Applied(t, "refund")
    BY <1>1, <1>9, GotoStep, AnsweredOK DEF RefundDone, Kinds
  <2> QED
    BY <1>1, <1>2, <1>5, <2>1 DEF AwaitTells, Initiated, Undoing, Terminal
<1>10. ASSUME NEW e \in Errors, DebitThrows(t, e)
       PROVE  AwaitTells(t)'
  <2>1. pc[t] = "debit" /\ Refused(t, "debit")
    BY <1>10, ReadsRefusal DEF DebitThrows, Kinds
  <2>2. pc'[t] = "fail"
    BY <1>1, <1>10, <2>1, CatchStep DEF DebitThrows, AwaitTells
  <2> QED
    BY <1>1, <1>2, <1>5, <2>1, <2>2 DEF AwaitTells, Initiated, Undoing, Terminal
<1>11. ASSUME NEW e \in Errors, CreditThrows(t, e)
       PROVE  AwaitTells(t)'
  <2>1. pc[t] = "credit" /\ Refused(t, "credit")
    BY <1>11, ReadsRefusal DEF CreditThrows, Kinds
  <2>2. pc'[t] = "compensate"
    BY <1>1, <1>11, <2>1, CatchStep DEF CreditThrows, SagaInv, AfterDebit
  <2> QED
    BY <1>1, <1>2, <1>5, <2>1, <2>2 DEF AwaitTells, Initiated, Undoing, Terminal
<1>12. ASSUME NEW e \in Errors, RefundThrows(t, e)
       PROVE  AwaitTells(t)'
  <2>1. pc[t] = "refund" /\ Refused(t, "refund")
    BY <1>12, ReadsRefusal DEF RefundThrows, Kinds
  <2>2. pc'[t] = "giveUp"
    BY <1>1, <1>12, GotoStep DEF RefundThrows
  <2> QED
    BY <1>1, <1>2, <1>5, <2>1, <2>2 DEF AwaitTells, Initiated, Undoing, Terminal
<1>13. AwaitTells(t)'
  BY <1>7, <1>8, <1>9, <1>10, <1>11, <1>12
<1> QED
  BY <1>2, <1>3, <1>4, <1>6, <1>13 DEF SagaStep, OthersAlone, CallsKeep, Outcomes3

\* The transactions that send no call; they commit.
LEMMA QuietContract ==
  ASSUME Reliable, ContractInv, NEW t \in Transfers, NEW o \in Outcomes,
         \/ Create(t, o) \/ Complete(t, o) \/ Fail(t, o)
         \/ Refunded(t, o) \/ GiveUp(t, o)
  PROVE  SagaStep(t)
<1>1. TypeOK /\ AccountProofs!CallsTell /\ SagaInv(t) /\ StatusTells(t) /\ AwaitTells(t)
  BY DEF ContractInv, Inv
<1>2. UNCHANGED call /\ Commits(o) /\ Returns(o)
  BY Committed DEF Create, Complete, Fail, Refunded, GiveUp, accountVars
<1>3. AnswersTell' /\ \A u \in Transfers : CallsKeep(u)
  BY <1>2, QuietCalls DEF ContractInv
<1>4. OthersAlone(t)
  BY QuietStep DEF ContractInv
<1>5. /\ Sent(t, "debit")' <=> Sent(t, "debit")
      /\ Sent(t, "credit")' <=> Sent(t, "credit")
      /\ Sent(t, "refund")' <=> Sent(t, "refund")
      /\ Applied(t, "debit")' <=> Applied(t, "debit")
      /\ Applied(t, "credit")' <=> Applied(t, "credit")
      /\ Applied(t, "refund")' <=> Applied(t, "refund")
      /\ Refused(t, "debit")' <=> Refused(t, "debit")
      /\ Refused(t, "credit")' <=> Refused(t, "credit")
      /\ Refused(t, "refund")' <=> Refused(t, "refund")
  BY <1>3 DEF CallsKeep, Kinds
<1>6. /\ Refused(t, "debit") => ~Applied(t, "debit")
      /\ Refused(t, "credit") => ~Applied(t, "credit")
      /\ Refused(t, "refund") => ~Applied(t, "refund")
  BY DEF Refused
<1>7. ASSUME Create(t, o)
       PROVE  StatusTells(t)' /\ AwaitTells(t)' /\ Outcomes3(t)
  <2>1. pc[t] = "idle" /\ pc'[t] = "markDebit" /\ row'[t] = "INITIATED"
    BY <1>1, <1>2, <1>7, GotoStep, SaveTransferStep DEF Create
  <2>2. saga'[t].debit = saga[t].debit
    BY <1>1, <1>7 DEF Create, TypeOK, SagaStates
  <2> QED
    BY <1>1, <1>5, <2>1, <2>2
    DEF StatusTells, AwaitTells, Initiated, Undoing, Terminal, Outcomes3
<1>8. ASSUME Complete(t, o)
       PROVE  StatusTells(t)' /\ AwaitTells(t)' /\ Outcomes3(t)
  <2>1. pc[t] = "complete" /\ pc'[t] = "ended" /\ row'[t] = "COMPLETED"
    BY <1>1, <1>2, <1>8, EndStep, SaveTransferStep DEF Complete
  <2>2. Applied(t, "debit") /\ Applied(t, "credit")
    BY <1>1, <2>1 DEF SagaInv, FlagsAreTrue, AfterDebit
  <2> QED
    BY <1>1, <1>5, <2>1, <2>2
    DEF StatusTells, AwaitTells, Initiated, Undoing, Terminal, Outcomes3
<1>9. ASSUME Fail(t, o)
       PROVE  StatusTells(t)' /\ AwaitTells(t)' /\ Outcomes3(t)
  <2>1. pc[t] = "fail" /\ pc'[t] = "ended" /\ row'[t] = "FAILED"
    BY <1>1, <1>2, <1>9, EndStep, SaveTransferStep DEF Fail, Rethrow
  <2>2. Refused(t, "debit") /\ ~Sent(t, "credit") /\ ~Sent(t, "refund")
    BY <1>1, <2>1 DEF AwaitTells, SagaInv, BeforeCredit, BeforeRefund
  <2> QED
    BY <1>1, <1>5, <1>6, <2>1, <2>2
    DEF StatusTells, AwaitTells, Initiated, Undoing, Terminal, Outcomes3
<1>10. ASSUME Refunded(t, o)
       PROVE  StatusTells(t)' /\ AwaitTells(t)' /\ Outcomes3(t)
  <2>1. pc[t] = "refunded" /\ pc'[t] = "ended" /\ row'[t] = "FAILED"
    BY <1>1, <1>2, <1>10, EndStep, SaveTransferStep DEF Refunded, Rethrow
  <2>2. /\ row[t] = "COMPENSATING" /\ Applied(t, "debit")
        /\ Refused(t, "credit") /\ Applied(t, "refund")
    BY <1>1, <2>1 DEF AwaitTells, StatusTells, Undoing
  <2> QED
    BY <1>1, <1>5, <1>6, <2>1, <2>2
    DEF StatusTells, AwaitTells, Initiated, Undoing, Terminal, Outcomes3
<1>11. ASSUME GiveUp(t, o)
       PROVE  StatusTells(t)' /\ AwaitTells(t)' /\ Outcomes3(t)
  <2>1. pc[t] = "giveUp" /\ pc'[t] = "ended" /\ row'[t] = "COMPENSATION_FAILED"
    BY <1>1, <1>2, <1>11, EndStep, SaveTransferStep DEF GiveUp, Rethrow
  <2>2. /\ row[t] = "COMPENSATING" /\ Applied(t, "debit")
        /\ Refused(t, "credit") /\ Refused(t, "refund")
    BY <1>1, <2>1 DEF AwaitTells, StatusTells, Undoing
  <2> QED
    BY <1>1, <1>5, <1>6, <2>1, <2>2
    DEF StatusTells, AwaitTells, Initiated, Undoing, Terminal, Outcomes3
<1>12. StatusTells(t)' /\ AwaitTells(t)' /\ Outcomes3(t)
  BY <1>7, <1>8, <1>9, <1>10, <1>11
<1> QED
  BY <1>3, <1>4, <1>12 DEF SagaStep, OthersAlone, CallsKeep

\* The transactions that are followed by a call.
LEMMA SendingContract ==
  ASSUME Reliable, ContractInv, NEW t \in Transfers, NEW o \in Outcomes,
         MarkDebit(t, o) \/ MarkCredit(t, o) \/ Compensate(t, o)
  PROVE  SagaStep(t)
<1>1. TypeOK /\ AccountProofs!CallsTell /\ SagaInv(t) /\ StatusTells(t) /\ AwaitTells(t)
  BY DEF ContractInv, Inv
<1>2. Commits(o) /\ Returns(o)
  BY Committed
<1>3. OthersAlone(t)
  BY SendingStep DEF ContractInv
<1>4. PICK kind \in Kinds :
        \/ kind = "debit" /\ MarkDebit(t, o)
        \/ kind = "credit" /\ MarkCredit(t, o)
        \/ kind = "refund" /\ Compensate(t, o)
  BY DEF Kinds
<1>5. Request(t, kind) /\ saga' = saga /\ pc'[t] = kind
  BY <1>1, <1>2, <1>4, GotoStep DEF MarkDebit, MarkCredit, Compensate, Request
<1>6. /\ \A u \in Transfers, k \in Kinds :
           <<u, k>> # <<t, kind>> =>
             /\ Sent(u, k)' <=> Sent(u, k)
             /\ Applied(u, k)' <=> Applied(u, k)
             /\ Refused(u, k)' <=> Refused(u, k)
      /\ Sent(t, kind)' /\ ~Applied(t, kind)' /\ ~Refused(t, kind)'
      /\ ~Sent(t, kind) /\ ~Applied(t, kind)
      /\ AnswersTell'
  BY <1>1, <1>5, SendsOne DEF ContractInv
<1>7. /\ \A u \in Transfers \ {t} : CallsKeep(u)
      /\ \A u \in Transfers, k \in Kinds : Applied(u, k)' <=> Applied(u, k)
  BY <1>6 DEF CallsKeep
<1>8. /\ kind # "debit" => /\ Sent(t, "debit")' <=> Sent(t, "debit")
                           /\ Applied(t, "debit")' <=> Applied(t, "debit")
                           /\ Refused(t, "debit")' <=> Refused(t, "debit")
      /\ kind # "credit" => /\ Sent(t, "credit")' <=> Sent(t, "credit")
                            /\ Applied(t, "credit")' <=> Applied(t, "credit")
                            /\ Refused(t, "credit")' <=> Refused(t, "credit")
      /\ kind # "refund" => /\ Sent(t, "refund")' <=> Sent(t, "refund")
                            /\ Applied(t, "refund")' <=> Applied(t, "refund")
                            /\ Refused(t, "refund")' <=> Refused(t, "refund")
  BY <1>6 DEF Kinds
<1>9. ASSUME kind = "debit", MarkDebit(t, o)
      PROVE  StatusTells(t)' /\ AwaitTells(t)' /\ Outcomes3(t)
  <2>1. pc[t] = "markDebit" /\ row' = row
    BY <1>9 DEF MarkDebit
  <2>2. row[t] = "INITIATED" /\ ~saga[t].debit
    BY <1>1, <2>1 DEF AwaitTells, Initiated
  <2> QED
    BY <1>5, <1>9, <2>1, <2>2 DEF StatusTells, AwaitTells, Initiated, Undoing, Terminal, Outcomes3
<1>10. ASSUME kind = "credit", MarkCredit(t, o)
       PROVE  StatusTells(t)' /\ AwaitTells(t)' /\ Outcomes3(t)
  <2>1. pc[t] = "markCredit" /\ row' = row
    BY <1>10 DEF MarkCredit
  <2>2. row[t] = "INITIATED"
    BY <1>1, <2>1 DEF AwaitTells, Initiated
  <2> QED
    BY <1>5, <1>10, <2>1, <2>2 DEF StatusTells, AwaitTells, Initiated, Undoing, Terminal, Outcomes3
<1>11. ASSUME kind = "refund", Compensate(t, o)
       PROVE  StatusTells(t)' /\ AwaitTells(t)' /\ Outcomes3(t)
  <2>1. pc[t] = "compensate" /\ row'[t] = "COMPENSATING"
    BY <1>1, <1>2, <1>11, SaveTransferStep DEF Compensate
  <2>2. row[t] = "INITIATED" /\ Refused(t, "credit") /\ Applied(t, "debit")
    BY <1>1, <2>1 DEF AwaitTells, Initiated, SagaInv, FlagsAreTrue, AfterDebit
  <2> QED
    BY <1>5, <1>8, <1>11, <2>1, <2>2
    DEF StatusTells, AwaitTells, Initiated, Undoing, Terminal, Outcomes3
<1>12. StatusTells(t)' /\ AwaitTells(t)' /\ Outcomes3(t)
  BY <1>4, <1>9, <1>10, <1>11
<1> QED
  BY <1>3, <1>6, <1>7, <1>12 DEF SagaStep, OthersAlone

LEMMA ExecuteContract ==
  ASSUME Reliable, ContractInv, NEW t \in Transfers, Execute(t)
  PROVE  SagaStep(t)
  BY AwaitContract, QuietContract, SendingContract DEF Execute

-----------------------------------------------------------------------------
(* The steps of the account service: the money of one transfer moves, while *)
(* its record says that it is under way.                                    *)

Pending(t) == row[t] \in {"INITIATED", "COMPENSATING"}

\* A call that is under way is one of a transfer under way.
LEMMA UnderWay ==
  ASSUME ContractInv, NEW t \in Transfers, NEW kind \in Kinds,
         Sent(t, kind), ~Applied(t, kind), ~Refused(t, kind)
  PROVE  /\ Pending(t)
         /\ kind = "debit" => ~Applied(t, "credit") /\ ~Applied(t, "refund")
         /\ kind = "credit" => Applied(t, "debit") /\ ~Applied(t, "refund")
         /\ kind = "refund" => Applied(t, "debit") /\ ~Applied(t, "credit")
<1>1. /\ SagaInv(t) /\ StatusTells(t) /\ AwaitTells(t) /\ row[t] \in RowStatuses
      /\ row[t] = "none" => ~Sent(t, kind)
  BY DEF ContractInv, Inv, TypeOK, StatusTells, Kinds
<1>2. /\ Applied(t, "credit") => Sent(t, "credit")
      /\ Applied(t, "refund") => Sent(t, "refund")
      /\ Refused(t, "credit") => ~Applied(t, "credit")
      /\ Refused(t, "debit") => ~Applied(t, "debit")
  BY CallFacts DEF ContractInv, Kinds
<1>3. CASE kind = "debit"
  BY <1>1, <1>2, <1>3
  DEF SagaInv, StatusTells, Pending, RowStatuses, Terminal, Compensated
<1>4. CASE kind = "credit"
  BY <1>1, <1>2, <1>4
  DEF SagaInv, StatusTells, Pending, RowStatuses, Terminal, Compensated
<1>5. CASE kind = "refund"
  BY <1>1, <1>2, <1>5
  DEF SagaInv, StatusTells, Pending, RowStatuses, Terminal, Compensated
<1> QED
  BY <1>3, <1>4, <1>5 DEF Kinds

\* At most one call takes effect, and it was under way.
AccountStep ==
  /\ AnswersTell'
  /\ \A t \in Transfers, k \in Kinds :
       /\ Sent(t, k)' <=> Sent(t, k)
       /\ Applied(t, k) => Applied(t, k)'
       /\ Refused(t, k) => Refused(t, k)'
  /\ \/ \A t \in Transfers, k \in Kinds : Applied(t, k)' <=> Applied(t, k)
     \/ \E t \in Transfers, k \in Kinds :
          /\ Sent(t, k) /\ ~Applied(t, k) /\ ~Refused(t, k) /\ Applied(t, k)'
          /\ \A u \in Transfers, j \in Kinds :
               <<u, j>> # <<t, k>> => (Applied(u, j)' <=> Applied(u, j))

LEMMA AccountsStep ==
  ASSUME Reliable, ContractInv, Accounts
  PROVE  AccountStep
<1>1. TypeOK /\ AccountProofs!CallsTell /\ AccountProofs!TypeOK
  BY TypeSplit, SameType DEF ContractInv, Inv
<1>2. CASE Account!Manage
  <2>1. UNCHANGED call
    BY <1>1, <1>2, SameManage, AccountAssumed, AccountProofs!ManageType
  <2> QED
    BY <2>1, QuietCalls DEF AccountStep, CallsKeep, ContractInv
<1>3. ASSUME NEW c \in TransferCalls, Account!Handle(c) \/ Account!LoseCall(c)
      PROVE  AccountStep
  <2>1. AccountProofs!GoesOn(c) /\ AccountProofs!CallsTell'
    BY <1>1, <1>3, SameHandle, AccountAssumed, AccountProofs!HandleGoesOn,
       AccountProofs!HandleStep
  <2>2. /\ call[c].phase \in {"sent", "missed"} /\ ~call[c].applied
        /\ \A d \in TransferCalls \ {c} : call'[d] = call[d]
        /\ \/ call'[c].phase = "answered" /\ call'[c].answer # "none"
           \/ call'[c].phase \in {"missed", "lost"} /\ ~call'[c].applied
        /\ call'[c].applied => call'[c].answer = "OK"
    BY <2>1 DEF AccountProofs!GoesOn, Reliable
  <2>3. PICK t \in Transfers, k \in Kinds : c = <<t, k>>
    BY DEF TransferCalls
  <2>4. \A u \in Transfers, j \in Kinds :
          <<u, j>> # <<t, k>> => call'[<<u, j>>] = call[<<u, j>>]
    BY <2>2, <2>3, CallsOfTransfers
  <2>5. AnswersTell'
    BY <2>2 DEF AnswersTell, ContractInv
  <2>6. /\ Sent(t, k) /\ Sent(t, k)' /\ ~Applied(t, k) /\ ~Refused(t, k)
    BY <2>2, <2>3 DEF Sent, Applied, Refused
  <2>7. \A u \in Transfers, j \in Kinds :
          <<u, j>> # <<t, k>> =>
            /\ Sent(u, j)' <=> Sent(u, j)
            /\ Applied(u, j)' <=> Applied(u, j)
            /\ Refused(u, j)' <=> Refused(u, j)
    BY <2>4, SameCall
  <2>8. \A u \in Transfers, j \in Kinds :
          /\ Sent(u, j)' <=> Sent(u, j)
          /\ Applied(u, j) => Applied(u, j)'
          /\ Refused(u, j) => Refused(u, j)'
    BY <2>6, <2>7
  <2>9. CASE Applied(t, k)'
    BY <2>5, <2>6, <2>7, <2>8, <2>9 DEF AccountStep
  <2>10. CASE ~Applied(t, k)'
    <3>1. \A u \in Transfers, j \in Kinds : Applied(u, j)' <=> Applied(u, j)
      BY <2>6, <2>7, <2>10
    <3> QED
      BY <2>5, <2>8, <3>1 DEF AccountStep
  <2> QED
    BY <2>9, <2>10
<1> QED
  BY <1>2, <1>3 DEF Accounts

-----------------------------------------------------------------------------
LEMMA ContractInit == Init => ContractInv
<1> SUFFICES ASSUME Init PROVE ContractInv
  OBVIOUS
<1>1. \A c \in TransferCalls : call[c] = Account!NoCall
  BY DEF Init, Account!Init
<1>2. AnswersTell
  BY <1>1 DEF AnswersTell, Account!NoCall
<1>3. ASSUME NEW t \in Transfers PROVE StatusTells(t) /\ AwaitTells(t)
  <2>1. \A k \in Kinds : ~Sent(t, k)
    BY <1>1, CallsOfTransfers DEF Sent, Account!NoCall
  <2>2. ~Sent(t, "debit") /\ ~Sent(t, "credit") /\ ~Sent(t, "refund")
    BY <2>1 DEF Kinds
  <2> QED
    BY <2>2 DEF Init, StatusTells, AwaitTells, NewSaga, Initiated, Undoing, Terminal
<1> QED
  BY <1>2, <1>3, InvInit DEF ContractInv

LEMMA ContractStep ==
  ASSUME Reliable, ContractInv, [Next]_vars
  PROVE  ContractInv'
<1>1. Inv'
  BY InvStep DEF ContractInv
<1>2. ASSUME NEW t \in Transfers, Execute(t)
      PROVE  AnswersTell' /\ \A u \in Transfers : StatusTells(u)' /\ AwaitTells(u)'
  <2>1. SagaStep(t)
    BY <1>2, ExecuteContract
  <2>2. ASSUME NEW u \in Transfers \ {t} PROVE StatusTells(u)' /\ AwaitTells(u)'
    BY <2>1, OthersKeepContract DEF SagaStep, CallsKeep, ContractInv
  <2> QED
    BY <2>1, <2>2 DEF SagaStep
<1>3. ASSUME Accounts
      PROVE  AnswersTell' /\ \A u \in Transfers : StatusTells(u)' /\ AwaitTells(u)'
  <2>1. AccountStep /\ UNCHANGED <<saga, row, pc>>
    BY <1>3, AccountsStep DEF Accounts, transferVars
  <2> QED
    BY <2>1, OthersKeepContract DEF AccountStep, ContractInv
<1>4. ASSUME Crash \/ UNCHANGED vars
      PROVE  AnswersTell' /\ \A u \in Transfers : StatusTells(u)' /\ AwaitTells(u)'
  <2>1. UNCHANGED call
    BY <1>4 DEF Crash, vars, accountVars
  <2>2. AnswersTell' /\ \A u \in Transfers : CallsKeep(u)
    BY <2>1, QuietCalls DEF ContractInv
  <2>3. ASSUME NEW u \in Transfers
        PROVE  /\ saga'[u] = saga[u] /\ row'[u] = row[u]
               /\ pc'[u] = pc[u] \/ pc'[u] = "crashed"
    BY <1>4 DEF Crash, vars, transferVars
  <2> QED
    BY <2>2, <2>3, OthersKeepContract DEF CallsKeep, ContractInv
<1>5. AnswersTell' /\ \A u \in Transfers : StatusTells(u)' /\ AwaitTells(u)'
  BY <1>2, <1>3, <1>4 DEF Next
<1> QED
  BY <1>1, <1>5 DEF ContractInv

LEMMA ContractAlways == ASSUME Reliable PROVE Spec => []ContractInv
<1>1. Reliable /\ ContractInv /\ [Next]_vars => ContractInv'
  BY ContractStep
<1>2. Init => ContractInv
  BY ContractInit
<1>3. ContractInv /\ [Next]_vars => ContractInv'
  BY <1>1
<1> QED
  BY <1>2, <1>3, PTL DEF Spec

\* While every answer is read and every transaction commits, the status of a
\* transfer that ended without success tells where its money is: FAILED with
\* the sender, COMPENSATION_FAILED with neither side.  Whatever happens to the
\* accounts between the calls of execute, and whichever replicas die.
THEOREM StatusTellsMoney ==
  ASSUME Reliable
  PROVE  Spec => []StatusTellsTheMoney
<1>1. ASSUME ContractInv PROVE StatusTellsTheMoney
  <2> SUFFICES ASSUME NEW t \in Transfers
               PROVE  /\ row[t] = "FAILED" =>
                           ~Applied(t, "credit") /\ (Applied(t, "debit") <=> Applied(t, "refund"))
                      /\ row[t] = "COMPENSATION_FAILED" =>
                           /\ Applied(t, "debit")
                           /\ ~Applied(t, "credit") /\ ~Applied(t, "refund")
    BY DEF StatusTellsTheMoney
  <2>1. StatusTells(t) /\ Inv
    BY <1>1 DEF ContractInv
  <2>2. /\ Applied(t, "credit") => Sent(t, "credit")
        /\ Applied(t, "refund") => Sent(t, "refund")
        /\ Refused(t, "debit") => ~Applied(t, "debit")
        /\ Refused(t, "credit") => ~Applied(t, "credit")
        /\ Refused(t, "refund") => ~Applied(t, "refund")
    BY <2>1, CallFacts DEF Kinds
  <2> QED
    BY <2>1, <2>2 DEF StatusTells
<1> QED
  BY <1>1, ContractAlways, PTL

LEMMA PaidOnce ==
  ASSUME ContractInv, NEW t \in Transfers
  PROVE  ~(Applied(t, "credit") /\ Applied(t, "refund"))
<1>1. StatusTells(t) /\ SagaInv(t) /\ Inv
  BY DEF ContractInv, Inv
<1>2. /\ Applied(t, "refund") => Sent(t, "refund")
      /\ Refused(t, "credit") => ~Applied(t, "credit")
  BY <1>1, CallFacts DEF Kinds
<1> QED
  BY <1>1, <1>2 DEF StatusTells, SagaInv, Compensated

\* While every answer is read and every transaction commits, a transfer is
\* never both credited to the receiver and refunded to the sender: the saga
\* compensates only a credit that was refused for good.
THEOREM PaysOneSide ==
  ASSUME Reliable
  PROVE  Spec => []NeverPaidTwice
<1>1. ContractInv => NeverPaidTwice
  BY PaidOnce DEF NeverPaidTwice
<1> QED
  BY <1>1, ContractAlways, PTL

-----------------------------------------------------------------------------
(* The money of all transfers at rest.                                     *)

Debited  == {t \in Transfers : Applied(t, "debit")}
Repaid   == {t \in Transfers : Applied(t, "credit") \/ Applied(t, "refund")}
Stranded == {t \in Transfers : row[t] = "COMPENSATION_FAILED"}
Value    == [t \in Transfers |-> order[t].amount]

\* When no saga is running or was cut short, a transfer whose sender was
\* debited was credited, on one side, or is COMPENSATION_FAILED.
LEMMA AtRest ==
  ASSUME ContractInv, \A t \in Transfers : pc[t] \in {"idle", "ended"}
  PROVE  /\ Debited = Repaid \cup Stranded
         /\ Repaid \cap Stranded = {}
<1>1. ASSUME NEW t \in Transfers
      PROVE  /\ Applied(t, "debit") <=>
                  \/ Applied(t, "credit") \/ Applied(t, "refund")
                  \/ row[t] = "COMPENSATION_FAILED"
             /\ ~( /\ Applied(t, "credit") \/ Applied(t, "refund")
                   /\ row[t] = "COMPENSATION_FAILED" )
  <2>1. Inv /\ StatusTells(t) /\ AwaitTells(t) /\ SagaInv(t)
    BY DEF ContractInv, Inv
  <2>2. row[t] = "none" \/ row[t] \in Terminal
    BY <2>1 DEF AwaitTells
  <2>3. /\ Applied(t, "debit") => Sent(t, "debit")
        /\ Applied(t, "credit") => Sent(t, "credit")
        /\ Applied(t, "refund") => Sent(t, "refund")
        /\ Refused(t, "debit") => ~Applied(t, "debit")
        /\ Refused(t, "credit") => ~Applied(t, "credit")
        /\ Refused(t, "refund") => ~Applied(t, "refund")
    BY <2>1, CallFacts DEF Kinds
  <2>4. row[t] = "COMPLETED" => Applied(t, "debit") /\ Applied(t, "credit")
    BY <2>1 DEF SagaInv
  <2> QED
    BY <2>1, <2>2, <2>3, <2>4 DEF StatusTells, Terminal
<1> QED
  BY <1>1 DEF Debited, Repaid, Stranded

\* The calls that moved money in one direction, one for each transfer they
\* moved it of.
LEMMA MovesOf ==
  ASSUME ContractInv, BooksInv, NEW op, NEW S,
         \/ op = "debit" /\ S = Debited
         \/ op = "credit" /\ S = Repaid
  PROVE  /\ \A c \in AccountProofs!Moved(op) :
              /\ c[1] \in S
              /\ AccountProofs!Amount[c] = Value[c[1]]
              /\ \A d \in AccountProofs!Moved(op) : c[1] = d[1] => c = d
         /\ \A t \in S : \E c \in AccountProofs!Moved(op) : c[1] = t
<1>1. ASSUME NEW t \in Transfers, NEW k \in Kinds, Applied(t, k)
      PROVE  /\ call[<<t, k>>].op = IF k = "debit" THEN "debit" ELSE "credit"
             /\ call[<<t, k>>].amount = order[t].amount
             /\ <<t, k>> \in TransferCalls
  BY <1>1, CallFacts, CallsOfTransfers DEF BooksInv, CallsMatch
<1>2. ASSUME NEW c \in AccountProofs!Moved(op)
      PROVE  \E t \in Transfers, k \in Kinds :
               /\ c = <<t, k>> /\ Applied(t, k) /\ Value[t] = call[c].amount
               /\ op = IF k = "debit" THEN "debit" ELSE "credit"
  <2>1. c \in TransferCalls /\ call[c].applied /\ call[c].op = op
    BY DEF AccountProofs!Moved
  <2>2. PICK t \in Transfers, k \in Kinds : c = <<t, k>>
    BY <2>1 DEF TransferCalls
  <2> QED
    BY <1>1, <2>1, <2>2 DEF Applied, Value
<1>3. ASSUME NEW c \in AccountProofs!Moved(op)
      PROVE  /\ c[1] \in S
             /\ AccountProofs!Amount[c] = Value[c[1]]
             /\ \A d \in AccountProofs!Moved(op) : c[1] = d[1] => c = d
  <2>1. PICK t \in Transfers, k \in Kinds :
          /\ c = <<t, k>> /\ Applied(t, k) /\ Value[t] = call[c].amount
          /\ op = IF k = "debit" THEN "debit" ELSE "credit"
    BY <1>2
  <2>2. c[1] \in S
    BY <2>1 DEF Debited, Repaid, Kinds
  <2>3. AccountProofs!Amount[c] = Value[c[1]]
    BY <2>1, CallsOfTransfers DEF AccountProofs!Amount
  <2>4. ASSUME NEW d \in AccountProofs!Moved(op), c[1] = d[1]
        PROVE  c = d
    <3>1. PICK u \in Transfers, j \in Kinds :
            /\ d = <<u, j>> /\ Applied(u, j)
            /\ op = IF j = "debit" THEN "debit" ELSE "credit"
      BY <1>2
    <3>2. u = t /\ ~(Applied(t, "credit") /\ Applied(t, "refund"))
      BY <2>1, <2>4, <3>1, PaidOnce
    <3> QED
      BY <2>1, <3>1, <3>2 DEF Kinds
  <2> QED
    BY <2>2, <2>3, <2>4
<1>4. ASSUME NEW t \in S
      PROVE  \E c \in AccountProofs!Moved(op) : c[1] = t
  <2>1. /\ t \in Transfers
        /\ \E k \in Kinds :
             Applied(t, k) /\ op = IF k = "debit" THEN "debit" ELSE "credit"
    BY DEF Debited, Repaid, Kinds
  <2>2. PICK k \in Kinds : Applied(t, k) /\ op = IF k = "debit" THEN "debit" ELSE "credit"
    BY <2>1
  <2>3. <<t, k>> \in AccountProofs!Moved(op)
    BY <1>1, <2>1, <2>2 DEF AccountProofs!Moved, Applied
  <2> QED
    BY <2>3
<1> QED
  BY <1>3, <1>4

\* The saga counts calls and cents as the account service does.
LEMMA SameFinite == ASSUME NEW S PROVE AccountProofs!IsFiniteSet(S) <=> IsFiniteSet(S)
  BY DEF AccountProofs!IsFiniteSet, IsFiniteSet

LEMMA SameSum == ASSUME NEW S, NEW f PROVE AccountProofs!Sum(S, f) = Sum(S, f)
<1>1. \A T : AccountProofs!Cardinality(T) = Cardinality(T)
  BY DEF AccountProofs!Cardinality, Cardinality
<1> QED
  BY <1>1, Zenon DEF AccountProofs!Sum, AccountProofs!Cents, Sum, Cents

\* So their sums are the sums over the transfers.
LEMMA SumOfMoves ==
  ASSUME ContractInv, BooksInv, NEW op, NEW S,
         \/ op = "debit" /\ S = Debited
         \/ op = "credit" /\ S = Repaid
  PROVE  /\ IsFiniteSet(S)
         /\ AccountProofs!Sum(AccountProofs!Moved(op), AccountProofs!Amount) = Sum(S, Value)
<1> DEFINE M == AccountProofs!Moved(op)
           A == AccountProofs!Amount
           V == Value
           h == [c \in M |-> c[1]]
<1>1. /\ \A c \in M : /\ c[1] \in S /\ A[c] = V[c[1]]
                      /\ \A d \in M : c[1] = d[1] => c = d
      /\ \A t \in S : \E c \in M : c[1] = t
  BY MovesOf
<1>2. IsFiniteSet(M)
  <2>1. IsFiniteSet(AccountProofs!Paid) /\ M \in SUBSET AccountProofs!Paid
    BY SameFinite DEF BooksInv, AccountProofs!MoneyInv, AccountProofs!Moved, AccountProofs!Paid
  <2> QED
    BY <2>1, FS_Subset
<1>3. \A c \in M : A[c] \in Nat
  <2>1. AccountProofs!TypeOK
    BY TypeSplit, SameType DEF ContractInv, Inv
  <2>2. \A c \in TransferCalls : call[c].amount \in Amounts \cup {0}
    BY <2>1 DEF AccountProofs!TypeOK
  <2>3. Amounts \subseteq Nat
    BY AccountAssumed DEF AccountProofs!AccountAssumption
  <2>4. \A c \in M : c \in TransferCalls /\ A[c] = call[c].amount
    BY DEF AccountProofs!Moved, AccountProofs!Amount
  <2>5. Amounts \cup {0} \subseteq Nat
    BY <2>3
  <2> QED
    BY <2>2, <2>4, <2>5, Zenon
<1> HIDE DEF M, A, V
<1>4. h \in Bijection(M, S)
  BY <1>1 DEF Bijection, Injection, Surjection, IsInjective
<1>5. \A c \in M : A[c] \in Nat /\ A[c] = V[h[c]]
  BY <1>1, <1>3
<1> HIDE DEF h
<1>6. IsFiniteSet(S) /\ Sum(M, A) = Sum(S, V)
  BY ONLY <1>2, <1>4, <1>5, SumRenamed
<1> QED
  BY <1>6, SameSum DEF M, A, V

\* While every answer is read and every transaction commits: whenever no saga
\* is running or was cut short, the money in the accounts is the money
\* deposited, less the transfers recorded as COMPENSATION_FAILED.
THEOREM MoneyIsKept ==
  ASSUME Reliable
  PROVE  Spec => []BooksBalance
<1>1. ASSUME ContractInv, BooksInv PROVE BooksBalance
  <2> SUFFICES ASSUME \A t \in Transfers : pc[t] \in {"idle", "ended"}
               PROVE  Sum(created, balance)
                        = Sum(created, initialDeposit) - Sum(Stranded, Value)
    BY DEF BooksBalance, Stranded, Value
  <2>1. IsFiniteSet(Debited) /\ IsFiniteSet(Repaid)
    BY <1>1, SumOfMoves
  <2>2. Debited = Repaid \cup Stranded /\ Repaid \cap Stranded = {}
    BY <1>1, AtRest
  <2>3. IsFiniteSet(Stranded)
    BY <2>1, <2>2, FS_Subset
  <2>4. \A t \in Repaid \cup Stranded : Value[t] \in Nat
    <3>1. TypeOK
      BY <1>1 DEF ContractInv, Inv
    <3> QED
      BY <3>1, AccountAssumed
      DEF TypeOK, Orders, Value, Repaid, Stranded, AccountProofs!AccountAssumption
  <2>5. Sum(Debited, Value) = Sum(Repaid, Value) + Sum(Stranded, Value)
    BY <2>1, <2>2, <2>3, <2>4, SumSplit
  <2>6. /\ Sum(Repaid, Value) \in Nat /\ Sum(Stranded, Value) \in Nat
    BY <2>1, <2>3, <2>4, CentsFinite
  <2>7. Sum(created, balance) + Sum(Debited, Value)
          = Sum(created, initialDeposit) + Sum(Repaid, Value)
    BY <1>1, SumOfMoves, SameSum DEF BooksInv, AccountProofs!MoneyInv
  <2>8. Sum(created, balance) \in Nat /\ Sum(created, initialDeposit) \in Nat
    <3>1. /\ IsFiniteSet(created)
          /\ \A a \in created : balance[a] \in Nat /\ initialDeposit[a] \in Nat
      BY <1>1, SameFinite, TypeSplit, SameType, AccountAssumed
      DEF ContractInv, Inv, BooksInv, AccountProofs!MoneyInv, AccountProofs!TypeOK,
          AccountProofs!AccountAssumption
    <3> QED
      BY <3>1, CentsFinite
  <2> QED
    BY ONLY <2>5, <2>6, <2>7, <2>8
<1> QED
  BY <1>1, ContractAlways, BooksAlways, PTL

-----------------------------------------------------------------------------
(* The refinement: where the money is, and what the record says of it.     *)

Recorded == [t \in Transfers |-> Outcome(t)]
Placed   == [t \in Transfers |-> Money(t)]

\* A step that changes one transfer at most changes the functions there.
LEMMA RecordedStep ==
  ASSUME NEW t \in Transfers, \A u \in Transfers \ {t} : row'[u] = row[u]
  PROVE  Recorded' = [Recorded EXCEPT ![t] = Outcome(t)']
<1>1. ASSUME NEW u \in Transfers, u # t PROVE Outcome(u)' = Outcome(u)
  BY <1>1 DEF Outcome
<1> QED
  BY <1>1 DEF Recorded

LEMMA PlacedStep ==
  ASSUME NEW t \in Transfers,
         \A u \in Transfers \ {t}, k \in Kinds : Applied(u, k)' <=> Applied(u, k)
  PROVE  Placed' = [Placed EXCEPT ![t] = Money(t)']
<1>1. ASSUME NEW u \in Transfers, u # t PROVE Money(u)' = Money(u)
  <2>1. /\ Applied(u, "debit")' <=> Applied(u, "debit")
        /\ Applied(u, "credit")' <=> Applied(u, "credit")
        /\ Applied(u, "refund")' <=> Applied(u, "refund")
    BY <1>1 DEF Kinds
  <2> QED
    BY <2>1 DEF Money
<1> QED
  BY <1>1 DEF Placed

\* With no effect and no change of a record, nothing changes in the contract.
LEMMA SameRecorded ==
  ASSUME \A u \in Transfers : row'[u] = row[u]
  PROVE  Recorded' = Recorded
<1>1. ASSUME NEW u \in Transfers PROVE Outcome(u)' = Outcome(u)
  BY <1>1 DEF Outcome
<1> QED
  BY <1>1 DEF Recorded

LEMMA SamePlaced ==
  ASSUME \A u \in Transfers, k \in Kinds : Applied(u, k)' <=> Applied(u, k)
  PROVE  Placed' = Placed
<1>1. ASSUME NEW u \in Transfers PROVE Money(u)' = Money(u)
  <2>1. /\ Applied(u, "debit")' <=> Applied(u, "debit")
        /\ Applied(u, "credit")' <=> Applied(u, "credit")
        /\ Applied(u, "refund")' <=> Applied(u, "refund")
    BY DEF Kinds
  <2> QED
    BY <2>1 DEF Money
<1> QED
  BY <1>1 DEF Placed

\* The contract of the recorded outcomes and of the places of the money.
ContractStepOf(t) ==
  \/ Recorded[t] = "none" /\ Recorded' = [Recorded EXCEPT ![t] = "pending"]
     /\ Placed' = Placed
  \/ /\ Recorded[t] = "pending" /\ Recorded' = Recorded
     /\ \/ Placed[t] = "sender" /\ Placed' = [Placed EXCEPT ![t] = "held"]
        \/ Placed[t] = "held" /\ Placed' = [Placed EXCEPT ![t] = "receiver"]
        \/ Placed[t] = "held" /\ Placed' = [Placed EXCEPT ![t] = "returned"]
  \/ /\ Recorded[t] = "pending" /\ Placed' = Placed
     /\ \/ /\ Placed[t] = "receiver"
           /\ Recorded' = [Recorded EXCEPT ![t] = "completed"]
        \/ /\ Placed[t] \in {"sender", "returned"}
           /\ Recorded' = [Recorded EXCEPT ![t] = "failed"]
        \/ /\ Placed[t] = "held"
           /\ Recorded' = [Recorded EXCEPT ![t] = "stranded"]

LEMMA IsContractStep ==
  ASSUME NEW t \in Transfers, ContractStepOf(t)
  PROVE  Contract!Next
<1>1. CASE /\ Recorded[t] = "none" /\ Placed' = Placed
           /\ Recorded' = [Recorded EXCEPT ![t] = "pending"]
  <2>1. Contract!Record(t)
    BY <1>1 DEF Contract!Record, Recorded, Placed
  <2> QED
    BY <2>1 DEF Contract!Next
<1>2. CASE /\ Recorded[t] = "pending" /\ Recorded' = Recorded
           /\ \/ Placed[t] = "sender" /\ Placed' = [Placed EXCEPT ![t] = "held"]
              \/ Placed[t] = "held" /\ Placed' = [Placed EXCEPT ![t] = "receiver"]
              \/ Placed[t] = "held" /\ Placed' = [Placed EXCEPT ![t] = "returned"]
  <2>1. Contract!Moves(t)
    BY <1>2 DEF Contract!Moves, Contract!Move, Recorded, Placed
  <2> QED
    BY <2>1 DEF Contract!Next
<1>3. CASE /\ Recorded[t] = "pending" /\ Placed' = Placed
           /\ \/ /\ Placed[t] = "receiver"
                 /\ Recorded' = [Recorded EXCEPT ![t] = "completed"]
              \/ /\ Placed[t] \in {"sender", "returned"}
                 /\ Recorded' = [Recorded EXCEPT ![t] = "failed"]
              \/ /\ Placed[t] = "held"
                 /\ Recorded' = [Recorded EXCEPT ![t] = "stranded"]
  <2>1. Contract!Ends(t)
    BY <1>3 DEF Contract!Ends, Contract!Conclude, Recorded, Placed
  <2> QED
    BY <2>1 DEF Contract!Next
<1> QED
  BY <1>1, <1>2, <1>3 DEF ContractStepOf

\* A saga's step records, concludes, or does neither.
LEMMA SagaRefines ==
  ASSUME ContractInv, NEW t \in Transfers, SagaStep(t)
  PROVE  ContractStepOf(t) \/ UNCHANGED <<Recorded, Placed>>
<1>1. Placed' = Placed
  BY SamePlaced DEF SagaStep
<1>2. Recorded' = [Recorded EXCEPT ![t] = Outcome(t)']
  BY RecordedStep DEF SagaStep
<1>3. Recorded[t] = Outcome(t) /\ Placed[t] = Money(t)
  BY DEF Recorded, Placed
<1>4. row'[t] = row[t] \/ (row[t] = "INITIATED" /\ row'[t] = "COMPENSATING")
        => Outcome(t)' = Recorded[t]
  BY <1>3 DEF Outcome
<1>5. CASE row'[t] = row[t] \/ (row[t] = "INITIATED" /\ row'[t] = "COMPENSATING")
  <2>1. Recorded' = Recorded
    BY <1>2, <1>4, <1>5 DEF Recorded
  <2> QED
    BY <1>1, <2>1
<1>6. CASE row[t] = "none" /\ row'[t] = "INITIATED"
  <2>1. Recorded[t] = "none" /\ Outcome(t)' = "pending"
    BY <1>3, <1>6 DEF Outcome
  <2> QED
    BY <1>1, <1>2, <2>1 DEF ContractStepOf
<1>7. CASE /\ row[t] = "INITIATED" /\ row'[t] = "COMPLETED"
           /\ Applied(t, "debit") /\ Applied(t, "credit")
  <2>1. Recorded[t] = "pending" /\ Outcome(t)' = "completed"
    BY <1>3, <1>7 DEF Outcome
  <2>2. Placed[t] = "receiver"
    BY <1>3, <1>7 DEF Money
  <2> QED
    BY <1>1, <1>2, <2>1, <2>2 DEF ContractStepOf
<1>8. CASE row[t] = "INITIATED" /\ row'[t] = "FAILED" /\ ~Applied(t, "debit")
  <2>1. Recorded[t] = "pending" /\ Outcome(t)' = "failed"
    BY <1>3, <1>8 DEF Outcome
  <2>2. Placed[t] = "sender"
    BY <1>3, <1>8 DEF Money
  <2> QED
    BY <1>1, <1>2, <2>1, <2>2 DEF ContractStepOf
<1>9. CASE /\ row[t] = "COMPENSATING" /\ row'[t] = "FAILED"
           /\ Applied(t, "debit") /\ ~Applied(t, "credit") /\ Applied(t, "refund")
  <2>1. Recorded[t] = "pending" /\ Outcome(t)' = "failed"
    BY <1>3, <1>9 DEF Outcome
  <2>2. Placed[t] = "returned"
    BY <1>3, <1>9 DEF Money
  <2> QED
    BY <1>1, <1>2, <2>1, <2>2 DEF ContractStepOf
<1>10. CASE /\ row[t] = "COMPENSATING" /\ row'[t] = "COMPENSATION_FAILED"
            /\ Applied(t, "debit") /\ ~Applied(t, "credit") /\ ~Applied(t, "refund")
  <2>1. Recorded[t] = "pending" /\ Outcome(t)' = "stranded"
    BY <1>3, <1>10 DEF Outcome
  <2>2. Placed[t] = "held"
    BY <1>3, <1>10 DEF Money
  <2> QED
    BY <1>1, <1>2, <2>1, <2>2 DEF ContractStepOf
<1> QED
  BY <1>5, <1>6, <1>7, <1>8, <1>9, <1>10 DEF SagaStep, Outcomes3

\* A step of the account service moves the money of one pending transfer.
LEMMA AccountRefines ==
  ASSUME ContractInv, AccountStep, row' = row
  PROVE  (\E t \in Transfers : ContractStepOf(t)) \/ UNCHANGED <<Recorded, Placed>>
<1>1. Recorded' = Recorded
  BY SameRecorded
<1>2. CASE \A t \in Transfers, k \in Kinds : Applied(t, k)' <=> Applied(t, k)
  BY <1>1, <1>2, SamePlaced
<1>3. ASSUME NEW t \in Transfers, NEW k \in Kinds,
             Sent(t, k), ~Applied(t, k), ~Refused(t, k), Applied(t, k)',
             \A u \in Transfers, j \in Kinds :
               <<u, j>> # <<t, k>> => (Applied(u, j)' <=> Applied(u, j))
      PROVE  ContractStepOf(t)
  <2>1. Placed' = [Placed EXCEPT ![t] = Money(t)']
    BY <1>3, PlacedStep
  <2>2. /\ Pending(t)
        /\ k = "debit" => ~Applied(t, "credit") /\ ~Applied(t, "refund")
        /\ k = "credit" => Applied(t, "debit") /\ ~Applied(t, "refund")
        /\ k = "refund" => Applied(t, "debit") /\ ~Applied(t, "credit")
    BY <1>3, UnderWay
  <2>3. /\ k # "debit" => (Applied(t, "debit")' <=> Applied(t, "debit"))
        /\ k # "credit" => (Applied(t, "credit")' <=> Applied(t, "credit"))
        /\ k # "refund" => (Applied(t, "refund")' <=> Applied(t, "refund"))
    BY <1>3 DEF Kinds
  <2>4. Recorded[t] = "pending" /\ Placed[t] = Money(t)
    BY <2>2 DEF Recorded, Placed, Pending, Outcome
  <2>5. CASE k = "debit"
    <3>1. Placed[t] = "sender" /\ Money(t)' = "held"
      BY <1>3, <2>2, <2>3, <2>4, <2>5 DEF Money
    <3> QED
      BY <1>1, <2>1, <2>4, <3>1 DEF ContractStepOf
  <2>6. CASE k = "credit"
    <3>1. Placed[t] = "held" /\ Money(t)' = "receiver"
      BY <1>3, <2>2, <2>3, <2>4, <2>6 DEF Money
    <3> QED
      BY <1>1, <2>1, <2>4, <3>1 DEF ContractStepOf
  <2>7. CASE k = "refund"
    <3>1. Placed[t] = "held" /\ Money(t)' = "returned"
      BY <1>3, <2>2, <2>3, <2>4, <2>7 DEF Money
    <3> QED
      BY <1>1, <2>1, <2>4, <3>1 DEF ContractStepOf
  <2> QED
    BY <2>5, <2>6, <2>7 DEF Kinds
<1> QED
  BY <1>2, <1>3 DEF AccountStep

LEMMA ContractStarts == Init => Contract!Init
<1> SUFFICES ASSUME Init PROVE Contract!Init
  OBVIOUS
<1>1. ASSUME NEW t \in Transfers PROVE Outcome(t) = "none" /\ Money(t) = "sender"
  <2>1. ~Applied(t, "debit")
    BY CallsOfTransfers DEF Init, Account!Init, Account!NoCall, Applied, Kinds
  <2> QED
    BY <2>1 DEF Init, Outcome, Money
<1> QED
  BY <1>1 DEF Contract!Init

LEMMA ContractSteps ==
  ASSUME Reliable, ContractInv, [Next]_vars
  PROVE  [Contract!Next]_(Contract!contractVars)
<1>1. ASSUME UNCHANGED <<Recorded, Placed>>
      PROVE  UNCHANGED Contract!contractVars
  BY <1>1 DEF Contract!contractVars, Recorded, Placed
<1>2. ASSUME NEW t \in Transfers, Execute(t)
      PROVE  Contract!Next \/ UNCHANGED <<Recorded, Placed>>
  BY <1>2, ExecuteContract, SagaRefines, IsContractStep
<1>3. ASSUME Accounts
      PROVE  Contract!Next \/ UNCHANGED <<Recorded, Placed>>
  <2>1. AccountStep /\ row' = row
    BY <1>3, AccountsStep DEF Accounts, transferVars
  <2> QED
    BY <2>1, AccountRefines, IsContractStep
<1>4. ASSUME Crash \/ UNCHANGED vars
      PROVE  UNCHANGED <<Recorded, Placed>>
  <2>1. UNCHANGED <<call, row>>
    BY <1>4 DEF Crash, vars, accountVars, transferVars
  <2>2. \A u \in Transfers, k \in Kinds : Applied(u, k)' <=> Applied(u, k)
    BY <2>1 DEF Applied
  <2> QED
    BY <2>1, <2>2, SameRecorded, SamePlaced
<1> QED
  BY <1>1, <1>2, <1>3, <1>4 DEF Next

\* While every answer is read and every transaction commits, execute and the
\* account service implement the contract of a transfer: its money moves only
\* while the record says that it is under way, leaves the sender once, and the
\* record ends with the outcome that tells where the money then is.
THEOREM SagaImplementsContract ==
  ASSUME Reliable
  PROVE  Spec => ImplementsContract
<1>1. Init => Contract!Init
  BY ContractStarts
<1>2. ContractInv /\ [Next]_vars => [Contract!Next]_(Contract!contractVars)
  BY ContractSteps
<1> QED
  BY <1>1, <1>2, ContractAlways, PTL DEF Spec, ImplementsContract, Contract!Spec
=============================================================================
