------------------------ MODULE AccountServiceProofs ------------------------
(***************************************************************************)
(* Theorems about the account service, for any accounts, calls and faults. *)
(***************************************************************************)
EXTENDS AccountService, SumsProofs

\* What the proofs need of the constants.
LEMMA Constants ==
  /\ MaxBalance \in Nat
  /\ \A m \in Amounts \cup {0} : m \in Nat
  /\ Deposits \subseteq 0..MaxBalance
  BY AccountAssumption DEF AccountAssumption

USE Constants

\* The shape of a call record, as TypeOK has it.
CallRecords == [phase   : Phases,
                op      : {"none", "debit", "credit"},
                account : Ids,
                amount  : Amounts \cup {0},
                applied : BOOLEAN,
                answer  : Answers]

\* Answering a call keeps the calls well typed.
LEMMA AnswerType ==
  ASSUME call \in [Calls -> CallRecords], NEW c \in Calls,
         NEW applied \in BOOLEAN, NEW answer \in Answers,
         Answer(c, applied, answer)
  PROVE  call' \in [Calls -> CallRecords]
<1>. DEFINE r == [call[c] EXCEPT !.phase = "answered", !.applied = applied,
                                 !.answer = answer]
<1>1. r \in CallRecords
  BY DEF CallRecords, Phases
<1>2. call' = [call EXCEPT ![c] = r]
  BY DEF Answer
<1>. QED
  BY <1>1, <1>2

\* The answers of an UPDATE that took effect are answers.
LEMMA AppliedAnswersType == AppliedAnswers \subseteq {"OK", "DATABASE_ERROR"}
  BY DEF AppliedAnswers

\* The rows and the calls, the two halves of TypeOK.
RowsOK ==
  /\ created \subseteq AccountIds
  /\ balance \in [AccountIds -> 0..MaxBalance]
  /\ status \in [AccountIds -> Statuses]
  /\ kyc \in [AccountIds -> KycStatuses]
  /\ initialDeposit \in [AccountIds -> 0..MaxBalance]

LEMMA TypeSplit == TypeOK <=> RowsOK /\ call \in [Calls -> CallRecords]
  BY DEF TypeOK, RowsOK, CallRecords

LEMMA CallType ==
  ASSUME TypeOK, NEW c \in Calls
  PROVE  call[c].account \in Ids /\ call[c].amount \in Nat
<1>1. call[c] \in CallRecords
  BY TypeSplit
<1>2. call[c].account \in Ids /\ call[c].amount \in Amounts \cup {0}
  BY <1>1 DEF CallRecords
<1>. QED
  BY <1>2, Zenon

LEMMA InitType == Init => TypeOK
  BY DEF Init, TypeOK, NoCall, Statuses, KycStatuses, Phases, Answers, Ids

\* Managing accounts keeps the types, and leaves the calls alone.
LEMMA ManageType ==
  ASSUME TypeOK, Manage
  PROVE  TypeOK' /\ UNCHANGED call
<1>1. ASSUME NEW a \in AccountIds, NEW d \in Deposits, CreateAccount(a, d)
      PROVE  RowsOK' /\ UNCHANGED call
  BY <1>1, TypeSplit DEF RowsOK, CreateAccount
<1>2. ASSUME NEW a \in AccountIds, NEW k \in KycStatuses, UpdateKyc(a, k)
      PROVE  RowsOK' /\ UNCHANGED call
  BY <1>2, TypeSplit DEF RowsOK, UpdateKyc
<1>3. ASSUME NEW a \in AccountIds, Freeze(a)
      PROVE  RowsOK' /\ UNCHANGED call
  BY <1>3, TypeSplit DEF RowsOK, Freeze, Statuses
<1>4. RowsOK' /\ UNCHANGED call
  BY <1>1, <1>2, <1>3 DEF Manage
<1>. QED
  BY <1>4 DEF TypeOK, RowsOK

\* A debit stays within the column: its guard asks for the balance it takes.
LEMMA DebitType ==
  ASSUME TypeOK, NEW c \in Calls, Debit(c)
  PROVE  TypeOK'
<1>. DEFINE a == call[c].account
            m == call[c].amount
<1>1. a \in created /\ a \in AccountIds /\ m \in Nat /\ balance[a] >= m
  BY CallType DEF TypeOK, Debit, DebitMatches
<1>2. balance[a] - m \in 0..MaxBalance
  BY <1>1 DEF TypeOK
<1>3. RowsOK'
  BY <1>1, <1>2 DEF TypeOK, RowsOK, Debit
<1>4. call' \in [Calls -> CallRecords]
  BY AnswerType, AppliedAnswersType, TypeSplit DEF Debit, Answers
<1>. QED
  BY <1>3, <1>4 DEF TypeOK, RowsOK, CallRecords

\* A credit stays within the column, or it is the overflow.
LEMMA CreditType ==
  ASSUME TypeOK, NEW c \in Calls, Credit(c)
  PROVE  TypeOK'
<1>. DEFINE a == call[c].account
            m == call[c].amount
<1>1. a \in created /\ a \in AccountIds /\ m \in Nat /\ balance[a] + m <= MaxBalance
  BY CallType DEF TypeOK, Credit, CreditMatches
<1>2. balance[a] + m \in 0..MaxBalance
  BY <1>1 DEF TypeOK
<1>3. RowsOK'
  BY <1>1, <1>2 DEF TypeOK, RowsOK, Credit
<1>4. call' \in [Calls -> CallRecords]
  BY AnswerType, AppliedAnswersType, TypeSplit DEF Credit, Answers
<1>. QED
  BY <1>3, <1>4 DEF TypeOK, RowsOK, CallRecords

\* The steps that only answer or drop a call.
LEMMA CallOnlyType ==
  ASSUME TypeOK, NEW c \in Calls,
         \/ CreditOverflows(c) \/ Miss(c) \/ Explain(c) \/ StatementFails(c)
         \/ LoseCall(c)
  PROVE  TypeOK'
<1>1. ASSUME CreditOverflows(c) \/ StatementFails(c)
      PROVE  call' \in [Calls -> CallRecords] /\ UNCHANGED accountRows
  BY <1>1, AnswerType, TypeSplit DEF CreditOverflows, StatementFails, Answers
<1>2. ASSUME Miss(c) \/ LoseCall(c)
      PROVE  call' \in [Calls -> CallRecords] /\ UNCHANGED accountRows
  BY <1>2, TypeSplit DEF Miss, LoseCall, CallRecords, Phases
<1>3. DebitRefusal(call[c].account) \in Answers /\ CreditRefusal(call[c].account) \in Answers
  BY DEF DebitRefusal, CreditRefusal, Answers, Refusals
<1>4. ASSUME Explain(c)
      PROVE  call' \in [Calls -> CallRecords] /\ UNCHANGED accountRows
  BY <1>3, <1>4, AnswerType, TypeSplit DEF Explain
<1>5. call' \in [Calls -> CallRecords] /\ UNCHANGED accountRows
  BY <1>1, <1>2, <1>4
<1>. QED
  BY <1>5 DEF TypeOK, accountRows, CallRecords

\* A request well formed by its client keeps the types.
LEMMA SendType ==
  ASSUME TypeOK, NEW c \in Calls, NEW op \in {"debit", "credit"},
         NEW a \in Ids, NEW m \in Amounts, Send(c, op, a, m),
         UNCHANGED accountRows
  PROVE  TypeOK'
<1>1. call' \in [Calls -> CallRecords]
  BY TypeSplit DEF Send, CallRecords, Phases, Answers
<1>. QED
  BY <1>1 DEF TypeOK, accountRows, CallRecords

LEMMA HandleType ==
  ASSUME TypeOK, NEW c \in Calls, Handle(c) \/ LoseCall(c)
  PROVE  TypeOK'
  BY DebitType, CreditType, CallOnlyType DEF Handle

-----------------------------------------------------------------------------
\* Type correctness: no interleaving of requests drives a balance below zero
\* or beyond the column, and calls stay well formed.
THEOREM TypeCorrect == Spec => []TypeOK
<1>1. Init => TypeOK
  BY InitType
<1>2. TypeOK /\ [Next]_accountVars => TypeOK'
  <2>. SUFFICES ASSUME TypeOK, [Next]_accountVars PROVE TypeOK'
    OBVIOUS
  <2>1. CASE Manage
    BY <2>1, ManageType
  <2>2. ASSUME NEW c \in Calls, ClientSends(c) PROVE TypeOK'
    BY <2>2, SendType DEF ClientSends, Ids, TypeOK
  <2>3. ASSUME NEW c \in Calls, Handle(c) \/ LoseCall(c) PROVE TypeOK'
    BY <2>3, HandleType
  <2>4. CASE UNCHANGED accountVars
    BY <2>4 DEF TypeOK, accountVars
  <2>. QED
    BY <2>1, <2>2, <2>3, <2>4 DEF Next
<1>. QED
  BY <1>1, <1>2, PTL DEF Spec

-----------------------------------------------------------------------------
\* Only an account that exists is ever frozen: POST freeze selects its row.
FrozenExist == \A a \in AccountIds : status[a] = "suspended" => a \in created

\* One step keeps the frozen accounts frozen and their balances untouched.
LEMMA FrozenStep ==
  ASSUME TypeOK, FrozenExist, [Next]_accountVars,
         NEW a \in AccountIds, status[a] = "suspended"
  PROVE  status'[a] = "suspended" /\ balance'[a] = balance[a]
<1>1. ASSUME NEW b \in AccountIds, NEW d \in Deposits, CreateAccount(b, d)
      PROVE  status'[a] = "suspended" /\ balance'[a] = balance[a]
  <2>1. a # b
    BY <1>1 DEF CreateAccount, FrozenExist
  <2>. QED
    BY <1>1, <2>1 DEF CreateAccount, TypeOK
<1>2. ASSUME NEW b \in AccountIds, NEW k \in KycStatuses, UpdateKyc(b, k)
      PROVE  status'[a] = "suspended" /\ balance'[a] = balance[a]
  BY <1>2 DEF UpdateKyc
<1>3. ASSUME NEW b \in AccountIds, Freeze(b)
      PROVE  status'[a] = "suspended" /\ balance'[a] = balance[a]
  BY <1>3 DEF Freeze, TypeOK
<1>4. ASSUME NEW c \in Calls, Debit(c)
      PROVE  status'[a] = "suspended" /\ balance'[a] = balance[a]
  <2>1. a # call[c].account
    BY <1>4 DEF Debit, DebitMatches
  <2>. QED
    BY <1>4, <2>1 DEF Debit, TypeOK
<1>5. ASSUME NEW c \in Calls, Credit(c)
      PROVE  status'[a] = "suspended" /\ balance'[a] = balance[a]
  <2>1. a # call[c].account
    BY <1>5 DEF Credit, CreditMatches
  <2>. QED
    BY <1>5, <2>1 DEF Credit, TypeOK
<1>6. ASSUME NEW c \in Calls,
             \/ ClientSends(c) \/ CreditOverflows(c) \/ Miss(c) \/ Explain(c)
             \/ StatementFails(c) \/ LoseCall(c)
      PROVE  UNCHANGED accountRows
  BY <1>6 DEF ClientSends, CreditOverflows, Miss, Explain, StatementFails, LoseCall
<1>7. CASE UNCHANGED accountVars
  BY <1>7 DEF accountVars
<1>8. ASSUME NEW c \in Calls, ClientSends(c) \/ Handle(c) \/ LoseCall(c)
      PROVE  status'[a] = "suspended" /\ balance'[a] = balance[a]
  BY <1>4, <1>5, <1>6, <1>8 DEF Handle, accountRows
<1>. QED
  BY <1>1, <1>2, <1>3, <1>7, <1>8 DEF Next, Manage

LEMMA FrozenExistStep ==
  ASSUME TypeOK, FrozenExist, [Next]_accountVars
  PROVE  FrozenExist'
<1>. SUFFICES ASSUME NEW a \in AccountIds, status'[a] = "suspended"
              PROVE  a \in created'
  BY DEF FrozenExist
<1>1. created \subseteq created'
  <2>1. ASSUME Manage PROVE created \subseteq created'
    BY <2>1 DEF Manage, CreateAccount, UpdateKyc, Freeze
  <2>2. ASSUME NEW c \in Calls, ClientSends(c) \/ Handle(c) \/ LoseCall(c)
        PROVE  created' = created
    BY <2>2 DEF ClientSends, Handle, Debit, Credit, CreditOverflows, Miss,
                Explain, StatementFails, LoseCall, accountRows
  <2>. QED
    BY <2>1, <2>2 DEF Next, accountVars
<1>2. CASE status[a] = "suspended"
  BY <1>1, <1>2 DEF FrozenExist
<1>3. CASE status[a] # "suspended"
  <2>1. ASSUME NEW c \in Calls, ClientSends(c) \/ Handle(c) \/ LoseCall(c)
        PROVE  status' = status
    BY <2>1 DEF ClientSends, Handle, Debit, Credit, CreditOverflows, Miss,
                Explain, StatementFails, LoseCall, accountRows
  <2>2. status' # status
    BY <1>3
  <2>3. Manage
    BY <2>1, <2>2 DEF Next, accountVars
  <2>4. PICK b \in AccountIds : Freeze(b)
    BY <2>2, <2>3 DEF Manage, CreateAccount, UpdateKyc
  <2>5. b = a
    BY <1>3, <2>4 DEF Freeze, TypeOK
  <2>. QED
    BY <2>4, <2>5 DEF Freeze
<1>. QED
  BY <1>2, <1>3

\* A freeze is final: once an account is suspended no request changes its
\* status or its balance, whatever was under way when it was frozen.
THEOREM FreezeIsFinal == Spec => FrozenIsFinal
<1>1. Init => FrozenExist
  BY DEF Init, FrozenExist
<1>2. TypeOK /\ FrozenExist /\ [Next]_accountVars => FrozenExist'
  BY FrozenExistStep
<1>3. TypeOK /\ FrozenExist /\ [Next]_accountVars =>
        [\A a \in AccountIds :
           status[a] = "suspended" =>
             status'[a] = "suspended" /\ balance'[a] = balance[a]]_accountVars
  BY FrozenStep
<1>. QED
  BY <1>1, <1>2, <1>3, TypeCorrect, PTL DEF Spec, FrozenIsFinal

-----------------------------------------------------------------------------
\* What a call record tells its client: money moved only for an answered call,
\* and an answer 200 means that it moved.
CallsTell ==
  \A c \in Calls :
    /\ call[c].applied => call[c].phase = "answered"
    /\ call[c].answer = "OK" => call[c].applied

\* What a client may rely on across a step of the service: no call is begun or
\* taken back, and no effect is undone.
CallsGrow ==
  \A c \in Calls :
    /\ call'[c].phase = "idle" <=> call[c].phase = "idle"
    /\ call[c].applied => call'[c].applied

\* The same for one call that changes as the handlers change it.
LEMMA CallStep ==
  ASSUME TypeOK, CallsTell, NEW c \in Calls, NEW r \in CallRecords,
         call' = [call EXCEPT ![c] = r],
         call[c].phase # "idle", r.phase # "idle",
         call[c].applied => r.applied,
         r.applied => r.phase = "answered",
         r.answer = "OK" => r.applied
  PROVE  CallsTell' /\ CallsGrow
<1>1. call'[c] = r
  BY TypeSplit
<1>2. ASSUME NEW d \in Calls, d # c PROVE call'[d] = call[d]
  BY <1>2, TypeSplit
<1>3. CallsTell'
  BY <1>1, <1>2 DEF CallsTell
<1>4. CallsGrow
  BY <1>1, <1>2 DEF CallsGrow
<1>. QED
  BY <1>3, <1>4

\* Answering a call whose money has not moved yet.
LEMMA AnswerStep ==
  ASSUME TypeOK, CallsTell, NEW c \in Calls,
         call[c].phase \in {"sent", "missed"},
         NEW applied \in BOOLEAN, NEW answer \in Answers,
         answer = "OK" => applied,
         Answer(c, applied, answer)
  PROVE  CallsTell' /\ CallsGrow
<1>. DEFINE r == [call[c] EXCEPT !.phase = "answered", !.applied = applied,
                                 !.answer = answer]
<1>1. call[c] \in CallRecords /\ ~call[c].applied
  BY TypeSplit DEF CallsTell
<1>2. r \in CallRecords
  BY <1>1 DEF CallRecords, Phases
<1>3. /\ call[c].phase # "idle"
      /\ r.phase = "answered" /\ r.applied = applied /\ r.answer = answer
  BY <1>1 DEF CallRecords
<1>4. call' = [call EXCEPT ![c] = r]
  BY DEF Answer
<1>. HIDE DEF r
<1>. QED
  BY <1>1, <1>2, <1>3, <1>4, CallStep

LEMMA HandleStep ==
  ASSUME TypeOK, CallsTell, NEW c \in Calls, Handle(c) \/ LoseCall(c)
  PROVE  CallsTell' /\ CallsGrow
<1>1. CASE Debit(c)
  <2>1. PICK answer \in AppliedAnswers : Answer(c, TRUE, answer)
    BY <1>1 DEF Debit
  <2>. QED
    BY <1>1, <2>1, AnswerStep, AppliedAnswersType DEF Debit, Answers
<1>2. CASE Credit(c)
  <2>1. PICK answer \in AppliedAnswers : Answer(c, TRUE, answer)
    BY <1>2 DEF Credit
  <2>. QED
    BY <1>2, <2>1, AnswerStep, AppliedAnswersType DEF Credit, Answers
<1>3. CASE CreditOverflows(c) \/ StatementFails(c)
  <2>1. /\ call[c].phase \in {"sent", "missed"}
        /\ Answer(c, FALSE, "DATABASE_ERROR")
    BY <1>3 DEF CreditOverflows, StatementFails
  <2>. QED
    BY <2>1, AnswerStep DEF Answers
<1>4. CASE Explain(c)
  <2>1. PICK answer \in Refusals : Answer(c, FALSE, answer)
    BY <1>4 DEF Explain, DebitRefusal, CreditRefusal, Refusals
  <2>. QED
    BY <1>4, <2>1, AnswerStep DEF Explain, Answers, Refusals
<1>5. CASE Miss(c) \/ LoseCall(c)
  <2>1. PICK phase \in {"missed", "lost"} :
          call' = [call EXCEPT ![c] = [@ EXCEPT !.phase = phase]]
    BY <1>5 DEF Miss, LoseCall
  <2>. DEFINE r == [call[c] EXCEPT !.phase = phase]
  <2>2. call[c] \in CallRecords /\ ~call[c].applied /\ call[c].phase # "idle"
    BY <1>5, TypeSplit DEF CallsTell, Miss, LoseCall
  <2>3. /\ r \in CallRecords /\ call' = [call EXCEPT ![c] = r]
        /\ r.phase = phase /\ r.applied = call[c].applied
        /\ r.answer = call[c].answer
    BY <2>1, <2>2 DEF CallRecords, Phases
  <2>4. ~r.applied /\ r.answer # "OK"
    BY <2>2, <2>3 DEF CallsTell
  <2>. HIDE DEF r
  <2>. QED
    BY <2>2, <2>3, <2>4, CallStep
<1>. QED
  BY <1>1, <1>2, <1>3, <1>4, <1>5 DEF Handle

\* A call that is sent has not moved money, and the others stay as they are.
LEMMA SendStep ==
  ASSUME TypeOK, CallsTell, NEW c \in Calls, NEW op, NEW a, NEW m,
         Send(c, op, a, m)
  PROVE  /\ CallsTell'
         /\ call'[c].phase = "sent" /\ ~call'[c].applied /\ ~call[c].applied
         /\ \A d \in Calls \ {c} : call'[d] = call[d]
<1>1. call'[c] = [phase |-> "sent", op |-> op, account |-> a, amount |-> m,
                  applied |-> FALSE, answer |-> "none"]
  BY TypeSplit DEF Send
<1>2. \A d \in Calls \ {c} : call'[d] = call[d]
  BY TypeSplit DEF Send
<1>3. ~call[c].applied
  BY DEF Send, CallsTell
<1>. QED
  BY <1>1, <1>2, <1>3 DEF CallsTell

-----------------------------------------------------------------------------
(* How a call goes on: it is answered, it has missed, or it is lost.       *)

GoesOn(c) ==
  /\ call[c].phase \in {"sent", "missed"} /\ ~call[c].applied
  /\ \A d \in Calls \ {c} : call'[d] = call[d]
  /\ \/ call'[c].phase = "answered" /\ call'[c].answer # "none"
     \/ call'[c].phase \in {"missed", "lost"} /\ ~call'[c].applied
  /\ "commit" \notin Faults /\ call'[c].applied => call'[c].answer = "OK"
  /\ "net" \notin Faults => call'[c].phase # "lost"

LEMMA HandleGoesOn ==
  ASSUME TypeOK, CallsTell, NEW c \in Calls, Handle(c) \/ LoseCall(c)
  PROVE  GoesOn(c)
<1>1. call[c] \in CallRecords /\ call \in [Calls -> CallRecords]
  BY TypeSplit
<1>2. call[c].phase \in {"sent", "missed"} /\ ~call[c].applied
  BY DEF Handle, Debit, Credit, CreditOverflows, Miss, Explain, StatementFails, LoseCall,
         CallsTell
<1>3. ASSUME NEW applied \in BOOLEAN, NEW answer \in Answers \ {"none"},
             Answer(c, applied, answer),
             "commit" \notin Faults /\ applied => answer = "OK"
      PROVE  GoesOn(c)
  <2> DEFINE r == [call[c] EXCEPT !.phase = "answered", !.applied = applied,
                                  !.answer = answer]
  <2>1. r.phase = "answered" /\ r.applied = applied /\ r.answer = answer
    BY <1>1 DEF CallRecords
  <2>2. call' = [call EXCEPT ![c] = r]
    BY <1>3 DEF Answer
  <2> HIDE DEF r
  <2>3. call'[c] = r /\ \A d \in Calls \ {c} : call'[d] = call[d]
    BY <1>1, <2>2
  <2> QED
    BY <1>2, <1>3, <2>1, <2>3 DEF GoesOn
<1>4. CASE Debit(c) \/ Credit(c)
  <2>1. PICK answer \in AppliedAnswers : Answer(c, TRUE, answer)
    BY <1>4 DEF Debit, Credit
  <2>2. answer \in Answers \ {"none"} /\ ("commit" \notin Faults => answer = "OK")
    BY AppliedAnswersType DEF Answers, AppliedAnswers
  <2> QED
    BY <1>3, <2>1, <2>2
<1>5. CASE CreditOverflows(c) \/ StatementFails(c)
  BY <1>3, <1>5 DEF CreditOverflows, StatementFails, Answers
<1>6. CASE Explain(c)
  <2>1. PICK answer \in Refusals : Answer(c, FALSE, answer)
    BY <1>6 DEF Explain, DebitRefusal, CreditRefusal, Refusals
  <2> QED
    BY <1>3, <2>1 DEF Answers, Refusals
<1>7. CASE Miss(c) \/ LoseCall(c)
  <2>1. PICK phase \in {"missed", "lost"} :
          /\ call' = [call EXCEPT ![c] = [@ EXCEPT !.phase = phase]]
          /\ phase = "lost" => "net" \in Faults
    BY <1>7 DEF Miss, LoseCall
  <2> DEFINE r == [call[c] EXCEPT !.phase = phase]
  <2>2. r.phase = phase /\ r.applied = call[c].applied /\ call' = [call EXCEPT ![c] = r]
    BY <1>1, <2>1 DEF CallRecords
  <2> HIDE DEF r
  <2>3. call'[c] = r /\ \A d \in Calls \ {c} : call'[d] = call[d]
    BY <1>1, <2>2
  <2> QED
    BY <1>2, <2>1, <2>2, <2>3 DEF GoesOn
<1> QED
  BY <1>4, <1>5, <1>6, <1>7 DEF Handle

-----------------------------------------------------------------------------
(* Refusals that stay true.                                                *)

\* The facts a refusal relies on are permanent.
RowsGrow ==
  /\ created \subseteq created'
  /\ \A a \in created : status[a] = "suspended" => status'[a] = "suspended"

\* A call names an account that exists, or one that never will; what an UPDATE
\* of a credit found when it selected no row is still so when it is explained.
RefusalTells(c) ==
  LET a == call[c].account
  IN  /\ call[c].phase = "idle" => call[c].answer = "none"
      /\ call[c].phase # "idle" => a \in created \cup {Unknown}
      /\ call[c].phase = "missed" /\ call[c].op # "debit" =>
           (a \in created => status[a] = "suspended")
      /\ call[c].answer = "ACCOUNT_FROZEN" => a \in created /\ status[a] = "suspended"
      /\ call[c].answer = "NOT_FOUND" => a \notin created

RefusalInv == TypeOK /\ FrozenExist /\ \A c \in Calls : RefusalTells(c)

LEMMA UnknownIsNone == TypeOK => Unknown \notin created
  BY AccountAssumption DEF AccountAssumption, TypeOK

LEMMA RowsStep ==
  ASSUME TypeOK, FrozenExist, [Next]_accountVars
  PROVE  RowsGrow
<1>1. created \subseteq created'
  <2>1. ASSUME Manage PROVE created \subseteq created'
    BY <2>1 DEF Manage, CreateAccount, UpdateKyc, Freeze
  <2>2. ASSUME NEW c \in Calls, ClientSends(c) \/ Handle(c) \/ LoseCall(c)
        PROVE  created' = created
    BY <2>2 DEF ClientSends, Handle, Debit, Credit, CreditOverflows, Miss,
                Explain, StatementFails, LoseCall, accountRows
  <2> QED
    BY <2>1, <2>2 DEF Next, accountVars
<1>2. \A a \in created : status[a] = "suspended" => status'[a] = "suspended"
  BY FrozenStep DEF TypeOK
<1> QED
  BY <1>1, <1>2 DEF RowsGrow

\* A call that rests is not made wrong by what happens to the accounts.
LEMMA RefusalRests ==
  ASSUME TypeOK, TypeOK', RowsGrow, NEW c \in Calls, RefusalTells(c), call'[c] = call[c]
  PROVE  RefusalTells(c)'
<1>1. Unknown \notin created /\ Unknown \notin created'
  BY UnknownIsNone, AccountAssumption DEF AccountAssumption, TypeOK
<1> QED
  BY <1>1 DEF RefusalTells, RowsGrow

\* The handler of one call.
LEMMA RefusalHandled ==
  ASSUME RefusalInv, TypeOK', RowsGrow, NEW c \in Calls, Handle(c) \/ LoseCall(c)
  PROVE  RefusalTells(c)'
<1>1. call[c] \in CallRecords /\ call \in [Calls -> CallRecords] /\ RefusalTells(c)
  BY TypeSplit DEF RefusalInv
<1>2. /\ call[c].phase \in {"sent", "missed"}
      /\ call[c].account \in created \cup {Unknown}
  BY <1>1 DEF Handle, Debit, Credit, CreditOverflows, Miss, Explain, StatementFails,
              LoseCall, RefusalTells
<1>3. ASSUME NEW applied, NEW answer, Answer(c, applied, answer)
      PROVE  /\ call'[c].account = call[c].account
             /\ call'[c].phase = "answered" /\ call'[c].answer = answer
  BY <1>1, <1>3 DEF Answer, CallRecords
<1>4. call[c].account \in created' \cup {Unknown}
  BY <1>2 DEF RowsGrow
<1>5. ASSUME NEW applied, NEW answer \in {"OK", "DATABASE_ERROR"},
             Answer(c, applied, answer)
      PROVE  RefusalTells(c)'
  BY <1>3, <1>4, <1>5 DEF RefusalTells
<1>6. CASE Debit(c) \/ Credit(c)
  <2>1. PICK answer \in AppliedAnswers : Answer(c, TRUE, answer)
    BY <1>6 DEF Debit, Credit
  <2> QED
    BY <1>5, <2>1, AppliedAnswersType
<1>7. CASE CreditOverflows(c) \/ StatementFails(c)
  BY <1>5, <1>7 DEF CreditOverflows, StatementFails
<1>8. CASE Explain(c)
  <2> DEFINE a == call[c].account
             answer == IF call[c].op = "debit" THEN DebitRefusal(a) ELSE CreditRefusal(a)
  <2>1. /\ Answer(c, FALSE, answer) /\ UNCHANGED <<created, status>>
        /\ call[c].phase = "missed"
    BY <1>8 DEF Explain, accountRows
  <2>2. /\ answer = "ACCOUNT_FROZEN" => a \in created /\ status[a] = "suspended"
        /\ answer = "NOT_FOUND" => a \notin created
    BY <1>1, <2>1 DEF RefusalTells, DebitRefusal, CreditRefusal
  <2> HIDE DEF answer
  <2>3. /\ call'[c].account = a /\ call'[c].phase = "answered"
        /\ call'[c].answer = answer
    BY <1>3, <2>1
  <2> QED
    BY <1>4, <2>1, <2>2, <2>3 DEF RefusalTells
<1>9. CASE Miss(c) \/ LoseCall(c)
  <2>1. PICK phase \in {"missed", "lost"} :
          call' = [call EXCEPT ![c] = [@ EXCEPT !.phase = phase]]
    BY <1>9 DEF Miss, LoseCall
  <2>2. /\ call'[c].account = call[c].account /\ call'[c].op = call[c].op
        /\ call'[c].phase = phase /\ call'[c].answer = call[c].answer
    BY <1>1, <2>1 DEF CallRecords
  <2>3. UNCHANGED <<created, status>>
    BY <1>9 DEF Miss, LoseCall, accountRows
  <2>4. Miss(c) /\ call[c].op # "debit" =>
          (call[c].account \in created => status[call[c].account] = "suspended")
    BY DEF Miss, CreditMatches
  <2>5. LoseCall(c) /\ ~Miss(c) => phase = "lost" \/ call[c].phase = "missed"
    BY <1>1, <1>2, <2>2 DEF LoseCall, CallRecords
  <2> QED
    BY <1>1, <1>2, <1>9, <2>2, <2>3, <2>4, <2>5 DEF RefusalTells
<1> QED
  BY <1>6, <1>7, <1>8, <1>9 DEF Handle

LEMMA RefusalStep ==
  ASSUME RefusalInv, [Next]_accountVars
  PROVE  RefusalInv'
<1>1. TypeOK' /\ FrozenExist' /\ RowsGrow
  <2>1. TypeOK'
    <3>1. ASSUME NEW c \in Calls, ClientSends(c) PROVE TypeOK'
      BY <3>1, SendType DEF ClientSends, Ids, TypeOK, RefusalInv
    <3>2. CASE UNCHANGED accountVars
      BY <3>2 DEF TypeOK, accountVars, RefusalInv
    <3> QED
      BY <3>1, <3>2, ManageType, HandleType DEF Next, RefusalInv
  <2> QED
    BY <2>1, FrozenExistStep, RowsStep DEF RefusalInv
<1>2. ASSUME NEW c \in Calls, call'[c] = call[c] PROVE RefusalTells(c)'
  BY <1>1, <1>2, RefusalRests DEF RefusalInv
<1>3. CASE Manage \/ UNCHANGED accountVars
  <2>1. UNCHANGED call
    BY <1>3, ManageType DEF RefusalInv, accountVars
  <2> QED
    BY <1>1, <1>2, <2>1 DEF RefusalInv
<1>4. ASSUME NEW c \in Calls, ClientSends(c) \/ Handle(c) \/ LoseCall(c)
      PROVE  \A d \in Calls : RefusalTells(d)'
  <2>1. RefusalTells(c)'
    <3>1. ASSUME ClientSends(c) PROVE RefusalTells(c)'
      <4>1. PICK op \in {"debit", "credit"}, a \in created \cup {Unknown}, m \in Amounts :
              Send(c, op, a, m) /\ UNCHANGED accountRows
        BY <3>1 DEF ClientSends
      <4>2. /\ call'[c].phase = "sent" /\ call'[c].account = a
            /\ call'[c].answer = "none" /\ created' = created
        BY <4>1, TypeSplit DEF Send, RefusalInv, accountRows
      <4> QED
        BY <4>2 DEF RefusalTells
    <3> QED
      BY <1>1, <1>4, <3>1, RefusalHandled
  <2>2. ASSUME NEW d \in Calls, d # c PROVE call'[d] = call[d]
    BY <1>4, <2>2, TypeSplit
    DEF ClientSends, Send, Handle, Debit, Credit, CreditOverflows, Miss, Explain,
        StatementFails, LoseCall, Answer, RefusalInv
  <2> QED
    BY <1>2, <2>1, <2>2
<1>5. \A c \in Calls : RefusalTells(c)'
  BY <1>3, <1>4 DEF Next, RefusalInv
<1> QED
  BY <1>1, <1>5 DEF RefusalInv

\* A refusal that blames a freeze or an unknown identifier is still right when
\* the client reads it: for a credit the query that explains cannot find the
\* row that the UPDATE missed active, because a freeze is final and nobody
\* names an account before it exists.
THEOREM RefusalsStayTrue == Spec => []PermanentRefusalsAreTrue
<1>1. Init => RefusalInv
  <2>1. Init => FrozenExist /\ \A c \in Calls : RefusalTells(c)
    BY DEF Init, FrozenExist, RefusalTells, NoCall
  <2> QED
    BY <2>1, InitType DEF RefusalInv
<1>2. RefusalInv /\ [Next]_accountVars => RefusalInv'
  BY RefusalStep
<1>3. RefusalInv => PermanentRefusalsAreTrue
  BY DEF RefusalInv, RefusalTells, PermanentRefusalsAreTrue
<1> QED
  BY <1>1, <1>2, <1>3, PTL DEF Spec

-----------------------------------------------------------------------------
(* The money.                                                              *)

Ops  == {"debit", "credit"}
Paid == {c \in Calls : call[c].applied}

\* Between the deposits and the balances there are the calls that were
\* applied, for each account and for all of them together.
MoneyInv ==
  /\ IsFiniteSet(created) /\ IsFiniteSet(Paid)
  /\ \A c \in Paid : call[c].account \in created
  /\ \A a \in AccountIds :
       balance[a] + Sum(MovedAt("debit", a), Amount)
         = initialDeposit[a] + Sum(MovedAt("credit", a), Amount)
  /\ Sum(created, balance) + Sum(Moved("debit"), Amount)
       = Sum(created, initialDeposit) + Sum(Moved("credit"), Amount)

\* A step that moves no money ...
Untouched ==
  /\ UNCHANGED <<created, balance, initialDeposit>>
  /\ \A c \in Calls :
       /\ call'[c].applied <=> call[c].applied
       /\ call[c].applied => /\ call'[c].op = call[c].op
                             /\ call'[c].account = call[c].account
                             /\ call'[c].amount = call[c].amount

\* ... and one that applies a call.
Pays(c) ==
  /\ UNCHANGED <<created, initialDeposit>>
  /\ call[c].account \in created /\ call[c].op \in Ops /\ ~call[c].applied
  /\ balance' = [balance EXCEPT ![call[c].account] =
                   IF call[c].op = "debit" THEN @ - call[c].amount
                   ELSE @ + call[c].amount]
  /\ call'[c].applied /\ call'[c].op = call[c].op
  /\ call'[c].account = call[c].account /\ call'[c].amount = call[c].amount
  /\ \A d \in Calls \ {c} : call'[d] = call[d]

\* What is summed is finite, and natural.
LEMMA MoneyType ==
  ASSUME TypeOK, IsFiniteSet(Paid)
  PROVE  /\ \A c \in Calls : Amount[c] \in Nat
         /\ \A op : IsFiniteSet(Moved(op)) /\ Sum(Moved(op), Amount) \in Nat
         /\ \A op, a : /\ IsFiniteSet(MovedAt(op, a))
                       /\ Sum(MovedAt(op, a), Amount) \in Nat
         /\ \A a \in AccountIds : balance[a] \in Nat /\ initialDeposit[a] \in Nat
<1>1. \A c \in Calls : Amount[c] \in Nat
  BY CallType DEF Amount
<1>2. ASSUME NEW S \in SUBSET Paid
      PROVE  IsFiniteSet(S) /\ Sum(S, Amount) \in Nat
  <2>1. IsFiniteSet(S) /\ S \subseteq Calls
    BY FS_Subset DEF Paid
  <2>. QED
    BY <1>1, <2>1, CentsFinite
<1>3. \A op, a : Moved(op) \subseteq Paid /\ MovedAt(op, a) \subseteq Paid
  BY DEF Moved, MovedAt, Paid
<1>4. \A a \in AccountIds : balance[a] \in Nat /\ initialDeposit[a] \in Nat
  BY DEF TypeOK
<1>. QED
  BY <1>1, <1>2, <1>3, <1>4

LEMMA UntouchedMoney ==
  ASSUME TypeOK, MoneyInv, Untouched
  PROVE  MoneyInv'
<1>1. Paid' = Paid
  BY DEF Paid, Untouched
<1>2. \A op : Moved(op)' = Moved(op)
  BY DEF Moved, Untouched
<1>3. \A op, a : MovedAt(op, a)' = MovedAt(op, a)
  BY DEF Moved, MovedAt, Untouched
<1>4. \A c \in Paid : Amount'[c] = Amount[c]
  BY DEF Paid, Amount, Untouched
<1>5. \A op : Moved(op) \subseteq Paid
  BY DEF Moved, Paid
<1>6. \A op, a : MovedAt(op, a) \subseteq Paid
  BY DEF Moved, MovedAt, Paid
<1>7. \A op : Sum(Moved(op), Amount)' = Sum(Moved(op), Amount)
  BY <1>2, <1>4, <1>5, SumSame
<1>8. \A op, a : Sum(MovedAt(op, a), Amount)' = Sum(MovedAt(op, a), Amount)
  BY <1>3, <1>4, <1>6, SumSame
<1>9. \A c \in Paid : call'[c].account \in created'
  BY DEF MoneyInv, Paid, Untouched
<1>. QED
  BY <1>1, <1>7, <1>8, <1>9 DEF MoneyInv, Untouched

\* A new account holds its deposit, and no call has named it.
LEMMA OpensMoney ==
  ASSUME TypeOK, MoneyInv, NEW a \in AccountIds, NEW d \in Deposits,
         CreateAccount(a, d)
  PROVE  MoneyInv'
<1>. DEFINE after  == Sum(created', balance')
            before == Sum(created, balance)
            asked  == Sum(created', initialDeposit')
            given  == Sum(created, initialDeposit)
<1>1. /\ a \notin created /\ created' = created \cup {a} /\ UNCHANGED call
      /\ balance' = [balance EXCEPT ![a] = d]
      /\ initialDeposit' = [initialDeposit EXCEPT ![a] = d]
      /\ d \in Nat /\ created \subseteq AccountIds
  BY DEF CreateAccount, TypeOK
<1>2. /\ \A b \in AccountIds : balance[b] \in Nat /\ initialDeposit[b] \in Nat
      /\ \A b \in AccountIds : balance'[b] \in Nat /\ initialDeposit'[b] \in Nat
      /\ balance'[a] = d /\ initialDeposit'[a] = d
      /\ \A b \in AccountIds \ {a} :
           balance'[b] = balance[b] /\ initialDeposit'[b] = initialDeposit[b]
  BY <1>1 DEF TypeOK
<1>3. Paid' = Paid /\ \A op : Moved(op)' = Moved(op)
  BY <1>1 DEF Paid, Moved
<1>4. Amount' = Amount /\ \A op, b : MovedAt(op, b)' = MovedAt(op, b)
  BY <1>1 DEF Amount, Moved, MovedAt
<1>5. IsFiniteSet(created) /\ IsFiniteSet(created')
  BY <1>1, FS_AddElement DEF MoneyInv
<1>6. after = before + d
  <2>1. \A b \in created' : balance'[b] \in Nat
    BY <1>1, <1>2
  <2>2. \A b \in created : balance'[b] = balance[b]
    BY <1>1, <1>2
  <2>3. a \notin created /\ created' = created \cup {a} /\ IsFiniteSet(created)
    BY <1>1, <1>5
  <2>4. after = before + balance'[a]
    BY ONLY <2>1, <2>2, <2>3, SumJoin
  <2>. QED
    BY <1>2, <2>4
<1>7. asked = given + d
  <2>1. \A b \in created' : initialDeposit'[b] \in Nat
    BY <1>1, <1>2
  <2>2. \A b \in created : initialDeposit'[b] = initialDeposit[b]
    BY <1>1, <1>2
  <2>3. a \notin created /\ created' = created \cup {a} /\ IsFiniteSet(created)
    BY <1>1, <1>5
  <2>4. asked = given + initialDeposit'[a]
    BY ONLY <2>1, <2>2, <2>3, SumJoin
  <2>. QED
    BY <1>2, <2>4
<1>8. before \in Nat /\ given \in Nat
  BY <1>1, <1>2, <1>5, CentsFinite
<1>9. \A op : MovedAt(op, a) = {}
  BY <1>1 DEF MoneyInv, Paid, Moved, MovedAt
<1>10. \A b \in AccountIds :
         (balance[b] + Sum(MovedAt("debit", b), Amount)
            = initialDeposit[b] + Sum(MovedAt("credit", b), Amount))'
  <2>1. ASSUME NEW b \in AccountIds, b # a
        PROVE  (balance[b] + Sum(MovedAt("debit", b), Amount)
                  = initialDeposit[b] + Sum(MovedAt("credit", b), Amount))'
    BY <1>2, <1>4, <2>1 DEF MoneyInv
  <2>2. (balance[a] + Sum(MovedAt("debit", a), Amount)
           = initialDeposit[a] + Sum(MovedAt("credit", a), Amount))'
    <3>1. Sum(MovedAt("debit", a), Amount)' = 0 /\ Sum(MovedAt("credit", a), Amount)' = 0
      BY <1>4, <1>9, SumEmpty
    <3>. QED
      BY <1>1, <1>2, <3>1
  <2>. QED
    BY <2>1, <2>2
<1>11. \A c \in Paid' : call'[c].account \in created'
  BY <1>1, <1>3 DEF MoneyInv
<1>12. PICK out \in Nat, in \in Nat :
         out = Sum(Moved("debit"), Amount) /\ in = Sum(Moved("credit"), Amount)
  BY MoneyType DEF MoneyInv
<1>13. before + out = given + in
  BY <1>12 DEF MoneyInv
<1>. HIDE DEF after, before, asked, given
<1>14. after + out = asked + in
  BY ONLY <1>1, <1>6, <1>7, <1>8, <1>12, <1>13
<1>15. (Sum(created, balance) + Sum(Moved("debit"), Amount)
          = Sum(created, initialDeposit) + Sum(Moved("credit"), Amount))'
  BY <1>3, <1>4, <1>12, <1>14 DEF after, asked
<1>. QED
  BY <1>3, <1>5, <1>10, <1>11, <1>15 DEF MoneyInv

\* The calls of one operation, and their sum, when one of them is applied.
LEMMA PaysCalls ==
  ASSUME TypeOK, MoneyInv, NEW c \in Calls, Pays(c), NEW op
  PROVE  /\ Amount' = Amount /\ c \notin Moved(op)
         /\ Moved(op)' = IF call[c].op = op THEN Moved(op) \cup {c} ELSE Moved(op)
         /\ \A b : c \notin MovedAt(op, b)
         /\ \A b : MovedAt(op, b)' = IF call[c].op = op /\ call[c].account = b
                                     THEN MovedAt(op, b) \cup {c} ELSE MovedAt(op, b)
<1>1. Amount' = Amount
  <2>1. \A d \in Calls : call'[d].amount = call[d].amount
    BY DEF Pays
  <2>. QED
    BY <2>1 DEF Amount
<1>2. c \notin Moved(op) /\ \A b : c \notin MovedAt(op, b)
  BY DEF Pays, Moved, MovedAt
<1>3. Moved(op)' = IF call[c].op = op THEN Moved(op) \cup {c} ELSE Moved(op)
  BY DEF Pays, Moved
<1>4. ASSUME NEW b
      PROVE  MovedAt(op, b)' = IF call[c].op = op /\ call[c].account = b
                               THEN MovedAt(op, b) \cup {c} ELSE MovedAt(op, b)
  BY <1>3 DEF Pays, Moved, MovedAt
<1>. QED
  BY <1>1, <1>2, <1>3, <1>4

\* A call more to sum.
LEMMA PaysOneMore ==
  ASSUME TypeOK, MoneyInv, NEW c \in Calls,
         NEW S \in SUBSET Calls, IsFiniteSet(S), c \notin S
  PROVE  Sum(S \cup {c}, Amount) = Sum(S, Amount) + call[c].amount
<1>1. Amount[c] = call[c].amount
  BY DEF Amount
<1>2. \A d \in S \cup {c} : Amount[d] \in Nat
  BY MoneyType DEF MoneyInv
<1>3. Sum(S \cup {c}, Amount) = Sum(S, Amount) + Amount[c]
  BY ONLY IsFiniteSet(S), c \notin S, <1>2, SumAdd
<1>. QED
  BY <1>1, <1>3, Zenon

LEMMA PaysSums ==
  ASSUME TypeOK, MoneyInv, NEW c \in Calls, Pays(c), NEW op
  PROVE  Sum(Moved(op), Amount)' =
           Sum(Moved(op), Amount) + IF call[c].op = op THEN call[c].amount ELSE 0
<1>. DEFINE S == Moved(op)
<1>1. /\ c \notin S /\ Amount' = Amount
      /\ S' = IF call[c].op = op THEN S \cup {c} ELSE S
  BY PaysCalls
<1>2. S \in SUBSET Calls /\ IsFiniteSet(S) /\ Sum(S, Amount) \in Nat
  BY MoneyType DEF MoneyInv, Moved
<1>. HIDE DEF S
<1>3. CASE call[c].op = op
  BY <1>1, <1>2, <1>3, PaysOneMore DEF S
<1>4. CASE call[c].op # op
  BY <1>1, <1>2, <1>4 DEF S
<1>. QED
  BY <1>3, <1>4

LEMMA PaysSumsAt ==
  ASSUME TypeOK, MoneyInv, NEW c \in Calls, Pays(c), NEW op, NEW b
  PROVE  Sum(MovedAt(op, b), Amount)' =
           Sum(MovedAt(op, b), Amount)
             + IF call[c].op = op /\ call[c].account = b THEN call[c].amount ELSE 0
<1>. DEFINE S == MovedAt(op, b)
<1>1. /\ c \notin S /\ Amount' = Amount
      /\ S' = IF call[c].op = op /\ call[c].account = b THEN S \cup {c} ELSE S
  BY PaysCalls
<1>2. S \in SUBSET Calls
  BY DEF Moved, MovedAt
<1>3. IsFiniteSet(S) /\ Sum(S, Amount) \in Nat
  BY MoneyType DEF MoneyInv
<1>. HIDE DEF S
<1>4. CASE call[c].op = op /\ call[c].account = b
  BY <1>1, <1>2, <1>3, <1>4, PaysOneMore DEF S
<1>5. CASE ~(call[c].op = op /\ call[c].account = b)
  BY <1>1, <1>3, <1>5 DEF S
<1>. QED
  BY <1>4, <1>5

\* What is owned and what was debited is what was deposited and credited, after
\* m has been debited or credited.
LEMMA StillAdds ==
  ASSUME NEW b \in Nat, NEW o \in Nat, NEW d \in Nat, NEW i \in Nat, NEW m \in Nat,
         b + o = d + i
  PROVE  (b - m) + (o + m) = d + i /\ (b + m) + o = d + (i + m)
  OBVIOUS

LEMMA PaysMoney ==
  ASSUME TypeOK, TypeOK', MoneyInv, NEW c \in Calls, Pays(c)
  PROVE  MoneyInv'
<1>1. PICK a \in AccountIds : a = call[c].account
  BY DEF TypeOK, Pays
<1>2. PICK m \in Nat : m = call[c].amount
  BY CallType
<1>3. PICK op \in Ops : op = call[c].op
  BY DEF Pays
<1>4. /\ balance' = [balance EXCEPT ![a] = IF op = "debit" THEN @ - m ELSE @ + m]
      /\ UNCHANGED <<created, initialDeposit>>
      /\ a \in created /\ created \subseteq AccountIds /\ IsFiniteSet(created)
  BY <1>1, <1>2, <1>3 DEF Pays, TypeOK, MoneyInv
<1>5. /\ \A b \in AccountIds : balance[b] \in Nat /\ balance'[b] \in Nat
      /\ \A b \in AccountIds : initialDeposit[b] \in Nat
      /\ balance'[a] = IF op = "debit" THEN balance[a] - m ELSE balance[a] + m
      /\ \A b \in AccountIds \ {a} : balance'[b] = balance[b]
  BY <1>4 DEF TypeOK
<1>6. IsFiniteSet(Paid')
  <2>1. Paid' = Paid \cup {c}
    BY DEF Pays, Paid
  <2>. QED
    BY <2>1, FS_AddElement DEF MoneyInv
<1>7. \A d \in Paid' : call'[d].account \in created'
  BY <1>4 DEF MoneyInv, Pays, Paid
<1>8. ASSUME NEW b \in AccountIds
      PROVE  (balance[b] + Sum(MovedAt("debit", b), Amount)
                = initialDeposit[b] + Sum(MovedAt("credit", b), Amount))'
  <2>1. PICK o \in Nat, i \in Nat, h \in Nat, d \in Nat :
          /\ o = Sum(MovedAt("debit", b), Amount) /\ h = balance[b]
          /\ i = Sum(MovedAt("credit", b), Amount) /\ d = initialDeposit[b]
    BY <1>5, MoneyType DEF MoneyInv
  <2>2. h + o = d + i
    BY <2>1 DEF MoneyInv
  <2>3. /\ Sum(MovedAt("debit", b), Amount)' = o + IF op = "debit" /\ a = b THEN m ELSE 0
        /\ Sum(MovedAt("credit", b), Amount)' = i + IF op = "credit" /\ a = b THEN m ELSE 0
    <3>1. \A o2 \in Ops : Sum(MovedAt(o2, b), Amount)' =
            Sum(MovedAt(o2, b), Amount)
              + IF call[c].op = o2 /\ call[c].account = b THEN call[c].amount ELSE 0
      BY PaysSumsAt
    <3>. QED
      BY ONLY <1>1, <1>2, <1>3, <2>1, <3>1 DEF Ops
  <2>4. /\ balance'[b] = IF a # b THEN h ELSE IF op = "debit" THEN h - m ELSE h + m
        /\ initialDeposit'[b] = d
    BY <1>4, <1>5, <2>1
  <2>. QED
    BY <2>2, <2>3, <2>4, StillAdds DEF Ops
<1>9. (Sum(created, balance) + Sum(Moved("debit"), Amount)
         = Sum(created, initialDeposit) + Sum(Moved("credit"), Amount))'
  <2>1. PICK o \in Nat, i \in Nat, h \in Nat, d \in Nat, x \in Nat :
          /\ o = Sum(Moved("debit"), Amount) /\ h = Sum(created, balance)
          /\ i = Sum(Moved("credit"), Amount) /\ d = Sum(created, initialDeposit)
          /\ x = balance[a]
    <3>1. Sum(created, balance) \in Nat /\ Sum(created, initialDeposit) \in Nat
      BY <1>4, <1>5, CentsFinite
    <3>. QED
      BY <1>5, <3>1, MoneyType DEF MoneyInv
  <2>2. h + o = d + i
    BY <2>1 DEF MoneyInv
  <2>3. /\ Sum(Moved("debit"), Amount)' = o + IF op = "debit" THEN m ELSE 0
        /\ Sum(Moved("credit"), Amount)' = i + IF op = "credit" THEN m ELSE 0
    <3>1. \A o2 \in Ops : Sum(Moved(o2), Amount)' =
            Sum(Moved(o2), Amount) + IF call[c].op = o2 THEN call[c].amount ELSE 0
      BY PaysSums
    <3>. QED
      BY ONLY <1>2, <1>3, <2>1, <3>1 DEF Ops
  <2>4. Sum(created, balance') = h - x + balance'[a]
    <3>1. /\ a \in created /\ IsFiniteSet(created)
          /\ \A b \in created : balance[b] \in Nat /\ balance'[b] \in Nat
          /\ \A b \in created \ {a} : balance'[b] = balance[b]
      BY <1>4, <1>5
    <3>2. Sum(created, balance') = Sum(created, balance) - balance[a] + balance'[a]
      BY ONLY <3>1, SumChange
    <3>. QED
      BY <2>1, <3>2
  <2>5. Sum(created, balance') = IF op = "debit" THEN h - m ELSE h + m
    <3>1. balance'[a] = IF op = "debit" THEN x - m ELSE x + m
      BY <1>5, <2>1
    <3>. QED
      BY ONLY <2>1, <2>4, <3>1, m \in Nat
  <2>6. Sum(created', initialDeposit') = d /\ Sum(created', balance') = Sum(created, balance')
    BY <1>4, <2>1
  <2>. QED
    BY <2>2, <2>3, <2>5, <2>6, StillAdds DEF Ops
<1>. QED
  BY <1>4, <1>6, <1>7, <1>8, <1>9 DEF MoneyInv

LEMMA InitMoney == Init => MoneyInv
<1>. SUFFICES ASSUME Init PROVE MoneyInv
  OBVIOUS
<1>1. created = {} /\ Paid = {}
  BY DEF Init, NoCall, Paid
<1>2. \A op : Moved(op) = {}
  BY DEF Init, NoCall, Moved
<1>3. \A op, a : MovedAt(op, a) = {}
  BY <1>2 DEF MovedAt
<1>4. Sum({}, Amount) = 0 /\ Sum({}, balance) = 0 /\ Sum({}, initialDeposit) = 0
  BY SumEmpty
<1>5. \A a \in AccountIds : balance[a] = 0 /\ initialDeposit[a] = 0
  BY DEF Init
<1>. QED
  BY <1>1, <1>2, <1>3, <1>4, <1>5, FS_EmptySet DEF MoneyInv

LEMMA ManageMoney ==
  ASSUME TypeOK, MoneyInv, Manage
  PROVE  MoneyInv'
<1>1. ASSUME NEW a \in AccountIds, Freeze(a) \/ \E k \in KycStatuses : UpdateKyc(a, k)
      PROVE  Untouched
  BY <1>1 DEF Freeze, UpdateKyc, Untouched
<1>. QED
  BY <1>1, OpensMoney, UntouchedMoney DEF Manage

LEMMA SendMoney ==
  ASSUME TypeOK, CallsTell, MoneyInv, NEW c \in Calls, NEW op, NEW a, NEW m,
         Send(c, op, a, m), UNCHANGED accountRows
  PROVE  MoneyInv'
<1>1. /\ ~call[c].applied /\ ~call'[c].applied
      /\ \A d \in Calls \ {c} : call'[d] = call[d]
  BY SendStep
<1>2. Untouched
  BY <1>1 DEF Untouched, accountRows
<1>. QED
  BY <1>2, UntouchedMoney

\* Whoever is answered keeps the request it is an answer to.
LEMMA AnswerKeeps ==
  ASSUME TypeOK, NEW c \in Calls, NEW applied, NEW answer, Answer(c, applied, answer)
  PROVE  /\ call'[c].applied = applied /\ call'[c].answer = answer
         /\ call'[c].op = call[c].op /\ call'[c].account = call[c].account
         /\ call'[c].amount = call[c].amount
         /\ \A d \in Calls \ {c} : call'[d] = call[d]
<1>. DEFINE r == [call[c] EXCEPT !.phase = "answered", !.applied = applied,
                                 !.answer = answer]
<1>1. call[c] \in CallRecords /\ call \in [Calls -> CallRecords]
  BY TypeSplit
<1>2. /\ r.applied = applied /\ r.answer = answer /\ r.op = call[c].op
      /\ r.account = call[c].account /\ r.amount = call[c].amount
  BY <1>1 DEF CallRecords
<1>3. call' = [call EXCEPT ![c] = r]
  BY DEF Answer
<1>. HIDE DEF r
<1>. QED
  BY <1>1, <1>2, <1>3

\* The handler of one call pays, or refuses.
LEMMA HandlePays ==
  ASSUME TypeOK, CallsTell, NEW c \in Calls, Handle(c) \/ LoseCall(c)
  PROVE  /\ Pays(c) \/ Untouched
         /\ call'[c].op = call[c].op /\ call'[c].amount = call[c].amount
         /\ call'[c].answer \in Refusals => ~call'[c].applied
         /\ \A d \in Calls \ {c} : call'[d] = call[d]
<1>1. ~call[c].applied /\ call[c].account \in Ids
  BY CallType DEF Handle, Debit, Credit, CreditOverflows, Miss, Explain, StatementFails,
                  LoseCall, CallsTell
<1>2. CASE Debit(c) \/ Credit(c)
  <2>1. PICK answer \in AppliedAnswers : Answer(c, TRUE, answer)
    BY <1>2 DEF Debit, Credit
  <2>2. call[c].account \in created /\ call[c].op \in Ops
    BY <1>2 DEF Debit, Credit, DebitMatches, CreditMatches, Ops
  <2>3. /\ UNCHANGED <<created, initialDeposit>>
        /\ balance' = [balance EXCEPT ![call[c].account] =
                         IF call[c].op = "debit" THEN @ - call[c].amount
                         ELSE @ + call[c].amount]
    BY <1>2, <2>2 DEF Debit, Credit, TypeOK
  <2>4. Pays(c)
    BY <1>1, <2>1, <2>2, <2>3, AnswerKeeps DEF Pays
  <2>5. answer \notin Refusals
    BY AppliedAnswersType DEF Refusals
  <2>. QED
    BY <2>1, <2>4, <2>5, AnswerKeeps
<1>3. CASE CreditOverflows(c) \/ StatementFails(c) \/ Explain(c)
  <2>1. PICK answer \in Answers : Answer(c, FALSE, answer)
    BY <1>3 DEF CreditOverflows, StatementFails, Explain, DebitRefusal, CreditRefusal,
                Answers, Refusals
  <2>2. UNCHANGED <<created, balance, initialDeposit>>
    BY <1>3 DEF CreditOverflows, StatementFails, Explain, accountRows
  <2>3. /\ call'[c].applied = FALSE
        /\ call'[c].op = call[c].op /\ call'[c].amount = call[c].amount
        /\ \A d \in Calls \ {c} : call'[d] = call[d]
    BY <2>1, AnswerKeeps
  <2>. QED
    BY <1>1, <2>2, <2>3 DEF Untouched
<1>4. CASE Miss(c) \/ LoseCall(c)
  <2>1. PICK phase \in {"missed", "lost"} :
          call' = [call EXCEPT ![c] = [@ EXCEPT !.phase = phase]]
    BY <1>4 DEF Miss, LoseCall
  <2>2. UNCHANGED <<created, balance, initialDeposit>>
    BY <1>4 DEF Miss, LoseCall, accountRows
  <2>3. /\ call'[c].applied = call[c].applied
        /\ call'[c].op = call[c].op /\ call'[c].amount = call[c].amount
        /\ \A d \in Calls \ {c} : call'[d] = call[d]
    BY <2>1, TypeSplit DEF CallRecords
  <2>. QED
    BY <1>1, <2>2, <2>3 DEF Untouched
<1>. QED
  BY <1>2, <1>3, <1>4 DEF Handle

LEMMA HandleMoney ==
  ASSUME TypeOK, CallsTell, MoneyInv, NEW c \in Calls, Handle(c) \/ LoseCall(c)
  PROVE  MoneyInv'
  BY HandlePays, HandleType, PaysMoney, UntouchedMoney

\* No refused call has moved money.
RefusedMoved == \A c \in Calls : call[c].answer \in Refusals => ~call[c].applied

EffectsInv == TypeOK /\ CallsTell /\ MoneyInv /\ RefusedMoved

LEMMA EffectsStep ==
  ASSUME EffectsInv, [Next]_accountVars
  PROVE  EffectsInv'
<1>1. CASE Manage
  BY <1>1, ManageType, ManageMoney DEF EffectsInv, CallsTell, RefusedMoved
<1>2. ASSUME NEW c \in Calls, ClientSends(c) PROVE EffectsInv'
  <2>1. PICK op \in {"debit", "credit"}, a \in created \cup {Unknown}, m \in Amounts :
          Send(c, op, a, m) /\ UNCHANGED accountRows
    BY <1>2 DEF ClientSends
  <2>2. TypeOK'
    BY <2>1, SendType DEF EffectsInv, TypeOK, Ids
  <2>3. CallsTell' /\ RefusedMoved'
    BY <2>1, SendStep DEF EffectsInv, RefusedMoved
  <2>. QED
    BY <2>1, <2>2, <2>3, SendMoney DEF EffectsInv
<1>3. ASSUME NEW c \in Calls, Handle(c) \/ LoseCall(c) PROVE EffectsInv'
  <2>1. RefusedMoved'
    BY <1>3, HandlePays DEF EffectsInv, RefusedMoved
  <2>. QED
    BY <1>3, <2>1, HandleType, HandleStep, HandleMoney DEF EffectsInv
<1>4. CASE UNCHANGED accountVars
  <2>1. Untouched
    BY <1>4 DEF Untouched, accountVars
  <2>. QED
    BY <1>4, <2>1, UntouchedMoney
    DEF EffectsInv, TypeOK, CallsTell, RefusedMoved, accountVars
<1>. QED
  BY <1>1, <1>2, <1>3, <1>4 DEF Next

\* Every balance is its deposit, more the credits that were applied to it, less
\* the debits, whatever answers and statements are lost; and an answer never
\* claims an effect that did not happen, or denies one that did.
THEOREM EffectsAreExact == Spec => []EffectsAddUp
<1>1. Init => EffectsInv
  <2>1. Init => CallsTell /\ RefusedMoved
    BY DEF Init, CallsTell, RefusedMoved, NoCall
  <2>. QED
    BY <2>1, InitType, InitMoney DEF EffectsInv
<1>2. EffectsInv /\ [Next]_accountVars => EffectsInv'
  BY EffectsStep
<1>3. EffectsInv => EffectsAddUp
  <2>. SUFFICES ASSUME EffectsInv PROVE EffectsAddUp
    OBVIOUS
  <2>1. ASSUME NEW a \in AccountIds
        PROVE  balance[a] = initialDeposit[a] + Sum(MovedAt("credit", a), Amount)
                                              - Sum(MovedAt("debit", a), Amount)
    <3>1. PICK o \in Nat, i \in Nat, h \in Nat, d \in Nat :
            /\ o = Sum(MovedAt("debit", a), Amount) /\ h = balance[a]
            /\ i = Sum(MovedAt("credit", a), Amount) /\ d = initialDeposit[a]
      BY MoneyType DEF EffectsInv, MoneyInv
    <3>2. h + o = d + i
      BY <3>1 DEF EffectsInv, MoneyInv
    <3>3. h = d + i - o
      BY <3>2
    <3>. QED
      BY <3>1, <3>3
  <2>2. \A c \in Calls : /\ call[c].answer = "OK" => call[c].applied
                         /\ call[c].answer \in Refusals => ~call[c].applied
    BY DEF EffectsInv, CallsTell, RefusedMoved
  <2>. QED
    BY <2>1, <2>2 DEF EffectsAddUp
<1>. QED
  BY <1>1, <1>2, <1>3, PTL DEF Spec
=============================================================================
