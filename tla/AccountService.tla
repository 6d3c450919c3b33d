--------------------------- MODULE AccountService ---------------------------
(***************************************************************************)
(* The account service: one PostgreSQL table of accounts behind an HTTP    *)
(* API (services/account-service/src/routes.ts).                           *)
(*                                                                         *)
(* Every handler is a sequence of autocommitted SQL statements, and an     *)
(* action is one statement with the answer that follows it.  PATCH debit   *)
(* and PATCH credit are guarded UPDATEs; when the guard selects no row, a  *)
(* second SELECT decides which error is reported, so other requests can    *)
(* run between the refusal and its explanation.                            *)
(*                                                                         *)
(* A call is one HTTP request to PATCH debit or PATCH credit.  Its record  *)
(* is the request, how far the handler got, and the history field          *)
(* "applied": whether its UPDATE changed the balance.                      *)
(***************************************************************************)
EXTENDS Integers, Sums

CONSTANTS
  AccountIds,   \* the identifiers the database may hand out
  Unknown,      \* a well-formed identifier no account has
  Amounts,      \* amounts of money, in cents
  Deposits,     \* initial balances
  MaxBalance,   \* the largest value of the balance column, NUMERIC(18,2)
  Calls,        \* the debit and credit requests
  Faults        \* the faults this system is exposed to

(* "accountsDb": a statement of this service fails without effect.         *)
(* "commit":     a statement takes effect but its result is lost.          *)
(* "net":        a connection between two services breaks.                 *)
(* "transfersDb" and "crash" strike the transfer service (TransferSaga).   *)
FaultKinds == {"accountsDb", "commit", "net", "transfersDb", "crash"}

ASSUME AccountAssumption ==
  /\ Unknown \notin AccountIds
  /\ MaxBalance \in Nat
  /\ Amounts \subseteq Nat \ {0}
  /\ Deposits \subseteq 0..MaxBalance
  /\ Faults \subseteq FaultKinds

VARIABLES
  created,         \* the accounts that exist
  balance,         \* column balance, of the accounts that exist
  status,          \* column status
  kyc,             \* column kyc_status
  initialDeposit,  \* the initialDeposit of the accountCreated outbox row
  call             \* the debit and credit requests

accountRows == <<created, balance, status, kyc, initialDeposit>>
accountVars == <<created, balance, status, kyc, initialDeposit, call>>

Ids         == AccountIds \cup {Unknown}
Statuses    == {"active", "suspended"}
KycStatuses == {"pending", "verified", "rejected"}
Refusals    == {"NOT_FOUND", "ACCOUNT_FROZEN", "KYC_NOT_VERIFIED",
                "INSUFFICIENT_FUNDS"}
Answers     == {"none", "OK", "DATABASE_ERROR"} \cup Refusals
Phases      == {"idle", "sent", "missed", "answered", "lost"}

NoCall == [phase |-> "idle", op |-> "none", account |-> Unknown,
           amount |-> 0, applied |-> FALSE, answer |-> "none"]

TypeOK ==
  /\ created \subseteq AccountIds
  /\ balance \in [AccountIds -> 0..MaxBalance]
  /\ status \in [AccountIds -> Statuses]
  /\ kyc \in [AccountIds -> KycStatuses]
  /\ initialDeposit \in [AccountIds -> 0..MaxBalance]
  /\ call \in [Calls -> [phase   : Phases,
                         op      : {"none", "debit", "credit"},
                         account : Ids,
                         amount  : Amounts \cup {0},
                         applied : BOOLEAN,
                         answer  : Answers]]

Init ==
  /\ created = {}
  /\ balance = [a \in AccountIds |-> 0]
  /\ status = [a \in AccountIds |-> "active"]
  /\ kyc = [a \in AccountIds |-> "pending"]
  /\ initialDeposit = [a \in AccountIds |-> 0]
  /\ call = [c \in Calls |-> NoCall]

-----------------------------------------------------------------------------
(* The requests that manage accounts. *)

\* POST /accounts: the row and the accountCreated event, in one transaction.
CreateAccount(a, deposit) ==
  /\ a \notin created
  /\ created' = created \cup {a}
  /\ balance' = [balance EXCEPT ![a] = deposit]
  /\ initialDeposit' = [initialDeposit EXCEPT ![a] = deposit]
  /\ UNCHANGED <<status, kyc, call>>

\* Mutant: a verification also reactivates the account.
UpdateKyc_Reactivates(a, k) ==
  /\ a \in created
  /\ kyc' = [kyc EXCEPT ![a] = k]
  /\ status' = [status EXCEPT ![a] = "active"]
  /\ UNCHANGED <<created, balance, initialDeposit, call>>

\* PATCH /accounts/:id/kyc: any status may replace any other.
UpdateKyc(a, k) ==
  /\ a \in created
  /\ kyc' = [kyc EXCEPT ![a] = k]
  /\ UNCHANGED <<created, balance, status, initialDeposit, call>>

\* POST /accounts/:id/freeze: no handler ever lifts it.
Freeze(a) ==
  /\ a \in created
  /\ status' = [status EXCEPT ![a] = "suspended"]
  /\ UNCHANGED <<created, balance, kyc, initialDeposit, call>>

-----------------------------------------------------------------------------
(* PATCH debit and PATCH credit. *)

\* A client sends a request.
Send(c, op, a, m) ==
  /\ call[c].phase = "idle"
  /\ call' = [call EXCEPT ![c] = [phase |-> "sent", op |-> op, account |-> a,
                                  amount |-> m, applied |-> FALSE,
                                  answer |-> "none"]]

Answer(c, applied, answer) ==
  call' = [call EXCEPT ![c] = [@ EXCEPT !.phase = "answered",
                                        !.applied = applied,
                                        !.answer = answer]]

\* The answers to an UPDATE that took effect: 200, or 500 when the
\* connection to the database breaks after the commit.
AppliedAnswers == {"OK"} \cup (IF "commit" \in Faults
                               THEN {"DATABASE_ERROR"} ELSE {})

\* Mutant: the debit does not ask for the balance it takes.
DebitMatches_NoFundsCheck(c) ==
  LET a == call[c].account
  IN  a \in created /\ status[a] # "suspended" /\ kyc[a] = "verified"

\* The WHERE clause of the debit's UPDATE.
DebitMatches(c) ==
  LET a == call[c].account
  IN  /\ a \in created
      /\ status[a] # "suspended"
      /\ kyc[a] = "verified"
      /\ balance[a] >= call[c].amount

Debit(c) ==
  /\ call[c].phase = "sent"
  /\ call[c].op = "debit"
  /\ DebitMatches(c)
  /\ balance' = [balance EXCEPT ![call[c].account] = @ - call[c].amount]
  /\ \E answer \in AppliedAnswers : Answer(c, TRUE, answer)
  /\ UNCHANGED <<created, status, kyc, initialDeposit>>

\* Mutant: a credit reaches a frozen account.
CreditMatches_Frozen(c) == call[c].account \in created

\* The WHERE clause of the credit's UPDATE: the KYC status is not asked for.
CreditMatches(c) ==
  LET a == call[c].account
  IN  /\ a \in created
      /\ status[a] # "suspended"

Credit(c) ==
  LET total == balance[call[c].account] + call[c].amount
  IN  /\ call[c].phase = "sent"
      /\ call[c].op = "credit"
      /\ CreditMatches(c)
      /\ total <= MaxBalance
      /\ balance' = [balance EXCEPT ![call[c].account] = total]
      /\ \E answer \in AppliedAnswers : Answer(c, TRUE, answer)
      /\ UNCHANGED <<created, status, kyc, initialDeposit>>

\* NUMERIC(18,2) overflows: the statement raises and the handler answers 500.
CreditOverflows(c) ==
  /\ call[c].phase = "sent"
  /\ call[c].op = "credit"
  /\ CreditMatches(c)
  /\ balance[call[c].account] + call[c].amount > MaxBalance
  /\ Answer(c, FALSE, "DATABASE_ERROR")
  /\ UNCHANGED accountRows

\* The UPDATE selects no row; the explanation is a second query.
Miss(c) ==
  /\ call[c].phase = "sent"
  /\ \/ call[c].op = "debit" /\ ~DebitMatches(c)
     \/ call[c].op = "credit" /\ ~CreditMatches(c)
  /\ call' = [call EXCEPT ![c].phase = "missed"]
  /\ UNCHANGED accountRows

\* What getExistingAccountStatus makes the two handlers answer.
DebitRefusal(a) ==
  IF a \notin created THEN "NOT_FOUND"
  ELSE IF status[a] = "suspended" THEN "ACCOUNT_FROZEN"
  ELSE IF kyc[a] # "verified" THEN "KYC_NOT_VERIFIED"
  ELSE "INSUFFICIENT_FUNDS"

\* Mutant: a credit that selected no row is answered like one that did.
CreditRefusal_NoRowCheck(a) == "OK"

CreditRefusal(a) ==
  IF a \in created /\ status[a] = "suspended" THEN "ACCOUNT_FROZEN"
  ELSE "NOT_FOUND"

Explain(c) ==
  /\ call[c].phase = "missed"
  /\ Answer(c, FALSE, IF call[c].op = "debit"
                      THEN DebitRefusal(call[c].account)
                      ELSE CreditRefusal(call[c].account))
  /\ UNCHANGED accountRows

\* A statement fails without effect: the catch clause answers 500.
StatementFails(c) ==
  /\ "accountsDb" \in Faults
  /\ call[c].phase \in {"sent", "missed"}
  /\ Answer(c, FALSE, "DATABASE_ERROR")
  /\ UNCHANGED accountRows

\* The request is lost on its way, or the service dies while it handles it.
LoseCall(c) ==
  /\ "net" \in Faults
  /\ call[c].phase \in {"sent", "missed"}
  /\ call' = [call EXCEPT ![c].phase = "lost"]
  /\ UNCHANGED accountRows

-----------------------------------------------------------------------------
\* Requests that manage accounts, from any client.
Manage ==
  \E a \in AccountIds :
    \/ \E d \in Deposits : CreateAccount(a, d)
    \/ \E k \in KycStatuses : UpdateKyc(a, k)
    \/ Freeze(a)

\* A step of the handler of one debit or credit.
Handle(c) ==
  \/ Debit(c) \/ Credit(c) \/ CreditOverflows(c) \/ Miss(c) \/ Explain(c)
  \/ StatementFails(c)

\* Any client may send any debit or credit; the database draws identifiers
\* at random, so nobody names an account before it exists.
ClientSends(c) ==
  \E op \in {"debit", "credit"}, a \in created \cup {Unknown}, m \in Amounts :
    Send(c, op, a, m) /\ UNCHANGED accountRows

Next ==
  \/ Manage
  \/ \E c \in Calls : ClientSends(c) \/ Handle(c) \/ LoseCall(c)

\* The database and Express keep working on a request they have accepted.
Fairness == \A c \in Calls : WF_accountVars(Handle(c))

Spec == Init /\ [][Next]_accountVars /\ Fairness

-----------------------------------------------------------------------------
\* A freeze is final for the account and its money: whatever requests were
\* under way when it was frozen, neither handler moves its balance after it
\* (both UPDATEs ask for status <> 'suspended') and nothing thaws it.
FrozenIsFinal ==
  [][\A a \in AccountIds :
       status[a] = "suspended" =>
         status'[a] = "suspended" /\ balance'[a] = balance[a]]_accountVars

\* The calls that moved money, and what they moved.
Amount         == [c \in Calls |-> call[c].amount]
Moved(op)      == {c \in Calls : call[c].applied /\ call[c].op = op}
MovedAt(op, a) == {c \in Moved(op) : call[c].account = a}

\* When answers and statements are lost, no call moves money twice or halfway,
\* and money moves only for calls answered 200 or left without an answer the
\* client can trust.
EffectsAddUp ==
  /\ \A a \in AccountIds :
       balance[a] = initialDeposit[a] + Sum(MovedAt("credit", a), Amount)
                                      - Sum(MovedAt("debit", a), Amount)
  /\ \A c \in Calls :
       /\ call[c].answer = "OK" => call[c].applied
       /\ call[c].answer \in Refusals => ~call[c].applied

\* A refusal that blames the freeze or the identifier is still right when the
\* client reads it, although it was found by a query that ran after the
\* refused UPDATE: both facts are permanent.
PermanentRefusalsAreTrue ==
  \A c \in Calls :
    /\ call[c].answer = "ACCOUNT_FROZEN" =>
         call[c].account \in created /\ status[call[c].account] = "suspended"
    /\ call[c].answer = "NOT_FOUND" => call[c].account \notin created
=============================================================================
