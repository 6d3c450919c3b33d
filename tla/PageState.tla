------------------------------ MODULE PageState ------------------------------
(***************************************************************************)
(* What the pages of the web portal (web-portal/src/app) have in common: a *)
(* tab with one page mounted, its panels, the flag of its busy button, and *)
(* the chains of promises that wait for the gateway.                       *)
(*                                                                         *)
(* A record is abstracted to the id it is of.  Inputs that fail their      *)
(* validation send nothing and leave the state modelled here alone, except *)
(* an id in the address of the page, Bad.                                  *)
(***************************************************************************)
EXTENDS Naturals, FiniteSets

CONSTANTS
  MaxChains, \* promise chains that can be under way at once
  MaxUnkept, \* executions of a form of which the gateway keeps no answer
  Ids,       \* of accounts, transfers and alerts
  Services   \* those the gateway asks for their health

None   == "none"
Bad    == "bad"

ASSUME PagesAssumption ==
  /\ MaxChains \in Nat
  /\ MaxUnkept \in Nat
  /\ {None, Bad} \cap Ids = {}

VARIABLES
  role,       \* of the session
  route,      \* the page mounted, and the id in its address
  filter,     \* the account in the filter fields of the fraud page
  panel,      \* detailState, ledgerState, listState, state
  mutation,   \* the button that shows it is loading
  form,       \* the transfer form: submittingRef, what the gateway keeps for
              \* idempotencyKey, how often the form has been paid for, and how
              \* often without an answer that is kept
  chain,
  frozen,     \* the accounts this page has had suspended
  asked,      \* history: what each panel was last asked to show, with what was
              \*   under way for it then,
  left,       \*   what it may still show, when that asked for nothing new,
  stranded,   \*   the panels, button or form whose chain was rejected, and
  acked       \*   the accounts the page knows are frozen

history  == <<asked, left, stranded, acked>>
pageVars == <<role, route, filter, panel, mutation, form, chain, frozen, history>>

Chains == 1..MaxChains
Roles  == {"customer", "operator", "admin"}
Slots  == {"main", "side"}
Mock   == "acct-dashboard-primary"

-----------------------------------------------------------------------------
(* What a request brings.  Any may fail.                                   *)

Ok(data)    == [status |-> "ok", data |-> data]
Failed      == [status |-> "failed"]
Unsupported == [status |-> "unsupported"]

Record(id) == {Ok(id), Failed}

\* The gateway keeps some of its routes for admins.
ForAdmins(answers) == IF role = "admin" THEN answers ELSE {Failed}

\* GET /v1/ledger/stats/:accountId; an id must be a UUID.
Stats(id) == IF id = Mock THEN {Failed} ELSE ForAdmins(Record(id))

\* GET /health asks every service.
HealthReports ==
  {Ok(h) : h \in [Services -> {"ok", "degraded", "unreachable"}]} \cup {Failed}

-----------------------------------------------------------------------------
(* Chains of promises.  A chain that is not "here" belongs to a page that  *)
(* has been left: the state it sets is nobody's.  "got" is what an earlier *)
(* request of the chain has brought.  "after" is what becomes of the busy  *)
(* button when the chain ends: nothing, it is freed, or it is freed even   *)
(* when the chain is rejected ("finally"), together with its "mate".       *)
(*                                                                         *)
(* When the gateway reads a record is told apart for accounts only, which  *)
(* are changed here: the other answers are chosen as they are heard.       *)

Idle == [kind |-> None, here |-> FALSE, slot |-> None]

Chain(kind, slot, id) ==
  [kind |-> kind, slot |-> slot, id |-> id, here |-> TRUE, got |-> <<>>,
   after |-> None, mate |-> 0]

\* Chains are taken in order: the first n that are idle, if there are as many.
Free(chs, n) ==
  LET idle == {c \in Chains : chs[c] = Idle}
  IN IF Cardinality(idle) < n THEN {}
     ELSE {c \in idle : Cardinality({d \in idle : d < c}) < n}

Frees(ch)        == [ch EXCEPT !.after = "freed"]
FreesFinally(ch) == [ch EXCEPT !.after = "finally"]

Hears(c, kind) == chain[c].kind = kind /\ chain[c].here
Second(c)      == chain[c].got # <<>>
Kept(c)        == chain[c].got[1]

\* What a chain will show, and what is under way for a panel.
Subject(ch)        == <<IF ch.kind \in {"kyc", "freeze"} THEN "account" ELSE ch.kind, ch.id>>
UnderWay(chs, slot) == {Subject(chs[d]) : d \in {c \in Chains : chs[c].here /\ chs[c].slot = slot}}

-----------------------------------------------------------------------------
(* Panels                                                                  *)

IdlePanel    == [status |-> "idle"]
LoadingPanel == [status |-> "loading"]
ErrorPanel   == [status |-> "error"]
Ready(kind, id, first, second) ==
  [status |-> "ready", of |-> <<kind, id>>, first |-> first, second |-> second]

Shows(s, kind) == panel[s].status = "ready" /\ panel[s].of[1] = kind
Shown(s)       == panel[s].of[2]
ShownBy(p)     == IF p.status = "ready" THEN {p.of} ELSE {}

\* A button does nothing while it shows that it is loading.
Enabled(button) == mutation # button

-----------------------------------------------------------------------------
\* A handler starts chains, "new" says where: the user asks for something
\* ("asks"), or acts on what is shown.
Launch(new, asks) ==
  LET by(s) == {c \in DOMAIN new : new[c].slot = s}
  IN /\ DOMAIN new \subseteq Free(chain, Cardinality(DOMAIN new))
     /\ chain' = [c \in Chains |-> IF c \in DOMAIN new THEN new[c] ELSE chain[c]]
     /\ asked' = [s \in Slots |-> IF asks /\ by(s) # {}
                                  THEN {Subject(new[c]) : c \in by(s)} \cup UnderWay(chain, s)
                                  ELSE asked[s]]
     /\ left' = [s \in Slots |-> IF asks /\ by(s) # {} THEN {} ELSE left[s]]
     /\ stranded' = stranded \ ({s \in Slots : by(s) # {}} \cup {"button"})

Begin(c, ch, asks) == Launch([d \in {c} |-> ch], asks)

\* The chain keeps an answer and goes on with another request.
Continue(c, got) ==
  /\ chain' = [chain EXCEPT ![c].got = <<got>>]
  /\ UNCHANGED <<panel, mutation>>

Linked(c) == chain[c].mate # 0

\* The chain ends and leaves p in its panel.
End(c, p) ==
  /\ panel' = [panel EXCEPT ![chain[c].slot] = p]
  /\ chain' = [d \in Chains |->
                 IF d = c THEN Idle
                 ELSE IF Linked(c) /\ d = chain[c].mate THEN [chain[d] EXCEPT !.mate = 0]
                 ELSE chain[d]]
  /\ mutation' = IF chain[c].after # None /\ ~Linked(c) THEN None ELSE mutation

\* What a chain was to end, but in a "finally".
Creations == {"create transfer", "create account"}
Writes    == Creations \cup {"kyc", "freeze"}
Waiting(ch) ==
  (IF ch.kind \in {"kyc", "freeze"} THEN {} ELSE {ch.slot} \cap Slots)
  \cup (IF ch.after = "freed" \/ ch.kind \in Writes THEN {"button"} ELSE {})
  \cup (IF ch.kind = "create transfer" THEN {"form"} ELSE {})

\* The chain is rejected and its panel and flags stay as they are: a second
\* attempt of requestJson, with a refreshed token, is returned and not awaited,
\* so that what fetch throws is not caught.  /health is asked without a token.
Rejected(c) ==
  /\ chain[c].here /\ chain[c].kind \notin {"health", "copy"}
  /\ chain' = [d \in Chains |->
                 IF d = c THEN Idle
                 ELSE IF Linked(c) /\ d = chain[c].mate
                      THEN [chain[d] EXCEPT !.mate = 0, !.after = None]
                 ELSE chain[d]]
  /\ mutation' = IF chain[c].after = "finally" THEN None ELSE mutation
  /\ stranded' = stranded \cup Waiting(chain[c])
  /\ UNCHANGED <<role, route, filter, panel, form, frozen, asked, left, acked>>

NewForm == [submitting |-> FALSE, kept |-> None, paid |-> 0, unkept |-> 0]
=============================================================================
