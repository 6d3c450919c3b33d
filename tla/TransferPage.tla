---------------------------- MODULE TransferPage ----------------------------
(***************************************************************************)
(* The transfer page (app/transfers/TransferOperationsPage.tsx) and its    *)
(* calls (lib/api/transfers.ts).                                           *)
(***************************************************************************)
EXTENDS PageState

\* A transfer is looked up by the id in the address.
LoadTransfer(id) == Chain("transfer", "main", id)

\* GET /v1/transfers/:id
Transfer(id) == Record(id)

\* The buttons of the form and of the detail panel.
TransferForm == route.page = "transfers" /\ Enabled("create")
DetailButton(button) == Shows("main", "transfer") /\ Enabled(button)

\* The form sends itself once at a time, whatever the buttons show.
SubmitTransfer(c) ==
  /\ TransferForm /\ ~form.submitting
  /\ form' = [form EXCEPT !.submitting = TRUE]
  /\ mutation' = "create"
  /\ Begin(c, Chain("create transfer", None, None), FALSE)
  /\ UNCHANGED <<role, route, filter, panel, frozen, acked>>

RefreshTransfer(c) ==
  /\ DetailButton("refresh")
  /\ mutation' = "refresh"
  /\ panel' = [panel EXCEPT !.main = LoadingPanel]
  /\ Begin(c, Frees(LoadTransfer(Shown("main"))), FALSE)
  /\ UNCHANGED <<role, route, filter, form, frozen, acked>>

CopyTransferId(c) ==
  /\ DetailButton("copy")
  /\ mutation' = "copy"
  /\ Begin(c, Chain("copy", None, None), FALSE)
  /\ UNCHANGED <<role, route, filter, panel, form, frozen, acked>>

-----------------------------------------------------------------------------
\* Mutant: the error path returns before it shows the error.
TransferLoaded_Silent(c) ==
  /\ Hears(c, "transfer")
  /\ \E a \in Transfer(chain[c].id) :
       End(c, IF a = Failed THEN panel.main ELSE Ready("transfer", chain[c].id, a.data, None))
  /\ UNCHANGED <<role, route, filter, form, frozen, history>>

TransferLoaded(c) ==
  /\ Hears(c, "transfer")
  /\ \E a \in Transfer(chain[c].id) :
       End(c, IF a = Failed THEN ErrorPanel ELSE Ready("transfer", chain[c].id, a.data, None))
  /\ UNCHANGED <<role, route, filter, form, frozen, history>>

Copied(c) ==
  /\ Hears(c, "copy")
  /\ chain' = [chain EXCEPT ![c] = Idle]
  /\ mutation' = None
  /\ UNCHANGED <<role, route, filter, panel, form, frozen, history>>

-----------------------------------------------------------------------------
\* POST /v1/transfers, as GatewayIdempotency has it.  What the gateway answers
\* itself (409, 429, 503) executes nothing, and once it keeps an answer it
\* repeats that (LateAttemptsAreNotExecuted).  It keeps none of a transfer that
\* ended in a 5xx or whose connection, replica or SET failed, nor of one still
\* under way when its lock expires: the next attempt executes it again
\* (RepeatsHaveAReason).
Executed(f) == [f EXCEPT !.kept = "paid", !.paid = @ + 1]
Unkept(f)   == [f EXCEPT !.paid = @ + 1, !.unkept = @ + 1]

Refusals(f) ==
  {f}
  \cup (IF f.kept = None THEN {Executed(f), [f EXCEPT !.kept = "refused"]} ELSE {})
  \cup (IF f.kept = None /\ f.unkept < MaxUnkept THEN {Unkept(f)} ELSE {})

\* The answer of an attempt that was still under way may be kept at last, even
\* in the place of a refusal.
Creates(f) ==
  CASE f.kept = "paid"                      -> {f}
    [] f.kept = "refused" /\ f.unkept = 0   -> {}
    [] f.kept = "refused" /\ f.unkept # 0   -> {[f EXCEPT !.kept = "paid"]}
    [] OTHER                                -> {Executed(f)}

\* Mutant: the form takes a new key after a failure too.
TransferRefused_NewKey(c) ==
  /\ Hears(c, "create transfer")
  /\ chain' = [chain EXCEPT ![c] = Idle]
  /\ mutation' = None
  /\ \E f \in Refusals(form) : form' = [f EXCEPT !.submitting = FALSE, !.kept = None]
  /\ UNCHANGED <<role, route, filter, panel, frozen, history>>

\* The form keeps its fields and its key.
TransferRefused(c) ==
  /\ Hears(c, "create transfer")
  /\ chain' = [chain EXCEPT ![c] = Idle]
  /\ mutation' = None
  /\ \E f \in Refusals(form) : form' = [f EXCEPT !.submitting = FALSE]
  /\ UNCHANGED <<role, route, filter, panel, frozen, history>>
=============================================================================
