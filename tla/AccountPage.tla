----------------------------- MODULE AccountPage -----------------------------
(***************************************************************************)
(* The account page (app/accounts/AccountManagementPage.tsx) and its calls *)
(* (lib/api/accounts.ts).                                                  *)
(***************************************************************************)
EXTENDS PageState

\* The account first, then its balance.
LoadAccount(id) == Chain("account", "main", id)

AccountForm == route.page = "accounts" /\ Enabled("create")

\* The form has no guard of its own: it can be sent again as soon as another
\* handler has freed the button.
SubmitAccount(c) ==
  /\ AccountForm
  /\ mutation' = "create"
  /\ Begin(c, Chain("create account", None, None), FALSE)
  /\ UNCHANGED <<role, route, filter, panel, form, frozen, acked>>

AccountRefused(c) ==
  /\ Hears(c, "create account")
  /\ chain' = [chain EXCEPT ![c] = Idle]
  /\ mutation' = None
  /\ UNCHANGED <<role, route, filter, panel, form, frozen, history>>

-----------------------------------------------------------------------------
(* The controls of the detail panel                                        *)

CanMutateAccount == role \in {"operator", "admin"}

Controls(button) ==
  /\ Shows("main", "account") /\ CanMutateAccount
  /\ Enabled(button)
  /\ button = "freeze" => ~panel.main.first.suspended

SubmitControl(c, button) ==
  /\ Controls(button)
  /\ mutation' = button
  /\ Begin(c, Chain(button, "main", Shown("main")), FALSE)
  /\ UNCHANGED <<role, route, filter, panel, form, frozen, acked>>

\* The account service changes the account; if it does not, the call fails.
FreezeServed(c) ==
  /\ Hears(c, "freeze") /\ ~Second(c)
  /\ frozen' = frozen \cup {chain[c].id}
  /\ chain' = [chain EXCEPT ![c].got = <<"frozen">>]
  /\ UNCHANGED <<role, route, filter, panel, mutation, form, history>>

\* The page knows an account is frozen, unless an answer is under way to it that
\* was given before.
Stale(id) ==
  \E d \in Chains : Hears(d, "account") /\ chain[d].id = id /\ Second(d)
                    /\ ~Kept(d).suspended

Acknowledge(button, id) ==
  acked' = IF button = "freeze" /\ ~Stale(id) THEN acked \cup {id} ELSE acked

\* Mutant: the account is not read again.
ControlDone_AsItWas(c, button) ==
  /\ Hears(c, button)
  /\ button = "freeze" => Second(c)
  /\ mutation' = None
  /\ Acknowledge(button, chain[c].id)
  /\ chain' = [chain EXCEPT ![c] = Idle]
  /\ UNCHANGED <<role, route, filter, panel, form, frozen, asked, left, stranded>>

\* submitKyc and submitFreeze read the account again that they changed.
ControlDone(c, button) ==
  /\ Hears(c, button)
  /\ button = "freeze" => Second(c)
  /\ mutation' = None
  /\ Acknowledge(button, chain[c].id)
  /\ chain' = [chain EXCEPT ![c] = LoadAccount(chain[c].id)]
  /\ panel' = [panel EXCEPT !.main = LoadingPanel]
  /\ UNCHANGED <<role, route, filter, form, frozen, asked, left, stranded>>

\* Or the call has failed, whether or not the account was changed.
ControlFailed(c, button) ==
  /\ Hears(c, button)
  /\ mutation' = None
  /\ chain' = [chain EXCEPT ![c] = Idle]
  /\ UNCHANGED <<role, route, filter, panel, form, frozen, history>>

-----------------------------------------------------------------------------
\* The account service reads the account, which others may have suspended.
AccountServed(c) ==
  /\ Hears(c, "account") /\ ~Second(c)
  /\ \E suspended \in {TRUE} \cup {chain[c].id \in frozen} :
       Continue(c, [of |-> chain[c].id, suspended |-> suspended])
  /\ UNCHANGED <<role, route, filter, form, frozen, history>>

\* It may have been refused, or its answer lost.
AccountNotFound(c) ==
  /\ Hears(c, "account") /\ ~Second(c)
  /\ End(c, ErrorPanel)
  /\ UNCHANGED <<role, route, filter, form, frozen, history>>

\* GET /v1/accounts/:id/balance
Balance(id) == Record(id)

ShowAccount(c, balances) ==
  /\ Hears(c, "account") /\ Second(c)
  /\ \E a \in balances :
       End(c, Ready("account", chain[c].id, Kept(c),
                    IF a = Failed THEN None ELSE a.data))
  /\ UNCHANGED <<role, route, filter, form, frozen, history>>

\* Mutant: the balance is that of the account in the address by now.
AccountFound_AddressOfNow(c) == ShowAccount(c, Balance(route.id))

AccountFound(c) == ShowAccount(c, Balance(chain[c].id))

\* Whose balance the page shows: that of the second answer, or of the first.
BalanceShown == IF panel.main.second # None THEN panel.main.second ELSE panel.main.first.of
=============================================================================
