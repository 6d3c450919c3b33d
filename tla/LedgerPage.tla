----------------------------- MODULE LedgerPage -----------------------------
(***************************************************************************)
(* The ledger page (app/ledger/FinancialLedgerPage.tsx) and its calls      *)
(* (lib/api/ledger.ts).  Its address names a transfer, its other form an   *)
(* account.                                                                *)
(***************************************************************************)
EXTENDS PageState

LoadAccountLedger(id) == Chain("account ledger", "main", id)

LoadTransferLedger(id) == Chain("transfer ledger", "main", id)

\* GET /v1/ledger/:accountId and /v1/ledger/transfer/:transferId
AccountEntries(id)  == Record(id)
TransferEntries(id) == Record(id)

LedgerForm == route.page = "ledger" /\ Enabled("account")

LookUpAccount(c, id) ==
  /\ LedgerForm
  /\ mutation' = "account"
  /\ panel' = [panel EXCEPT !.main = LoadingPanel]
  /\ Begin(c, FreesFinally(LoadAccountLedger(id)), TRUE)
  /\ UNCHANGED <<role, route, filter, form, frozen, acked>>

\* An empty ledger has no refresh button: the user need not press it.
LedgerPanel == Shows("main", "account ledger") \/ Shows("main", "transfer ledger")

RefreshLedger(c) ==
  /\ LedgerPanel /\ Enabled("refresh")
  /\ mutation' = "refresh"
  /\ panel' = [panel EXCEPT !.main = LoadingPanel]
  /\ Begin(c, FreesFinally(IF Shows("main", "account ledger")
                           THEN LoadAccountLedger(Shown("main"))
                           ELSE LoadTransferLedger(Shown("main"))), FALSE)
  /\ UNCHANGED <<role, route, filter, form, frozen, acked>>

-----------------------------------------------------------------------------
\* The entries of an account, and then their totals.
EntriesFound(c) ==
  /\ Hears(c, "account ledger") /\ ~Second(c)
  /\ \E a \in AccountEntries(chain[c].id) :
       IF a = Failed THEN End(c, ErrorPanel) ELSE Continue(c, a.data)
  /\ UNCHANGED <<role, route, filter, form, frozen, history>>

StatsFound(c) ==
  /\ Hears(c, "account ledger") /\ Second(c)
  /\ \E a \in Stats(chain[c].id) :
       End(c, Ready("account ledger", chain[c].id, Kept(c),
                    IF a = Failed THEN None ELSE a.data))
  /\ UNCHANGED <<role, route, filter, form, frozen, history>>

TransferEntriesFound(c) ==
  /\ Hears(c, "transfer ledger")
  /\ \E a \in TransferEntries(chain[c].id) :
       End(c, IF a = Failed THEN ErrorPanel
              ELSE Ready("transfer ledger", chain[c].id, a.data, None))
  /\ UNCHANGED <<role, route, filter, form, frozen, history>>

\* Whose totals the cards show: those of the stats, nobody's when the stats
\* of an account are refused, or the sums over the entries of a transfer.
TotalsShown ==
  IF panel.main.second # None THEN panel.main.second
  ELSE IF Shows("main", "account ledger") THEN None
  ELSE panel.main.first
=============================================================================
