----------------------------- MODULE PortalPages -----------------------------
(***************************************************************************)
(* The protected pages of the portal as one tab shows them, one at a time  *)
(* (app/routing), while the gateway answers late, not at all, or an error. *)
(***************************************************************************)
EXTENDS TransferPage, AccountPage, LedgerPage, FraudPage, OverviewPages

\* routeConfig.ts: who may see a page, and which of them have an id.
AllowedRoles(page) ==
  CASE page \in {"dashboard", "accounts", "transfers", "ledger"} -> Roles
    [] page \in {"observability"}                                -> {"operator", "admin"}
    [] page \in {"fraud", "notifications", "platform-health"}    -> {"admin"}
    [] OTHER                                                     -> {}

WithId    == {"accounts", "transfers", "ledger", "fraud"}
WithoutId == {"dashboard", "notifications", "observability", "platform-health"}
Routes    == [page : WithId, id : Ids \cup {None, Bad}] \cup [page : WithoutId, id : {None}]

\* ProtectedRoute shows another page to other roles.
Forbidden == [page |-> "forbidden", id |-> None]
Admitted(to) == IF role \in AllowedRoles(to.page) THEN to ELSE Forbidden

\* The effects of a page: once it is mounted, and for the id in its address.
MountEffects(page) ==
  CASE page = "dashboard"                            -> {LoadOverview}
    [] page = "fraud"                                -> {LoadAlerts(None)}
    [] page = "notifications"                        -> {LoadNotifications}
    [] page \in {"platform-health", "observability"} -> {LoadHealth}
    [] OTHER                                         -> {}

IdEffects(to) ==
  IF to.id \notin Ids THEN {}
  ELSE CASE to.page = "transfers" -> {LoadTransfer(to.id)}
         [] to.page = "accounts"  -> {LoadAccount(to.id)}
         [] to.page = "ledger"    -> {LoadTransferLedger(to.id)}
         [] to.page = "fraud"     -> {LoadAlert(to.id)}

IdSlot(page) == IF page = "fraud" THEN "side" ELSE "main"

\* Of a page that is left only what it creates matters: it navigates.  An account
\* it has suspended is one that was suspended by somebody else.
Left(ch) ==
  IF ch.kind \in Creations
  THEN [ch EXCEPT !.here = FALSE, !.slot = None] ELSE Idle

\* The route changes.  A page stays mounted while only its id changes, and
\* keeps its busy button b and its form f; another page starts afresh.
Arrive(to, running, b, f) ==
  LET stays    == to.page = route.page
      moves(s) == ~stays \/ (to.id # route.id /\ s = IdSlot(to.page))
      new      == (IF stays THEN {} ELSE MountEffects(to.page))
                  \cup (IF stays /\ to.id = route.id THEN {} ELSE IdEffects(to))
      of(s)    == {ch \in new : ch.slot = s}
      old      == IF stays THEN running ELSE [c \in Chains |-> Left(running[c])]
      about(s) == {Subject(ch) : ch \in {x \in new \cup IdEffects(to) : x.slot = s}}
  IN /\ route' = to
     /\ \E at \in [new -> Free(old, Cardinality(new))] :
          /\ \A x, y \in new : at[x] = at[y] => x = y
          /\ chain' = [c \in Chains |-> IF \E x \in new : at[x] = c
                                        THEN CHOOSE x \in new : at[x] = c
                                        ELSE old[c]]
     /\ panel' = [s \in Slots |->
          CASE of(s) # {}                                      -> LoadingPanel
            [] of(s) = {} /\ ~moves(s)                         -> panel[s]
            [] of(s) = {} /\ moves(s) /\ to.id = Bad
                 /\ s = IdSlot(to.page)                        -> ErrorPanel
            [] OTHER                                           -> IdlePanel]
     /\ asked' = [s \in Slots |-> IF moves(s) \/ about(s) # {}
                                  THEN about(s) \cup UnderWay(old, s) ELSE asked[s]]
     /\ left' = [s \in Slots |-> CASE moves(s)                   -> {}
                                   [] ~moves(s) /\ about(s) = {} -> left[s]
                                   [] OTHER                      -> ShownBy(panel[s])]
     /\ mutation' = (IF stays THEN b ELSE None)
     /\ form'     = (IF stays THEN f ELSE NewForm)
     /\ filter'   = (IF stays THEN filter ELSE None)
     /\ stranded' = (IF stays THEN {w \in stranded : w \in Slots => ~moves(w)} ELSE {})
     /\ acked'    = (IF moves("main") THEN {} ELSE acked)
     /\ frozen'   = (IF stays THEN frozen ELSE {})
     /\ UNCHANGED role

-----------------------------------------------------------------------------
PagesInit ==
  /\ role \in Roles
  /\ route = Forbidden
  /\ filter = None
  /\ panel = [s \in Slots |-> IdlePanel]
  /\ mutation = None
  /\ form = NewForm
  /\ chain = [c \in Chains |-> Idle]
  /\ frozen = {}
  /\ asked = [s \in Slots |-> {}]
  /\ left = [s \in Slots |-> {}]
  /\ stranded = {}
  /\ acked = {}

\* The user follows a link, or writes an address.
Visit(to) == Arrive(Admitted(to), chain, mutation, form)

\* The lookup forms: they free the busy button, whoever it is waiting for.
LookUp(id) ==
  /\ route.page \in {"transfers", "accounts", "ledger"}
  /\ Arrive([route EXCEPT !.id = id], chain, None, form)

TransferCreated(c, id) ==
  /\ Hears(c, "create transfer") /\ Creates(form) # {}
  /\ Arrive([page |-> "transfers", id |-> id], [chain EXCEPT ![c] = Idle], None, NewForm)

AccountCreated(c, id) ==
  /\ Hears(c, "create account")
  /\ Arrive([page |-> "accounts", id |-> id], [chain EXCEPT ![c] = Idle], None, form)

\* A form that was left still leads to what it has created.
LeftCreated(c, id) ==
  /\ ~chain[c].here /\ chain[c].kind \in Creations
  /\ Arrive([page |-> IF chain[c].kind = "create transfer" THEN "transfers" ELSE "accounts",
             id   |-> id], [chain EXCEPT ![c] = Idle], mutation, form)

LeftFailed(c) ==
  /\ ~chain[c].here /\ chain[c].kind \in Creations
  /\ chain' = [chain EXCEPT ![c] = Idle]
  /\ UNCHANGED <<role, route, filter, panel, mutation, form, frozen, history>>

\* A chain hears what it waited for, or what it waited for has happened.
Hear(c) ==
  \/ TransferLoaded(c) \/ Copied(c) \/ TransferRefused(c)
  \/ AccountRefused(c) \/ AccountServed(c) \/ AccountNotFound(c) \/ AccountFound(c)
  \/ \E b \in {"kyc", "freeze"} : ControlDone(c, b) \/ ControlFailed(c, b)
  \/ EntriesFound(c) \/ StatsFound(c) \/ TransferEntriesFound(c)
  \/ AlertsFound(c) \/ AlertFound(c)
  \/ OverviewFound(c) \/ OverviewStatsFound(c)
  \/ NotificationsFound(c) \/ HealthFound(c)
  \/ \E id \in Ids : TransferCreated(c, id) \/ AccountCreated(c, id) \/ LeftCreated(c, id)
  \/ LeftFailed(c) \/ Rejected(c)

PagesNext ==
  \/ \E to \in Routes : Visit(to)
  \/ \E id \in Ids : LookUp(id)
  \/ \E f \in Ids \cup {None} : UpdateFilter(f)
  \/ \E c \in Chains :
       \/ SubmitTransfer(c) \/ RefreshTransfer(c) \/ CopyTransferId(c)
       \/ SubmitAccount(c) \/ \E b \in {"kyc", "freeze"} : SubmitControl(c, b)
       \/ \E id \in Ids : LookUpAccount(c, id)
       \/ RefreshLedger(c)
       \/ ApplyFilters(c) \/ \E d \in Chains : RefreshAlerts(c, d)
       \/ RefreshNotifications(c) \/ RefreshHealth(c)
       \/ FreezeServed(c) \/ Hear(c)

PagesSpec == PagesInit /\ [][PagesNext]_pageVars

-----------------------------------------------------------------------------
\* What a page shows together is of one record, though it comes from several
\* answers; an overview shows stats only to an admin and of the account it
\* lists; and the readiness gate opens only if every service has said "ok".
PanelsAreWhole ==
  /\ Shows("main", "account") =>
       panel.main.first.of = Shown("main") /\ BalanceShown = Shown("main")
  /\ LedgerPanel => panel.main.first = Shown("main") /\ TotalsShown \in {Shown("main"), None}
  /\ Shows("main", "overview") /\ StatsShown # None =>
       role = "admin" /\ StatsShown = panel.main.first
  /\ PlatformReady => \A s \in Services : panel.main.first.services[s] = "ok"

\* A panel shows what the user last asked for, or what was under way for it when
\* the user did: answers are not numbered, and the last one heard wins.  What
\* the address already names is not loaded again: then it may show what it did
\* before.  An account the page knows is frozen is shown as suspended.
PanelsFollowTheUser ==
  \A s \in Slots :
    panel[s].status = "ready" =>
      /\ panel[s].of \in asked[s] \cup left[s]
      /\ Shows(s, "account") /\ Shown(s) \in acked => panel[s].first.suspended

\* However often a form is sent after a failure or a lost answer, until it is
\* told what it has created it is paid for once, and once more for each execution
\* of which the gateway kept no answer; and it is sent by one handler at a time,
\* though other handlers free its button.
RetriesPayOnce ==
  /\ \A f \in {form} \cup Creates(form) : f.paid <= 1 + f.unkept
  /\ \A c, d \in Chains :
       Hears(c, "create transfer") /\ Hears(d, "create transfer") => c = d /\ form.submitting

\* A panel that is loading, a busy button and a form that is being sent wait
\* for a chain that is under way and will end the waiting, whatever it hears
\* and whatever was pressed meanwhile, unless a chain that was to end this very
\* waiting has been rejected.
NobodyWaitsInVain ==
  /\ \A s \in Slots \ stranded : panel[s].status = "loading" =>
       \E c \in Chains : chain[c].here /\ chain[c].slot = s
                         /\ chain[c].kind \notin {"kyc", "freeze"}
  /\ "button" \notin stranded /\ mutation # None =>
       \E c \in Chains :
         /\ chain[c].here
         /\ \/ chain[c].kind \in Writes \cup {"copy"}
            \/ chain[c].after # None
  /\ "form" \notin stranded /\ form.submitting => \E c \in Chains : Hears(c, "create transfer")
=============================================================================
