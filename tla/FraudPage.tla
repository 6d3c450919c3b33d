------------------------------ MODULE FraudPage ------------------------------
(***************************************************************************)
(* The fraud page (app/fraud/FraudMonitoringPage.tsx), its calls (lib/api/ *)
(* fraud.ts) and the routes that answer them (fraud-service/src/index.ts): *)
(* a list of alerts, by the account in the filter, and beside it the alert *)
(* in the address.                                                         *)
(***************************************************************************)
EXTENDS PageState

LoadAlerts(account) == Chain("alerts", "main", account)
LoadAlert(id)       == Chain("alert", "side", id)

\* GET /v1/fraud/alerts, /v1/fraud/alerts/:alertId and /v1/fraud/stats
Alerts(account) == ForAdmins(Record(account))
Alert(id)       == ForAdmins(Record(id))
Severities      == ForAdmins(Record(None))

\* The user writes in the filter fields; nothing is asked for yet.
UpdateFilter(account) ==
  /\ route.page = "fraud" /\ account # filter
  /\ filter' = account
  /\ UNCHANGED <<role, route, panel, mutation, form, chain, frozen, history>>

FilterForm(button) == route.page = "fraud" /\ Enabled(button)

ApplyFilters(c) ==
  /\ FilterForm("filters")
  /\ mutation' = "filters"
  /\ panel' = [panel EXCEPT !.main = LoadingPanel]
  /\ Begin(c, FreesFinally(LoadAlerts(filter)), TRUE)
  /\ UNCHANGED <<role, route, filter, form, frozen, acked>>

\* Both panels are loaded again, the list with what the filter fields hold,
\* and the button waits for both.
RefreshAlerts(c, d) ==
  /\ FilterForm("refresh")
  /\ mutation' = "refresh"
  /\ IF route.id \in Ids
     THEN /\ c # d
          /\ panel' = [main |-> LoadingPanel, side |-> LoadingPanel]
          /\ Launch([x \in {c, d} |->
                      IF x = c THEN [FreesFinally(LoadAlerts(filter)) EXCEPT !.mate = d]
                      ELSE [FreesFinally(LoadAlert(route.id)) EXCEPT !.mate = c]], TRUE)
     ELSE /\ c = d
          /\ panel' = [panel EXCEPT !.main = LoadingPanel]
          /\ Begin(c, FreesFinally(LoadAlerts(filter)), TRUE)
  /\ UNCHANGED <<role, route, filter, form, frozen, acked>>

-----------------------------------------------------------------------------
\* The alerts and their counts are asked for together; the counts may be
\* missing.
AlertsFound(c) ==
  /\ Hears(c, "alerts")
  /\ \E a \in Alerts(chain[c].id), n \in Severities :
       End(c, IF a = Failed THEN ErrorPanel
              ELSE Ready("alerts", chain[c].id, a.data, n # Failed))
  /\ UNCHANGED <<role, route, filter, form, frozen, history>>

AlertFound(c) ==
  /\ Hears(c, "alert")
  /\ \E a \in Alert(chain[c].id) :
       End(c, IF a = Failed THEN ErrorPanel ELSE Ready("alert", chain[c].id, a.data, None))
  /\ UNCHANGED <<role, route, filter, form, frozen, history>>
=============================================================================
