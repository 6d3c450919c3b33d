---------------------------- MODULE OverviewPages ----------------------------
(***************************************************************************)
(* The pages without an id in their address: the dashboard (app/dashboard, *)
(* lib/api/dashboard.ts), the notifications (app/notifications, lib/api/   *)
(* notifications.ts), and the two that show the health of the platform     *)
(* (app/platform, app/observability, lib/api/health.ts).                   *)
(***************************************************************************)
EXTENDS PageState

-----------------------------------------------------------------------------
(* The dashboard                                                           *)

LoadOverview == Chain("overview", "main", None)

\* GET /v1/accounts and /v1/transfers do not exist.
Lists == {Unsupported, Failed}

\* A list the gateway does not have is replaced by one that ships with the
\* portal.
Listed(answer) == answer # Failed

FirstAccount(answer) == IF answer = Unsupported THEN Mock ELSE answer.data

\* The health, the accounts and the transfers are asked for together, and for
\* an admin the stats of the first account after them.
OverviewFound(c) ==
  /\ Hears(c, "overview") /\ ~Second(c)
  /\ \E a, t \in Lists :
       IF ~Listed(a) \/ ~Listed(t) THEN End(c, ErrorPanel)
       ELSE IF role = "admin" THEN Continue(c, FirstAccount(a))
       ELSE End(c, Ready("overview", None, FirstAccount(a), None))
  /\ UNCHANGED <<role, route, filter, form, frozen, history>>

OverviewStatsFound(c) ==
  /\ Hears(c, "overview") /\ Second(c)
  /\ \E a \in Stats(Kept(c)) :
       End(c, Ready("overview", None, Kept(c), IF a = Failed THEN None ELSE a.data))
  /\ UNCHANGED <<role, route, filter, form, frozen, history>>

-----------------------------------------------------------------------------
(* The notifications                                                       *)

LoadNotifications == Chain("notifications", "main", None)

\* GET /v1/notifications
Notifications == ForAdmins(Record(None))

RefreshNotifications(c) ==
  /\ route.page = "notifications" /\ Enabled("refresh")
  /\ mutation' = "refresh"
  /\ panel' = [panel EXCEPT !.main = LoadingPanel]
  /\ Begin(c, FreesFinally(LoadNotifications), TRUE)
  /\ UNCHANGED <<role, route, filter, form, frozen, acked>>

NotificationsFound(c) ==
  /\ Hears(c, "notifications")
  /\ \E a \in Notifications :
       End(c, IF a = Failed THEN ErrorPanel ELSE Ready("notifications", None, None, None))
  /\ UNCHANGED <<role, route, filter, form, frozen, history>>

-----------------------------------------------------------------------------
(* The health of the platform                                              *)

LoadHealth == Chain("health", "main", None)

RefreshHealth(c) ==
  /\ route.page \in {"platform-health", "observability"} /\ Enabled("refresh")
  /\ mutation' = "refresh"
  /\ panel' = [panel EXCEPT !.main = LoadingPanel]
  /\ Begin(c, FreesFinally(LoadHealth), TRUE)
  /\ UNCHANGED <<role, route, filter, form, frozen, acked>>

\* getGatewayHealth answers whatever happens.
GatewayHealth(answer) ==
  IF answer = Failed THEN [status |-> "unavailable", services |-> <<>>]
  ELSE [status   |-> IF \A s \in Services : answer.data[s] = "ok"
                     THEN "healthy" ELSE "degraded",
        services |-> answer.data]

HealthFound(c) ==
  /\ Hears(c, "health")
  /\ \E a \in HealthReports :
       End(c, Ready("health", None, GatewayHealth(a), None))
  /\ UNCHANGED <<role, route, filter, form, frozen, history>>

\* The state of each service on the page; one that is not reported is unknown.
ServiceState(health, s) ==
  CASE s = "api-gateway" ->
         IF health.status = "unavailable" THEN "unreachable" ELSE health.status
    [] s # "api-gateway" /\ s \in DOMAIN health.services ->
         IF health.services[s] = "ok" THEN "healthy" ELSE health.services[s]
    [] OTHER -> "unknown"

InState(health, state) ==
  {s \in Services \cup {"api-gateway"} : ServiceState(health, s) = state}

\* The readiness gate: no service is degraded, unreachable or unknown.
PlatformReady ==
  /\ Shows("main", "health")
  /\ \A state \in {"degraded", "unreachable", "unknown"} :
       InState(panel.main.first, state) = {}

\* The stats on the dashboard, if it has any.
StatsShown == panel.main.second
=============================================================================
