---------------------------- MODULE PortalSession ----------------------------
(***************************************************************************)
(* The session of one tab of the web portal (web-portal/src): the session  *)
(* kept in memory and the part of it in sessionStorage (app/auth/          *)
(* session.ts), the calls of lib/api/auth.ts, the retry of lib/api/        *)
(* client.ts, and the components that make them: AuthPages, ProtectedRoute *)
(* and PortalLayout.                                                       *)
(*                                                                         *)
(* flow[c] is the promise chain that waits for exchange c.  When the       *)
(* connection breaks or the page is reloaded nobody waits any more, and    *)
(* the gateway may still be at work on it.                                 *)
(***************************************************************************)
EXTENDS GatewayAuth

VARIABLES
  mem,        \* inMemorySession
  stored,     \* sessionStorage: everything of a session but the access token
  view,       \* the route: the access pages, or a protected page
  flow,
  signedOut   \* history: signed out, with nothing under way that signs in

tab         == <<mem, stored, view, flow, signedOut>>
sessionVars == <<authVars, tab>>

NoSession == [access |-> NoToken, refresh |-> NoToken]
Nothing   == [refresh |-> NoToken, subject |-> NoUser]
NoFlow    == [kind |-> "none"]
Flow(kind, token) == [kind |-> kind, token |-> token]

Broken == Status(0)

SessionTypeOK ==
  /\ AuthTypeOK
  /\ mem \in [access : Tokens, refresh : Tokens]
  /\ stored \in [refresh : Tokens, subject : UserIds \cup {NoUser}]
  /\ view \in {"access", "portal"}
  /\ \A c \in Calls :
       \/ flow[c] = NoFlow
       \/ /\ flow[c].kind \in {"register", "login", "logout", "restore", "dropped",
                               "request", "renew", "retry"}
          /\ flow[c].token \in Tokens
  /\ signedOut \in BOOLEAN

SessionInit ==
  /\ AuthInit
  /\ mem = NoSession
  /\ stored = Nothing
  /\ view = "access"
  /\ flow = [c \in Calls |-> NoFlow]
  /\ signedOut = FALSE

-----------------------------------------------------------------------------
(* session.ts                                                              *)

WriteStoredSession(access, refresh) ==
  /\ mem' = [access |-> access, refresh |-> refresh]
  /\ stored' = [refresh |-> refresh, subject |-> access.user]

\* Mutant: what is in sessionStorage is forgotten.
ClearStoredSession_KeepsStorage == mem' = NoSession /\ UNCHANGED stored

ClearStoredSession == mem' = NoSession /\ stored' = Nothing

ReadRefreshToken ==
  IF mem # NoSession THEN mem.refresh ELSE stored.refresh

-----------------------------------------------------------------------------
Send(c, x, f) ==
  /\ http' = [http EXCEPT ![c] = x]
  /\ flow' = [flow EXCEPT ![c] = f]

Start(c, x, f) ==
  /\ http[c] = Free
  /\ flow[c] = NoFlow
  /\ Send(c, x, f)
  /\ UNCHANGED <<now, redis, faults, mem, stored, view, signedOut>>

\* The forms of the access pages; a form that was left may still be waiting.
Register(c, e) ==
  view = "access" /\ Start(c, Exchange("register", "email", e, NoToken, NoToken),
                           Flow("register", NoToken))

Login(c, e) ==
  view = "access" /\ Start(c, Exchange("login", "email", e, NoToken, NoToken),
                           Flow("login", NoToken))

\* A page calls the gateway with the access token of the session.
Request(c) ==
  /\ view = "portal" /\ mem # NoSession
  /\ Start(c, Exchange("api", "verify", NoEmail, mem.access, NoToken),
           Flow("request", NoToken))

\* handleLogout: the button stays enabled, so there may be several.
Logout(c) ==
  /\ view = "portal" /\ mem # NoSession
  /\ Start(c, Exchange("logout", "revoke", NoEmail, mem.access, mem.refresh),
           Flow("logout", NoToken))

RefreshExchange(token) == Exchange("refresh", "token", NoEmail, NoToken, token)

\* ProtectedRoute: without a session in memory it asks for one, once per
\* mounting, and without a refresh token it gives up at once.
Restore(c) ==
  /\ view = "portal" /\ mem = NoSession
  /\ \A d \in Calls : flow[d].kind # "restore"
  /\ stored # Nothing
  /\ Start(c, RefreshExchange(stored.refresh), Flow("restore", stored.refresh))

NothingToRestore ==
  /\ view = "portal" /\ mem = NoSession /\ stored = Nothing
  /\ \A d \in Calls : flow[d].kind # "restore"
  /\ view' = "access"
  /\ UNCHANGED <<authVars, mem, stored, flow, signedOut>>

-----------------------------------------------------------------------------
(* What each chain does with the result it waited for; x is what is left   *)
(* of the exchange, which may still be running when the connection broke.  *)

Leave(f) == IF f.kind = "restore" THEN [f EXCEPT !.kind = "dropped"] ELSE f

\* The route changes: a ProtectedRoute that waits is unmounted.
End(c, x, to) ==
  /\ http' = [http EXCEPT ![c] = x]
  /\ view' = to
  /\ flow' = [d \in Calls |-> IF d = c THEN NoFlow
                              ELSE IF to = "access" THEN Leave(flow[d])
                              ELSE flow[d]]

\* loginUser, registerUser and submitAuth.
LoginSettles(c, x, answer) ==
  /\ flow[c].kind \in {"login", "register"}
  /\ CASE flow[c].kind = "login" /\ answer.status = 200 ->
            /\ WriteStoredSession(answer.access, answer.refresh)
            /\ End(c, x, "portal")
            /\ signedOut' = FALSE
       [] answer.status = 201 ->
            End(c, x, "access") /\ UNCHANGED <<mem, stored, signedOut>>
       [] OTHER ->
            End(c, x, view) /\ UNCHANGED <<mem, stored, signedOut>>

\* refreshAuthSession stores its session whether or not ProtectedRoute is
\* still there; only one that is goes to the login page on a failure.
RestoreSettles(c, x, answer) ==
  /\ flow[c].kind \in {"restore", "dropped"}
  /\ IF answer.status = 200
     THEN WriteStoredSession(answer.access, flow[c].token) /\ End(c, x, view)
     ELSE /\ End(c, x, IF flow[c].kind = "restore" /\ mem = NoSession
                       THEN "access" ELSE view)
          /\ UNCHANGED <<mem, stored>>
  /\ UNCHANGED signedOut

\* The chains that will store a session when they succeed.
SignsIn(d) == flow[d].kind \in {"login", "restore", "dropped", "renew"}

\* logoutUser clears the session and handleLogout leaves, even on a failure.
LogoutSettles(c, x) ==
  /\ flow[c].kind = "logout"
  /\ ClearStoredSession
  /\ End(c, x, "access")
  /\ signedOut' = ~\E d \in Calls : SignsIn(d)

\* requestJson: after a first 401 it refreshes the session, then tries again.
RequestSettles(c, x, answer) ==
  /\ flow[c].kind \in {"request", "retry"}
  /\ IF flow[c].kind = "request" /\ answer.status = 401 /\ ReadRefreshToken # NoToken
     THEN /\ Send(c, RefreshExchange(ReadRefreshToken), Flow("renew", ReadRefreshToken))
          /\ UNCHANGED view
     ELSE End(c, x, view)
  /\ UNCHANGED <<mem, stored, signedOut>>

\* Mutant: the refreshed session takes the refresh token of the moment.
RenewSettles_TokenOfTheMoment(c, x, answer) ==
  /\ flow[c].kind = "renew"
  /\ IF answer.status = 200
     THEN /\ WriteStoredSession(answer.access, ReadRefreshToken)
          /\ Send(c, Exchange("api", "verify", NoEmail, answer.access, NoToken),
                  Flow("retry", NoToken))
          /\ UNCHANGED view
     ELSE End(c, x, view) /\ UNCHANGED <<mem, stored>>
  /\ UNCHANGED signedOut

RenewSettles(c, x, answer) ==
  /\ flow[c].kind = "renew"
  /\ IF answer.status = 200
     THEN /\ WriteStoredSession(answer.access, flow[c].token)
          /\ Send(c, Exchange("api", "verify", NoEmail, answer.access, NoToken),
                  Flow("retry", NoToken))
          /\ UNCHANGED view
     ELSE End(c, x, view) /\ UNCHANGED <<mem, stored>>
  /\ UNCHANGED signedOut

Settle(c, x, answer) ==
  \/ LoginSettles(c, x, answer)
  \/ RestoreSettles(c, x, answer)
  \/ LogoutSettles(c, x)
  \/ RequestSettles(c, x, answer)
  \/ RenewSettles(c, x, answer)

-----------------------------------------------------------------------------
Hear(c) ==
  /\ http[c].at = "answered"
  /\ IF flow[c] = NoFlow
     THEN http' = [http EXCEPT ![c] = Free] /\ UNCHANGED tab
     ELSE Settle(c, Free, http[c].answer)
  /\ UNCHANGED <<now, redis, faults>>

Break(c) ==
  /\ http[c].at # "answered"
  /\ Eventful
  /\ faults' = faults + 1
  /\ Settle(c, http[c], Broken)
  /\ UNCHANGED <<now, redis>>

\* The browser's history leads from one route to another.
Browse ==
  /\ view' \in {"access", "portal"} \ {view}
  /\ flow' = [c \in Calls |-> Leave(flow[c])]
  /\ UNCHANGED <<authVars, mem, stored, signedOut>>

\* The page is loaded anew: memory and promises are gone, storage stays.
Reload ==
  /\ mem' = NoSession
  /\ flow' = [c \in Calls |-> NoFlow]
  /\ http' = [c \in Calls |-> IF http[c].at = "answered" THEN Free ELSE http[c]]
  /\ UNCHANGED <<now, redis, faults, stored, view, signedOut>>

Gateway(c) == (Serve(c) \/ RedisFails(c)) /\ UNCHANGED tab

SessionNext ==
  \/ \E c \in Calls :
       \/ \E e \in Emails : Register(c, e) \/ Login(c, e)
       \/ Request(c) \/ Logout(c) \/ Restore(c)
       \/ Hear(c) \/ Break(c) \/ Gateway(c)
  \/ NothingToRestore \/ Browse \/ Reload
  \/ Tick /\ UNCHANGED tab

SessionSpec == SessionInit /\ [][SessionNext]_sessionVars

-----------------------------------------------------------------------------
\* The tokens in memory belong to one user and the tab remembers that user
\* with that refresh token, though a refresh answers with an access token only
\* and may answer after a logout and the login of somebody else.
SessionIsWhole ==
  /\ mem # NoSession => /\ mem.access.user = mem.refresh.user
                        /\ stored.refresh = mem.refresh
  /\ stored.subject = stored.refresh.user

\* Signing out ends the session in this tab, whatever the gateway answers and
\* whatever requests are under way, until somebody signs in: only a refresh or
\* a login that was waiting for its answer at that moment can bring one back.
SigningOutLasts == signedOut => mem = NoSession /\ stored = Nothing
=============================================================================
