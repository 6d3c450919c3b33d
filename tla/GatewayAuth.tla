----------------------------- MODULE GatewayAuth -----------------------------
(***************************************************************************)
(* The accounts and sessions of the API gateway: routes/auth.js and        *)
(* middleware/auth.js, whose only state is in Redis.                       *)
(*                                                                         *)
(* http[c] is one HTTP exchange, http[c].at the command to Redis its       *)
(* handler is about to make.  A JWT carries its user and the second it was *)
(* issued in, and nothing else that differs: two tokens issued to one user *)
(* in one second are the same token.                                       *)
(***************************************************************************)
EXTENDS Integers

CONSTANTS Emails, Calls,
          MaxUsers,     \* how many user ids registrations draw
          AccessTTL, RefreshTTL,
          MaxEvents     \* how many seconds pass and failures happen

ASSUME AuthAssumption ==
  /\ {MaxUsers, MaxEvents} \subseteq Nat
  /\ {AccessTTL, RefreshTTL} \subseteq Nat \ {0}

VARIABLES
  now,
  issued,         \* the user ids drawn so far are 1..issued
  users,          \* auth:user:<id>, the e-mail of each stored user
  emailIds,       \* auth:email:<e-mail>, the user id stored under it
  refreshTokens,  \* auth:refresh:<hash>
  blacklist,      \* auth:blacklist:<hash>; entries expire with their tokens
  http,           \* the exchanges
  faults          \* how often something has failed

redis    == <<issued, users, emailIds, refreshTokens, blacklist>>
authVars == <<now, redis, http, faults>>

UserIds  == 1..MaxUsers
NoUser   == 0
NoEmail  == "none"
NoToken  == [user |-> NoUser, at |-> 0]
Tokens   == [user : UserIds, at : 0..MaxEvents] \cup {NoToken}
Token(u) == [user |-> u, at |-> now]

Answer(status, access, refresh) ==
  [status |-> status, access |-> access, refresh |-> refresh]
Status(status) == Answer(status, NoToken, NoToken)

Free == [at |-> "free"]
Exchange(op, first, email, access, refresh) ==
  [op |-> op, at |-> first, email |-> email, user |-> NoUser,
   access |-> access, refresh |-> refresh]

Eventful == now + faults < MaxEvents

AuthTypeOK ==
  /\ now \in 0..MaxEvents
  /\ issued \in 0..MaxUsers
  /\ users \in [UserIds -> Emails \cup {NoEmail}]
  /\ emailIds \in [Emails -> UserIds \cup {NoUser}]
  /\ refreshTokens \cup blacklist \subseteq Tokens
  /\ \A c \in Calls :
       \/ http[c] = Free
       \/ http[c].at = "answered" /\ http[c].answer.status \in {0, 200, 201, 204, 401, 409, 429, 500}
       \/ http[c].at \in {"email", "user", "index", "token", "revoke", "verify", "exists"}
  /\ faults \in 0..MaxEvents

AuthInit ==
  /\ now = 0
  /\ issued = 0
  /\ users = [u \in UserIds |-> NoEmail]
  /\ emailIds = [e \in Emails |-> NoUser]
  /\ refreshTokens = {}
  /\ blacklist = {}
  /\ http = [c \in Calls |-> Free]
  /\ faults = 0

-----------------------------------------------------------------------------
At(c, op, command) == http[c].at = command /\ http[c].op = op
Goto(c, command)   == http' = [http EXCEPT ![c].at = command]
Load(c, command, u) == http' = [http EXCEPT ![c].at = command, ![c].user = u]
Reply(c, answer)   == http' = [http EXCEPT ![c] = [at |-> "answered", answer |-> answer]]

\* What the command a handler waits for does to Redis.
Effect(c) ==
  LET x == http[c]
  IN /\ users' = IF At(c, "register", "user")
                 THEN [users EXCEPT ![x.user] = x.email] ELSE users
     /\ emailIds' = IF At(c, "register", "index")
                    THEN [emailIds EXCEPT ![x.email] = x.user] ELSE emailIds
     /\ refreshTokens' = CASE At(c, "login", "token")   -> refreshTokens \cup {x.refresh}
                           [] At(c, "logout", "revoke") -> refreshTokens \ {x.refresh}
                           [] OTHER                     -> refreshTokens
     /\ blacklist' = IF At(c, "logout", "token") /\ x.access # NoToken
                     THEN blacklist \cup {x.access} ELSE blacklist
     /\ UNCHANGED issued

-----------------------------------------------------------------------------
(* POST /register: look the e-mail up, store the user, store the e-mail.   *)

FindFree(c) ==
  /\ At(c, "register", "email")
  /\ IF emailIds[http[c].email] # NoUser
     THEN Reply(c, Status(409)) /\ UNCHANGED issued
     ELSE /\ issued < MaxUsers
          /\ issued' = issued + 1
          /\ Load(c, "user", issued')
  /\ UNCHANGED <<now, users, emailIds, refreshTokens, blacklist, faults>>

\* Mutant: the e-mail is stored before the user it leads to.
StoreUser_Last(c) ==
  \/ /\ At(c, "register", "user")
     /\ emailIds' = [emailIds EXCEPT ![http[c].email] = http[c].user]
     /\ Goto(c, "index")
     /\ UNCHANGED <<now, issued, users, refreshTokens, blacklist, faults>>
  \/ /\ At(c, "register", "index")
     /\ users' = [users EXCEPT ![http[c].user] = http[c].email]
     /\ Reply(c, Status(201))
     /\ UNCHANGED <<now, issued, emailIds, refreshTokens, blacklist, faults>>

StoreUser(c) ==
  /\ \/ At(c, "register", "user")  /\ Goto(c, "index")
     \/ At(c, "register", "index") /\ Reply(c, Status(201))
  /\ Effect(c)
  /\ UNCHANGED <<now, faults>>

-----------------------------------------------------------------------------
(* POST /login: behind its limiter, look the e-mail and the user up,       *)
(* compare the password, sign two tokens and store the refresh token.      *)

FindUser(c) ==
  /\ At(c, "login", "email")
  /\ LET u == emailIds[http[c].email]
     IN \/ Reply(c, Status(429))
        \/ u = NoUser /\ Reply(c, Status(401))
        \/ u # NoUser /\ Load(c, "user", u)
  /\ UNCHANGED <<now, redis, faults>>

\* A user that is missing is a TypeError, caught and answered 500.
ComparePassword(c) ==
  /\ At(c, "login", "user")
  /\ LET u == http[c].user
     IN IF users[u] = NoEmail THEN Reply(c, Status(500))
        ELSE \/ Reply(c, Status(401))
             \/ http' = [http EXCEPT ![c].at = "token", ![c].access = Token(u),
                                     ![c].refresh = Token(u)]
  /\ UNCHANGED <<now, redis, faults>>

StoreToken(c) ==
  /\ At(c, "login", "token")
  /\ Effect(c)
  /\ Reply(c, Answer(200, http[c].access, http[c].refresh))
  /\ UNCHANGED <<now, faults>>

-----------------------------------------------------------------------------
(* POST /refresh: the token must be stored, then valid; it is not replaced. *)

FindToken(c) ==
  /\ At(c, "refresh", "token")
  /\ LET token == http[c].refresh
     IN IF token \notin refreshTokens \/ now >= token.at + RefreshTTL
        THEN Reply(c, Status(401))
        ELSE Load(c, "user", token.user)
  /\ UNCHANGED <<now, redis, faults>>

SignAccess(c) ==
  /\ At(c, "refresh", "user")
  /\ Reply(c, IF users[http[c].user] = NoEmail THEN Status(500)
              ELSE Answer(200, Token(http[c].user), NoToken))
  /\ UNCHANGED <<now, redis, faults>>

-----------------------------------------------------------------------------
(* POST /logout: delete the refresh token, blacklist the access token.     *)

Revoke(c) ==
  /\ \/ At(c, "logout", "revoke") /\ Goto(c, "token")
     \/ At(c, "logout", "token")  /\ Reply(c, Status(204))
  /\ Effect(c)
  /\ UNCHANGED <<now, faults>>

-----------------------------------------------------------------------------
(* authMiddleware, before every other route: the signature and the age of  *)
(* the token, then the blacklist.  200 is whatever the service answers.    *)

Verify(c) ==
  /\ At(c, "api", "verify")
  /\ LET token == http[c].access
     IN IF token = NoToken \/ now >= token.at + AccessTTL
        THEN Reply(c, Status(401)) ELSE Goto(c, "exists")
  /\ UNCHANGED <<now, redis, faults>>

Admit(c) ==
  /\ At(c, "api", "exists")
  /\ Reply(c, Status(IF http[c].access \in blacklist THEN 401 ELSE 200))
  /\ UNCHANGED <<now, redis, faults>>

-----------------------------------------------------------------------------
Serve(c) ==
  \/ FindFree(c) \/ StoreUser(c)
  \/ FindUser(c) \/ ComparePassword(c) \/ StoreToken(c)
  \/ FindToken(c) \/ SignAccess(c)
  \/ Revoke(c)
  \/ Verify(c) \/ Admit(c)

\* Redis rejects a command, which may have taken effect: 500 from the catch
\* clauses, while the middleware catches nothing and its replica dies.
RedisFails(c) ==
  /\ http[c].at \in {"email", "user", "index", "token", "revoke", "exists"}
  /\ Eventful
  /\ faults' = faults + 1
  /\ Effect(c) \/ UNCHANGED redis
  /\ Reply(c, Status(IF http[c].op = "api" THEN 0 ELSE 500))
  /\ UNCHANGED now

\* A second passes; Redis forgets what is blacklisted once it has expired.
Tick ==
  /\ Eventful
  /\ now' = now + 1
  /\ blacklist' = {token \in blacklist : now' < token.at + AccessTTL}
  /\ UNCHANGED <<issued, users, emailIds, refreshTokens, http, faults>>

-----------------------------------------------------------------------------
\* An e-mail that is registered leads to a stored user of that e-mail, however
\* registrations of it overlap and wherever one of them is cut short: the 500
\* of a login that finds no user is never answered.
EmailsLeadToUsers ==
  \A e \in Emails : emailIds[e] # NoUser => users[emailIds[e]] = e
=============================================================================
