------------------------- MODULE PortalSessionProofs -------------------------
(***************************************************************************)
(* Theorems about the sessions of the portal and the accounts of the       *)
(* gateway, for any number of e-mails, exchanges, users, seconds and       *)
(* failures.                                                               *)
(***************************************************************************)
EXTENDS PortalSession, TLAPS

Commands  == {"email", "user", "index", "token", "revoke", "verify", "exists"}
Ops       == {"register", "login", "refresh", "logout", "api"}
Statuses  == {0, 200, 201, 204, 401, 409, 429, 500}
Answers   == [status : Statuses, access : Tokens, refresh : Tokens]
Exchanges == [op : Ops, at : Commands, email : Emails \cup {NoEmail},
              user : UserIds \cup {NoUser}, access : Tokens, refresh : Tokens]
Answered  == [at : {"answered"}, answer : Answers]
Https     == Exchanges \cup Answered \cup {Free}
Kinds     == {"register", "login", "logout", "restore", "dropped", "request", "renew",
              "retry"}
Flows     == [kind : Kinds, token : Tokens] \cup {NoFlow}

RedisTyped ==
  /\ now \in 0..MaxEvents
  /\ issued \in 0..MaxUsers
  /\ users \in [UserIds -> Emails \cup {NoEmail}]
  /\ emailIds \in [Emails -> UserIds \cup {NoUser}]
  /\ refreshTokens \subseteq Tokens \ {NoToken}
  /\ blacklist \subseteq Tokens
  /\ faults \in 0..MaxEvents

TabTyped ==
  /\ mem \in [access : Tokens, refresh : Tokens]
  /\ stored \in [refresh : Tokens, subject : UserIds \cup {NoUser}]
  /\ view \in {"access", "portal"}
  /\ flow \in [Calls -> Flows]
  /\ signedOut \in BOOLEAN

\* What the command a handler is at says about what it has found so far.
Tells(x) ==
  x \in Exchanges =>
    /\ x.op = "register" => x.email \in Emails
    /\ x.op = "login"    => x.email \in Emails
    /\ x.op = "login" /\ x.at = "user"   => x.user # NoUser
    /\ x.op = "login" /\ x.at = "token"  => x.access = x.refresh /\ x.refresh # NoToken
    /\ x.op = "refresh" /\ x.at = "user" => x.user = x.refresh.user /\ x.user # NoUser

HandlersTell == \A c \in Calls : Tells(http[c])

\* A chain that may store a session waits for the exchange it began, and a
\* refresh answers for the user of the token it was asked for.
Refreshes == {"restore", "dropped", "renew"}

Waits(f, x) ==
  /\ f.kind = "login" =>
       \/ x \in Exchanges /\ x.op = "login"
       \/ /\ x \in Answered
          /\ x.answer.status = 200 => x.answer.access = x.answer.refresh
  /\ f.kind \in Refreshes =>
       \/ x \in Exchanges /\ x.op = "refresh" /\ x.refresh = f.token
       \/ /\ x \in Answered
          /\ x.answer.status = 200 => x.answer.access.user = f.token.user

ChainsWait == \A c \in Calls : Waits(flow[c], http[c])

\* Signed out, nothing waits that could store a session but a login.
NothingBack ==
  signedOut => /\ mem = NoSession /\ stored = Nothing
               /\ \A c \in Calls : flow[c].kind \notin Refreshes

\* Registrations under way have users of their own, and no e-mail leads to one
\* before it is stored.
Registering(c) == At(c, "register", "user") \/ At(c, "register", "index")

Registrations ==
  /\ \A c \in Calls : Registering(c) => http[c].user \in 1..issued
  /\ \A c, d \in Calls :
       Registering(c) /\ Registering(d) /\ c # d => http[c].user # http[d].user
  /\ \A c \in Calls, e \in Emails :
       At(c, "register", "user") => emailIds[e] # http[c].user
  /\ \A c \in Calls : At(c, "register", "index") => users[http[c].user] = http[c].email
  /\ \A e \in Emails : emailIds[e] # NoUser => emailIds[e] \in 1..issued

Typed == RedisTyped /\ TabTyped /\ http \in [Calls -> Https]

Inv == /\ Typed /\ HandlersTell /\ ChainsWait
       /\ SessionIsWhole /\ NothingBack
       /\ Registrations /\ EmailsLeadToUsers

-----------------------------------------------------------------------------
(* Records and tokens.                                                     *)

LEMMA TokenFacts ==
  /\ NoToken \in Tokens /\ NoToken.user = NoUser
  /\ \A t \in Tokens : t.user \in UserIds \cup {NoUser} /\ (t.user = NoUser <=> t = NoToken)
  /\ now \in 0..MaxEvents =>
       \A u \in UserIds : Token(u) \in Tokens /\ Token(u).user = u /\ Token(u) # NoToken
  BY AuthAssumption DEF Tokens, NoToken, Token, UserIds, NoUser

LEMMA IssuedAreIds ==
  ASSUME RedisTyped
  PROVE  \A u \in 1..issued : u \in UserIds /\ u # NoUser
  BY AuthAssumption DEF RedisTyped, UserIds, NoUser

LEMMA Kinds3 ==
  /\ \A x \in Exchanges : x.at \in Commands /\ x \notin Answered /\ x # Free
  /\ \A x \in Answered : x.at = "answered" /\ x.answer \in Answers /\ x # Free
  /\ Free.at = "free" /\ NoFlow.kind = "none"
  /\ \A f \in Flows : f # NoFlow => f.kind \in Kinds /\ f.token \in Tokens
  BY DEF Exchanges, Answered, Free, Commands, Flows, NoFlow, Kinds

LEMMA Replies ==
  ASSUME NEW s \in Statuses, NEW t \in Tokens, NEW u \in Tokens
  PROVE  /\ Answer(s, t, u) \in Answers
         /\ Answer(s, t, u).status = s /\ Answer(s, t, u).access = t
         /\ Answer(s, t, u).refresh = u
         /\ Status(s) \in Answers /\ Status(s).status = s
  BY TokenFacts DEF Answers, Answer, Status

LEMMA ReplyTyped ==
  ASSUME NEW a \in Answers
  PROVE  /\ [at |-> "answered", answer |-> a] \in Answered
         /\ [at |-> "answered", answer |-> a].answer = a
  BY DEF Answered

LEMMA InitInv == SessionInit => Inv
<1> SUFFICES ASSUME SessionInit PROVE Inv
  OBVIOUS
<1> USE DEF SessionInit, AuthInit
<1>1. Typed
  <2>1. RedisTyped
    BY AuthAssumption DEF RedisTyped, UserIds, NoUser, NoEmail
  <2>2. TabTyped
    BY TokenFacts DEF TabTyped, Flows, NoSession, Nothing
  <2>3. http \in [Calls -> Https]
    BY DEF Https
  <2> QED
    BY <2>1, <2>2, <2>3 DEF Typed
<1>2. HandlersTell /\ ChainsWait
  BY Kinds3 DEF HandlersTell, Tells, ChainsWait, Waits, Refreshes
<1>3. SessionIsWhole /\ NothingBack
  BY TokenFacts DEF SessionIsWhole, NothingBack, Nothing
<1>4. Registrations /\ EmailsLeadToUsers
  BY Kinds3 DEF Registrations, Registering, At, EmailsLeadToUsers
<1> QED
  BY <1>1, <1>2, <1>3, <1>4 DEF Inv

-----------------------------------------------------------------------------
(* One exchange goes on; the others stay as they are.                      *)

Others(c) == \A d \in Calls \ {c} : http'[d] = http[d]

LEMMA AtExchange ==
  ASSUME http \in [Calls -> Https], NEW c \in Calls, http[c].at \in Commands
  PROVE  http[c] \in Exchanges
  BY Kinds3 DEF Https, Commands

LEMMA GotoFacts ==
  ASSUME http \in [Calls -> Https], NEW c \in Calls, http[c] \in Exchanges,
         NEW command \in Commands, Goto(c, command)
  PROVE  /\ http' \in [Calls -> Https] /\ Others(c)
         /\ http'[c] \in Exchanges
         /\ http'[c].at = command /\ http'[c].op = http[c].op
         /\ http'[c].email = http[c].email /\ http'[c].user = http[c].user
         /\ http'[c].access = http[c].access /\ http'[c].refresh = http[c].refresh
<1> DEFINE y == [http[c] EXCEPT !.at = command]
<1>1. /\ y \in Exchanges /\ y.at = command /\ y.op = http[c].op
      /\ y.email = http[c].email /\ y.user = http[c].user
      /\ y.access = http[c].access /\ y.refresh = http[c].refresh
  BY DEF Exchanges
<1>2. http' = [http EXCEPT ![c] = y]
  BY DEF Goto
<1> HIDE DEF y
<1> QED
  BY <1>1, <1>2 DEF Others, Https

LEMMA LoadFacts ==
  ASSUME http \in [Calls -> Https], NEW c \in Calls, http[c] \in Exchanges,
         NEW command \in Commands, NEW u \in UserIds \cup {NoUser}, Load(c, command, u)
  PROVE  /\ http' \in [Calls -> Https] /\ Others(c)
         /\ http'[c] \in Exchanges
         /\ http'[c].at = command /\ http'[c].op = http[c].op
         /\ http'[c].email = http[c].email /\ http'[c].user = u
         /\ http'[c].access = http[c].access /\ http'[c].refresh = http[c].refresh
<1> DEFINE y == [http[c] EXCEPT !.at = command, !.user = u]
<1>1. /\ y \in Exchanges /\ y.at = command /\ y.op = http[c].op
      /\ y.email = http[c].email /\ y.user = u
      /\ y.access = http[c].access /\ y.refresh = http[c].refresh
  BY DEF Exchanges
<1>2. http' = [http EXCEPT ![c] = y]
  BY DEF Load
<1> HIDE DEF y
<1> QED
  BY <1>1, <1>2 DEF Others, Https

LEMMA ReplyFacts ==
  ASSUME http \in [Calls -> Https], NEW c \in Calls, NEW a \in Answers, Reply(c, a)
  PROVE  /\ http' \in [Calls -> Https] /\ Others(c)
         /\ http'[c] \in Answered /\ http'[c].answer = a
<1> DEFINE y == [at |-> "answered", answer |-> a]
<1>1. y \in Answered /\ y.answer = a
  BY ReplyTyped
<1>2. http' = [http EXCEPT ![c] = y]
  BY DEF Reply
<1> HIDE DEF y
<1> QED
  BY <1>1, <1>2 DEF Others, Https

\* Nothing that is being registered changes.
LEMMA RegistrationsKept ==
  ASSUME Registrations, EmailsLeadToUsers, NEW c \in Calls, Others(c), ~Registering(c)',
         UNCHANGED <<users, emailIds, issued>>
  PROVE  Registrations' /\ EmailsLeadToUsers'
  BY DEF Registrations, EmailsLeadToUsers, Others, Registering, At

LEMMA NotRegistering ==
  ASSUME NEW c \in Calls, \/ http'[c] \in Exchanges /\ http'[c].op # "register"
                          \/ http'[c] \in Answered \cup {Free}
  PROVE  ~Registering(c)'
  BY Kinds3 DEF Registering, At

\* What is left to show of a step of the gateway.
GatewayStep(c) ==
  /\ RedisTyped' /\ http' \in [Calls -> Https] /\ Others(c)
  /\ Tells(http'[c]) /\ Waits(flow[c], http'[c])
  /\ Registrations' /\ EmailsLeadToUsers'

LEMMA GatewayStepSuffices ==
  ASSUME Inv, NEW c \in Calls, GatewayStep(c), UNCHANGED tab
  PROVE  Inv'
<1>1. Typed'
  BY DEF Inv, Typed, TabTyped, GatewayStep, tab
<1>2. HandlersTell' /\ ChainsWait'
  BY DEF Inv, HandlersTell, ChainsWait, GatewayStep, Others, tab
<1>3. SessionIsWhole' /\ NothingBack'
  BY DEF Inv, SessionIsWhole, NothingBack, tab
<1> QED
  BY <1>1, <1>2, <1>3 DEF Inv, GatewayStep

\* An answer ends a handler: only a login and a refresh have to answer truly.
LEMMA ReplyStep ==
  ASSUME Inv, NEW c \in Calls, http[c] \in Exchanges, NEW a \in Answers, Reply(c, a),
         RedisTyped', UNCHANGED <<users, emailIds, issued>>,
         a.status = 200 =>
           /\ http[c].op = "login"   => a.access = a.refresh
           /\ http[c].op = "refresh" => a.access.user = http[c].refresh.user
  PROVE  GatewayStep(c)
<1>1. /\ http' \in [Calls -> Https] /\ Others(c)
      /\ http'[c] \in Answered /\ http'[c].answer = a
  BY ReplyFacts DEF Inv, Typed
<1>2. Tells(http'[c])
  BY <1>1, Kinds3 DEF Tells
<1>3. Waits(flow[c], http'[c])
  BY <1>1, Kinds3 DEF Inv, ChainsWait, Waits
<1>4. Registrations' /\ EmailsLeadToUsers'
  BY <1>1, NotRegistering, RegistrationsKept DEF Inv
<1> QED
  BY <1>1, <1>2, <1>3, <1>4 DEF GatewayStep

-----------------------------------------------------------------------------
(* The handlers of the gateway.                                            *)

LEMMA FindFreeStep == ASSUME Inv, NEW c \in Calls, FindFree(c) PROVE GatewayStep(c)
<1> USE DEF Inv
<1>1. http[c] \in Exchanges /\ http[c].op = "register" /\ http[c].at = "email"
      /\ http[c].email \in Emails /\ http \in [Calls -> Https]
  BY AtExchange DEF FindFree, At, Commands, Typed, HandlersTell, Tells
<1>2. CASE emailIds[http[c].email] # NoUser
  <2>1. Reply(c, Status(409)) /\ RedisTyped' /\ UNCHANGED <<users, emailIds, issued>>
    BY <1>2 DEF FindFree, Typed, RedisTyped
  <2>2. Status(409) \in Answers /\ Status(409).status = 409
    BY Replies, TokenFacts DEF Statuses
  <2> QED
    BY <1>1, <2>1, <2>2, ReplyStep
<1>3. CASE emailIds[http[c].email] = NoUser
  <2>1. /\ issued < MaxUsers /\ issued' = issued + 1 /\ Load(c, "user", issued')
        /\ UNCHANGED <<now, users, emailIds, refreshTokens, blacklist, faults>>
    BY <1>3 DEF FindFree
  <2>2. issued \in Nat /\ issued' \in UserIds /\ issued' \in 0..MaxUsers
    BY <2>1, AuthAssumption DEF Typed, RedisTyped, UserIds
  <2>3. RedisTyped'
    BY <2>1, <2>2 DEF Typed, RedisTyped
  <2>4. /\ http' \in [Calls -> Https] /\ Others(c)
        /\ http'[c] \in Exchanges /\ http'[c].at = "user"
        /\ http'[c].op = "register" /\ http'[c].email = http[c].email
        /\ http'[c].user = issued'
    BY <1>1, <2>1, <2>2, LoadFacts DEF Commands
  <2>5. Tells(http'[c]) /\ Waits(flow[c], http'[c])
    BY <1>1, <2>4, Kinds3 DEF Tells, ChainsWait, Waits
  <2>6. EmailsLeadToUsers'
    BY <2>1 DEF EmailsLeadToUsers
  <2>7. /\ At(c, "register", "user")' /\ ~At(c, "register", "index")'
        /\ \A d \in Calls \ {c} : http'[d] = http[d]
    BY <2>4 DEF At, Others
  <2>8. \A d \in Calls : Registering(d) => http[d].user \in 1..issued
    BY DEF Registrations
  <2>9. \A n \in 1..issued : n \in 1..issued' /\ n # issued'
    BY <2>1, <2>2
  <2>10. \A e \in Emails : emailIds[e] # NoUser => emailIds[e] \in 1..issued
    BY DEF Registrations
  <2>11. issued' # NoUser /\ issued' \in 1..issued'
    BY <2>1, <2>2 DEF NoUser
  <2>12. \A d \in Calls : Registering(d)' => http'[d].user \in 1..issued'
    BY <2>4, <2>7, <2>8, <2>9, <2>11 DEF Registering, At
  <2>13. \A d, f \in Calls :
           Registering(d)' /\ Registering(f)' /\ d # f => http'[d].user # http'[f].user
    <3>1. \A d \in Calls \ {c} : Registering(d)' => http'[d].user # issued'
      BY <2>7, <2>8, <2>9 DEF Registering, At
    <3>2. \A d, f \in Calls \ {c} :
            Registering(d)' /\ Registering(f)' /\ d # f => http'[d].user # http'[f].user
      BY <2>7 DEF Registrations, Registering, At
    <3> QED
      BY <2>4, <3>1, <3>2
  <2>14. \A d \in Calls, e \in Emails :
           At(d, "register", "user")' => emailIds'[e] # http'[d].user
    <3>1. \A e \in Emails : emailIds'[e] # issued'
      BY <2>1, <2>9, <2>10, <2>11
    <3> QED
      BY <2>1, <2>4, <2>7, <3>1 DEF Registrations, At
  <2>15. \A d \in Calls :
           At(d, "register", "index")' => users'[http'[d].user] = http'[d].email
    BY <2>1, <2>7 DEF Registrations, At
  <2>16. \A e \in Emails : emailIds'[e] # NoUser => emailIds'[e] \in 1..issued'
    BY <2>1, <2>9, <2>10
  <2>17. Registrations'
    BY <2>12, <2>13, <2>14, <2>15, <2>16 DEF Registrations
  <2> QED
    BY <2>3, <2>4, <2>5, <2>6, <2>17 DEF GatewayStep
<1> QED
  BY <1>2, <1>3

\* Storing a user touches nothing that leads to another one.
LEMMA UserStored ==
  ASSUME Inv, NEW c \in Calls, http[c] \in Exchanges, At(c, "register", "user"),
         Others(c), UNCHANGED <<emailIds, issued>>,
         users' = [users EXCEPT ![http[c].user] = http[c].email],
         \/ ~Registering(c)'
         \/ /\ At(c, "register", "index")' /\ ~At(c, "register", "user")'
            /\ http'[c].user = http[c].user /\ http'[c].email = http[c].email
  PROVE  Registrations' /\ EmailsLeadToUsers'
<1> USE DEF Inv
<1>1. /\ http[c].user \in 1..issued /\ http[c].user \in UserIds
      /\ \A d \in Calls \ {c} : Registering(d) => http[d].user # http[c].user
      /\ \A e \in Emails : emailIds[e] # http[c].user
  BY IssuedAreIds DEF Registrations, Registering, Typed
<1>2. /\ users'[http[c].user] = http[c].email
      /\ \A u \in UserIds : u # http[c].user => users'[u] = users[u]
  BY <1>1 DEF Typed, RedisTyped
<1>3. EmailsLeadToUsers'
  <2> SUFFICES ASSUME NEW e \in Emails, emailIds[e] # NoUser
               PROVE  users'[emailIds[e]] = e
    BY DEF EmailsLeadToUsers
  <2>1. emailIds[e] \in UserIds /\ emailIds[e] # http[c].user
    BY <1>1 DEF Typed, RedisTyped
  <2> QED
    BY <1>2, <2>1 DEF EmailsLeadToUsers
<1>4. \A d \in Calls : Registering(d)' => Registering(d) /\ http'[d].user = http[d].user
  BY DEF Registering, At, Others
<1>5. \A d \in Calls : At(d, "register", "index")' => users'[http'[d].user] = http'[d].email
  <2> SUFFICES ASSUME NEW d \in Calls, At(d, "register", "index")'
               PROVE  users'[http'[d].user] = http'[d].email
    OBVIOUS
  <2>1. CASE d = c
    BY <1>2, <2>1 DEF Registering
  <2>2. CASE d # c
    <3>1. At(d, "register", "index") /\ http'[d] = http[d] /\ Registering(d)
      BY <2>2 DEF At, Others, Registering
    <3>2. http[d].user \in UserIds
      BY <3>1, IssuedAreIds DEF Registrations, Typed
    <3>3. http[d].user # http[c].user
      BY <1>1, <2>2, <3>1
    <3> QED
      BY <1>2, <3>1, <3>2, <3>3 DEF Registrations
  <2> QED
    BY <2>1, <2>2
<1>6. \A d \in Calls, e \in Emails : At(d, "register", "user")' => emailIds'[e] # http'[d].user
  BY <1>4 DEF Registrations, Registering, At, Others
<1> QED
  BY <1>3, <1>4, <1>5, <1>6 DEF Registrations

\* Once its user is stored, an e-mail may lead to it.
LEMMA EmailStored ==
  ASSUME Inv, NEW c \in Calls, http[c] \in Exchanges, At(c, "register", "index"),
         Others(c), UNCHANGED <<users, issued>>,
         emailIds' = [emailIds EXCEPT ![http[c].email] = http[c].user],
         ~Registering(c)'
  PROVE  Registrations' /\ EmailsLeadToUsers'
<1> USE DEF Inv
<1>1. /\ http[c].user \in 1..issued /\ http[c].email \in Emails
      /\ users[http[c].user] = http[c].email
      /\ \A d \in Calls \ {c} : Registering(d) => http[d].user # http[c].user
  BY DEF Registrations, Registering, At, HandlersTell, Tells
<1>2. \A e \in Emails : emailIds'[e] = IF e = http[c].email THEN http[c].user ELSE emailIds[e]
  BY DEF Typed, RedisTyped
<1>3. EmailsLeadToUsers'
  BY <1>1, <1>2 DEF EmailsLeadToUsers
<1>4. \A d \in Calls : Registering(d)' => d # c /\ Registering(d) /\ http'[d] = http[d]
  BY DEF Registering, At, Others
<1>5. \A d \in Calls, e \in Emails : At(d, "register", "user")' => emailIds'[e] # http'[d].user
  <2> SUFFICES ASSUME NEW d \in Calls, NEW e \in Emails, At(d, "register", "user")'
               PROVE  emailIds'[e] # http'[d].user
    OBVIOUS
  <2>1. d # c /\ Registering(d) /\ http'[d] = http[d]
    BY <1>4 DEF Registering
  <2>2. At(d, "register", "user")
    BY <2>1 DEF At
  <2> QED
    BY <1>1, <1>2, <2>1, <2>2 DEF Registrations
<1>6. \A d \in Calls : At(d, "register", "index")' => users'[http'[d].user] = http'[d].email
  BY <1>4 DEF Registrations, Registering, At
<1>7. \A e \in Emails : emailIds'[e] # NoUser => emailIds'[e] \in 1..issued
  BY <1>1, <1>2 DEF Registrations
<1> QED
  BY <1>3, <1>4, <1>5, <1>6, <1>7 DEF Registrations

\* What a command does to Redis at each of the five commands that write.
LEMMA EffectFacts ==
  ASSUME Inv, NEW c \in Calls, http[c] \in Exchanges, Effect(c),
         now' \in 0..MaxEvents, faults' \in 0..MaxEvents
  PROVE  /\ RedisTyped' /\ issued' = issued
         /\ IF At(c, "register", "user")
            THEN users' = [users EXCEPT ![http[c].user] = http[c].email]
            ELSE users' = users
         /\ IF At(c, "register", "index")
            THEN emailIds' = [emailIds EXCEPT ![http[c].email] = http[c].user]
            ELSE emailIds' = emailIds
<1> USE DEF Inv
<1>1. /\ http[c].user \in UserIds \cup {NoUser} /\ http[c].email \in Emails \cup {NoEmail}
      /\ http[c].access \in Tokens /\ http[c].refresh \in Tokens
  BY DEF Exchanges
<1>2. /\ issued' = issued
      /\ IF At(c, "register", "user")
         THEN users' = [users EXCEPT ![http[c].user] = http[c].email]
         ELSE users' = users
      /\ IF At(c, "register", "index")
         THEN emailIds' = [emailIds EXCEPT ![http[c].email] = http[c].user]
         ELSE emailIds' = emailIds
  BY DEF Effect
<1>3. users' \in [UserIds -> Emails \cup {NoEmail}]
  BY <1>1, <1>2 DEF Typed, RedisTyped
<1>4. emailIds' \in [Emails -> UserIds \cup {NoUser}]
  BY <1>1, <1>2 DEF Typed, RedisTyped
<1>5. refreshTokens' \subseteq Tokens \ {NoToken}
  <2>1. CASE At(c, "login", "token")
    <3>1. http[c].refresh # NoToken /\ refreshTokens' = refreshTokens \cup {http[c].refresh}
      BY <2>1 DEF Effect, At, HandlersTell, Tells
    <3> QED
      BY <1>1, <3>1 DEF Typed, RedisTyped
  <2>2. CASE ~At(c, "login", "token")
    <3>1. refreshTokens' \subseteq refreshTokens
      BY <2>2 DEF Effect
    <3> QED
      BY <3>1 DEF Typed, RedisTyped
  <2> QED
    BY <2>1, <2>2
<1>6. blacklist' \subseteq Tokens
  BY <1>1 DEF Effect, Typed, RedisTyped
<1> QED
  BY <1>2, <1>3, <1>4, <1>5, <1>6 DEF Typed, RedisTyped

LEMMA StoreUserStep == ASSUME Inv, NEW c \in Calls, StoreUser(c) PROVE GatewayStep(c)
<1> USE DEF Inv
<1>1. /\ http[c] \in Exchanges /\ http[c].op = "register" /\ http \in [Calls -> Https]
      /\ http[c].email \in Emails
      /\ Effect(c) /\ UNCHANGED <<now, faults>>
  BY AtExchange DEF StoreUser, At, Commands, Typed, HandlersTell, Tells
<1>2. RedisTyped' /\ issued' = issued
  BY <1>1, EffectFacts DEF Typed, RedisTyped
<1>3. CASE At(c, "register", "user")
  <2>1. Goto(c, "index")
    BY <1>3 DEF StoreUser, At
  <2>2. /\ http' \in [Calls -> Https] /\ Others(c)
        /\ http'[c] \in Exchanges
        /\ http'[c].at = "index" /\ http'[c].op = "register"
        /\ http'[c].email = http[c].email /\ http'[c].user = http[c].user
    BY <1>1, <2>1, GotoFacts DEF Commands
  <2>3. At(c, "register", "index")' /\ ~At(c, "register", "user")'
    BY <2>2 DEF At
  <2>4. /\ users' = [users EXCEPT ![http[c].user] = http[c].email]
        /\ emailIds' = emailIds
    BY <1>1, <1>3, EffectFacts DEF At, Typed, RedisTyped
  <2>5. Registrations' /\ EmailsLeadToUsers'
    BY <1>1, <1>2, <1>3, <2>2, <2>3, <2>4, UserStored
  <2>6. Tells(http'[c]) /\ Waits(flow[c], http'[c])
    BY <1>1, <2>2, Kinds3 DEF Tells, ChainsWait, Waits
  <2> QED
    BY <1>2, <2>2, <2>5, <2>6 DEF GatewayStep
<1>4. CASE At(c, "register", "index")
  <2>1. Reply(c, Status(201)) /\ Status(201) \in Answers
    BY <1>4, Replies, TokenFacts DEF StoreUser, At, Statuses
  <2>2. /\ http' \in [Calls -> Https] /\ Others(c)
        /\ http'[c] \in Answered
    BY <1>1, <2>1, ReplyFacts
  <2>3. /\ emailIds' = [emailIds EXCEPT ![http[c].email] = http[c].user]
        /\ users' = users
    BY <1>1, <1>4, EffectFacts DEF At, Typed, RedisTyped
  <2>4. Registrations' /\ EmailsLeadToUsers'
    BY <1>1, <1>2, <1>4, <2>2, <2>3, EmailStored, NotRegistering
  <2>5. Tells(http'[c]) /\ Waits(flow[c], http'[c])
    BY <1>1, <2>2, Kinds3 DEF Tells, ChainsWait, Waits
  <2> QED
    BY <1>2, <2>2, <2>4, <2>5 DEF GatewayStep
<1> QED
  BY <1>3, <1>4 DEF StoreUser

\* A handler other than that of a registration goes on to its next command.
LEMMA GoOnStep ==
  ASSUME Inv, NEW c \in Calls, http[c] \in Exchanges, http[c].op # "register",
         http' \in [Calls -> Https], Others(c), http'[c] \in Exchanges,
         http'[c].op = http[c].op, http'[c].refresh = http[c].refresh \/ http[c].op = "login",
         UNCHANGED redis, UNCHANGED <<now, faults>>, Tells(http'[c])
  PROVE  GatewayStep(c)
<1>1. RedisTyped'
  BY DEF Inv, Typed, RedisTyped, redis
<1>2. Waits(flow[c], http'[c])
  BY Kinds3 DEF Inv, ChainsWait, Waits
<1>3. Registrations' /\ EmailsLeadToUsers'
  BY NotRegistering, RegistrationsKept DEF Inv, redis
<1> QED
  BY <1>1, <1>2, <1>3 DEF GatewayStep

\* A handler answers without having written.
LEMMA RefuseStep ==
  ASSUME Inv, NEW c \in Calls, http[c] \in Exchanges, NEW a \in Answers, Reply(c, a),
         UNCHANGED redis, UNCHANGED <<now, faults>>,
         a.status = 200 =>
           /\ http[c].op = "login"   => a.access = a.refresh
           /\ http[c].op = "refresh" => a.access.user = http[c].refresh.user
  PROVE  GatewayStep(c)
<1>1. RedisTyped' /\ UNCHANGED <<users, emailIds, issued>>
  BY DEF Inv, Typed, RedisTyped, redis
<1> QED
  BY <1>1, ReplyStep

LEMMA StatusFacts ==
  ASSUME NEW s \in Statuses
  PROVE  Status(s) \in Answers /\ Status(s).status = s
  BY Replies, TokenFacts

LEMMA FindUserStep == ASSUME Inv, NEW c \in Calls, FindUser(c) PROVE GatewayStep(c)
<1> USE DEF Inv
<1>1. /\ http[c] \in Exchanges /\ http[c].op = "login" /\ http[c].at = "email"
      /\ http[c].email \in Emails /\ http \in [Calls -> Https]
      /\ UNCHANGED redis /\ UNCHANGED <<now, faults>>
  BY AtExchange DEF FindUser, At, Commands, Typed, HandlersTell, Tells
<1> DEFINE u == emailIds[http[c].email]
<1>2. CASE Reply(c, Status(429)) \/ Reply(c, Status(401))
  BY <1>1, <1>2, RefuseStep, StatusFacts DEF Statuses
<1>3. CASE u # NoUser /\ Load(c, "user", u)
  <2>1. u \in UserIds \cup {NoUser}
    BY <1>1 DEF Typed, RedisTyped
  <2>2. /\ http' \in [Calls -> Https] /\ Others(c)
        /\ http'[c] \in Exchanges /\ http'[c].op = "login" /\ http'[c].at = "user"
        /\ http'[c].email = http[c].email /\ http'[c].user = u
        /\ http'[c].refresh = http[c].refresh
    BY <1>1, <1>3, <2>1, LoadFacts DEF Commands
  <2>3. Tells(http'[c])
    BY <1>1, <1>3, <2>2 DEF Tells
  <2> QED
    BY <1>1, <2>2, <2>3, GoOnStep
<1> QED
  BY <1>2, <1>3 DEF FindUser

LEMMA ComparePasswordStep ==
  ASSUME Inv, NEW c \in Calls, ComparePassword(c)
  PROVE  GatewayStep(c)
<1> USE DEF Inv
<1>1. /\ http[c] \in Exchanges /\ http[c].op = "login" /\ http[c].at = "user"
      /\ http[c].email \in Emails /\ http[c].user \in UserIds
      /\ http \in [Calls -> Https]
      /\ UNCHANGED redis /\ UNCHANGED <<now, faults>>
  BY AtExchange
  DEF ComparePassword, At, Commands, Typed, HandlersTell, Tells, Exchanges
<1> DEFINE t == Token(http[c].user)
           y == [http[c] EXCEPT !.at = "token", !.access = t, !.refresh = t]
<1>2. CASE Reply(c, Status(500)) \/ Reply(c, Status(401))
  BY <1>1, <1>2, RefuseStep, StatusFacts DEF Statuses
<1>3. CASE http' = [http EXCEPT ![c] = y]
  <2>1. t \in Tokens /\ t # NoToken
    BY <1>1, TokenFacts DEF Typed, RedisTyped
  <2>2. /\ y \in Exchanges /\ y.at = "token" /\ y.op = "login" /\ y.email = http[c].email
        /\ y.access = t /\ y.refresh = t
    BY <1>1, <2>1 DEF Exchanges, Commands
  <2> HIDE DEF t, y
  <2>3. http' \in [Calls -> Https] /\ Others(c) /\ http'[c] = y
    BY <1>1, <1>3, <2>2 DEF Others, Https
  <2>4. Tells(http'[c])
    BY <1>1, <2>1, <2>2, <2>3 DEF Tells
  <2> QED
    BY <1>1, <2>2, <2>3, <2>4, GoOnStep
<1>4. \/ Reply(c, Status(500)) \/ Reply(c, Status(401))
      \/ http' = [http EXCEPT ![c].at = "token", ![c].access = t, ![c].refresh = t]
  BY DEF ComparePassword
<1>5. ASSUME http' = [http EXCEPT ![c].at = "token", ![c].access = t, ![c].refresh = t]
      PROVE  http' = [http EXCEPT ![c] = y]
  BY <1>1, <1>5 DEF Typed
<1> QED
  BY <1>2, <1>3, <1>4, <1>5

LEMMA StoreTokenStep == ASSUME Inv, NEW c \in Calls, StoreToken(c) PROVE GatewayStep(c)
<1> USE DEF Inv
<1>1. /\ http[c] \in Exchanges /\ http[c].op = "login" /\ http[c].at = "token"
      /\ http[c].access = http[c].refresh /\ http[c].access \in Tokens
      /\ Effect(c) /\ UNCHANGED <<now, faults>>
      /\ Reply(c, Answer(200, http[c].access, http[c].refresh))
  BY AtExchange
  DEF StoreToken, At, Commands, Typed, HandlersTell, Tells, Exchanges
<1>2. RedisTyped' /\ UNCHANGED <<users, emailIds, issued>>
  BY <1>1, EffectFacts DEF At, Typed, RedisTyped
<1>3. /\ Answer(200, http[c].access, http[c].refresh) \in Answers
      /\ Answer(200, http[c].access, http[c].refresh).access = http[c].access
      /\ Answer(200, http[c].access, http[c].refresh).refresh = http[c].refresh
  BY <1>1, Replies DEF Statuses
<1> QED
  BY <1>1, <1>2, <1>3, ReplyStep

LEMMA FindTokenStep == ASSUME Inv, NEW c \in Calls, FindToken(c) PROVE GatewayStep(c)
<1> USE DEF Inv
<1> DEFINE t == http[c].refresh
<1>1. /\ http[c] \in Exchanges /\ http[c].op = "refresh" /\ t \in Tokens
      /\ http \in [Calls -> Https]
      /\ UNCHANGED redis /\ UNCHANGED <<now, faults>>
  BY AtExchange DEF FindToken, At, Commands, Typed, Exchanges
<1>2. CASE Reply(c, Status(401))
  BY <1>1, <1>2, RefuseStep, StatusFacts DEF Statuses
<1>3. CASE t \in refreshTokens /\ Load(c, "user", t.user)
  <2>1. t.user \in UserIds \cup {NoUser} /\ t.user # NoUser
    BY <1>1, <1>3, TokenFacts DEF Typed, RedisTyped
  <2>2. /\ http' \in [Calls -> Https] /\ Others(c)
        /\ http'[c] \in Exchanges /\ http'[c].op = "refresh" /\ http'[c].at = "user"
        /\ http'[c].user = t.user /\ http'[c].refresh = t
    BY <1>1, <1>3, <2>1, LoadFacts DEF Commands
  <2>3. Tells(http'[c])
    BY <2>1, <2>2 DEF Tells
  <2> QED
    BY <1>1, <2>2, <2>3, GoOnStep
<1> QED
  BY <1>2, <1>3 DEF FindToken

LEMMA SignAccessStep == ASSUME Inv, NEW c \in Calls, SignAccess(c) PROVE GatewayStep(c)
<1> USE DEF Inv
<1> DEFINE u == http[c].user
           a == Answer(200, Token(u), NoToken)
<1>1. /\ http[c] \in Exchanges /\ http[c].op = "refresh" /\ http[c].at = "user"
      /\ u = http[c].refresh.user /\ u \in UserIds
      /\ UNCHANGED redis /\ UNCHANGED <<now, faults>>
  BY AtExchange
  DEF SignAccess, At, Commands, Typed, HandlersTell, Tells, Exchanges
<1>2. CASE Reply(c, Status(500))
  BY <1>1, <1>2, RefuseStep, StatusFacts DEF Statuses
<1>3. CASE Reply(c, a)
  <2>1. Token(u) \in Tokens /\ Token(u).user = u /\ NoToken \in Tokens
    BY <1>1, TokenFacts DEF Typed, RedisTyped
  <2>2. a \in Answers /\ a.access = Token(u)
    BY <2>1, Replies DEF Statuses
  <2> HIDE DEF a
  <2> QED
    BY <1>1, <1>3, <2>1, <2>2, RefuseStep
<1> QED
  BY <1>2, <1>3 DEF SignAccess

LEMMA RevokeStep == ASSUME Inv, NEW c \in Calls, Revoke(c) PROVE GatewayStep(c)
<1> USE DEF Inv
<1>1. /\ http[c] \in Exchanges /\ http[c].op = "logout" /\ http \in [Calls -> Https]
      /\ Effect(c) /\ UNCHANGED <<now, faults>>
  BY AtExchange DEF Revoke, At, Commands, Typed
<1>2. RedisTyped' /\ UNCHANGED <<users, emailIds, issued>>
  BY <1>1, EffectFacts DEF At, Typed, RedisTyped
<1>3. CASE Goto(c, "token")
  <2>1. /\ http' \in [Calls -> Https] /\ Others(c)
        /\ http'[c] \in Exchanges /\ http'[c].op = "logout"
    BY <1>1, <1>3, GotoFacts DEF Commands
  <2>2. Tells(http'[c]) /\ Waits(flow[c], http'[c])
    BY <1>1, <2>1, Kinds3 DEF Tells, ChainsWait, Waits
  <2>3. Registrations' /\ EmailsLeadToUsers'
    BY <1>2, <2>1, NotRegistering, RegistrationsKept
  <2> QED
    BY <1>2, <2>1, <2>2, <2>3 DEF GatewayStep
<1>4. CASE Reply(c, Status(204))
  BY <1>1, <1>2, <1>4, ReplyStep, StatusFacts DEF Statuses
<1> QED
  BY <1>3, <1>4 DEF Revoke

LEMMA VerifyStep ==
  ASSUME Inv, NEW c \in Calls, Verify(c) \/ Admit(c)
  PROVE  GatewayStep(c)
<1> USE DEF Inv
<1>1. /\ http[c] \in Exchanges /\ http[c].op = "api" /\ http \in [Calls -> Https]
      /\ UNCHANGED redis /\ UNCHANGED <<now, faults>>
  BY AtExchange DEF Verify, Admit, At, Commands, Typed
<1>2. CASE Goto(c, "exists")
  <2>1. /\ http' \in [Calls -> Https] /\ Others(c)
        /\ http'[c] \in Exchanges /\ http'[c].op = "api"
        /\ http'[c].refresh = http[c].refresh
    BY <1>1, <1>2, GotoFacts DEF Commands
  <2>2. Tells(http'[c])
    BY <2>1 DEF Tells
  <2> QED
    BY <1>1, <2>1, <2>2, GoOnStep
<1>3. CASE Reply(c, Status(401)) \/ Reply(c, Status(200))
  BY <1>1, <1>3, RefuseStep, StatusFacts DEF Statuses
<1> QED
  BY <1>2, <1>3 DEF Verify, Admit

LEMMA RedisFailsStep == ASSUME Inv, NEW c \in Calls, RedisFails(c) PROVE GatewayStep(c)
<1> USE DEF Inv
<1> DEFINE a == Status(IF http[c].op = "api" THEN 0 ELSE 500)
<1>1. http[c] \in Exchanges /\ http \in [Calls -> Https]
  BY AtExchange DEF RedisFails, Commands, Typed
<1>2. now' \in 0..MaxEvents /\ faults' \in 0..MaxEvents
  BY AuthAssumption DEF RedisFails, Eventful, Typed, RedisTyped
<1>3. a \in Answers /\ Reply(c, a)
  BY StatusFacts DEF RedisFails, Statuses
<1> HIDE DEF a
<1>4. /\ http' \in [Calls -> Https] /\ Others(c) /\ http'[c] \in Answered
      /\ http'[c].answer = a
  BY <1>1, <1>3, ReplyFacts
<1>5. a.status # 200
  BY StatusFacts DEF a, Statuses
<1>6. Tells(http'[c]) /\ Waits(flow[c], http'[c]) /\ ~Registering(c)'
  BY <1>1, <1>4, <1>5, Kinds3, NotRegistering DEF Tells, ChainsWait, Waits
<1>7. CASE UNCHANGED redis
  <2>1. RedisTyped' /\ UNCHANGED <<users, emailIds, issued>>
    BY <1>2, <1>7 DEF Typed, RedisTyped, redis
  <2> QED
    BY <1>4, <1>6, <2>1, RegistrationsKept DEF GatewayStep
<1>8. CASE Effect(c)
  <2>1. /\ RedisTyped' /\ issued' = issued
        /\ IF At(c, "register", "user")
           THEN users' = [users EXCEPT ![http[c].user] = http[c].email]
           ELSE users' = users
        /\ IF At(c, "register", "index")
           THEN emailIds' = [emailIds EXCEPT ![http[c].email] = http[c].user]
           ELSE emailIds' = emailIds
    BY <1>1, <1>2, <1>8, EffectFacts
  <2>2. ~(At(c, "register", "user") /\ At(c, "register", "index"))
    BY DEF At
  <2>3. Registrations' /\ EmailsLeadToUsers'
    <3>1. CASE At(c, "register", "user")
      BY <1>1, <1>4, <1>6, <2>1, <2>2, <3>1, UserStored
    <3>2. CASE At(c, "register", "index")
      BY <1>1, <1>4, <1>6, <2>1, <2>2, <3>2, EmailStored
    <3>3. CASE ~At(c, "register", "user") /\ ~At(c, "register", "index")
      BY <1>4, <1>6, <2>1, <3>3, RegistrationsKept
    <3> QED
      BY <3>1, <3>2, <3>3
  <2> QED
    BY <1>4, <1>6, <2>1, <2>3 DEF GatewayStep
<1> QED
  BY <1>7, <1>8 DEF RedisFails

LEMMA GatewayInv == ASSUME Inv, NEW c \in Calls, Gateway(c) PROVE Inv'
<1>1. GatewayStep(c)
  BY FindFreeStep, StoreUserStep, FindUserStep, ComparePasswordStep, StoreTokenStep,
     FindTokenStep, SignAccessStep, RevokeStep, VerifyStep, RedisFailsStep
  DEF Gateway, Serve
<1> QED
  BY <1>1, GatewayStepSuffices DEF Gateway

LEMMA TickInv == ASSUME Inv, Tick, UNCHANGED tab PROVE Inv'
<1> USE DEF Inv
<1>1. /\ now' = now + 1 /\ now + faults < MaxEvents
      /\ blacklist' \subseteq blacklist
      /\ UNCHANGED <<issued, users, emailIds, refreshTokens, http, faults>>
  BY DEF Tick, Eventful
<1>2. now' \in 0..MaxEvents
  BY <1>1, AuthAssumption DEF Typed, RedisTyped
<1>3. Typed'
  BY <1>1, <1>2 DEF Typed, RedisTyped, TabTyped, tab
<1>4. HandlersTell' /\ ChainsWait' /\ SessionIsWhole' /\ NothingBack'
  BY <1>1 DEF HandlersTell, ChainsWait, SessionIsWhole, NothingBack, tab
<1>5. Registrations' /\ EmailsLeadToUsers'
  BY <1>1 DEF Registrations, Registering, At, EmailsLeadToUsers
<1> QED
  BY <1>3, <1>4, <1>5

-----------------------------------------------------------------------------
(* The tab.                                                                *)

\* Registrations may only be left alone or end.
RegistrationsOnlyEnd == \A d \in Calls : Registering(d)' => http'[d] = http[d]

LEMMA RegistrationsEnd ==
  ASSUME Registrations, EmailsLeadToUsers, RegistrationsOnlyEnd, UNCHANGED redis
  PROVE  Registrations' /\ EmailsLeadToUsers'
  BY DEF Registrations, EmailsLeadToUsers, RegistrationsOnlyEnd, Registering, At, redis

LEMMA FlowFacts ==
  ASSUME NEW kind \in Kinds, NEW t \in Tokens
  PROVE  Flow(kind, t) \in Flows /\ Flow(kind, t).kind = kind /\ Flow(kind, t).token = t
  BY DEF Flow, Flows

LEMMA ExchangeFacts ==
  ASSUME NEW op \in Ops, NEW at \in Commands, NEW e \in Emails \cup {NoEmail},
         NEW t \in Tokens, NEW u \in Tokens
  PROVE  /\ Exchange(op, at, e, t, u) \in Exchanges
         /\ Exchange(op, at, e, t, u).op = op /\ Exchange(op, at, e, t, u).at = at
         /\ Exchange(op, at, e, t, u).email = e /\ Exchange(op, at, e, t, u).refresh = u
  BY DEF Exchange, Exchanges

LEMMA LeaveFacts ==
  ASSUME NEW f \in Flows
  PROVE  /\ Leave(f) \in Flows
         /\ Leave(f).kind \in Refreshes <=> f.kind \in Refreshes
         /\ Leave(f).kind = "login" <=> f.kind = "login"
         /\ f.kind \in Refreshes => Leave(f).token = f.token
  BY DEF Leave, Flows, Kinds, Refreshes, NoFlow

LEMMA LeaveWaits ==
  ASSUME NEW f \in Flows, NEW x, Waits(f, x)
  PROVE  Waits(Leave(f), x)
  BY LeaveFacts DEF Waits

\* What the chains and the exchanges keep to whatever becomes of the session.
Chains ==
  /\ http' \in [Calls -> Https] /\ flow' \in [Calls -> Flows]
  /\ view' \in {"access", "portal"}
  /\ HandlersTell' /\ ChainsWait' /\ RegistrationsOnlyEnd

LEMMA SendChains ==
  ASSUME Inv, NEW c \in Calls, NEW x \in Exchanges, NEW f \in Flows, Send(c, x, f),
         Tells(x), Waits(f, x), x.at \notin {"user", "index"}, UNCHANGED view
  PROVE  /\ Chains
         /\ flow'[c] = f /\ \A d \in Calls \ {c} : flow'[d] = flow[d]
<1>1. /\ http' \in [Calls -> Https] /\ flow' \in [Calls -> Flows]
      /\ http'[c] = x /\ flow'[c] = f
      /\ \A d \in Calls \ {c} : http'[d] = http[d] /\ flow'[d] = flow[d]
  BY DEF Inv, Typed, TabTyped, Send, Https
<1>2. HandlersTell' /\ ChainsWait'
  BY <1>1 DEF Inv, HandlersTell, ChainsWait
<1>3. RegistrationsOnlyEnd
  BY <1>1 DEF RegistrationsOnlyEnd, Registering, At
<1> QED
  BY <1>1, <1>2, <1>3 DEF Chains, Inv, Typed, TabTyped

LEMMA EndChains ==
  ASSUME Inv, NEW c \in Calls, NEW x, x = Free \/ x = http[c],
         NEW to \in {"access", "portal"}, End(c, x, to)
  PROVE  /\ Chains
         /\ \A d \in Calls : flow'[d].kind \in Refreshes =>
                               flow[d].kind \in Refreshes /\ d # c
<1>1. /\ http' = [http EXCEPT ![c] = x] /\ view' = to
      /\ http \in [Calls -> Https] /\ flow \in [Calls -> Flows]
  BY DEF Inv, Typed, TabTyped, End
<1>2. /\ http' \in [Calls -> Https] /\ http'[c] = x
      /\ \A d \in Calls \ {c} : http'[d] = http[d]
  BY <1>1 DEF Https
<1>3. \A d \in Calls : \/ d = c /\ flow'[d] = NoFlow
                       \/ d # c /\ flow'[d] = Leave(flow[d])
                       \/ d # c /\ flow'[d] = flow[d]
  BY DEF End
<1>4. flow' \in [Calls -> Flows]
  <2>1. \A d \in Calls : flow'[d] \in Flows
    BY <1>1, <1>3, LeaveFacts DEF Flows
  <2>2. flow' = [d \in Calls |-> flow'[d]]
    BY DEF End
  <2> QED
    BY <2>1, <2>2
<1>5. HandlersTell'
  BY <1>2, Kinds3 DEF Inv, HandlersTell, Tells
<1>6. ChainsWait'
  <2>1. ASSUME NEW d \in Calls
        PROVE  Waits(flow'[d], http'[d])
    <3>1. CASE d = c
      BY <1>3, <3>1, Kinds3 DEF Waits, Refreshes
    <3>2. CASE d # c
      BY <1>1, <1>2, <1>3, <3>2, LeaveWaits DEF Inv, ChainsWait
    <3> QED
      BY <3>1, <3>2
  <2> QED
    BY <2>1 DEF ChainsWait
<1>7. RegistrationsOnlyEnd
  BY <1>2, Kinds3 DEF RegistrationsOnlyEnd, Registering, At
<1>8. \A d \in Calls : flow'[d].kind \in Refreshes => flow[d].kind \in Refreshes /\ d # c
  BY <1>1, <1>3, LeaveFacts, Kinds3 DEF Refreshes
<1> QED
  BY <1>1, <1>2, <1>4, <1>5, <1>6, <1>7, <1>8 DEF Chains

\* The session itself.
Session ==
  /\ mem' \in [access : Tokens, refresh : Tokens]
  /\ stored' \in [refresh : Tokens, subject : UserIds \cup {NoUser}]
  /\ signedOut' \in BOOLEAN
  /\ SessionIsWhole' /\ NothingBack'

LEMMA TabStepSuffices ==
  ASSUME Inv, Chains, Session, UNCHANGED <<now, redis>>, faults' \in 0..MaxEvents
  PROVE  Inv'
<1>1. Typed'
  BY DEF Inv, Typed, RedisTyped, TabTyped, Chains, Session, redis
<1>2. Registrations' /\ EmailsLeadToUsers'
  BY RegistrationsEnd DEF Inv, Chains
<1> QED
  BY <1>1, <1>2 DEF Inv, Chains, Session

LEMMA WrittenWhole ==
  ASSUME NEW t \in Tokens, NEW u \in Tokens, t.user = u.user, WriteStoredSession(t, u)
  PROVE  /\ mem' \in [access : Tokens, refresh : Tokens]
         /\ stored' \in [refresh : Tokens, subject : UserIds \cup {NoUser}]
         /\ SessionIsWhole'
<1>1. t.user \in UserIds \cup {NoUser}
  BY TokenFacts
<1> QED
  BY <1>1 DEF WriteStoredSession, SessionIsWhole

LEMMA ClearedWhole ==
  ASSUME ClearStoredSession
  PROVE  /\ mem' \in [access : Tokens, refresh : Tokens]
         /\ stored' \in [refresh : Tokens, subject : UserIds \cup {NoUser}]
         /\ SessionIsWhole' /\ mem' = NoSession /\ stored' = Nothing
  BY TokenFacts DEF ClearStoredSession, SessionIsWhole, NoSession, Nothing

\* A step that leaves the session alone and begins no refresh.
LEMMA SessionKept ==
  ASSUME Inv, UNCHANGED <<mem, stored, signedOut>>,
         \A d \in Calls : flow'[d].kind \in Refreshes => ~signedOut \/ flow[d].kind \in Refreshes
  PROVE  Session
  BY DEF Inv, Typed, TabTyped, Session, SessionIsWhole, NothingBack

LEMMA StartInv ==
  ASSUME Inv, NEW c \in Calls, NEW x \in Exchanges, NEW f \in Flows, Start(c, x, f),
         Tells(x), Waits(f, x), x.at \notin {"user", "index"},
         f.kind \in Refreshes => ~signedOut
  PROVE  Inv'
<1>1. /\ Send(c, x, f)
      /\ UNCHANGED <<now, redis, faults, mem, stored, view, signedOut>>
  BY DEF Start
<1>2. Chains /\ flow'[c] = f /\ \A d \in Calls \ {c} : flow'[d] = flow[d]
  BY <1>1, SendChains
<1>3. Session
  BY <1>1, <1>2, SessionKept
<1> QED
  BY <1>1, <1>2, <1>3, TabStepSuffices DEF Inv, Typed, RedisTyped

LEMMA FormsInv ==
  ASSUME Inv, NEW c \in Calls, NEW e \in Emails, Register(c, e) \/ Login(c, e)
  PROVE  Inv'
<1>1. ASSUME NEW op \in {"register", "login"},
             Start(c, Exchange(op, "email", e, NoToken, NoToken), Flow(op, NoToken))
      PROVE  Inv'
  <2> DEFINE x == Exchange(op, "email", e, NoToken, NoToken)
             f == Flow(op, NoToken)
  <2>1. op \in Ops /\ op \in Kinds /\ "email" \in Commands /\ NoToken \in Tokens
    BY TokenFacts DEF Ops, Kinds, Commands
  <2>2. /\ x \in Exchanges /\ x.op = op /\ x.at = "email" /\ x.email = e
        /\ f \in Flows /\ f.kind = op
    BY <2>1, ExchangeFacts, FlowFacts
  <2>3. Start(c, x, f)
    BY <1>1
  <2> HIDE DEF x, f
  <2>4. Tells(x) /\ Waits(f, x) /\ f.kind \notin Refreshes
    BY <2>2 DEF Tells, Waits, Refreshes
  <2> QED
    BY <2>2, <2>3, <2>4, StartInv
<1> QED
  BY <1>1 DEF Register, Login

LEMMA WordFacts ==
  /\ "api" \in Ops /\ "verify" \in Commands /\ "request" \in Kinds /\ "retry" \in Kinds
  /\ "logout" \in Ops /\ "revoke" \in Commands /\ "logout" \in Kinds
  /\ NoEmail \in Emails \cup {NoEmail}
  BY DEF Ops, Kinds, Commands

LEMMA ApiFacts ==
  ASSUME NEW t \in Tokens
  PROVE  /\ Exchange("api", "verify", NoEmail, t, NoToken) \in Exchanges
         /\ Exchange("api", "verify", NoEmail, t, NoToken).op = "api"
         /\ Exchange("api", "verify", NoEmail, t, NoToken).at = "verify"
         /\ Flow("request", NoToken) \in Flows /\ Flow("request", NoToken).kind = "request"
         /\ Flow("retry", NoToken) \in Flows /\ Flow("retry", NoToken).kind = "retry"
<1>1. NoToken \in Tokens
  BY TokenFacts
<1>2. /\ Exchange("api", "verify", NoEmail, t, NoToken) \in Exchanges
      /\ Exchange("api", "verify", NoEmail, t, NoToken).op = "api"
      /\ Exchange("api", "verify", NoEmail, t, NoToken).at = "verify"
  BY ONLY <1>1, t \in Tokens, WordFacts, ExchangeFacts
<1> QED
  BY ONLY <1>1, <1>2, WordFacts, FlowFacts

LEMMA RequestInv == ASSUME Inv, NEW c \in Calls, Request(c) PROVE Inv'
<1> DEFINE x == Exchange("api", "verify", NoEmail, mem.access, NoToken)
           f == Flow("request", NoToken)
<1>1. mem.access \in Tokens /\ NoToken \in Tokens /\ Start(c, x, f)
  BY TokenFacts DEF Inv, Typed, TabTyped, Request
<1>2. /\ x \in Exchanges /\ x.op = "api" /\ x.at = "verify"
      /\ f \in Flows /\ f.kind = "request"
  BY <1>1, ApiFacts
<1> HIDE DEF x, f
<1>3. Tells(x) /\ Waits(f, x) /\ f.kind \notin Refreshes
  BY <1>2 DEF Tells, Waits, Refreshes
<1> QED
  BY <1>1, <1>2, <1>3, StartInv

LEMMA LogoutInv == ASSUME Inv, NEW c \in Calls, Logout(c) PROVE Inv'
<1> DEFINE x == Exchange("logout", "revoke", NoEmail, mem.access, mem.refresh)
           f == Flow("logout", NoToken)
<1>1. /\ mem.access \in Tokens /\ mem.refresh \in Tokens /\ NoToken \in Tokens
      /\ Start(c, x, f)
  BY TokenFacts DEF Inv, Typed, TabTyped, Logout
<1>2. x \in Exchanges /\ x.op = "logout" /\ x.at = "revoke"
  BY <1>1, WordFacts, ExchangeFacts
<1>3. f \in Flows /\ f.kind = "logout"
  BY <1>1, WordFacts, FlowFacts
<1> HIDE DEF x, f
<1>4. Tells(x) /\ Waits(f, x) /\ f.kind \notin Refreshes
  BY <1>2, <1>3 DEF Tells, Waits, Refreshes
<1> QED
  BY <1>1, <1>2, <1>3, <1>4, StartInv

LEMMA RefreshFacts ==
  ASSUME NEW t \in Tokens, NEW kind \in Refreshes
  PROVE  /\ RefreshExchange(t) \in Exchanges /\ RefreshExchange(t).at = "token"
         /\ Flow(kind, t) \in Flows /\ Flow(kind, t).kind = kind
         /\ Tells(RefreshExchange(t)) /\ Waits(Flow(kind, t), RefreshExchange(t))
<1>1. /\ RefreshExchange(t) \in Exchanges /\ RefreshExchange(t).at = "token"
      /\ RefreshExchange(t).op = "refresh" /\ RefreshExchange(t).refresh = t
  BY TokenFacts, ExchangeFacts DEF RefreshExchange, Ops, Commands
<1>2. Flow(kind, t) \in Flows /\ Flow(kind, t).kind = kind /\ Flow(kind, t).token = t
  BY FlowFacts DEF Refreshes, Kinds
<1> QED
  BY <1>1, <1>2 DEF Tells, Waits, Refreshes

LEMMA RestoreInv == ASSUME Inv, NEW c \in Calls, Restore(c) PROVE Inv'
<1>1. /\ stored # Nothing /\ stored.refresh \in Tokens
      /\ Start(c, RefreshExchange(stored.refresh), Flow("restore", stored.refresh))
  BY DEF Inv, Typed, TabTyped, Restore
<1>2. ~signedOut
  BY <1>1 DEF Inv, NothingBack
<1>3. "restore" \in Refreshes
  BY DEF Refreshes
<1> QED
  BY <1>1, <1>2, <1>3, RefreshFacts, StartInv

-----------------------------------------------------------------------------
\* A chain settles with an answer that is true of what it waits for.
True(c, answer) ==
  answer.status = 200 =>
    /\ flow[c].kind = "login"    => answer.access = answer.refresh
    /\ flow[c].kind \in Refreshes => answer.access.user = flow[c].token.user

LEMMA LoginSettlesStep ==
  ASSUME Inv, NEW c \in Calls, NEW x, x = Free \/ x = http[c], NEW answer \in Answers,
         True(c, answer), LoginSettles(c, x, answer)
  PROVE  Chains /\ Session
<1>1. CASE /\ flow[c].kind = "login" /\ answer.status = 200
           /\ WriteStoredSession(answer.access, answer.refresh)
           /\ End(c, x, "portal") /\ signedOut' = FALSE
  <2>1. Chains
    BY <1>1, EndChains
  <2>2. Session
    BY <1>1, WrittenWhole DEF True, Session, NothingBack, Answers
  <2> QED
    BY <2>1, <2>2
<1>2. CASE /\ \E to \in {"access", "portal"} : End(c, x, to)
           /\ UNCHANGED <<mem, stored, signedOut>>
  BY <1>2, EndChains, SessionKept
<1>3. view \in {"access", "portal"}
  BY DEF Inv, Typed, TabTyped
<1> QED
  BY <1>1, <1>2, <1>3 DEF LoginSettles

LEMMA RestoreSettlesStep ==
  ASSUME Inv, NEW c \in Calls, NEW x, x = Free \/ x = http[c], NEW answer \in Answers,
         True(c, answer), RestoreSettles(c, x, answer)
  PROVE  Chains /\ Session
<1>1. view \in {"access", "portal"} /\ flow[c].kind \in Refreshes /\ flow[c].token \in Tokens
  BY Kinds3 DEF Inv, Typed, TabTyped, RestoreSettles, Refreshes
<1>2. CASE answer.status = 200
  <2>1. WriteStoredSession(answer.access, flow[c].token) /\ End(c, x, view)
        /\ UNCHANGED signedOut
    BY <1>2 DEF RestoreSettles
  <2>2. Chains
    BY <1>1, <2>1, EndChains
  <2>3. ~signedOut /\ signedOut \in BOOLEAN
    BY <1>1 DEF Inv, NothingBack, Typed, TabTyped
  <2>4. Session
    BY <1>1, <1>2, <2>1, <2>3, WrittenWhole DEF True, Session, NothingBack, Answers
  <2> QED
    BY <2>2, <2>4
<1>3. CASE answer.status # 200
  <2>1. /\ \E to \in {"access", "portal"} : End(c, x, to)
        /\ UNCHANGED <<mem, stored, signedOut>>
    BY <1>1, <1>3 DEF RestoreSettles
  <2> QED
    BY <2>1, EndChains, SessionKept
<1> QED
  BY <1>2, <1>3

LEMMA LogoutSettlesStep ==
  ASSUME Inv, NEW c \in Calls, NEW x, x = Free \/ x = http[c], LogoutSettles(c, x)
  PROVE  Chains /\ Session
<1>1. /\ ClearStoredSession /\ End(c, x, "access")
      /\ signedOut' = ~\E d \in Calls : SignsIn(d)
  BY DEF LogoutSettles
<1>2. /\ Chains
      /\ \A d \in Calls : flow'[d].kind \in Refreshes => flow[d].kind \in Refreshes
  BY <1>1, EndChains
<1>3. signedOut' => \A d \in Calls : flow[d].kind \notin Refreshes
  BY <1>1 DEF SignsIn, Refreshes
<1>4. NothingBack'
  BY <1>1, <1>2, <1>3, ClearedWhole DEF NothingBack
<1> QED
  BY <1>1, <1>2, <1>4, ClearedWhole DEF Session

LEMMA RequestSettlesStep ==
  ASSUME Inv, NEW c \in Calls, NEW x, x = Free \/ x = http[c], NEW answer \in Answers,
         RequestSettles(c, x, answer)
  PROVE  Chains /\ Session
<1> DEFINE t == ReadRefreshToken
<1>1. /\ UNCHANGED <<mem, stored, signedOut>>
      /\ t \in Tokens /\ view \in {"access", "portal"}
  BY DEF RequestSettles, ReadRefreshToken, Inv, Typed, TabTyped
<1>2. CASE End(c, x, view)
  BY <1>1, <1>2, EndChains, SessionKept
<1>3. CASE t # NoToken /\ Send(c, RefreshExchange(t), Flow("renew", t)) /\ UNCHANGED view
  <2>1. ~signedOut
    BY <1>3 DEF Inv, NothingBack, ReadRefreshToken, NoSession, Nothing
  <2>2. "renew" \in Refreshes
    BY DEF Refreshes
  <2> HIDE DEF t
  <2>3. Chains
    BY <1>1, <1>3, <2>2, RefreshFacts, SendChains
  <2> QED
    BY <1>1, <2>1, <2>3, SessionKept
<1> QED
  BY <1>2, <1>3 DEF RequestSettles

LEMMA RenewSettlesStep ==
  ASSUME Inv, NEW c \in Calls, NEW x, x = Free \/ x = http[c], NEW answer \in Answers,
         True(c, answer), RenewSettles(c, x, answer)
  PROVE  Chains /\ Session
<1>1. /\ view \in {"access", "portal"} /\ flow[c].kind \in Refreshes
      /\ flow[c].token \in Tokens /\ answer.access \in Tokens /\ UNCHANGED signedOut
  BY Kinds3 DEF Inv, Typed, TabTyped, RenewSettles, Refreshes, Answers
<1>2. CASE answer.status = 200
  <2> DEFINE y == Exchange("api", "verify", NoEmail, answer.access, NoToken)
             f == Flow("retry", NoToken)
  <2>1. /\ WriteStoredSession(answer.access, flow[c].token)
        /\ Send(c, y, f) /\ UNCHANGED view
    BY <1>2 DEF RenewSettles
  <2>2. /\ y \in Exchanges /\ y.op = "api" /\ y.at = "verify"
        /\ f \in Flows /\ f.kind = "retry"
    BY <1>1, ApiFacts
  <2> HIDE DEF y, f
  <2>3. Tells(y) /\ Waits(f, y)
    BY <2>2 DEF Tells, Waits, Refreshes
  <2>4. Chains
    BY <2>1, <2>2, <2>3, SendChains
  <2>5. ~signedOut /\ signedOut \in BOOLEAN
    BY <1>1 DEF Inv, NothingBack, Typed, TabTyped
  <2>6. Session
    BY <1>1, <1>2, <2>1, <2>5, WrittenWhole DEF True, Session, NothingBack
  <2> QED
    BY <2>4, <2>6
<1>3. CASE answer.status # 200
  <2>1. End(c, x, view) /\ UNCHANGED <<mem, stored, signedOut>>
    BY <1>1, <1>3 DEF RenewSettles
  <2> QED
    BY <1>1, <2>1, EndChains, SessionKept
<1> QED
  BY <1>2, <1>3

LEMMA SettleInv ==
  ASSUME Inv, NEW c \in Calls, NEW x, x = Free \/ x = http[c], NEW answer \in Answers,
         True(c, answer), Settle(c, x, answer),
         UNCHANGED <<now, redis>>, faults' \in 0..MaxEvents
  PROVE  Inv'
<1>1. Chains /\ Session
  BY LoginSettlesStep, RestoreSettlesStep, LogoutSettlesStep, RequestSettlesStep,
     RenewSettlesStep DEF Settle
<1> QED
  BY <1>1, TabStepSuffices

LEMMA HearInv == ASSUME Inv, NEW c \in Calls, Hear(c) PROVE Inv'
<1>1. http[c] \in Answered /\ http[c].answer \in Answers
  BY Kinds3 DEF Inv, Typed, Https, Hear, Commands
<1>2. UNCHANGED <<now, redis>> /\ faults' = faults /\ faults' \in 0..MaxEvents
  BY DEF Hear, Inv, Typed, RedisTyped
<1>3. CASE flow[c] = NoFlow
  <2>1. http' = [http EXCEPT ![c] = Free] /\ UNCHANGED tab
    BY <1>3 DEF Hear
  <2>2. /\ http' \in [Calls -> Https] /\ http'[c] = Free
        /\ \A d \in Calls \ {c} : http'[d] = http[d]
    BY <2>1 DEF Inv, Typed, Https
  <2>3. HandlersTell' /\ ChainsWait' /\ RegistrationsOnlyEnd
    BY <1>3, <2>1, <2>2, Kinds3
    DEF tab, Inv, HandlersTell, Tells, ChainsWait, Waits, Refreshes, RegistrationsOnlyEnd,
        Registering, At
  <2>4. Chains /\ Session
    BY <2>1, <2>2, <2>3, SessionKept DEF Chains, tab, Inv, Typed, TabTyped
  <2> QED
    BY <1>2, <2>4, TabStepSuffices
<1>4. CASE flow[c] # NoFlow
  <2>1. Settle(c, Free, http[c].answer)
    BY <1>4 DEF Hear
  <2>2. True(c, http[c].answer)
    BY <1>1, Kinds3 DEF True, Inv, ChainsWait, Waits
  <2> QED
    BY <1>1, <1>2, <2>1, <2>2, SettleInv
<1> QED
  BY <1>3, <1>4

LEMMA BreakInv == ASSUME Inv, NEW c \in Calls, Break(c) PROVE Inv'
<1>1. faults' \in 0..MaxEvents
  BY AuthAssumption DEF Break, Eventful, Inv, Typed, RedisTyped
<1>2. Broken \in Answers /\ True(c, Broken)
  BY StatusFacts DEF Broken, Statuses, True
<1>3. Settle(c, http[c], Broken) /\ UNCHANGED <<now, redis>>
  BY DEF Break
<1> QED
  BY <1>1, <1>2, <1>3, SettleInv

\* The steps that begin nothing: the route changes, or the page is loaded anew.
LEMMA BrowseInv == ASSUME Inv, NothingToRestore \/ Browse PROVE Inv'
<1>1. /\ UNCHANGED <<authVars, mem, stored, signedOut>> /\ view' \in {"access", "portal"}
      /\ flow \in [Calls -> Flows] /\ http \in [Calls -> Https]
  BY DEF NothingToRestore, Browse, Inv, Typed, TabTyped
<1>2. /\ flow' \in [Calls -> Flows]
      /\ \A d \in Calls : flow'[d] = flow[d] \/ flow'[d] = Leave(flow[d])
  BY <1>1, LeaveFacts DEF NothingToRestore, Browse
<1>3. ChainsWait'
  BY <1>1, <1>2, LeaveWaits DEF Inv, ChainsWait, authVars
<1>4. HandlersTell' /\ RegistrationsOnlyEnd
  BY <1>1 DEF Inv, HandlersTell, RegistrationsOnlyEnd, authVars
<1>5. Session
  BY <1>1, <1>2, LeaveFacts, SessionKept
<1> QED
  BY <1>1, <1>2, <1>3, <1>4, <1>5, TabStepSuffices DEF Chains, authVars, Inv, Typed, RedisTyped

LEMMA ReloadInv == ASSUME Inv, Reload PROVE Inv'
<1>1. /\ mem' = NoSession /\ UNCHANGED <<now, redis, faults, stored, view, signedOut>>
      /\ flow' = [c \in Calls |-> NoFlow]
      /\ http' = [c \in Calls |-> IF http[c].at = "answered" THEN Free ELSE http[c]]
      /\ http \in [Calls -> Https]
  BY DEF Reload, Inv, Typed
<1>2. http' \in [Calls -> Https] /\ flow' \in [Calls -> Flows]
  BY <1>1 DEF Https, Flows
<1>3. HandlersTell' /\ RegistrationsOnlyEnd
  BY <1>1, Kinds3
  DEF Inv, HandlersTell, Tells, RegistrationsOnlyEnd, Registering, At
<1>4. ChainsWait' /\ \A c \in Calls : flow'[c].kind \notin Refreshes
  BY <1>1, Kinds3 DEF ChainsWait, Waits, Refreshes
<1>5. Session
  BY <1>1, <1>4, TokenFacts
  DEF Inv, Typed, TabTyped, SessionIsWhole, NothingBack, Session, NoSession
<1> QED
  BY <1>1, <1>2, <1>3, <1>4, <1>5, TabStepSuffices DEF Chains, Inv, Typed, TabTyped, RedisTyped

LEMMA NextInv == ASSUME Inv, [SessionNext]_sessionVars PROVE Inv'
<1>1. CASE SessionNext
  BY <1>1, FormsInv, RequestInv, LogoutInv, RestoreInv, HearInv, BreakInv, GatewayInv,
     BrowseInv, ReloadInv, TickInv DEF SessionNext
<1>2. CASE UNCHANGED sessionVars
  <2>1. UNCHANGED authVars /\ UNCHANGED tab
    BY <1>2 DEF sessionVars
  <2>2. Chains /\ Session
    BY <2>1
    DEF authVars, tab, Chains, Session, RegistrationsOnlyEnd, Inv, Typed, TabTyped,
        HandlersTell, ChainsWait, SessionIsWhole, NothingBack
  <2> QED
    BY <2>1, <2>2, TabStepSuffices DEF authVars, Inv, Typed, RedisTyped
<1> QED
  BY <1>1, <1>2

LEMMA SpecInv == SessionSpec => []Inv
  BY InitInv, NextInv, PTL DEF SessionSpec

-----------------------------------------------------------------------------
\* However registrations overlap and wherever Redis fails in one, an e-mail
\* never leads to a user that is not stored or that has another e-mail.
THEOREM EmailsLead == SessionSpec => []EmailsLeadToUsers
<1>1. Inv => EmailsLeadToUsers
  BY DEF Inv
<1> QED
  BY <1>1, SpecInv, PTL

\* The session of a tab is one user's, though a refresh answers with an access
\* token only and may be heard after another user has signed in.
THEOREM OneUsersSession == SessionSpec => []SessionIsWhole
<1>1. Inv => SessionIsWhole
  BY DEF Inv
<1> QED
  BY <1>1, SpecInv, PTL

\* Nothing that is under way brings a session back that was ended while no
\* login and no refresh was waiting.
THEOREM SignedOutForGood == SessionSpec => []SigningOutLasts
<1>1. Inv => SigningOutLasts
  BY DEF Inv, NothingBack, SigningOutLasts
<1> QED
  BY <1>1, SpecInv, PTL
=============================================================================
