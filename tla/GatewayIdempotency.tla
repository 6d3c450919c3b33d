-------------------------- MODULE GatewayIdempotency --------------------------
(***************************************************************************)
(* The idempotency middleware of the gateway                               *)
(* (services/api-gateway/src/middleware/idempotency.js and proxy.js) for   *)
(* the attempts that carry one user, URL and Idempotency-Key: other keys   *)
(* use other entries of Redis.                                             *)
(*                                                                         *)
(* An attempt is a POST /v1/transfers.  It looks the key up in the cache,  *)
(* takes a lock, is forwarded to the transfer service, and its answer is   *)
(* cached before it is returned.  Every step is one command to Redis or    *)
(* one message; attempts run in any replica of the gateway.  Faults:       *)
(*   "net"     the connection to the transfer service breaks;              *)
(*   "redis"   a command to Redis fails;                                   *)
(*   "crash"   a replica of the gateway dies;                              *)
(*   "expiry"  the lock of an attempt still under way expires.             *)
(***************************************************************************)
EXTENDS Integers, FiniteSets

CONSTANTS Attempts, Nothing, Faults

ASSUME GatewayAssumption ==
  /\ Nothing \notin Attempts
  /\ Attempts \cap {"none", "conflict", "unavailable"} = {}
  /\ IsFiniteSet(Attempts)
  /\ Faults \subseteq {"net", "redis", "crash", "expiry"}

VARIABLES
  cache,     \* redisKey: the attempt whose answer is cached, or Nothing
  lock,      \* lockKey: is it set
  phase,     \* the await each attempt is at
  exec,      \* what the transfer service makes of each forwarded request
  reply,     \* what each client is told: the execution it hears of, or why none
  unstored,  \* history: the attempts of which the answer could not be cached
  overtaken, \* history: the attempts forwarded although the cache was full
  late,      \* history: the attempts that came after an answer was given
  expiries   \* history: how many locks have expired

gatewayVars == <<cache, lock, phase, exec, reply, unstored, overtaken, late, expiries>>

Waiting  == {"lookup", "acquire", "proxied", "store", "release", "drop"}
Phases   == {"new", "answered", "lost"} \cup Waiting
Results  == {"ok", "refused", "error"}   \* 201, 4xx, 5xx
Underway == {"sent", "running"}
Told     == {"none", "conflict", "unavailable"}

TypeOK ==
  /\ cache \in Attempts \cup {Nothing}
  /\ lock \in BOOLEAN
  /\ phase \in [Attempts -> Phases]
  /\ exec \in [Attempts -> {"none"} \cup Underway \cup Results]
  /\ reply \in [Attempts -> Attempts \cup Told]
  /\ unstored \subseteq Attempts
  /\ overtaken \subseteq Attempts
  /\ late \subseteq Attempts
  /\ expiries \in 0..Cardinality(Attempts)

Init ==
  /\ cache = Nothing
  /\ lock = FALSE
  /\ phase = [a \in Attempts |-> "new"]
  /\ exec = [a \in Attempts |-> "none"]
  /\ reply = [a \in Attempts |-> "none"]
  /\ unstored = {}
  /\ overtaken = {}
  /\ late = {}
  /\ expiries = 0

-----------------------------------------------------------------------------
(* An attempt.                                                             *)

Goto(a, label) == phase' = [phase EXCEPT ![a] = label]

Answer(a, what) ==
  /\ Goto(a, "answered")
  /\ reply' = [reply EXCEPT ![a] = what]

\* A client has heard the final answer of an execution, and caching it did not
\* fail.
Final(b) == /\ phase[b] = "answered"
            /\ reply[b] \in Attempts \ unstored
            /\ exec[reply[b]] \in {"ok", "refused"}

Arrive(a) ==
  /\ phase[a] = "new"
  /\ Goto(a, "lookup")
  /\ late' = IF \E b \in Attempts : Final(b) THEN late \cup {a} ELSE late
  /\ UNCHANGED <<cache, lock, exec, reply, unstored, overtaken, expiries>>

\* Mutant: an empty entry is served like a full one.
Lookup_ServesEmpty(a) ==
  /\ phase[a] = "lookup"
  /\ Answer(a, cache)
  /\ UNCHANGED <<cache, lock, exec, unstored, overtaken, late, expiries>>

\* GET redisKey: a hit is answered at once.
Lookup(a) ==
  /\ phase[a] = "lookup"
  /\ IF cache # Nothing
     THEN Answer(a, cache)
     ELSE Goto(a, "acquire") /\ UNCHANGED reply
  /\ UNCHANGED <<cache, lock, exec, unstored, overtaken, late, expiries>>

Forward(a) ==
  /\ Goto(a, "proxied")
  /\ exec' = [exec EXCEPT ![a] = "sent"]
  /\ overtaken' = IF cache = Nothing THEN overtaken ELSE overtaken \cup {a}

\* Mutant: SET without NX.
Acquire_Overwrites(a) ==
  /\ phase[a] = "acquire"
  /\ lock' = TRUE
  /\ Forward(a)
  /\ UNCHANGED <<cache, reply, unstored, late, expiries>>

\* SET lockKey NX EX 30; the cache is not looked at again.
Acquire(a) ==
  /\ phase[a] = "acquire"
  /\ IF lock
     THEN Answer(a, "conflict") /\ UNCHANGED <<lock, exec, overtaken>>
     ELSE lock' = TRUE /\ Forward(a) /\ UNCHANGED reply
  /\ UNCHANGED <<cache, unstored, late, expiries>>

\* The transfer service starts on the request, and ends it.
Begin(a) ==
  /\ exec[a] = "sent"
  /\ exec' = [exec EXCEPT ![a] = "running"]
  /\ UNCHANGED <<cache, lock, phase, reply, unstored, overtaken, late, expiries>>

Finish(a) ==
  /\ exec[a] = "running"
  /\ \E result \in Results : exec' = [exec EXCEPT ![a] = result]
  /\ UNCHANGED <<cache, lock, phase, reply, unstored, overtaken, late, expiries>>

\* Mutant: an answer 5xx is cached like any other.
Respond_CachesErrors(a) ==
  /\ phase[a] = "proxied"
  /\ exec[a] \in Results
  /\ Goto(a, "store")
  /\ UNCHANGED <<cache, lock, exec, reply, unstored, overtaken, late, expiries>>

\* cacheProxyResponse: an answer 5xx only gives the lock back.
Respond(a) ==
  /\ phase[a] = "proxied"
  /\ exec[a] \in Results
  /\ Goto(a, IF exec[a] = "error" THEN "drop" ELSE "store")
  /\ UNCHANGED <<cache, lock, exec, reply, unstored, overtaken, late, expiries>>

\* Mutant: only successful answers are cached.
Store_OnlySuccess(a) ==
  /\ phase[a] = "store"
  /\ cache' = IF exec[a] = "ok" THEN a ELSE cache
  /\ Goto(a, "release")
  /\ UNCHANGED <<lock, exec, reply, unstored, overtaken, late, expiries>>

\* The pipeline sets the key, whatever it holds, then deletes the lock, whoever
\* holds it; a pipeline is not a transaction.
Store(a) ==
  /\ phase[a] = "store"
  /\ cache' = a
  /\ Goto(a, "release")
  /\ UNCHANGED <<lock, exec, reply, unstored, overtaken, late, expiries>>

Release(a) ==
  /\ phase[a] \in {"release", "drop"}
  /\ lock' = FALSE
  /\ Answer(a, a)
  /\ UNCHANGED <<cache, exec, unstored, overtaken, late, expiries>>

-----------------------------------------------------------------------------
(* What goes wrong around it.                                              *)

\* The pipeline of an attempt is cut off: the answer may stay uncached, and the
\* lock be deleted all the same or stay.
CutOff(a) ==
  /\ phase[a] \in {"store", "release", "drop"}
  /\ lock' \in {lock, FALSE}
  /\ unstored' = IF phase[a] = "store" THEN unstored \cup {a} ELSE unstored

\* Redis fails: proxy.js logs it and returns the answer all the same.
StoreFails(a) ==
  /\ "redis" \in Faults
  /\ CutOff(a)
  /\ Answer(a, a)
  /\ UNCHANGED <<cache, exec, overtaken, late, expiries>>

\* Mutant: the error handler of the proxy gives the lock back.
ProxyFails_GivesBack(a) ==
  /\ "net" \in Faults
  /\ phase[a] = "proxied"
  /\ lock' = FALSE
  /\ Answer(a, "unavailable")
  /\ UNCHANGED <<cache, exec, unstored, overtaken, late, expiries>>

\* The proxy answers 502 and leaves the lock: the transfer service may not have
\* the request, or may be at it.
ProxyFails(a) ==
  /\ "net" \in Faults
  /\ phase[a] = "proxied"
  /\ Answer(a, "unavailable")
  /\ UNCHANGED <<cache, lock, exec, unstored, overtaken, late, expiries>>

\* A replica dies with the attempts it serves.  A failing GET or SET does it
\* too: Express 4 does not catch the rejection of an async middleware.  The
\* command an attempt has sent may have taken effect.
Die ==
  /\ Faults \cap {"crash", "redis"} # {}
  /\ \E died \in (SUBSET {a \in Attempts : phase[a] \in Waiting}) \ {{}} :
       /\ phase' = [a \in Attempts |-> IF a \in died THEN "lost" ELSE phase[a]]
       /\ \/ UNCHANGED <<lock, unstored>>
          \/ (\E a \in died : phase[a] = "acquire") /\ lock' = TRUE /\ UNCHANGED unstored
          \/ \E a \in died : CutOff(a)
  /\ UNCHANGED <<cache, exec, reply, overtaken, late, expiries>>

\* An attempt is still working under the protection of its lock.
Protected ==
  \E a \in Attempts : \/ phase[a] \in {"proxied", "store", "release", "drop"}
                      \/ exec[a] \in Underway

\* 30 seconds are over.  Without "expiry" no attempt takes that long, and only
\* a lock that was left behind expires.
Expire ==
  /\ lock
  /\ "expiry" \in Faults \/ ~Protected
  /\ lock' = FALSE
  /\ expiries' = expiries + 1
  /\ UNCHANGED <<cache, phase, exec, reply, unstored, overtaken, late>>

Next ==
  \/ \E a \in Attempts :
       \/ Arrive(a) \/ Lookup(a) \/ Acquire(a) \/ Begin(a) \/ Finish(a)
       \/ Respond(a) \/ Store(a) \/ Release(a) \/ StoreFails(a) \/ ProxyFails(a)
  \/ Die
  \/ Expire

Spec == Init /\ [][Next]_gatewayVars

-----------------------------------------------------------------------------
\* "prevent concurrent duplicate processing": executions of one key overlap
\* only as often as locks have expired, although any attempt deletes the lock
\* whoever holds it, and whatever replica or connection was lost.
OverlapsNeedExpiry ==
  Cardinality({a \in Attempts : exec[a] = "running"}) <= 1 + expiries

\* Once a client has heard a final answer, an attempt that comes later, from
\* whichever replica and whatever has expired or failed since, is not executed.
LateAttemptsAreNotExecuted == \A a \in late : exec[a] = "none"

\* What a client is told of an execution, its own or a cached one, has happened
\* for good: a cached answer is final, and nobody hears of one still running.
RepliesAreTrue ==
  /\ cache # Nothing => exec[cache] \in {"ok", "refused"}
  /\ \A a \in Attempts :
       reply[a] \in Attempts => /\ exec[reply[a]] \in Results
                                /\ exec[reply[a]] = "error" => reply[a] = a

\* A key is executed again only for a reason: an execution ended in a 5xx or its
\* answer could not be cached, a lock expired, or the attempt had looked the key
\* up before the answer was there.  A broken connection or a dead replica is no
\* reason by itself: the lock it leaves behind has to expire.
RepeatsHaveAReason ==
  Cardinality({a \in Attempts : exec[a] # "none"} \ overtaken)
    <= 1 + Cardinality({a \in Attempts : exec[a] = "error"} \cup unstored) + expiries

\* "same idempotency_key must not produce multiple financial effects": an
\* attempt that read the cache before the first one ended takes the lock after
\* it, and moves the money again.
OneFinancialEffect == Cardinality({a \in Attempts : exec[a] = "ok"}) <= 1
=============================================================================
