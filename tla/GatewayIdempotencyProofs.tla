---------------------- MODULE GatewayIdempotencyProofs ----------------------
(***************************************************************************)
(* Theorems about the idempotency middleware, for any number of attempts   *)
(* and any faults.                                                         *)
(***************************************************************************)
EXTENDS GatewayIdempotency, FiniteSetTheorems, TLAPS

\* The attempts that came past Acquire, or were told of their end before it:
\* one for each lock that was ever set.
Past == {a \in Attempts : phase[a] \notin {"new", "lookup", "acquire"}}

\* The attempts whose execution a lock once protected and that is not over.
Holders ==
  {a \in Attempts : \/ phase[a] \in {"proxied", "store", "release", "drop"}
                    \/ exec[a] \in Underway}

Locks == IF lock THEN 1 ELSE 0

\* The attempts that were executed, those of which the answer is not to be
\* cached, and those that have not given their lock back without an answer.
Executed == {a \in Attempts : exec[a] # "none"}
Uncached == {a \in Attempts : exec[a] = "error"} \cup unstored
Owing    == {a \in Executed : a \in Uncached => phase[a] \notin {"answered", "lost"}}

Types ==
  /\ cache \in Attempts \cup {Nothing}
  /\ lock \in BOOLEAN
  /\ phase \in [Attempts -> Phases]
  /\ exec \in [Attempts -> {"none"} \cup Underway \cup Results]
  /\ reply \in [Attempts -> Attempts \cup Told]
  /\ unstored \subseteq Attempts
  /\ overtaken \subseteq Attempts
  /\ late \subseteq Attempts
  /\ expiries \in Nat

\* What the await of an attempt says about its execution and the cache.
PhasesTell ==
  \A a \in Attempts :
    /\ phase[a] \in {"new", "lookup", "acquire"} => exec[a] = "none"
    /\ phase[a] = "store"   => exec[a] \in {"ok", "refused"}
    /\ phase[a] = "release" => exec[a] \in {"ok", "refused"} /\ cache # Nothing
    /\ phase[a] = "drop"    => exec[a] = "error"

\* Once somebody has heard a final answer that was stored, the cache is full,
\* and who comes later does not get past it.
FinalIsCached ==
  \A b \in Attempts :
    reply[b] \in Attempts \ unstored /\ exec[reply[b]] \in {"ok", "refused"}
      => cache # Nothing

LateAreServed ==
  \A a \in late :
    /\ cache # Nothing
    /\ phase[a] \in {"lookup", "answered", "lost"}
    /\ exec[a] = "none"

\* Locks and expiries pay for the executions that are under way, and for those
\* that ever were.
LocksPay ==
  /\ Cardinality(Holders) <= expiries + Locks
  /\ expiries + Locks <= Cardinality(Past)

\* While nothing is cached, every lock that was not given back without an answer
\* is there or has expired.
LocksAreOwed == cache = Nothing => Cardinality(Owing) <= expiries + Locks

Inv == /\ Types /\ PhasesTell /\ FinalIsCached /\ LateAreServed
       /\ RepliesAreTrue /\ LocksPay /\ LocksAreOwed /\ RepeatsHaveAReason

-----------------------------------------------------------------------------
LEMMA Finite ==
  /\ IsFiniteSet(Holders) /\ Cardinality(Holders) \in Nat
  /\ IsFiniteSet(Past) /\ Cardinality(Past) \in Nat
  /\ IsFiniteSet(Holders') /\ Cardinality(Holders') \in Nat
  /\ IsFiniteSet(Past') /\ Cardinality(Past') \in Nat
  /\ Cardinality(Past) <= Cardinality(Attempts)
  /\ Cardinality(Attempts) \in Nat
  BY GatewayAssumption, FS_Subset, FS_CardinalityType DEF Holders, Past

\* Sets that grow, shrink by one element or grow by one.
LEMMA Subsets ==
  ASSUME NEW S \in SUBSET Attempts, NEW T \in SUBSET Attempts, S \subseteq T
  PROVE  Cardinality(S) <= Cardinality(T)
  BY GatewayAssumption, FS_Subset

LEMMA OneMore ==
  ASSUME NEW S \in SUBSET Attempts, NEW T \in SUBSET Attempts, NEW a \in T,
         a \notin S, S \subseteq T
  PROVE  Cardinality(S) + 1 <= Cardinality(T)
<1>1. IsFiniteSet(S) /\ IsFiniteSet(T)
  BY GatewayAssumption, FS_Subset
<1>2. Cardinality(S \cup {a}) = Cardinality(S) + 1
  BY <1>1, FS_AddElement
<1>3. S \cup {a} \subseteq T
  OBVIOUS
<1> QED
  BY <1>1, <1>2, <1>3, FS_Subset

LEMMA AtMostOneMore ==
  ASSUME NEW S \in SUBSET Attempts, NEW T \in SUBSET Attempts, NEW a, T \subseteq S \cup {a}
  PROVE  Cardinality(T) <= Cardinality(S) + 1
<1>1. IsFiniteSet(S) /\ IsFiniteSet(S \cup {a}) /\ Cardinality(S) \in Nat
  BY GatewayAssumption, FS_Subset, FS_AddElement, FS_CardinalityType
<1>2. Cardinality(S \cup {a}) <= Cardinality(S) + 1
  BY <1>1, FS_AddElement
<1>3. Cardinality(T) <= Cardinality(S \cup {a}) /\ Cardinality(T) \in Nat
  BY <1>1, FS_Subset, FS_CardinalityType
<1> QED
  BY <1>1, <1>2, <1>3, FS_CardinalityType

-----------------------------------------------------------------------------
LEMMA InitInv == Init => Inv
<1> SUFFICES ASSUME Init PROVE Inv
  OBVIOUS
<1>1. Types /\ PhasesTell /\ FinalIsCached /\ LateAreServed /\ RepliesAreTrue
  BY GatewayAssumption
  DEF Init, Types, Phases, Waiting, Told, PhasesTell, FinalIsCached, LateAreServed,
      RepliesAreTrue
<1>2. Holders = {} /\ Past = {}
  BY DEF Init, Holders, Past, Underway
<1>3. LocksPay
  BY <1>2, FS_EmptySet DEF Init, LocksPay, Locks
<1>4. Owing = {} /\ Executed = {}
  BY DEF Init, Owing, Executed
<1>5. LocksAreOwed
  BY <1>4, FS_EmptySet DEF Init, LocksAreOwed, Locks
<1>6. RepeatsHaveAReason
  <2>1. Uncached \in SUBSET Attempts
    BY DEF Init, Uncached
  <2>2. Cardinality(Executed \ overtaken) = 0 /\ Cardinality(Uncached) \in Nat
    BY <1>4, <2>1, FS_EmptySet, GatewayAssumption, FS_Subset, FS_CardinalityType
  <2> QED
    BY <2>2 DEF Init, RepeatsHaveAReason, Executed, Uncached
<1> QED
  BY <1>1, <1>3, <1>5, <1>6 DEF Inv

-----------------------------------------------------------------------------
(* The parts of Inv that do not count, step by step.                       *)

Facts == Types /\ PhasesTell /\ FinalIsCached /\ LateAreServed /\ RepliesAreTrue

LEMMA ArriveFacts == ASSUME Facts, NEW a \in Attempts, Arrive(a) PROVE Facts'
  BY GatewayAssumption
  DEF Facts, Types, Phases, Waiting, Told, Underway, Results, PhasesTell,
      FinalIsCached, LateAreServed, RepliesAreTrue, Arrive, Goto, Final

LEMMA LookupFacts == ASSUME Facts, NEW a \in Attempts, Lookup(a) PROVE Facts'
<1>1. Types'
  BY GatewayAssumption
  DEF Facts, Types, Phases, Waiting, Told, Underway, Results, Lookup, Goto, Answer
<1>2. PhasesTell'
  BY DEF Facts, Types, PhasesTell, Lookup, Goto, Answer
<1>3. FinalIsCached'
  BY GatewayAssumption
  DEF Facts, Types, Told, PhasesTell, FinalIsCached, Lookup, Goto, Answer
<1>4. LateAreServed'
  BY DEF Facts, Types, LateAreServed, Lookup, Goto, Answer
<1>5. RepliesAreTrue'
  BY GatewayAssumption
  DEF Facts, Types, Told, Results, PhasesTell, RepliesAreTrue, Lookup, Goto, Answer
<1> QED
  BY <1>1, <1>2, <1>3, <1>4, <1>5 DEF Facts

LEMMA AcquireFacts == ASSUME Facts, NEW a \in Attempts, Acquire(a) PROVE Facts'
<1>1. Types'
  <2>1. phase' \in [Attempts -> Phases]
    BY DEF Facts, Types, Phases, Waiting, Acquire, Forward, Goto, Answer
  <2>2. exec' \in [Attempts -> {"none"} \cup Underway \cup Results] /\ lock' \in BOOLEAN
    BY DEF Facts, Types, Underway, Acquire, Forward
  <2>3. reply' \in [Attempts -> Attempts \cup Told] /\ overtaken' \subseteq Attempts
    BY DEF Facts, Types, Told, Acquire, Forward, Answer
  <2> QED
    BY <2>1, <2>2, <2>3 DEF Facts, Types, Acquire
<1>2. PhasesTell'
  BY DEF Facts, Types, PhasesTell, Acquire, Forward, Goto, Answer
<1>3. FinalIsCached'
  BY GatewayAssumption
  DEF Facts, Types, Told, PhasesTell, FinalIsCached, Acquire, Forward, Goto, Answer
<1>4. LateAreServed'
  BY DEF Facts, Types, LateAreServed, Acquire, Forward, Goto, Answer
<1>5. RepliesAreTrue'
  BY GatewayAssumption
  DEF Facts, Types, Told, Results, PhasesTell, RepliesAreTrue, Acquire, Forward, Goto, Answer
<1> QED
  BY <1>1, <1>2, <1>3, <1>4, <1>5 DEF Facts

LEMMA ExecFacts ==
  ASSUME Facts, NEW a \in Attempts, Begin(a) \/ Finish(a)
  PROVE  Facts'
<1>1. Types'
  BY GatewayAssumption
  DEF Facts, Types, Phases, Waiting, Told, Underway, Results, Begin, Finish
<1>2. PhasesTell'
  BY DEF Facts, Types, Waiting, Underway, Results, PhasesTell, Begin, Finish
<1>3. FinalIsCached'
  BY GatewayAssumption
  DEF Facts, Types, Told, PhasesTell, FinalIsCached, Underway, Results, RepliesAreTrue, Begin, Finish
<1>4. LateAreServed'
  BY GatewayAssumption
  DEF Facts, Types, Waiting, FinalIsCached, LateAreServed, Begin, Finish
<1>5. RepliesAreTrue'
  BY GatewayAssumption
  DEF Facts, Types, Told, Underway, Results, PhasesTell, RepliesAreTrue, Begin, Finish
<1> QED
  BY <1>1, <1>2, <1>3, <1>4, <1>5 DEF Facts

LEMMA RespondFacts == ASSUME Facts, NEW a \in Attempts, Respond(a) PROVE Facts'
<1>1. Types'
  BY GatewayAssumption
  DEF Facts, Types, Phases, Waiting, Told, Underway, Results, Respond, Goto
<1>2. PhasesTell'
  BY DEF Facts, Types, Waiting, Underway, Results, PhasesTell, Respond, Goto
<1>3. FinalIsCached'
  BY GatewayAssumption
  DEF Facts, Types, Told, PhasesTell, FinalIsCached, Underway, Results, RepliesAreTrue, Respond, Goto
<1>4. LateAreServed'
  BY GatewayAssumption
  DEF Facts, Types, Waiting, FinalIsCached, LateAreServed, Respond, Goto
<1>5. RepliesAreTrue'
  BY GatewayAssumption
  DEF Facts, Types, Told, Underway, Results, PhasesTell, RepliesAreTrue, Respond, Goto
<1> QED
  BY <1>1, <1>2, <1>3, <1>4, <1>5 DEF Facts

LEMMA StoreFacts == ASSUME Facts, NEW a \in Attempts, Store(a) PROVE Facts'
  BY GatewayAssumption
  DEF Facts, Types, Phases, Waiting, Told, Underway, Results, PhasesTell,
      FinalIsCached, LateAreServed, RepliesAreTrue, Store, Goto

LEMMA ReleaseFacts == ASSUME Facts, NEW a \in Attempts, Release(a) PROVE Facts'
<1>1. Types'
  BY GatewayAssumption
  DEF Facts, Types, Phases, Waiting, Told, Underway, Results, Release, Goto, Answer
<1>2. PhasesTell'
  BY DEF Facts, Types, Waiting, PhasesTell, Release, Goto, Answer
<1>3. FinalIsCached'
  BY GatewayAssumption
  DEF Facts, Types, Told, PhasesTell, FinalIsCached, Release, Goto, Answer
<1>4. LateAreServed'
  BY DEF Facts, Types, Waiting, LateAreServed, Release, Goto, Answer
<1>5. RepliesAreTrue'
  BY GatewayAssumption
  DEF Facts, Types, Told, Results, PhasesTell, RepliesAreTrue, Release, Goto, Answer
<1> QED
  BY <1>1, <1>2, <1>3, <1>4, <1>5 DEF Facts

LEMMA StoreFailsFacts == ASSUME Facts, NEW a \in Attempts, StoreFails(a) PROVE Facts'
<1>1. Types'
  BY GatewayAssumption
  DEF Facts, Types, Phases, Waiting, Told, Underway, Results, StoreFails, CutOff, Goto, Answer
<1>2. PhasesTell'
  BY DEF Facts, Types, Waiting, PhasesTell, StoreFails, CutOff, Goto, Answer
<1>3. FinalIsCached'
  BY GatewayAssumption
  DEF Facts, Types, Told, PhasesTell, FinalIsCached, StoreFails, CutOff, Goto, Answer
<1>4. LateAreServed'
  BY DEF Facts, Types, Waiting, LateAreServed, StoreFails, CutOff, Goto, Answer
<1>5. RepliesAreTrue'
  BY GatewayAssumption
  DEF Facts, Types, Told, Results, PhasesTell, RepliesAreTrue, StoreFails, CutOff, Goto, Answer
<1> QED
  BY <1>1, <1>2, <1>3, <1>4, <1>5 DEF Facts

LEMMA ProxyFailsFacts == ASSUME Facts, NEW a \in Attempts, ProxyFails(a) PROVE Facts'
<1>1. Types'
  BY GatewayAssumption
  DEF Facts, Types, Phases, Waiting, Told, Underway, Results, ProxyFails, Goto, Answer
<1>2. PhasesTell'
  BY DEF Facts, Types, Waiting, Underway, Results, PhasesTell, ProxyFails, Goto, Answer
<1>3. FinalIsCached'
  BY GatewayAssumption
  DEF Facts, Types, Told, PhasesTell, FinalIsCached, Underway, Results, RepliesAreTrue, ProxyFails, Goto, Answer
<1>4. LateAreServed'
  BY GatewayAssumption
  DEF Facts, Types, Waiting, FinalIsCached, LateAreServed, ProxyFails, Goto, Answer
<1>5. RepliesAreTrue'
  BY GatewayAssumption
  DEF Facts, Types, Told, Underway, Results, PhasesTell, RepliesAreTrue, ProxyFails, Goto, Answer
<1> QED
  BY <1>1, <1>2, <1>3, <1>4, <1>5 DEF Facts

LEMMA DieFacts == ASSUME Facts, Die PROVE Facts'
<1>1. Types'
  <2>1. phase' \in [Attempts -> Phases]
    BY DEF Facts, Types, Phases, Told, Die
  <2>2. lock' \in BOOLEAN /\ unstored' \subseteq Attempts
    BY DEF Facts, Types, Die, CutOff
  <2> QED BY <2>1, <2>2 DEF Facts, Types, Die
<1>2. PhasesTell'
  BY DEF Facts, Types, Waiting, PhasesTell, Die, CutOff
<1>3. FinalIsCached'
  BY GatewayAssumption
  DEF Facts, Types, Told, PhasesTell, FinalIsCached, Die, CutOff
<1>4. LateAreServed'
  BY DEF Facts, Types, Waiting, LateAreServed, Die
<1>5. RepliesAreTrue'
  BY GatewayAssumption
  DEF Facts, Types, Told, Results, PhasesTell, RepliesAreTrue, Die
<1> QED
  BY <1>1, <1>2, <1>3, <1>4, <1>5 DEF Facts

LEMMA ExpireFacts == ASSUME Facts, Expire PROVE Facts'
<1>0. /\ lock' = FALSE /\ expiries' = expiries + 1
      /\ UNCHANGED <<cache, phase, exec, reply, unstored, overtaken, late>>
  BY DEF Expire
<1>1. Types'
  <2>1. expiries \in Nat
    BY DEF Facts, Types
  <2>2. expiries' \in Nat
    BY <1>0, <2>1
  <2> QED
    BY <1>0, <2>2, Zenon DEF Facts, Types
<1>2. PhasesTell'
  BY DEF Facts, Types, Waiting, PhasesTell, Expire
<1>3. FinalIsCached'
  BY GatewayAssumption
  DEF Facts, Types, Told, PhasesTell, FinalIsCached, Expire
<1>4. LateAreServed'
  BY DEF Facts, Types, Waiting, LateAreServed, Expire
<1>5. RepliesAreTrue'
  BY GatewayAssumption
  DEF Facts, Types, Told, Results, PhasesTell, RepliesAreTrue, Expire
<1> QED
  BY <1>1, <1>2, <1>3, <1>4, <1>5 DEF Facts

LEMMA NextFacts == ASSUME Facts, Next PROVE Facts'
  BY ArriveFacts, LookupFacts, AcquireFacts, ExecFacts, RespondFacts, StoreFacts,
     ReleaseFacts, StoreFailsFacts, ProxyFailsFacts, DieFacts, ExpireFacts
  DEF Next

-----------------------------------------------------------------------------
(* The count of the locks, step by step.                                   *)

LEMMA TypesOfSets ==
  /\ Holders \in SUBSET Attempts /\ Holders' \in SUBSET Attempts
  /\ Past \in SUBSET Attempts /\ Past' \in SUBSET Attempts
  BY DEF Holders, Past

\* Sums and bounds of numbers, for those with a prime.
LEMMA Numbers ==
  /\ \A a, b \in Nat : a + b \in Nat
  /\ \A a, b, c \in Nat : a <= b => c + a <= c + b
  /\ \A a, b, c \in Nat : a <= b /\ b <= c => a <= c
  OBVIOUS

LEMMA LocksCount ==
  /\ Locks \in Nat /\ Locks' \in Nat
  /\ Locks <= 1
  /\ lock' = lock  => Locks' = Locks /\ Locks <= Locks'
  /\ lock' = TRUE  => Locks' = 1 /\ Locks <= Locks'
  /\ lock' = FALSE => Locks' = 0
<1>1. Locks \in {0, 1}
  BY DEF Locks
<1>2. Locks' \in {0, 1}
  BY DEF Locks
<1>3. lock' = lock => Locks' = Locks
  BY DEF Locks
<1>4. lock' = TRUE => Locks' = 1
  BY DEF Locks
<1>5. lock' = FALSE => Locks' = 0
  BY DEF Locks
<1>6. Locks \in Nat /\ Locks <= 1 /\ Locks <= Locks
  BY <1>1
<1>7. Locks' \in Nat
  BY <1>2
<1> QED
  BY <1>3, <1>4, <1>5, <1>6, <1>7

\* Most steps set no lock, free none, and protect nothing new.
LEMMA Kept ==
  ASSUME LocksPay, expiries \in Nat,
         Holders' \subseteq Holders, Past \subseteq Past',
         lock' = lock, expiries' = expiries
  PROVE  LocksPay'
<1>1. /\ Cardinality(Holders') <= Cardinality(Holders)
      /\ Cardinality(Past) <= Cardinality(Past')
  BY Subsets, TypesOfSets
<1>2. Locks' = Locks /\ Locks \in {0, 1}
  BY DEF Locks
<1>3. /\ Cardinality(Holders) <= expiries + Locks
      /\ expiries + Locks <= Cardinality(Past)
  BY DEF LocksPay
<1> QED
  BY <1>1, <1>2, <1>3, Finite DEF LocksPay

\* A lock is set, for one attempt that comes past Acquire.
LEMMA OneLock ==
  ASSUME LocksPay, expiries \in Nat, NEW a \in Attempts,
         Holders' \subseteq Holders \cup {a}, Past \subseteq Past',
         a \notin Past, a \in Past',
         lock = FALSE, lock' = TRUE, expiries' = expiries
  PROVE  LocksPay'
<1>1. /\ Cardinality(Holders') <= Cardinality(Holders) + 1
      /\ Cardinality(Past) + 1 <= Cardinality(Past')
  BY AtMostOneMore, OneMore, TypesOfSets
<1>2. Locks' = 1 /\ Locks = 0
  BY DEF Locks
<1>3. /\ Cardinality(Holders) <= expiries + Locks
      /\ expiries + Locks <= Cardinality(Past)
  BY DEF LocksPay
<1> QED
  BY <1>1, <1>2, <1>3, Finite DEF LocksPay

LEMMA QuietLocks ==
  ASSUME Inv, NEW a \in Attempts,
         \/ Arrive(a) \/ Lookup(a) \/ Begin(a) \/ Finish(a) \/ Respond(a) \/ Store(a)
         \/ ProxyFails(a)
  PROVE  LocksPay'
<1> USE DEF Inv, Types
<1>1. lock' = lock /\ expiries' = expiries
  BY DEF Arrive, Lookup, Begin, Finish, Respond, Store, ProxyFails
<1>2. /\ Holders' \subseteq Holders
      /\ Past \subseteq Past'
  <2>1. CASE Arrive(a) \/ Lookup(a)
    BY <2>1 DEF Holders, Past, Arrive, Lookup, Goto, Answer
  <2>2. CASE Begin(a) \/ Finish(a)
    BY <2>2 DEF Holders, Past, Begin, Finish, Underway, Results
  <2>3. CASE Respond(a) \/ Store(a) \/ ProxyFails(a)
    BY <2>3 DEF Holders, Past, Respond, Store, ProxyFails, Goto, Answer
  <2> QED
    BY <2>1, <2>2, <2>3
<1> QED
  BY <1>1, <1>2, Kept

LEMMA AcquireLocks == ASSUME Inv, NEW a \in Attempts, Acquire(a) PROVE LocksPay'
<1> USE DEF Inv, Types
<1>1. /\ phase[a] = "acquire"
      /\ Holders' \subseteq Holders \cup {a}
      /\ Past \subseteq Past'
      /\ a \notin Past /\ a \in Past'
      /\ expiries' = expiries
  BY DEF Holders, Past, Acquire, Forward, Goto, Answer
<1>2. CASE lock = TRUE
  <2>1. lock' = lock /\ Holders' \subseteq Holders
    BY <1>2 DEF Acquire, Holders, Goto, Answer
  <2> QED
    BY <1>1, <2>1, Kept
<1>3. CASE lock = FALSE
  <2>1. lock' = TRUE
    BY <1>3 DEF Acquire
  <2> QED
    BY <1>1, <1>3, <2>1, OneLock
<1> QED
  BY <1>2, <1>3

\* An attempt deletes the lock only when its own execution is over: it needs one
\* payment less.
LEMMA OneHolderLess ==
  ASSUME LocksPay, Types, NEW a \in Holders, a \notin Holders',
         Holders' \subseteq Holders, Past \subseteq Past',
         lock' \in {lock, FALSE}, expiries' = expiries
  PROVE  LocksPay'
<1>1. Cardinality(Holders') + 1 <= Cardinality(Holders)
  BY OneMore, TypesOfSets, Zenon
<1>2. Cardinality(Past) <= Cardinality(Past')
  BY Subsets, TypesOfSets
<1>3. Locks \in Nat /\ Locks <= 1 /\ expiries \in Nat
  BY LocksCount DEF Types
<1>4. /\ Cardinality(Holders) <= expiries + Locks
      /\ expiries + Locks <= Cardinality(Past)
  BY DEF LocksPay
<1>5. CASE Locks' = Locks
  BY <1>1, <1>2, <1>3, <1>4, <1>5, Finite DEF LocksPay
<1>6. CASE Locks' = 0
  BY <1>1, <1>2, <1>3, <1>4, <1>6, Finite DEF LocksPay
<1> QED
  BY <1>5, <1>6, LocksCount

LEMMA ReleaseLocks ==
  ASSUME Inv, NEW a \in Attempts, Release(a) \/ StoreFails(a)
  PROVE  LocksPay'
<1>1. phase[a] \in {"store", "release", "drop"} /\ exec[a] \notin Underway
  BY DEF Inv, PhasesTell, Release, StoreFails, CutOff, Underway
<1>2. Holders' \subseteq Holders /\ a \in Holders /\ a \notin Holders' /\ Past \subseteq Past'
  BY <1>1 DEF Inv, Types, Holders, Past, Release, StoreFails, Goto, Answer
<1>3. lock' \in {lock, FALSE} /\ expiries' = expiries
  BY DEF Release, StoreFails, CutOff
<1> QED
  BY <1>2, <1>3, OneHolderLess DEF Inv

LEMMA DieLocks == ASSUME Inv, Die PROVE LocksPay'
<1> USE DEF Inv, Types
<1>1. Holders' \subseteq Holders /\ Past \subseteq Past' /\ expiries' = expiries
  BY DEF Die, Holders, Past
<1>2. CASE lock' = lock
  BY <1>1, <1>2, Kept
<1>3. CASE lock = FALSE /\ lock' = TRUE
  <2>1. PICK a \in Attempts : phase[a] = "acquire" /\ phase'[a] = "lost"
    BY <1>3 DEF Die, CutOff
  <2>2. a \notin Past /\ a \in Past'
    BY <2>1 DEF Past
  <2> QED
    BY <1>1, <1>3, <2>2, OneLock
<1>4. CASE lock = TRUE /\ lock' = FALSE
  <2>1. PICK a \in Attempts : phase[a] \in {"store", "release", "drop"} /\ phase'[a] = "lost"
    BY <1>4 DEF Die, CutOff
  <2>2. exec[a] \notin Underway /\ exec' = exec
    BY <2>1 DEF Die, PhasesTell, Underway
  <2>3. a \in Holders /\ a \notin Holders'
    BY <2>1, <2>2 DEF Holders
  <2> QED
    BY <1>1, <1>4, <2>3, OneHolderLess
<1>5. lock \in BOOLEAN /\ lock' \in BOOLEAN
  BY DEF Die, CutOff
<1> QED
  BY <1>2, <1>3, <1>4, <1>5

LEMMA ExpireLocks == ASSUME Inv, Expire PROVE LocksPay'
<1> USE DEF Inv, Types
<1>1. lock /\ lock' = FALSE /\ expiries' = expiries + 1 /\ phase' = phase /\ exec' = exec
  BY DEF Expire
<1>2. Locks = 1 /\ Locks' = 0 /\ Holders' = Holders /\ Past' = Past
  BY <1>1 DEF Locks, Holders, Past
<1> QED
  BY <1>1, <1>2, Finite DEF LocksPay

-----------------------------------------------------------------------------
(* The locks that are owed, and the reasons of repetitions.                *)

LEMMA SetsOfExecutions ==
  ASSUME Types, Types'
  PROVE  /\ Owing \in SUBSET Attempts /\ Owing' \in SUBSET Attempts
         /\ Executed \in SUBSET Attempts /\ Executed' \in SUBSET Attempts
         /\ Uncached \in SUBSET Attempts /\ Uncached' \in SUBSET Attempts
         /\ Executed \ overtaken \in SUBSET Attempts
         /\ (Executed \ overtaken)' \in SUBSET Attempts
  BY DEF Owing, Executed, Uncached, Types

LEMMA Counts == ASSUME NEW S \in SUBSET Attempts PROVE Cardinality(S) \in Nat
  BY GatewayAssumption, FS_Subset, FS_CardinalityType

\* Most steps make nobody owe a lock, and lose none that has not expired.
LEMMA OwedKept ==
  ASSUME LocksAreOwed, Types, Types', cache' = Nothing => cache = Nothing,
         Owing' \subseteq Owing, expiries + Locks <= expiries' + Locks'
  PROVE  LocksAreOwed'
<1> SUFFICES ASSUME cache' = Nothing PROVE Cardinality(Owing') <= expiries' + Locks'
  BY DEF LocksAreOwed
<1>1. Cardinality(Owing') <= Cardinality(Owing)
  BY Subsets, SetsOfExecutions, Zenon
<1>2. Cardinality(Owing) <= expiries + Locks
  BY DEF LocksAreOwed
<1>3. /\ Cardinality(Owing) \in Nat /\ Cardinality(Owing') \in Nat
      /\ expiries + Locks \in Nat /\ expiries' + Locks' \in Nat
  BY Counts, SetsOfExecutions, LocksCount, Numbers DEF Types
<1> QED
  BY <1>1, <1>2, <1>3, Numbers, Zenon

\* Who gives the lock back without an answer owes it no more.
LEMMA OwedLess ==
  ASSUME LocksAreOwed, Types, Types', cache' = cache,
         NEW a \in Owing, a \notin Owing', Owing' \subseteq Owing,
         lock' \in {lock, FALSE}, expiries' = expiries
  PROVE  LocksAreOwed'
<1> SUFFICES ASSUME cache' = Nothing PROVE Cardinality(Owing') <= expiries' + Locks'
  BY DEF LocksAreOwed
<1>1. Cardinality(Owing') + 1 <= Cardinality(Owing)
  BY OneMore, SetsOfExecutions, Zenon
<1>2. Cardinality(Owing) <= expiries + Locks
  BY DEF LocksAreOwed
<1>3. /\ Cardinality(Owing) \in Nat /\ Cardinality(Owing') \in Nat
      /\ expiries \in Nat /\ Locks \in Nat /\ Locks <= 1
  BY Counts, SetsOfExecutions, LocksCount DEF Types
<1>4. CASE Locks' = Locks
  BY <1>1, <1>2, <1>3, <1>4
<1>5. CASE Locks' = 0
  BY <1>1, <1>2, <1>3, <1>5
<1> QED
  BY <1>4, <1>5, LocksCount

\* A step that executes nothing more than the cache lets past needs no reason.
LEMMA ReasonsKept ==
  ASSUME RepeatsHaveAReason, Types, Types',
         Executed' \ overtaken' \subseteq Executed \ overtaken,
         Uncached \subseteq Uncached', expiries <= expiries'
  PROVE  RepeatsHaveAReason'
<1> DEFINE Repeated == Executed \ overtaken
<1>1. Cardinality(Repeated') <= Cardinality(Repeated)
  BY Subsets, SetsOfExecutions
<1>2. Cardinality(Uncached) <= Cardinality(Uncached')
  BY Subsets, SetsOfExecutions
<1>3. Cardinality(Repeated) <= 1 + Cardinality(Uncached) + expiries
  BY DEF RepeatsHaveAReason, Executed, Uncached
<1>4. /\ Cardinality(Repeated) \in Nat /\ Cardinality(Repeated') \in Nat
      /\ Cardinality(Uncached) \in Nat /\ Cardinality(Uncached') \in Nat
      /\ expiries \in Nat /\ expiries' \in Nat
  BY Counts, SetsOfExecutions DEF Types
<1>5. Cardinality(Repeated') <= 1 + Cardinality(Uncached') + expiries'
  BY <1>1, <1>2, <1>3, <1>4
<1> QED
  BY <1>5 DEF RepeatsHaveAReason, Executed, Uncached

\* The steps that forward nothing and delete no lock.
LEMMA QuietReasons ==
  ASSUME Inv, Types', NEW a \in Attempts,
         \/ Arrive(a) \/ Lookup(a) \/ Begin(a) \/ Finish(a) \/ Respond(a) \/ Store(a)
         \/ ProxyFails(a)
  PROVE  LocksAreOwed' /\ RepeatsHaveAReason'
<1> USE DEF Inv
<1>1. /\ lock' = lock /\ expiries' = expiries /\ overtaken' = overtaken
      /\ unstored' = unstored /\ (cache' = Nothing => cache = Nothing)
  BY GatewayAssumption
  DEF Arrive, Lookup, Begin, Finish, Respond, Store, ProxyFails
<1>2. Executed' = Executed /\ Uncached \subseteq Uncached'
  BY <1>1 DEF Types, Executed, Uncached, Arrive, Lookup, Begin, Finish, Respond, Store,
     ProxyFails, Results
<1>3. Owing' \subseteq Owing
  <2>1. CASE Arrive(a) \/ Lookup(a)
    BY <2>1 DEF Types, PhasesTell, Owing, Executed, Uncached, Arrive, Lookup, Goto, Answer
  <2>2. CASE Begin(a) \/ Finish(a)
    BY <1>2, <2>2 DEF Types, Owing, Begin, Finish
  <2>3. CASE Respond(a) \/ Store(a) \/ ProxyFails(a)
    BY <2>3 DEF Types, Owing, Executed, Uncached, Respond, Store, ProxyFails, Goto, Answer
  <2> QED
    BY <2>1, <2>2, <2>3
<1>4. expiries \in Nat /\ expiries + Locks <= expiries' + Locks'
  BY <1>1, LocksCount, Numbers DEF Types
<1>5. LocksAreOwed'
  BY <1>1, <1>3, <1>4, OwedKept
<1>6. RepeatsHaveAReason'
  BY <1>1, <1>2, <1>4, ReasonsKept
<1> QED
  BY <1>5, <1>6

\* An attempt is forwarded while nothing is cached: all who were before it owe a
\* lock, which has expired, or left no answer behind.
LEMMA AcquireReasons ==
  ASSUME Inv, Types', NEW a \in Attempts, Acquire(a)
  PROVE  LocksAreOwed' /\ RepeatsHaveAReason'
<1> USE DEF Inv
<1>0. /\ phase[a] = "acquire" /\ exec[a] = "none"
      /\ cache' = cache /\ unstored' = unstored /\ expiries' = expiries /\ expiries \in Nat
  BY DEF Acquire, PhasesTell, Types
<1>1. CASE lock = TRUE
  <2>1. lock' = lock /\ exec' = exec /\ overtaken' = overtaken /\ phase' = [phase EXCEPT ![a] = "answered"]
    BY <1>1 DEF Acquire, Goto, Answer
  <2>2. Executed' = Executed /\ Uncached' = Uncached
    BY <1>0, <2>1 DEF Executed, Uncached
  <2>3. Owing' \subseteq Owing
    BY <1>0, <2>1, <2>2 DEF Types, Owing, Executed
  <2>4. expiries + Locks <= expiries' + Locks'
    BY <1>0, <2>1, LocksCount, Numbers
  <2>5. LocksAreOwed'
    BY <1>0, <2>1, <2>3, <2>4, OwedKept
  <2>6. RepeatsHaveAReason'
    BY <1>0, <2>1, <2>2, ReasonsKept
  <2> QED
    BY <2>5, <2>6
<1>2. CASE lock = FALSE
  <2>1. /\ lock' = TRUE /\ phase' = [phase EXCEPT ![a] = "proxied"]
        /\ exec' = [exec EXCEPT ![a] = "sent"]
        /\ overtaken' = IF cache = Nothing THEN overtaken ELSE overtaken \cup {a}
    BY <1>2 DEF Acquire, Forward, Goto
  <2>2. Executed' = Executed \cup {a} /\ Uncached' = Uncached
    BY <1>0, <2>1 DEF Types, Executed, Uncached
  <2>3. Owing' \subseteq Owing \cup {a}
    BY <1>0, <2>1, <2>2 DEF Types, Owing, Executed
  <2>4. Locks = 0 /\ Locks' = 1
    BY <1>2, <2>1 DEF Locks
  <2>5. CASE cache # Nothing
    <3>1. LocksAreOwed'
      BY <1>0, <2>5 DEF LocksAreOwed
    <3>2. Executed' \ overtaken' \subseteq Executed \ overtaken
      BY <2>1, <2>2, <2>5
    <3> QED
      BY <1>0, <2>2, <3>1, <3>2, ReasonsKept
  <2>6. CASE cache = Nothing
    <3>1. Cardinality(Owing') <= Cardinality(Owing) + 1
      BY <2>3, AtMostOneMore, SetsOfExecutions
    <3>2. Cardinality(Owing) <= expiries
      BY <2>4, <2>6, <1>0 DEF LocksAreOwed
    <3>3. /\ Cardinality(Owing) \in Nat /\ Cardinality(Owing') \in Nat
          /\ Cardinality(Uncached') \in Nat
      BY Counts, SetsOfExecutions
    <3>4. LocksAreOwed'
      BY <1>0, <2>4, <3>1, <3>2, <3>3 DEF LocksAreOwed
    <3> DEFINE Repeated == Executed \ overtaken
    <3>5. Repeated' \subseteq Owing' \cup Uncached' /\ Owing' \cup Uncached' \in SUBSET Attempts
      BY SetsOfExecutions DEF Owing
    <3>6. Cardinality(Repeated') <= Cardinality(Owing' \cup Uncached')
      BY <3>5, Subsets, SetsOfExecutions
    <3>7. Cardinality(Owing' \cup Uncached') <= Cardinality(Owing') + Cardinality(Uncached')
      <4>1. IsFiniteSet(Owing') /\ IsFiniteSet(Uncached')
        BY GatewayAssumption, FS_Subset, SetsOfExecutions
      <4>2. /\ Cardinality(Owing' \cup Uncached')
                 = Cardinality(Owing') + Cardinality(Uncached') - Cardinality(Owing' \cap Uncached')
            /\ Cardinality(Owing' \cap Uncached') \in Nat
        BY <4>1, FS_Union, FS_Intersection, FS_CardinalityType
      <4> QED
        BY <3>3, <4>2
    <3>8. Cardinality(Repeated') \in Nat /\ Cardinality(Owing' \cup Uncached') \in Nat
      BY <3>5, Counts, SetsOfExecutions
    <3>9. Cardinality(Repeated') <= 1 + Cardinality(Uncached') + expiries'
      BY <1>0, <3>1, <3>2, <3>3, <3>6, <3>7, <3>8
    <3>10. RepeatsHaveAReason'
      BY <3>9 DEF RepeatsHaveAReason, Executed, Uncached
    <3> QED
      BY <3>4, <3>10
  <2> QED
    BY <2>5, <2>6
<1> QED
  BY <1>1, <1>2 DEF Types

\* Who deletes a lock while nothing is cached leaves no answer.
LEMMA ReleaseReasons ==
  ASSUME Inv, Types', NEW a \in Attempts, Release(a) \/ StoreFails(a)
  PROVE  LocksAreOwed' /\ RepeatsHaveAReason'
<1> USE DEF Inv
<1>1. /\ exec' = exec /\ overtaken' = overtaken /\ cache' = cache /\ expiries' = expiries
      /\ unstored \subseteq unstored' /\ lock' \in {lock, FALSE}
      /\ phase' = [phase EXCEPT ![a] = "answered"] /\ expiries \in Nat
      /\ phase[a] \in {"store", "release", "drop"}
  BY DEF Types, Release, StoreFails, CutOff, Answer, Goto
<1>2. Executed' = Executed /\ Uncached \subseteq Uncached'
  BY <1>1 DEF Executed, Uncached
<1>3. RepeatsHaveAReason'
  BY <1>1, <1>2, ReasonsKept
<1>4. Owing' \subseteq Owing
  BY <1>1, <1>2 DEF Types, Owing
<1>5. CASE phase[a] = "release"
  <2>1. cache' # Nothing
    BY <1>1, <1>5 DEF PhasesTell
  <2> QED
    BY <1>3, <2>1 DEF LocksAreOwed
<1>6. CASE phase[a] # "release"
  <2>1. a \in Executed /\ exec[a] # "none"
    BY <1>1, <1>6 DEF PhasesTell, Executed
  <2>2. a \in Uncached'
    <3>1. CASE phase[a] = "drop"
      BY <1>1, <3>1 DEF PhasesTell, Uncached
    <3>2. CASE phase[a] = "store"
      BY <3>2 DEF Release, StoreFails, CutOff, Uncached
    <3> QED
      BY <1>1, <1>6, <3>1, <3>2
  <2>3. a \in Owing /\ a \notin Owing'
    BY <1>1, <2>1, <2>2 DEF Types, Owing
  <2>4. LocksAreOwed'
    BY <1>1, <1>4, <2>3, OwedLess
  <2> QED
    BY <1>3, <2>4
<1> QED
  BY <1>3, <1>5, <1>6

LEMMA DieReasons == ASSUME Inv, Types', Die PROVE LocksAreOwed' /\ RepeatsHaveAReason'
<1> USE DEF Inv
<1>1. /\ exec' = exec /\ overtaken' = overtaken /\ cache' = cache /\ expiries' = expiries
      /\ expiries \in Nat /\ lock \in BOOLEAN /\ lock' \in BOOLEAN /\ unstored \subseteq unstored'
      /\ \A b \in Attempts : phase'[b] \in {phase[b], "lost"}
  BY DEF Types, Die, CutOff
<1>2. Executed' = Executed /\ Uncached \subseteq Uncached'
  BY <1>1 DEF Executed, Uncached
<1>3. RepeatsHaveAReason'
  BY <1>1, <1>2, ReasonsKept
<1>4. Owing' \subseteq Owing
  BY <1>1, <1>2 DEF Owing, Executed
<1>5. CASE lock' = lock \/ lock' = TRUE
  <2>1. expiries + Locks <= expiries' + Locks'
    BY <1>1, <1>5, LocksCount, Numbers
  <2> QED
    BY <1>1, <1>3, <1>4, <2>1, OwedKept DEF Inv
<1>6. CASE lock = TRUE /\ lock' = FALSE
  <2>1. PICK a \in Attempts : phase'[a] = "lost" /\ CutOff(a)
    BY <1>6 DEF Die
  <2>2. CASE phase[a] = "release"
    BY <1>1, <1>3, <2>2 DEF PhasesTell, LocksAreOwed
  <2>3. CASE phase[a] # "release"
    <3>1. a \in Executed /\ a \in Uncached'
      BY <1>1, <2>1, <2>3 DEF CutOff, PhasesTell, Executed, Uncached
    <3>2. a \in Owing /\ a \notin Owing'
      BY <1>2, <2>1, <3>1 DEF CutOff, Owing
    <3> QED
      BY <1>1, <1>3, <1>4, <1>6, <3>2, OwedLess
  <2> QED
    BY <2>2, <2>3
<1> QED
  BY <1>1, <1>5, <1>6

LEMMA ExpireReasons ==
  ASSUME Inv, Types', Expire
  PROVE  LocksAreOwed' /\ RepeatsHaveAReason'
<1> USE DEF Inv
<1>1. /\ lock /\ lock' = FALSE /\ expiries' = expiries + 1 /\ expiries \in Nat
      /\ UNCHANGED <<cache, phase, exec, reply, unstored, overtaken, late>>
  BY DEF Expire, Types
<1>2. /\ Locks = 1 /\ Locks' = 0
      /\ Executed' = Executed /\ Uncached' = Uncached /\ Owing' = Owing
  BY <1>1 DEF Locks, Executed, Uncached, Owing
<1>3. expiries + Locks <= expiries' + Locks' /\ expiries <= expiries'
  BY <1>1, <1>2
<1> QED
  BY <1>1, <1>2, <1>3, OwedKept, ReasonsKept

-----------------------------------------------------------------------------
LEMMA NextInv == ASSUME Inv, [Next]_gatewayVars PROVE Inv'
<1>1. CASE Next
  <2>1. Facts'
    BY <1>1, NextFacts DEF Inv, Facts
  <2>2. LocksPay'
    BY <1>1, QuietLocks, AcquireLocks, ReleaseLocks, DieLocks, ExpireLocks
    DEF Next
  <2>3. LocksAreOwed' /\ RepeatsHaveAReason'
    BY <1>1, <2>1, QuietReasons, AcquireReasons, ReleaseReasons, DieReasons, ExpireReasons
    DEF Next, Facts
  <2> QED
    BY <2>1, <2>2, <2>3 DEF Inv, Facts
<1>2. CASE UNCHANGED gatewayVars
  BY <1>2
  DEF gatewayVars, Inv, Types, PhasesTell, FinalIsCached, LateAreServed, RepliesAreTrue,
      LocksPay, LocksAreOwed, RepeatsHaveAReason, Locks, Holders, Past, Owing, Executed,
      Uncached
<1> QED
  BY <1>1, <1>2

LEMMA SpecInv == Spec => []Inv
  BY InitInv, NextInv, PTL DEF Spec

\* Expiries are paid for by attempts, so there are no more of them.
LEMMA InvTypeOK == Inv => TypeOK
<1> SUFFICES ASSUME Inv PROVE TypeOK
  OBVIOUS
<1>1. expiries \in Nat /\ Locks \in {0, 1} /\ expiries + Locks <= Cardinality(Past)
  BY DEF Inv, Types, LocksPay, Locks
<1>2. expiries \in 0..Cardinality(Attempts)
  BY <1>1, Finite
<1> QED
  BY <1>2 DEF Inv, Types, TypeOK

LEMMA InvOverlaps == Inv => OverlapsNeedExpiry
<1> SUFFICES ASSUME Inv PROVE OverlapsNeedExpiry
  OBVIOUS
<1> DEFINE Running == {a \in Attempts : exec[a] = "running"}
<1>1. Running \subseteq Holders
  BY DEF Holders, Underway
<1>2. Cardinality(Running) <= Cardinality(Holders) /\ Cardinality(Running) \in Nat
  BY <1>1, Subsets, TypesOfSets, Finite, FS_Subset, FS_CardinalityType
<1>3. expiries \in Nat /\ Locks \in {0, 1} /\ Cardinality(Holders) <= expiries + Locks
  BY DEF Inv, Types, LocksPay, Locks
<1>4. Cardinality(Running) <= 1 + expiries
  BY <1>2, <1>3, Finite
<1> QED
  BY <1>4 DEF OverlapsNeedExpiry

-----------------------------------------------------------------------------
\* The state of the middleware is what its code can make of it, and a lock
\* expires at most once for each attempt.
THEOREM GatewayTyped == Spec => []TypeOK
  BY SpecInv, InvTypeOK, PTL

\* Whatever is lost and whoever deletes whose lock, executions of one key in the
\* transfer service overlap only as often as locks have expired.
THEOREM OverlapsAreExpiries == Spec => []OverlapsNeedExpiry
  BY SpecInv, InvOverlaps, PTL

\* An attempt that comes after a client has heard the stored final answer of
\* this key is never forwarded.
THEOREM LateAttempts == Spec => []LateAttemptsAreNotExecuted
<1>1. Inv => LateAttemptsAreNotExecuted
  BY DEF Inv, LateAreServed, LateAttemptsAreNotExecuted
<1> QED
  BY <1>1, SpecInv, PTL

\* Answers, cached or not, tell of executions that have ended, and an error is
\* told only to the attempt that met it.
THEOREM TrueReplies == Spec => []RepliesAreTrue
<1>1. Inv => RepliesAreTrue
  BY DEF Inv
<1> QED
  BY <1>1, SpecInv, PTL

\* A transfer is executed again for the same key only after a 5xx, an answer that
\* could not be cached or an expired lock, or for an attempt that had looked the
\* key up before the answer was cached.
THEOREM RepeatsAreReasoned == Spec => []RepeatsHaveAReason
<1>1. Inv => RepeatsHaveAReason
  BY DEF Inv
<1> QED
  BY <1>1, SpecInv, PTL
=============================================================================
