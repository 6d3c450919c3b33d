----------------------------- MODULE SumsProofs ------------------------------
(***************************************************************************)
(* What sums of money are, by the laws of cardinality.                     *)
(***************************************************************************)
EXTENDS Sums, FiniteSetTheorems, TLAPS

\* A cent is marked with the name of who laid it.
LEMMA CentsAre ==
  ASSUME NEW S, NEW f, NEW p
  PROVE  p \in Cents(S, f) <=> \E x \in S : \E i \in 1..f[x] : p = <<x, i>>
  BY DEF Cents

\* The cents of one.
LEMMA OnePile ==
  ASSUME NEW x, NEW n \in Nat
  PROVE  IsFiniteSet({x} \X (1..n)) /\ Cardinality({x} \X (1..n)) = n
<1>1. IsFiniteSet(1..n) /\ Cardinality(1..n) = n
  BY FS_Interval
<1>2. IsFiniteSet({x}) /\ Cardinality({x}) = 1
  BY FS_Singleton
<1>3. /\ IsFiniteSet({x} \X (1..n))
      /\ Cardinality({x} \X (1..n)) = Cardinality({x}) * Cardinality(1..n)
  BY <1>1, <1>2, FS_Product, Zenon
<1>4. 1 * n = n
  OBVIOUS
<1> QED
  BY <1>1, <1>2, <1>3, <1>4, Zenon

LEMMA CentsOfOne ==
  ASSUME NEW x, NEW f, f[x] \in Nat
  PROVE  IsFiniteSet(Cents({x}, f)) /\ Sum({x}, f) = f[x]
<1>1. Cents({x}, f) = {x} \X (1..f[x])
  BY DEF Cents
<1>2. IsFiniteSet({x} \X (1..f[x])) /\ Cardinality({x} \X (1..f[x])) = f[x]
  BY OnePile
<1> QED
  BY <1>1, <1>2, Zenon DEF Sum

\* A finite pile.
LEMMA CentsFinite ==
  ASSUME NEW S, IsFiniteSet(S), NEW f, \A x \in S : f[x] \in Nat
  PROVE  IsFiniteSet(Cents(S, f)) /\ Sum(S, f) \in Nat
<1> DEFINE piles == {{x} \X (1..f[x]) : x \in S}
           pile == [x \in S |-> {x} \X (1..f[x])]
<1>1. pile \in Surjection(S, piles)
  BY Zenon DEF Surjection
<1>2. IsFiniteSet(piles)
  BY <1>1, FS_Surjection
<1>3. \A T \in piles : IsFiniteSet(T)
  <2>1. ASSUME NEW x \in S PROVE IsFiniteSet({x} \X (1..f[x]))
    BY OnePile, Zenon
  <2> QED
    BY <2>1
<1>4. IsFiniteSet(UNION piles)
  <2> HIDE DEF piles
  <2> QED
    BY <1>2, <1>3, FS_UNION
<1> QED
  BY <1>4, FS_CardinalityType DEF Cents, Sum

LEMMA SumEmpty ==
  ASSUME NEW f
  PROVE  Sum({}, f) = 0
<1>1. Cents({}, f) = {}
  BY DEF Cents
<1> QED
  BY <1>1, FS_EmptySet DEF Sum

\* The sum depends on the amounts of the members alone.
LEMMA SumSame ==
  ASSUME NEW S, NEW f, NEW g, \A x \in S : f[x] = g[x]
  PROVE  Sum(S, f) = Sum(S, g)
<1>1. {{x} \X (1..f[x]) : x \in S} = {{x} \X (1..g[x]) : x \in S}
  OBVIOUS
<1> QED
  BY <1>1 DEF Sum, Cents

\* Two piles with different names.
LEMMA SumSplit ==
  ASSUME NEW S, NEW T, IsFiniteSet(S), IsFiniteSet(T), S \cap T = {},
         NEW f, \A x \in S \cup T : f[x] \in Nat
  PROVE  Sum(S \cup T, f) = Sum(S, f) + Sum(T, f)
<1>1. Cents(S \cup T, f) = Cents(S, f) \cup Cents(T, f)
  BY DEF Cents
<1>2. Cents(S, f) \cap Cents(T, f) = {}
  <2>1. ASSUME NEW p \in Cents(S, f), p \in Cents(T, f) PROVE FALSE
    <3>1. PICK x \in S : \E i \in 1..f[x] : p = <<x, i>>
      BY <2>1, CentsAre
    <3>2. PICK y \in T : \E i \in 1..f[y] : p = <<y, i>>
      BY <2>1, CentsAre
    <3> QED
      BY <3>1, <3>2
  <2> QED
    BY <2>1
<1>3. /\ IsFiniteSet(Cents(S, f)) /\ Cardinality(Cents(S, f)) \in Nat
      /\ IsFiniteSet(Cents(T, f)) /\ Cardinality(Cents(T, f)) \in Nat
  BY CentsFinite DEF Sum
<1>4. Cardinality(Cents(S, f) \cup Cents(T, f)) =
        Cardinality(Cents(S, f)) + Cardinality(Cents(T, f)) - Cardinality({})
  BY <1>2, <1>3, FS_Union
<1> DEFINE m == Cardinality(Cents(S, f))
           n == Cardinality(Cents(T, f))
<1>5. Sum(S \cup T, f) = m + n - Cardinality({})
  BY <1>1, <1>4, Zenon DEF Sum
<1>6. m \in Nat /\ n \in Nat /\ Cardinality({}) = 0
  BY <1>3, FS_EmptySet
<1> HIDE DEF m, n
<1>7. m + n - Cardinality({}) = m + n
  BY <1>6
<1> QED
  BY <1>5, <1>7, Zenon DEF m, n, Sum

\* A member more.
LEMMA SumAdd ==
  ASSUME NEW S, IsFiniteSet(S), NEW x, x \notin S,
         NEW f, \A y \in S \cup {x} : f[y] \in Nat
  PROVE  Sum(S \cup {x}, f) = Sum(S, f) + f[x]
<1>1. Sum(S \cup {x}, f) = Sum(S, f) + Sum({x}, f)
  <2>1. IsFiniteSet({x}) /\ S \cap {x} = {}
    BY FS_Singleton
  <2> QED
    BY <2>1, SumSplit
<1> QED
  BY <1>1, CentsOfOne

\* A part of a pile.
LEMMA SumSubset ==
  ASSUME NEW T, IsFiniteSet(T), NEW S \in SUBSET T, NEW f, \A x \in T : f[x] \in Nat
  PROVE  Sum(S, f) \in Nat /\ Sum(T, f) \in Nat /\ Sum(S, f) <= Sum(T, f)
<1>1. Cents(S, f) \in SUBSET Cents(T, f)
  BY CentsAre DEF Cents
<1>2. IsFiniteSet(Cents(T, f))
  BY CentsFinite
<1>3. Cardinality(Cents(S, f)) <= Cardinality(Cents(T, f))
  BY <1>1, <1>2, FS_Subset
<1>4. IsFiniteSet(S)
  BY FS_Subset
<1> QED
  BY <1>3, <1>4, CentsFinite DEF Sum

\* A member joins, and the others keep their amounts.
LEMMA SumJoin ==
  ASSUME NEW S, IsFiniteSet(S), NEW x, x \notin S, NEW T, T = S \cup {x},
         NEW f, NEW g, \A y \in T : g[y] \in Nat, \A y \in S : g[y] = f[y]
  PROVE  Sum(T, g) = Sum(S, f) + g[x]
<1>1. Sum(S, g) = Sum(S, f)
  BY SumSame
<1>2. \A y \in S \cup {x} : g[y] \in Nat
  OBVIOUS
<1>3. Sum(S \cup {x}, g) = Sum(S, g) + g[x]
  BY ONLY IsFiniteSet(S), x \notin S, <1>2, SumAdd
<1> QED
  BY <1>1, <1>3, Zenon

\* One member's amount changes.
LEMMA SumChange ==
  ASSUME NEW S, IsFiniteSet(S), NEW x \in S, NEW f, NEW g,
         \A y \in S : f[y] \in Nat /\ g[y] \in Nat,
         \A y \in S \ {x} : g[y] = f[y]
  PROVE  Sum(S, g) = Sum(S, f) - f[x] + g[x]
<1> DEFINE R == S \ {x}
<1>1. IsFiniteSet(R) /\ x \notin R /\ S = R \cup {x}
  BY FS_RemoveElement
<1>2. Sum(R, f) = Sum(R, g)
  BY SumSame
<1>3. Sum(R, f) \in Nat
  BY <1>1, CentsFinite
<1>4. Sum(S, f) = Sum(R, f) + f[x] /\ Sum(S, g) = Sum(R, g) + g[x]
  <2> HIDE DEF R
  <2> QED
    BY <1>1, SumAdd
<1> QED
  BY ONLY <1>2, <1>3, <1>4, f[x] \in Nat, g[x] \in Nat

\* The same amounts under other names.
LEMMA SumRenamed ==
  ASSUME NEW S, NEW T, IsFiniteSet(S), NEW h \in Bijection(S, T),
         NEW f, NEW g, \A x \in S : f[x] \in Nat /\ f[x] = g[h[x]]
  PROVE  IsFiniteSet(T) /\ Sum(S, f) = Sum(T, g)
<1> DEFINE b == [p \in Cents(S, f) |-> <<h[p[1]], p[2]>>]
<1>1. ASSUME NEW p \in Cents(S, f)
      PROVE  /\ p[1] \in S /\ p[2] \in 1..f[p[1]] /\ p = <<p[1], p[2]>>
             /\ b[p] \in Cents(T, g)
  <2>1. PICK x \in S : \E i \in 1..f[x] : p = <<x, i>>
    BY CentsAre
  <2>2. PICK i \in 1..f[x] : p = <<x, i>>
    BY <2>1
  <2>3. b[p] = <<h[x], i>> /\ h[x] \in T /\ i \in 1..g[h[x]]
    BY <2>2 DEF Bijection, Injection
  <2>4. b[p] \in Cents(T, g)
    <3> HIDE DEF b
    <3> QED
      BY <2>3, CentsAre
  <2> QED
    BY <2>2, <2>4
<1>2. b \in [Cents(S, f) -> Cents(T, g)]
  BY <1>1
<1>3. \A p, q \in Cents(S, f) : b[p] = b[q] => p = q
  <2> SUFFICES ASSUME NEW p \in Cents(S, f), NEW q \in Cents(S, f), b[p] = b[q]
               PROVE  p = q
    OBVIOUS
  <2>1. h[p[1]] = h[q[1]] /\ p[2] = q[2]
    OBVIOUS
  <2>2. p[1] = q[1]
    BY <1>1, <2>1 DEF Bijection, Injection, IsInjective
  <2>3. p = <<p[1], p[2]>> /\ q = <<q[1], q[2]>>
    BY <1>1
  <2> QED
    BY <2>1, <2>2, <2>3
<1>4. ASSUME NEW q \in Cents(T, g) PROVE \E p \in Cents(S, f) : b[p] = q
  <2>1. PICK y \in T : \E i \in 1..g[y] : q = <<y, i>>
    BY CentsAre
  <2>2. PICK i \in 1..g[y] : q = <<y, i>>
    BY <2>1
  <2>3. PICK x \in S : h[x] = y
    BY DEF Bijection, Surjection
  <2>4. <<x, i>> \in Cents(S, f)
    <3>1. i \in 1..f[x]
      BY <2>2, <2>3
    <3> QED
      BY <3>1, CentsAre
  <2>5. b[<<x, i>>] = q
    BY <2>2, <2>3, <2>4
  <2> QED
    BY <2>4, <2>5
<1>5. b \in Bijection(Cents(S, f), Cents(T, g))
  <2> HIDE DEF b
  <2> QED
    BY <1>2, <1>3, <1>4, Zenon DEF Bijection, Injection, Surjection, IsInjective
<1>6. ExistsBijection(Cents(S, f), Cents(T, g)) /\ ExistsBijection(S, T)
  BY <1>5, Zenon DEF ExistsBijection
<1>7. IsFiniteSet(Cents(S, f))
  BY CentsFinite
<1> QED
  BY <1>6, <1>7, FS_Bijection DEF Sum
=============================================================================
