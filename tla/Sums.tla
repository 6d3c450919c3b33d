-------------------------------- MODULE Sums ---------------------------------
(***************************************************************************)
(* Sums of money, counted cent by cent: every member x of S lays f[x] cents *)
(* marked with its name on a pile.                                         *)
(***************************************************************************)
EXTENDS Integers, FiniteSets

Cents(S, f) == UNION {{x} \X (1..f[x]) : x \in S}
Sum(S, f)   == Cardinality(Cents(S, f))
=============================================================================
