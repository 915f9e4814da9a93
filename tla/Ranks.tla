------------------------------- MODULE Ranks -------------------------------
(***************************************************************************)
(* A finite set in the order of a relation: what ORDER BY and sorted() do, *)
(* said with the number of elements before each, so that it can be         *)
(* reasoned about.                                                         *)
(***************************************************************************)
EXTENDS Naturals, FiniteSets

Rank(S, R, x) == Cardinality({y \in S : <<y, x>> \in R})
Nth(S, R, k) == CHOOSE x \in S : Rank(S, R, x) = k - 1
InOrder(S, R) == [k \in 1 .. Cardinality(S) |-> Nth(S, R, k)]

\* A finite set of integers from the least on.
Upwards(S) == {p \in S \X S : p[1] < p[2]}
Ascending(S) == InOrder(S, Upwards(S))

\* The elements of a sequence at some of its places, and those not in a set.
Picked(s, places) == [k \in 1 .. Cardinality(places) |-> s[Ascending(places)[k]]]
Without(s, S) == Picked(s, {i \in DOMAIN s : s[i] \notin S})
=============================================================================
