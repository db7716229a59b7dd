------------------------------- MODULE Ordering -------------------------------
(***************************************************************************)
(* What a filter leaves of a sequence, without recursion: the numbers of a   *)
(* finite set in ascending order, each at its rank.                          *)
(***************************************************************************)
EXTENDS Integers, FiniteSets

Rank(S, i) == Cardinality({j \in S : j <= i})
Ordered(S) == [k \in 1..Cardinality(S) |-> CHOOSE i \in S : Rank(S, i) = k]

(* The elements at the places of S, in their order.                          *)
Kept(s, S) == [k \in 1..Cardinality(S) |-> s[Ordered(S)[k]]]
===============================================================================
