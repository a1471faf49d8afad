------------------------------ MODULE Selection ------------------------------
(* What a list comprehension with a condition makes of a list: the elements  *)
(* at some of its positions, in their order.                                 *)
EXTENDS Naturals, FiniteSets

\* The k-th number of S, from the smallest.
Nth(S, k) == CHOOSE i \in S : Cardinality({j \in S : j <= i}) = k

\* [q[i] for i in S]
Selected(q, S) == [k \in 1 .. Cardinality(S) |-> q[Nth(S, k)]]
=============================================================================
