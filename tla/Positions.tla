------------------------------ MODULE Positions ------------------------------
(* A sequence made of some of the elements of another, in their order: a    *)
(* list comprehension with a condition, told by the positions it keeps.     *)
EXTENDS Naturals, Sequences, FiniteSets

\* The n-th of a set of positions.
Nth(S, n) == CHOOSE i \in S : Cardinality({j \in S : j <= i}) = n

\* What a sequence holds at some of its positions.
Chosen(s, S) == [n \in 1 .. Cardinality(S) |-> s[Nth(S, n)]]
=============================================================================
