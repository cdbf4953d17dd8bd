------------------------------- MODULE Retain -------------------------------
(* The elements of a sequence at the positions K, in their order: Rust's    *)
(* Vec::retain and the rows that pass a filter.  SelectSeq by the set of    *)
(* the positions instead of a test.                                         *)
EXTENDS Naturals, Sequences, FiniteSets

\* The n-th position of K.
Nth(K, n) == CHOOSE p \in K : Cardinality({q \in K : q <= p}) = n

Retain(s, K) == [n \in 1 .. Cardinality(K) |-> s[Nth(K, n)]]
=============================================================================
