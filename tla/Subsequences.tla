---------------------------- MODULE Subsequences ----------------------------
(***************************************************************************)
(* The part of a sequence at a set of positions, in the sequence's order.  *)
(* SelectSeq takes a predicate, which no proof here can instantiate; a set *)
(* of positions says the same in first-order terms.                        *)
(***************************************************************************)
EXTENDS Integers, Sequences, FiniteSets

\* How many positions of `at` are not after i, and the one that is the k-th.
Rank(at, i) == Cardinality({j \in at : j <= i})
Nth(at, k) == CHOOSE i \in at : Rank(at, i) = k

Subsequence(s, at) == [k \in 1 .. Cardinality(at) |-> s[Nth(at, k)]]

\* The elements of s that are in T, in their order.
Only(s, T) == Subsequence(s, {i \in DOMAIN s : s[i] \in T})
=============================================================================
