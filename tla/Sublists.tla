------------------------------ MODULE Sublists ------------------------------
(***************************************************************************)
(* A list without some of its entries, the others in their order: what is   *)
(* left of a GSList or a queue when the entries a function matches are      *)
(* removed.  The entries that stay are given by their positions.            *)
(***************************************************************************)
EXTENDS Integers, Sequences, FiniteSets

\* how many positions of K come up to k
Rank(K, k) == Cardinality({j \in K : j <= k})

\* the n-th smallest position of K
Nth(K, n) == CHOOSE k \in K : Rank(K, k) = n

\* the entries of q at the positions K, in the order of q
Keep(q, K) == [n \in 1..Cardinality(K) |-> q[Nth(K, n)]]
=============================================================================
