------------------------------ MODULE Batching ------------------------------
(***************************************************************************)
(* How runBatched (internal/reconcile/engine.go) cuts a candidate list to  *)
(* the run's cap and into chunks.  A list is the set of its references,    *)
(* which are numbers in list order.                                        *)
(***************************************************************************)
EXTENDS Naturals, FiniteSets

FirstOf(S, n) == {r \in S : Cardinality({s \in S : s < r}) < n}

(* The n-th smallest element of a finite set of numbers.                   *)
Nth(S, n) == CHOOSE r \in S : Cardinality({s \in S : s < r}) = n - 1

(* A cap, or a batch size, of zero is no limit.                            *)
Cut(S, n) == IF n > 0 THEN FirstOf(S, n) ELSE S
=============================================================================
