------------------------------ MODULE Ranking ------------------------------
(***************************************************************************)
(* sorted() by a key that leaves no two elements equal, as retrieval and   *)
(* schema linking use it.                                                  *)
(***************************************************************************)
EXTENDS Integers, FiniteSets

\* The elements of S, each behind those that come before it.  Before is a set
\* of pairs.
InOrder(S, Before) ==
    [k \in 1 .. Cardinality(S) |->
        CHOOSE x \in S : Cardinality({y \in S : <<y, x>> \in Before}) = k - 1]

\* Numbers, the smaller ones first.
Ascending(S) == InOrder(S, {p \in S \X S : p[1] < p[2]})
=============================================================================
