----------------------------- MODULE MCOpsFlow -----------------------------
(* Values for TLC.  Sessions, orders, contents, approval numbers and workers *)
(* are only compared for equality, so permuting any of them is a symmetry.   *)
EXTENDS OpsFlow, TLC

Symmetry ==
    Permutations(Session) \cup Permutations(Order) \cup Permutations(Value)
        \cup Permutations(ApprovalId) \cup Permutations(Proc)
============================================================================
