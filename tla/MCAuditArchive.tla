--------------------------- MODULE MCAuditArchive ---------------------------
EXTENDS AuditArchive, TLC

\* Two rows of the first month, one of each later one.
MCMaxRows == 0 :> 2 @@ 1 :> 1 @@ 2 :> 1

\* Overlapping runs are alike.
Symmetry == Permutations(Run)
=============================================================================
