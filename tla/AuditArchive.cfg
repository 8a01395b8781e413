SPECIFICATION Spec
CONSTANTS
    Run = {r1, r2}
    Free = Free
    Orphan = Orphan
    None = None
    MaxMonth = 2
    MaxRows <- MCMaxRows
CHECK_DEADLOCK FALSE
SYMMETRY Symmetry
INVARIANTS NothingLost ArchiveIsTheMonth
