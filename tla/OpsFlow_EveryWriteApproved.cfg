SPECIFICATION Spec
CONSTANTS
    Session = {s1}
    Order = {o1}
    Value = {v1}
    ApprovalId = {a1, a2, a3}
    Proc = {p1, p2}
    NoRow = NoRow
    MaxTurns = 2
    MaxPosts = 2
SYMMETRY Symmetry
INVARIANT EveryWriteApproved
CHECK_DEADLOCK FALSE
