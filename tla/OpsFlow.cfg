SPECIFICATION Spec
CONSTANTS
    Session = {s1, s2}
    Order = {o1, o2}
    Value = {v1}
    ApprovalId = {a1, a2, a3}
    Proc = {p1, p2}
    NoRow = NoRow
    MaxTurns = 2
    MaxPosts = 2
SYMMETRY Symmetry
INVARIANTS GatedWriteIsAuthorised RetryDoesNotRepeatWrite SuccessMeansTargetWritten FormNamesTheCall
PROPERTIES DecisionIsFinal
CHECK_DEADLOCK FALSE
