SPECIFICATION MCSpec
CONSTANTS
    Instance = {i1, i2}
    Process = {i1, i2}
    Reader = {r1, r2}
    Budget = 2
    IntentCost = 1
    ReportCost = 2
    MaxFaults = 1
    MaxRetries = 1
    MaxBegun = 2
    Run = {b1, b2, b3}
    User = {u1, u2}
    Evaluation = {e1, e2}
    Cases = 1
    g1 = g1
    h1 = h1
    h2 = h2
    c1 = c1
    c2 = c2
    c3 = c3
    Caller = {c1, c2, c3}
    Host = {h1, h2}
    HostOf <- MCHostOf
    ReadRisk = {c2, c3}
    MaxLosses = 1
    a1 = a1
    NoActor = NoActor
    FeedbackRow = {f1, f2}
    WithUser = {f1}
    StatusOf <- MCStatusOf
    AuditFile <- MCAuditFile
    Newest = 3
    Blobs <- MCBlobs
    WritesOf <- MCWritesOf
    MaxMoves = 3
    MaxWarnings = 1
    t1 = t1
    t2 = t2
    Public = Public
    Chunk = {1, 2, 3, 4}
    DocOf <- MCDocOf
    TenantOf <- MCTenantOf
    Shard = {1}
    ShardOf <- MCShardOf
    DefaultTenant = t2
    Listed = {1, 2, 4}
    Depth = 3
    TopK = 2
    RrfK = 60
    MaxWrites = 1
    k1 = k1
    k2 = k2
    k3 = k3
    Correction = {k1, k2, k3}
    QuestionOf <- MCQuestionOf
    BaseSet <- MCBaseSet
    MaxReviews = 2
    Login = {l1, l2}
    Request = {q1, q2}
    MaxPair = 4
    Key = {g1, g2}
    Client = {sdk1, sdk2}
    Call = {tool}
    Unit = 2
    Capacity = 4
    Refill = 1
    CacheLife = 2
    CacheMax = 1
    MaxAttempts = 1
    MaxWait = 2
    MaxTime = 3
    Report = {p1, p2}
    MaxQueueFaults = 3
    Server = {s1, s2}
    Label = {"rag", "tool"}
    LabelOf <- MCLabelOf
    Default = "rag"
    Threshold <- MCThreshold
    Similarity = {1, 2, 3}
    Nearest = 3
    MaxEdits = 2
    Table <- MCTable
    EntryOf <- MCEntryOf
    Closeness <- MCCloseness
    TopTables = 3
    d1 = d1
    d2 = d2
    n1 = n1
    n2 = n2
    Backend = {d1, d2}
    Query = {n1, n2}
    Home <- MCHome
    MaxTurns = 2
    L1Life = 1
    CallLife = 1
    MaxTurn = 3
    MaxRepair = 2
CHECK_DEADLOCK FALSE
INVARIANT NoReportOfFailure
