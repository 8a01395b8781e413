SPECIFICATION MCSpec
CONSTANTS
    Instance = {i1, i2}
    Question = {q1, q2}
    Chat = {c1, c2}
    Home <- MCHome
    Asks <- MCAsks
    Warmed <- MCWarmed
    Doc = {d1, d2}
    ShortName <- MCShortName
    Alike <- MCNear
    Near <- MCNear
    i1 = i1
    i2 = i2
    c1 = c1
    c2 = c2
    q1 = q1
    q2 = q2
    d1 = d1
    d2 = d2
    s1 = s1
    s2 = s2
    MaxSize = 1
    MemLife = 0
    TopK = 1
    PromptDocs = 1
    MaxRetries = 1
CHECK_DEADLOCK FALSE
INVARIANT PassedIsSupported
PROPERTIES CacheForgets EveryChatEnds
