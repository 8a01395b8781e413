SPECIFICATION Spec
CONSTANTS
    i1 = i1
    i2 = i2
    r1 = r1
    r2 = r2
    Instance = {i1, i2}
    Reader = {r1, r2}
    Writer = {w1}
    Home <- MCHome
    TTL = 2
    Latency = 1
    None = None
    MaxVersion = 1
    MaxClock = 4
INVARIANT AtMostTTLOld
