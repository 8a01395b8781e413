SPECIFICATION Spec
CONSTANTS
    d1 = d1
    d2 = d2
    c1 = c1
    c2 = c2
    Doc = {d1, d2}
    TextsOf <- MCOwnTexts
    Sync = {s1}
    Cleaner = {k1}
    None = None
    MaxClock = 2
INVARIANT WatermarkIsSafe
PROPERTY Converges
