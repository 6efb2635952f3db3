\* A young claim is reclaimed.
CONSTANTS
    w1 = w1
    w2 = w2
    t1 = t1
    t2 = t2
    Tasks = {t1}
    Workers = {w1, w2}
    MaxRows = 1
    BatchSize = 2
    MaxAttempts = 2
    Stale = 1
    AdminAges = {}
    MaxCrashes = 0
SPECIFICATION Spec
INVARIANTS
    FreshClaimIsSole
CHECK_DEADLOCK FALSE
