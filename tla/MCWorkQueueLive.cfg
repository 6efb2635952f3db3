\* Every row settles, with crashes and reclaims at any age.
CONSTANTS
    w1 = w1
    w2 = w2
    t1 = t1
    t2 = t2
    Tasks = {t1}
    Workers = {w1, w2}
    MaxRows = 2
    BatchSize = 2
    MaxAttempts = 2
    Stale = 1
    AdminAges = {0}
    MaxCrashes = 1
SPECIFICATION FairSpec
PROPERTIES
    Settles
CHECK_DEADLOCK FALSE
