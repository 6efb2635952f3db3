\* Two tasks, two workers, rows of one task that follow each other, reclaims at any age.
CONSTANTS
    w1 = w1
    w2 = w2
    t1 = t1
    t2 = t2
    Tasks = {t1, t2}
    Workers = {w1, w2}
    MaxRows = 3
    BatchSize = 2
    MaxAttempts = 2
    Stale = 1
    AdminAges = {0}
    MaxCrashes = 0
SYMMETRY Symmetric
SPECIFICATION Spec
INVARIANTS
    OneActiveRow
    DeadMeansExhausted
    AttemptsTellClaims
PROPERTIES
    ReopenedOnlyAfterReclaim
    ImplementsPromise
CHECK_DEADLOCK FALSE
