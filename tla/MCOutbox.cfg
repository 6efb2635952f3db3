\* Two rows, the worker and a request that flushes too, one row per flush or both.
CONSTANTS
    r1 = r1
    r2 = r2
    worker = worker
    api = api
    Rows = {r1, r2}
    Flushers = {worker, api}
    Worker = worker
    Limit = 2
    MaxAttempts = 2
    MaxAborts = 2
SPECIFICATION FairSpec
INVARIANTS
    SentAccounted
    DuplicatesExplained
    SettledHonestly
PROPERTIES
    ImplementsPromise
    EveryRowSettles
CHECK_DEADLOCK FALSE
