\* Two jobs and workers, the migrations 001 and 002 of supabase/README.md.
CONSTANTS
    j1 = j1
    j2 = j2
    w1 = w1
    w2 = w2
    none = none
    None = none
    Jobs = {j1, j2}
    Workers = {w1, w2}
    Overloads = {7, 8}
    Batch = 2
    MaxAttempts = 2
    MaxFailures = 3
SPECIFICATION FairSpec
INVARIANTS
    LockedWhileRunning
    ExhaustedIsDead
    
    OneClaimStands
PROPERTIES
    StuckIsReclaimed
CHECK_DEADLOCK FALSE
