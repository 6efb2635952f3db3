\* All migrations, as scripts/apply_migrations.sh applies them.
CONSTANTS
    j1 = j1
    j2 = j2
    w1 = w1
    w2 = w2
    none = none
    None = none
    Jobs = {j1}
    Workers = {w1, w2}
    Overloads = {7, 8, 9}
    Batch = 2
    MaxAttempts = 2
    MaxFailures = 3
SPECIFICATION FairSpec
PROPERTIES
    StuckIsReclaimed
CHECK_DEADLOCK FALSE
