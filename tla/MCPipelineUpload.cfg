\* Distribution that is cut off, and run again.
CONSTANTS
    Jobs = {j1}
    w1 = w1
    w2 = w2
    Workers = {w1}
    PaidDual = FALSE
    YouTube = TRUE
    ManualTargets = {}
    ExternalAssets = {}
    MaxUploads = 2
SPECIFICATION Spec
INVARIANTS
    UploadedOnce
CHECK_DEADLOCK FALSE
