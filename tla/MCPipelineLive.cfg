\* Liveness with lost webhooks, crashes and a second worker.
CONSTANTS
    Jobs = {j1}
    w1 = w1
    w2 = w2
    Workers = {w1, w2}
    PaidDual = FALSE
    YouTube = FALSE
    ManualTargets = {"failed"}
    ExternalAssets = {"audio"}
    MaxUploads = 0
SPECIFICATION FairSpec
PROPERTIES
    RecordedVideoResolves
    AudioResolves
CHECK_DEADLOCK FALSE
