\* One job, two workers, every provider feature on; the operator may set any status.
CONSTANTS
    Jobs = {j1}
    w1 = w1
    w2 = w2
    Workers = {w1, w2}
    PaidDual = TRUE
    YouTube = TRUE
    ManualTargets = {"audio_generating", "rendering", "rendered", "staged", "approved", "delivered", "failed"}
    ExternalAssets = {"audio", "final"}
    MaxUploads = 2
SYMMETRY WorkerSymmetry
SPECIFICATION Spec
INVARIANTS
    BilledAtMostOnce
    ReservationIsFresh
    AuditTrail
    ReviewReady
    PublishedOnlyApproved
    FinishedKeyHasAsset
PROPERTIES
    ImplementsLifecycle
CHECK_DEADLOCK FALSE
