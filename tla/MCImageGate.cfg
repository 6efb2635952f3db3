\* Two jobs and two workers that share a budget of two scores, two reference sets.
CONSTANTS
    w1 = w1
    w2 = w2
    j1 = j1
    j2 = j2
    p1 = p1
    p2 = p2
    Jobs = {j1, j2}
    Workers = {w1, w2}
    Packs = {p1, p2}
    NoPack = NoPack
    NoTxn = NoTxn
    Cap = 2
    MaxAttempts = 1
    Budget = 2
    MaxClaims = 1
    MaxWaiting = 1
    Requests = {"image_queued", "image_running", "image_ready", "tts_queued", "render_queued", "render_failed", "dead", "draft"}
SYMMETRY Symmetric
SPECIFICATION Spec
INVARIANTS
    TypeOK
    GatePassed
    ScoreStands
    BudgetTellsScores
