------------------------------ MODULE ImageGate ------------------------------
(***************************************************************************)
(* The image gate (src/app/services/image_gate/) on the SQL schema         *)
(* (src/supabase/migrations/): candidate images are scored against the     *)
(* active reference set under a cap of attempts and a daily budget, and    *)
(* HeyGen is paid only for a job whose last passing score is bound to the  *)
(* hash the job carries.                                                   *)
(*                                                                         *)
(* score_image and revise_image run in one transaction that waits for the  *)
(* job's row lock and holds it, then the lock of the day's budget row,     *)
(* across the call to the scorer.  Whatever raises in it undoes all of it, *)
(* the error rows and the moves to image_failed or needs_human_review that *)
(* precede a GateRefuse included: its writes are made when it commits.     *)
(* Break-glass is off, as by default.  The quality gate on draft may       *)
(* refuse any time, which is no step.                                      *)
(***************************************************************************)
EXTENDS Integers, FiniteSets, JobStatus

CONSTANTS
    Jobs,
    Workers,      \* workers that run score_image and revise_image
    Packs,        \* content hashes a reference set can have
    NoPack,       \* NULL
    NoTxn,
    Cap,          \* settings.image_gate_max_attempts, at most 3
    MaxAttempts,  \* jobs.max_attempts
    Budget,       \* settings.image_scorer_daily_budget
    MaxClaims,    \* bound: image_attempt that claim_job counts up to
    MaxWaiting,   \* bound: transactions that wait for a job's row
    Requests      \* the statuses transition_job is asked for

Attempts == 1..Cap
Steps == {"score", "revise"}

(* An open transaction waits for the row, for the budget or for the        *)
(* scorer; its attempt is 0 while it waits for the row, and it is late if  *)
(* it began before one that has committed a pass since.                    *)
Txn == [step : Steps, job : Jobs, attempt : {0} \cup Attempts, pack : Packs,
        at : {"row", "budget", "scorer"}, late : BOOLEAN]

ASSUME ImageGateAssumption ==
    /\ NoPack \notin Packs
    /\ NoTxn \notin Txn
    /\ Cap \in 1..3
    /\ MaxAttempts \in Nat \ {0}
    /\ Budget \in Nat
    /\ MaxClaims \in Nat
    /\ MaxWaiting \in Nat
    /\ Requests \subseteq CanonicalStatus

VARIABLES
    status,        \* jobs.status
    attempt,       \* jobs.attempt, failures of TTS and rendering
    imageAttempt,  \* jobs.image_attempt
    refHash,       \* jobs.image_ref_content_hash
    scores,        \* the rows of image_scores, by job and attempt_n
    lastPass,      \* the passing row with the latest created_at, 0 without one
    used,          \* image_scorer_budget.used of the day
    active,        \* the reference set on disk
    txn,           \* the open transaction of each worker
    revived,       \* history: the job last came to TTS or rendering from dead
    bound          \* history: the score each HeyGen key was reserved on

job == <<status, attempt, imageAttempt, refHash, scores, lastPass>>
vars == <<job, used, active, txn, revived, bound>>

Keys == {"heygen-avatar", "heygen-avatar-h"}

(* evaluate_pass of a card the scorer returns.                             *)
Verdicts == {"pass", "fail"}

Score == [verdict : Verdicts, hash : Packs]
NoScore == [verdict |-> "none", hash |-> NoPack]

Binding == [attempt : Attempts, hash : Packs]
NoBinding == [attempt |-> 0, hash |-> NoPack]

TypeOK ==
    /\ status \in [Jobs -> CanonicalStatus]
    /\ attempt \in [Jobs -> 0..MaxAttempts]
    /\ imageAttempt \in [Jobs -> Nat]
    /\ refHash \in [Jobs -> Packs \cup {NoPack}]
    /\ scores \in [Jobs -> [Attempts -> Score \cup {NoScore}]]
    /\ lastPass \in [Jobs -> {0} \cup Attempts]
    /\ used \in Nat
    /\ active \in Packs
    /\ txn \in [Workers -> Txn \cup {NoTxn}]
    /\ revived \in [Jobs -> BOOLEAN]
    /\ bound \in [Jobs -> [Keys -> Binding \cup {NoBinding}]]

Init ==
    /\ status = [j \in Jobs |-> "draft"]
    /\ attempt = [j \in Jobs |-> 0]
    /\ imageAttempt = [j \in Jobs |-> 0]
    /\ refHash = [j \in Jobs |-> NoPack]
    /\ scores = [j \in Jobs |-> [n \in Attempts |-> NoScore]]
    /\ lastPass = [j \in Jobs |-> 0]
    /\ used = 0
    /\ active \in Packs
    /\ txn = [w \in Workers |-> NoTxn]
    /\ revived = [j \in Jobs |-> FALSE]
    /\ bound = [j \in Jobs |-> [k \in Keys |-> NoBinding]]

-----------------------------------------------------------------------------
(* Scoring                                                                 *)

Holds(w, j) == txn[w] # NoTxn /\ txn[w].job = j /\ txn[w].at # "row"

Waits(w, j) == txn[w] # NoTxn /\ txn[w].job = j /\ txn[w].at = "row"

(* SELECT ... FOR UPDATE is granted.                                       *)
Unlocked(j) == \A w \in Workers : ~Holds(w, j)

(* The transaction begins, and its now() with it; the reference set is     *)
(* read before the job's row is asked for.                                 *)
Open(w, j, step) ==
    /\ txn[w] = NoTxn
    /\ Cardinality({v \in Workers : \E i \in Jobs : Waits(v, i)}) < MaxWaiting
    /\ txn' = [txn EXCEPT ![w] = [step |-> step, job |-> j, attempt |-> 0,
                                 pack |-> active, at |-> "row", late |-> FALSE]]
    /\ UNCHANGED <<job, used, active, revived, bound>>

(* Variant: the claim has counted the attempt already.                     *)
CountedAttempt(j) == IF imageAttempt[j] = 0 THEN 1 ELSE imageAttempt[j]

NextAttempt(j) == imageAttempt[j] + 1

(* Variant: one attempt too many.                                          *)
CapPlusOne(n) == n <= Cap + 1

WithinCap(n) == n <= Cap

(* score_image looks at no status before it scores; revise_image takes a   *)
(* failed image back to image_running, and reads the reference set again   *)
(* when it has a candidate.  Beyond the cap both raise.                    *)
BeginScore(w, j) ==
    /\ Waits(w, j)
    /\ Unlocked(j)
    /\ txn[w].step = "revise" => status[j] = "image_failed"
    /\ WithinCap(NextAttempt(j))
    /\ txn' = [txn EXCEPT
          ![w].attempt = NextAttempt(j),
          ![w].pack = IF txn[w].step = "revise" THEN active ELSE @,
          ![w].at = "budget"]
    /\ UNCHANGED <<job, used, active, revived, bound>>

(* Variant: the counter is read without its row's lock.                    *)
BudgetUnlocked == used < Budget

(* The update of the day's row waits for the transaction that last changed *)
(* it.                                                                     *)
BudgetLeft ==
    /\ \A w \in Workers : txn[w] # NoTxn => txn[w].at # "scorer"
    /\ used < Budget

ConsumeScorerBudget(w) ==
    /\ txn[w] # NoTxn /\ txn[w].at = "budget"
    /\ BudgetLeft
    /\ txn' = [txn EXCEPT ![w].at = "scorer"]
    /\ UNCHANGED <<job, used, active, revived, bound>>

(* Where a score leaves the job.                                           *)
Outcome(verdict, n) ==
    IF verdict = "pass" THEN "image_ready"
    ELSE IF n >= Cap THEN "needs_human_review" ELSE "image_failed"

(* The row's created_at is the time at which its transaction began, not    *)
(* the order in which the lock was granted: of those that wait for the job *)
(* some may have begun earlier, and stay behind this row.                  *)
RecordPass(w) ==
    IF txn[w].late
    THEN lastPass' = lastPass /\ txn' = [txn EXCEPT ![w] = NoTxn]
    ELSE /\ lastPass' = [lastPass EXCEPT ![txn[w].job] = txn[w].attempt]
         /\ \E earlier \in SUBSET {v \in Workers : Waits(v, txn[w].job)} :
               txn' = [v \in Workers |->
                  IF v = w THEN NoTxn
                  ELSE IF v \in earlier THEN [txn[v] EXCEPT !.late = TRUE] ELSE txn[v]]

(* The scorer answers, record_score and transition follow, and all of it   *)
(* is committed, also for a job that nobody has claimed: image_queued may  *)
(* fail, and image_failed go to needs_human_review with the last attempt.  *)
Scored(w, verdict) ==
    /\ txn[w] # NoTxn /\ txn[w].at = "scorer"
    /\ LET t == txn[w]
       IN /\ Outcome(verdict, t.attempt) \in CanonicalTransitions[
                IF t.step = "revise" THEN "image_running" ELSE status[t.job]]
          /\ status' = [status EXCEPT ![t.job] = Outcome(verdict, t.attempt)]
          /\ imageAttempt' = [imageAttempt EXCEPT ![t.job] = t.attempt]
          /\ refHash' = [refHash EXCEPT ![t.job] = t.pack]
          /\ scores' = [scores EXCEPT ![t.job][t.attempt] = [verdict |-> verdict, hash |-> t.pack]]
    /\ used' = used + 1
    /\ IF verdict = "pass" THEN RecordPass(w)
       ELSE lastPass' = lastPass /\ txn' = [txn EXCEPT ![w] = NoTxn]
    /\ UNCHANGED <<attempt, active, revived, bound>>

(* The budget is exhausted, the scorer fails, the status does not allow    *)
(* the move (a step that is delivered again), or the worker dies.          *)
Rollback(w) ==
    /\ txn[w] # NoTxn
    /\ txn' = [txn EXCEPT ![w] = NoTxn]
    /\ UNCHANGED <<job, used, active, revived, bound>>

-----------------------------------------------------------------------------
(* The SQL functions                                                       *)

Passes(j) == {n \in Attempts : scores[j][n].verdict = "pass"}

(* order by created_at desc limit 1.                                       *)
ImagePass(j) ==
    /\ lastPass[j] \in Passes(j)
    /\ scores[j][lastPass[j]].hash = refHash[j]

ToRendering == {"tts_queued", "render_queued"}

(* Variant: a pass for whatever reference set.                             *)
UnscoredBlocks(j, to) ==
    /\ to \in ToRendering
    /\ \/ status[j] = "draft"
       \/ status[j] = "image_ready" /\ Passes(j) = {}

(* What transition_job refuses although the graph allows it: rendering     *)
(* that has not come through the image gate.                               *)
ImageGateBlocks(j, to) ==
    /\ to \in ToRendering
    /\ \/ status[j] = "draft"
       \/ status[j] = "image_ready" /\ ~ImagePass(j)

Failures == {"tts_failed", "render_failed"}

TransitionJob(j, to) ==
    /\ to \in CanonicalTransitions[status[j]] \cap Requests
    /\ Unlocked(j)
    /\ ~ImageGateBlocks(j, to)
    /\ IF to \in Failures
       THEN /\ attempt' = [attempt EXCEPT ![j] = IF @ < MaxAttempts THEN @ + 1 ELSE @]
            /\ status' = [status EXCEPT ![j] =
                  IF attempt'[j] >= MaxAttempts THEN "dead" ELSE to]
       ELSE /\ status' = [status EXCEPT ![j] = to]
            /\ UNCHANGED attempt
    /\ revived' = [revived EXCEPT ![j] =
          IF to \in ToRendering /\ status[j] \in {"dead", "image_ready"}
          THEN status[j] = "dead" ELSE @]
    /\ UNCHANGED <<imageAttempt, refHash, scores, lastPass, used, active, txn, bound>>

(* claim_job counts an image attempt of its own.                           *)
ClaimJob(j) ==
    /\ Unlocked(j)
    /\ \/ /\ status[j] = "image_queued"
          /\ imageAttempt[j] < MaxClaims
          /\ status' = [status EXCEPT ![j] = "image_running"]
          /\ imageAttempt' = [imageAttempt EXCEPT ![j] = @ + 1]
       \/ /\ status[j] = "tts_queued"
          /\ status' = [status EXCEPT ![j] = "tts_running"]
          /\ UNCHANGED imageAttempt
       \/ /\ status[j] = "render_queued"
          /\ status' = [status EXCEPT ![j] = "render_running"]
          /\ UNCHANGED imageAttempt
    /\ UNCHANGED <<attempt, refHash, scores, lastPass, used, active, txn, revived, bound>>

(* assert_image_pass_for_heygen.  It returns a row or raises, so the       *)
(* Python after it, which looks at the active reference set, is not run.   *)
AssertImagePass(j) ==
    /\ status[j] \in {"image_ready", "tts_queued", "tts_running", "tts_done",
                      "render_queued", "render_running"}
    /\ ImagePass(j)

Bind(j, key) ==
    bound' = [bound EXCEPT ![j][key] =
        [attempt |-> lastPass[j], hash |-> scores[j][lastPass[j]].hash]]

(* The first transaction of generate_avatar.                               *)
ReserveAvatar(j) ==
    /\ Unlocked(j)
    /\ bound[j]["heygen-avatar"] = NoBinding
    /\ AssertImagePass(j)
    /\ status[j] = "render_queued"
    /\ status' = [status EXCEPT ![j] = "render_running"]
    /\ Bind(j, "heygen-avatar")
    /\ UNCHANGED <<attempt, imageAttempt, refHash, scores, lastPass, used, active, txn, revived>>

(* Its horizontal video, after HeyGen has accepted the first.              *)
ReserveHorizontal(j) ==
    /\ Unlocked(j)
    /\ bound[j]["heygen-avatar"] # NoBinding
    /\ bound[j]["heygen-avatar-h"] = NoBinding
    /\ AssertImagePass(j)
    /\ Bind(j, "heygen-avatar-h")
    /\ UNCHANGED <<job, used, active, txn, revived>>

(* A new reference set is deployed.                                        *)
ReplacePack(p) ==
    /\ active' = p
    /\ UNCHANGED <<job, used, txn, revived, bound>>

Next ==
    \/ \E w \in Workers :
          \/ \E j \in Jobs, step \in Steps : Open(w, j, step)
          \/ \E j \in Jobs : BeginScore(w, j)
          \/ ConsumeScorerBudget(w)
          \/ \E verdict \in Verdicts : Scored(w, verdict)
          \/ Rollback(w)
    \/ \E j \in Jobs :
          \/ \E to \in CanonicalStatus : TransitionJob(j, to)
          \/ ClaimJob(j)
          \/ ReserveAvatar(j)
          \/ ReserveHorizontal(j)
    \/ \E p \in Packs : ReplacePack(p)

Spec == Init /\ [][Next]_vars

-----------------------------------------------------------------------------
(* Past the gate and before the end.                                       *)
Rendering ==
    {"tts_queued", "tts_running", "tts_done", "tts_failed", "render_queued",
     "render_running", "render_done", "render_failed", "review", "approved", "published"}

(* A job is past the image gate only with a passing score for the set its  *)
(* hash names, whatever is scored again or delivered twice meanwhile,      *)
(* unless it was raised from the dead (transition_job asks only those that *)
(* come from image_ready).                                                 *)
GatePassed == \A j \in Jobs : status[j] \in Rendering => revived[j] \/ ImagePass(j)

(* The score that HeyGen was paid on is never overwritten by record_score  *)
(* (ON CONFLICT (job_id, attempt_n) DO UPDATE): the audit trail of a       *)
(* charge stands.                                                          *)
ScoreStands ==
    \A j \in Jobs, k \in Keys : bound[j][k] # NoBinding =>
        scores[j][bound[j][k].attempt] = [verdict |-> "pass", hash |-> bound[j][k].hash]

Rows == {row \in Jobs \X Attempts : scores[row[1]][row[2]] # NoScore}

(* The day's counter is the number of scores on record and never exceeds   *)
(* the limit, for workers that consume it at the same time.                *)
BudgetTellsScores == used = Cardinality(Rows) /\ used <= Budget

=============================================================================
