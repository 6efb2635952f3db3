# Media state engine: a TLA+ verification

This directory models the media state engine of `src/`: a FastAPI service and
a worker that take a job (a script for a short video) through narration, video
generation, human review and distribution.  All state is in PostgreSQL; the
expensive work is done by providers (ElevenLabs, HeyGen, Remotion, YouTube)
that are called with no transaction open.  What is hard about it is what happens
*between* the transactions: two workers with the same step, a crash after a
call and before its result is stored, keys that expire, webhooks that are lost
or come twice, an operator who moves the job meanwhile.

## The system

| Part | State | Operations |
| --- | --- | --- |
| Status machine (`state_machine.py`) | `jobs.status`, `events` | `_legacy_advance` over `LEGACY_TRANSITIONS`; `transition` calls the SQL function `transition_job` when the database has it |
| Job service (`services/jobs.py`, `api/jobs.py`) | `jobs`, `assets`, `idempotency_keys` | create, generic advance, approve, add asset; `reserve_key`, `get_key`, `clear_key` |
| Pipeline (`services/pipeline.py`) | the same, and what a running step has in memory | `generate_audio`, `render`, `generate_avatar`, `complete_heygen_webhook`, `reconcile_job`, `reconcile_stuck`, `distribute` |
| Distribution (`services/distribute/`) | `jobs.meta.youtube_upload_id`, files | `run_distribution`, `persist_youtube_upload_id`, YouTube upload |
| Work queue (`services/queue.py`), worker (`worker.py`) | `work_queue` | `enqueue`, `claim_due`, `mark_done`, `mark_failure`, `reclaim_stale_running`; `tick` |
| Outbox (`services/outbox.py`, `webhooks.py`) | `webhook_outbox` | enqueue in the caller's transaction; `flush_outbox` claims, posts and marks |
| Image gate (`services/image_gate/`) | `image_scores`, `jobs.image_*`, `image_scorer_budget` | score, revise, `assert_pass_for_heygen` |
| Scheduler (`services/scheduler.py`) | `schedule_runs`, an advisory lock | `tick` fills the day's slots |
| SQL schema (`supabase/migrations/`) | `jobs` with its lock columns, `job_events`, `job_dead_letters` | `create_job`, `transition_job`, `claim_job`, `reclaim_stuck_jobs`, `assert_image_pass_for_heygen` |
| Connection pool (`db.py`) | ten connections per process | `transaction`, and the scheduler's `lock_conn` |

How they interact.  The API and the scheduler create jobs and enqueue steps;
workers (and requests to `/admin/worker/tick`) claim rows and call the pipeline;
the pipeline advances the job through the status machine, guards each paid call
with an idempotency key, stores assets and enqueues the review notice in the
transaction that stages the job.  HeyGen answers by webhook, or is polled by
`reconcile_job`; both end in `complete_heygen_webhook`.  `approve` enqueues the
distribution.  Nothing but the database is shared.

What makes each part correct:

* pipeline: a provider is paid once per job and product; a job is put up for
  review once and with its video; nothing is published without an approval; a
  job does not hang;
* status machine: the events of a job are a path of the status graph;
* idempotency keys: a finished key is backed by its asset, a step that begins
  finds its key free;
* queue: one active row per job and step, no row is lost, none is given up
  early or retried for ever;
* outbox: at least one delivery, dead only after `max_attempts`;
* image gate: at most three attempts, HeyGen only after a passing score for the
  active references, a daily budget;
* scheduler: the day's cap, one job per slot, no slot without its job unless a
  tick was interrupted, every tick ends;
* SQL schema: a running job is locked and can be reclaimed, attempts run out
  into a dead letter, a claim is nobody else's.

`PROJECT.json` lists the hazards, each at its line, with the properties that
would catch it.

## Modules

| Module | What it is |
| --- | --- |
| `JobStatus` | the two status graphs, the legacy one and the canonical one, and `canonicalize` between them |
| `JobLifecycle` | abstract: what the engine promises of a job (one render ticket, signed before online, final stages) |
| `Pipeline` | the job's steps, operator, webhooks, reconcile, distribution; its properties; the refinement of `JobLifecycle` |
| `PipelineProofs` | type correctness, the billing and the key invariants, for TLAPS |
| `PipelineHistory` | what a job's past tells of its present, and the refinement of `JobLifecycle`, for TLAPS |
| `ReconcileSweep` | who of several stuck jobs `reconcile_stuck` ever looks at |
| `ReconcileSweepProofs` | its types and its four action properties, for TLAPS |
| `WorkPromise` | abstract: what the queue promises of its rows |
| `WorkQueue` | the queue and the worker's loop |
| `WorkQueueProofs` | its inductive invariants and the refinement of `WorkPromise`, for TLAPS |
| `AtLeastOnce` | abstract: what the outbox promises of a message |
| `Outbox` | claim, POST and marks of the webhook outbox in one transaction |
| `OutboxProofs` | its inductive invariant and the refinement of `AtLeastOnce`, for TLAPS |
| `DayPlan` | abstract: what the scheduler promises of a day |
| `Scheduler` | the ticks that fill a day's slots, on pools of connections |
| `SchedulerProofs` | its inductive invariant and the refinement of `DayPlan`, for TLAPS |
| `SotJob` | a job on the SQL schema: claims, lock, attempts, dead letters, reclaim |
| `SotJobProofs` | its inductive invariant, and which advances of the pipeline the schema accepts, for TLAPS |
| `ImageGate` | scoring, the daily budget, `transition_job`, `claim_job` and the assertion before HeyGen |
| `ImageGateProofs` | the gate's and the budget's inductive invariants, for TLAPS |
| `MC...` | model values, symmetry and arguments for TLC, one per specification |

### Pipeline

One variable per column or table the properties tell apart: `status`, `events`,
`approvedBy`, `keys`, `assets`, `outbox` (rows of the review notice; a
`WEBHOOK_URL` is configured), `uploadId`.  `video` is what HeyGen knows.
`billed` and `uploads` are history variables: the charges of a provider and the
videos on YouTube, which the program itself cannot see.  `phase`, `step`, `task`
and `seen` are a worker's memory; a crash loses them.

A transaction is one action.  Where it reads before it locks, the read is an
action of its own: `LookUpKey` is `get_key` before the `FOR UPDATE` of the job,
`Begin` the rest.  A call is an action of its own, and it may fail without
effect, or take effect and lose its answer (`CallRaises`, `UploadRaises`).  A
transaction that raises changes nothing (`BeginRefused`, `StoreRaises`,
`FailStepRaises`, `DeliverRefused`).  Errors that end a step in the code end it
here; the queue's retry is the next `LookUpKey`, at any time and by any worker,
which is more than `WorkQueue` allows and so covers it.

| Code | Actions |
| --- | --- |
| `generate_audio`, `render` | `LookUpKey`, `Begin` / `BeginRefused`, `CallReturns` / `CallRaises`, `StoreAudio`, `StoreRender` / `StoreRaises`, `FailStepAfterCall` / `FailStepRaises` |
| `generate_avatar` | the same with `ReserveHorizontal`, `CallHorizontal`, `FailHorizontal`, `StoreAvatar` |
| `complete_heygen_webhook` | `HeyGenSuccess`, `HeyGenFailure`, `HeyGenHorizontal`, from `Webhook` and `Reconcile` |
| `reconcile_job` | `Reconcile` |
| `distribute`, `run_distribution` | `DistributeBegin`, `SkipUpload`, `UploadReturns` / `UploadRaises`, `PersistUploadId`, `Deliver` / `DeliverRefused` |
| `create_job`, `advance_job`, `approve_job`, `add_asset` | `CreateJob`, `AdvanceJob`, `ApproveJob`, `AddAsset` |
| a process that dies | `Crash` |

`PaidDual` and `YouTube` are the settings (`heygen_allow_dual_format` with the
job's request; YouTube credentials with a local file).  With the image gate only
its refusal is modelled, as a choice.  `POST /jobs/{id}/assets` accepts any kind;
the model posts the two kinds the ElevenLabs and Remotion webhooks post.

Definitions marked "Variant" are plausible mistakes, one for each property; they
are not part of the specification.

### WorkQueue

`task`, `status`, `attempts`, `age` (of `started_at`) and `due` are columns;
`batch` is what `claim_due` returned to each worker, with the attempts that
`mark_failure` is later called with.  `Tick` is the first transaction of
`worker.tick` (reclaim, then claim), `StepReturns` and `StepRaises` are
`process_work_item`'s step, then come `MarkDone`, `MarkDead`, `MarkRetry`.  The
marks name a row by its id only, so late ones are possible and modelled.  When
`mark_failure` runs into the unique index it raises from the except block and
the batch is abandoned: `MarkRetryRaises`.  `ReclaimStale` is
`POST /admin/reclaim-stale`.  Time is in ticks of `Stale` = 1, the 900 seconds; a
retry's delay (2 to 16 seconds) passes within a tick or at any time before
(`FallDue`).

### ImageGate

`status`, `attempt`, `imageAttempt` and `refHash` are columns of `jobs`,
`scores` the rows of `image_scores` (a verdict and a reference hash per attempt),
`used` the day's row of `image_scorer_budget`, `active` the content hash of the
reference set on disk, `lastPass` the passing row with the latest `created_at`.
`txn` is each worker's open transaction; `revived` and `bound` are history:
whether a job came to TTS or rendering from `dead`, and the score each HeyGen key
was reserved on.

`score_image` and `revise_image` are one transaction each, open across the call
to the scorer.  It begins with `Open`, which reads the reference set and asks for
the job's row (`Waits`); it holds the row from `BeginScore` (`Holds`) and the
budget's row from `ConsumeScorerBudget`; other actions on the job wait
(`Unlocked`), and so does another consumer (`BudgetLeft`).  `score_image` keeps
the set it has read before the lock, `revise_image` reads it again after.  `Scored`
is `record_score`, the transition and the commit.  Everything that raises
(exhausted budget, failing scorer, beyond the cap, illegal transition) undoes
the whole transaction, the rows written just before the `GateRefuse` included:
`Rollback`.  `revise_image` takes `image_failed` to `image_running` inside the
transaction; `score_image` looks at no status first, so it may be redelivered
at any time, and only the transition at its end can refuse.

The SQL gate looks at the pass that is last by `created_at`, which is the time at
which a row's transaction began and not when it got the lock.  Of transactions
that overlap the later attempt may thus leave the earlier row: when a pass is
committed, any of the transactions that wait for the job may have begun before it
(`RecordPass`), and a pass of theirs is `late`, on record but not the last.

| Code | Actions |
| --- | --- |
| `run_score_image_step`, `run_revise_image_step`, `record_score` | `Open`, `BeginScore`, `Scored`, `Rollback` |
| `consume_scorer_budget` | `ConsumeScorerBudget` |
| `transition_job`, with the image gate and automatic dead-lettering | `TransitionJob` |
| `claim_job` | `ClaimJob` |
| `assert_pass_for_heygen` and the two reservations of `generate_avatar` | `ReserveAvatar`, `ReserveHorizontal` |
| a new `ACTIVE_REFERENCE_SET.json` | `ReplacePack` |

Abstracted: a card is the verdict `evaluate_pass` gives it; all scores are of one
UTC day; break-glass is off, as by default; the quality gate
may refuse any time, which is no step; keys are not cleared and do not expire
(`Pipeline` has that).  `attempt` stops at `MaxAttempts`, from which every
further failure is dead as well.

The gate needs the SQL schema and the pipeline speaks the legacy graph.  The
model follows the reservation on a job that the SQL functions have brought to
`render_queued`, which the pipeline's own advances need not reach.

### Outbox

`status`, `attempts` and `due` (of `next_attempt_at`) are the committed columns.
`flush_outbox` claims, POSTs and marks in one transaction, so `todo`, `heard` and
`failed` are the flush's own: nobody sees them before `Commit`, and `Abort`
forgets them.  The rows it holds are locked, and `FOR UPDATE SKIP LOCKED` passes
over them (`Locked`).  For the same reason no committed row is ever
`delivering`, and `reclaim_stale_delivering` never finds one: it has no action.
A POST may be answered, fail, or arrive and lose its answer.  `sent`, `received`,
`unheard` and `undone` are history.  The flushers are the worker, the work step
`flush_outbox`, the end of the HeyGen webhook and the admin request; they do
the same and only their fairness differs.

### Scheduler

`slots`, `wants`, `linked` are columns of `schedule_runs`; `made` and `queued`
count the jobs and their avatar work.  `dayLock` is the advisory lock, `conn`
the ticks that hold their `lock_conn`, `pc`, `arg`, `slot` and `left` a tick's
locals.  Every transaction of a tick takes another connection of its process
(`Transact`, `Free`) and waits without a timeout when there is none, as
`pool.acquire` does: a process whose connections are all lock connections of
waiting ticks is `Starved`.  `Raise` is an exception in the loop, `Crash` a
process that dies, `LoseLock` a lock connection that breaks while its tick goes
on.  `cron` is the command line's tick (a process of its own), the manual ticks
are requests of one API process.

| Code | Actions |
| --- | --- |
| `tick`: lock | `BeginCron`, `BeginManual`, `TryLock`, `Told` |
| plan and loop | `Plan`, `Reserve`, `Create`, `Avatar`, `Link`, `Count` |
| finally | `Unlock` |

Topics and texts are left out, and so is the status query.

### ReconcileSweep

The queue of `reconcile_stuck`: `order` is the stuck jobs by `updated_at`, `aged`
how many of them have passed the threshold, `todo` what the current sweep has
selected.  A job that cannot be resolved is not written to and keeps its place
in front.  `Begin`, the reservation of a horizontal video (`ReserveHorizontal`),
its failure (`HorizontalFails`), its recording (in `RecordVideo`, which writes
nothing to a job without one) and the webhook of one that was made
(`WebhookHorizontal`) write the job.  `Touch` is what that does to its place:
`updated_at` is the start of the writing transaction, so the job is young again
and behind every old one, but not always behind every young one.  That a
transaction is shorter than `stuck_job_seconds` is assumed.  The rest of a job is what decides whether reconciling
it resolves it: its status, what HeyGen says of its video, and whether a live
worker has its call.

### SotJob

The columns of `jobs` that `transition_job`, `claim_job` and `reclaim_stuck_jobs`
write together, for the TTS and render lanes, which the migrations treat alike.
`lock` is the age of `locked_at`: null, within the two seconds in which
`claim_job` writes its events, older, or older than the reclaim's threshold.
`last` is the newest event, `letters` the dead letters of the job.  `calling` and
`lost` are the workers' and history.  `transition_job` looks at no lock, so a
late report (`Finish`) may end another worker's lane.

`Overloads` says which functions `transition_job` are installed: migrations 001,
002 and 004 each create it with one parameter more and drop none, all but two of
the parameters have defaults, and a call that two functions could take is an
error in PostgreSQL.  `{7, 8}` are the migrations that `supabase/README.md` tells
to apply, `{7, 8, 9}` what `scripts/apply_migrations.sh` applies.

## What TLC checks

| Run | Bounds | Shows |
| --- | --- | --- |
| `pipeline_safety` | 1 job, 2 workers, 2 uploads | all safety properties of `Pipeline` and the refinement |
| `pipeline_liveness` | 1 job, 2 workers, no upload | `RecordedVideoResolves`, `AudioResolves` |
| `pipeline_upload` | 1 job, 1 worker, 2 uploads | violated: `UploadedOnce` |
| `sweep` | 3 jobs, 1 with a horizontal video, sweeps of 1, 1 failure | `NobodyOvertakes`, `SweepsAreOfUse`, `StuckResolves`, `RenderingEndsByItsCall` |
| `workqueue_safety` | 3 rows of 2 tasks, 2 workers, batches of 2, 2 attempts, reclaims at any age | `OneActiveRow`, `DeadMeansExhausted`, `AttemptsTellClaims`, `ReopenedOnlyAfterReclaim`, the refinement of `WorkPromise` |
| `workqueue_liveness` | 2 rows of one task, 2 workers, 1 crash, reclaims at any age | `Settles` |
| `workqueue_fresh` | 1 row, 2 workers, no crash | violated: `FreshClaimIsSole` |
| `gate_safety` | 2 jobs, 2 workers, 2 reference sets, cap 2, budget 2, 1 transaction waiting for a row, 1 failure to dead | `GatePassed`, `ScoreStands`, `BudgetTellsScores` |
| `outbox` | 2 rows, 2 flushers, 2 attempts, 2 rollbacks | `SentAccounted`, `DuplicatesExplained`, `SettledHonestly`, `EveryRowSettles`, the refinement of `AtLeastOnce` |
| `scheduler` | cron and 2 manual ticks (forced or not, with avatar or not), pools of 2, 2 posts a day, 4 slots, 1 failure | `CadenceKept`, `OneJobPerSlot`, `LinkedIsComplete`, `HolesExplained`, `EveryTickEnds`, `DayIsFilled`, the refinement of `DayPlan` |
| `sot` | 2 jobs, 2 workers, batches of 2, 2 attempts, requeued up to the third failure, migrations 001 and 002 | `LockedWhileRunning`, `ExhaustedIsDead`, `TimelineEndsAtStatus`, `OneClaimStands`, `StuckIsReclaimed` |
| `sot_reclaim` | 1 job, 2 workers, all migrations | violated: `StuckIsReclaimed` |

Why the bounds are enough.  No action of `Pipeline` touches two jobs, and a
worker's memory is about one job, so one job shows everything a property of a
job can meet; the proofs are for any number.  Two workers race for a step, and a
third would have to win against one of them.  `MaxUploads` = 2 is the first
number that tells "published again" from "published"; no other counter is
bounded, because the status graph bounds the events, the calls and the notices.
In the queue, three rows are the smallest number with a done row, the active
row after it for the same task, and a row of another task in the same batch;
two attempts separate the first claim, a retry and a claim beyond the maximum.
The safety run of the queue has no crash: a batch abandoned by
`MarkRetryRaises`, and a row that `ReclaimStale` takes from a live worker, leave
the table as a crash does; the liveness run has one.

The gate's run has two jobs because the budget is shared, and a budget of two is
the smallest with two passes of one job and with two workers who race for the
last unit.  `MaxWaiting` = 1: with two workers one waits while the other holds the
row, and which of them began first is left open.  A cap of two has a first, a
last and a refused attempt; `MaxClaims` = 1 lets `claim_job` take one of
them.  `Requests` leaves out the moves past `tts_running` and past
`render_running` except a failure of rendering, `cancelled`, and the moves to
`image_failed` and `needs_human_review` that `Scored` makes; the proofs are for
any `Requests`.

In the outbox two rows are a batch of which one settles and one does not; two
attempts are a retry and the end, two rollbacks one for each row or two of one.
In the sweep a limit of one makes one unresolvable job a crowd, and the third
job shows that the queue behind it still moves once the crowd is gone.  The
scheduler's pools of two, with two manual ticks in one process, are the smallest
that starve; two posts a day and one forced one reach a slot beyond the cadence;
one failure of any kind at any point gives every hole its interruption, and two
ticks that overlap because of it.  In `SotJob` two attempts have a failure that
is retried and one that is final, and the third is the failure of a job requeued
from dead.  Two workers and a batch of two let one worker claim twice within the
two seconds and let another report late.

The runs of `Pipeline`, `WorkQueue`, `ReconcileSweep`, `Outbox` and `SotJob` do not
check deadlock: a job that is delivered or failed, a queue that is empty, a row
that is settled may stop.

### Disagreements found

With a run that shows them:

* `UploadedOnce`: the id is persisted "ASAP" (`PHASE5_REPORT.md` 31), in a
  transaction after the upload; a crash in between uploads again.
* `FreshClaimIsSole`: `started_at` survives retries and reclaims, so
  `reclaim_stale_running` takes a row from a worker that has just claimed it.
* `StuckIsReclaimed`: with all migrations applied the reclaim's call of
  `transition_job` is ambiguous, so `reclaim_stuck_jobs` raises as soon as there is
  a stuck job.  With 001 and 002 only it holds (run `sot`).

Seen while modelling, and part of the models:

* A worker that dies after committing `rendering` and before storing the video
  leaves the job there: `reconcile_job` has no recorded video to ask for and the
  status refuses the retry.  `RenderingEndsByItsCall` states it.  As no sweep
  writes to such a job, `Limit` of them crowd every other stuck job out, which
  is why `StuckResolves` excepts a crowd that stays.
* After a provider error the key is cleared "so a later retry can re-call HeyGen"
  (`PHASE1_REPORT.md` 105), but the job is `failed`, which no transition leaves.
* Only `mark_failure` looks at `max_attempts`; a row whose worker always dies is
  claimed for ever.
* A `GateRefuse` of the step (cap reached, scorer failed) undoes the attempt, the
  error score and the move to `needs_human_review` it has just written.  The job
  stays in `image_running`, which nothing reclaims, and the next try is counted
  from the same number, so the three attempts of `SHIP_REPORT.md` 36 are those
  that committed.  `Rollback` is in the model; no property says that an attempt is
  never lost, because it may be.
* The budget's unit is consumed in the transaction that a failing scorer rolls
  back: `BudgetTellsScores` is about the scores on record, and calls that failed
  are not counted.
* The SQL gate compares the score with the job's own hash, which the same score
  has written, and the Python comparison with the active set after it (`gate.py`
  242) is not reached: a reference set replaced after the score is not noticed.
* A rolled back flush forgets its POSTs and their attempts: the messages are sent
  again, more often than `max_attempts` if it happens again (`SentAccounted` and
  `DuplicatesExplained` count them).
* Ten requests to the scheduler in one process, each holding a connection and
  waiting for another, stop it for good; if one of them has the day's lock, cron
  creates nothing either (`DayIsFilled` excepts a pool that is starved for ever).

### Fairness

`Pipeline`: weak fairness of `Reconcile` (the loop of `run_forever` calls
`reconcile_stuck` every minute, and the admin endpoint does), of `VideoEnds`
(HeyGen ends every video) and of each worker's own steps (provider calls have
timeouts).  Nothing is assumed of webhooks, of the operator or of the queue, and
a crash is always possible.  That `Reconcile` reaches the job assumes that fewer
than ten older jobs are stuck for good, because `reconcile_stuck` takes the ten
least recently updated: see the hazard at `pipeline.py` 729.

`WorkQueue`: weak fairness of `Tick` and of the worker's own steps (the loop
never ends, calls have timeouts) and of the clock.  Crashes are finitely many
(`MaxCrashes`): without that a crash loop never ends.

`ReconcileSweep`: weak fairness of time, of the sweep and of its turns
(`run_forever`), and of a call's end, in whatever way it ends (timeouts).
Nothing is assumed of webhooks, operators or HeyGen.

`Outbox`: weak fairness of the backoff's end, of an open flush and of the worker's
`ClaimDue`, which its tick calls at every turn.  Rollbacks are finitely many.

`Scheduler`: weak fairness of cron's tick (the command is run every day; within
the day, again after a failure) and of a tick's next step, which is disabled
while its pool is empty: so what is assumed is the pool's promise, not that a
connection comes.

`SotJob`: weak fairness of the reclaim (cron every 5 to 15 minutes) and of time.
Nothing is assumed of workers.

## What TLAPS proves

All for any sets of jobs, workers, rows, flushers and ticks and any settings that
satisfy the assumption named in the module that declares them.

* `PipelineProofs`: `TypeCorrect == Spec => []TypeOK`.  Lemmas say what each
  building block (`AdvanceBy`, `FailStep`, `Bill`, `Goto`, ...) does to the types;
  the steps of a job and of a worker follow from them.
* `PipelineProofs`, about charges and keys:
  * `BillingInvariant == Spec => []BillingInv`.  `BilledAtMostOnce` is not
    inductive: it does not say who may still charge.  `BillingInv` adds the
    tickets.  The advance into a running status is the only way out of the
    statuses before it, and there is no way back (`NoWayBack`, `Forward...`), so
    while the job is before it nobody holds or has spent the ticket; the one
    worker whose `Begin` takes it holds it in phase `call`; charging spends it.
    The horizontal video's ticket is held from `reserve_h` to `call_h` by the
    worker that has bought the primary one.
  * `ChargedOnce == Spec => []BilledAtMostOnce` follows.
  * `KeyInvariant == Spec => []KeyInv`: a key appears only with the advance into
    the running status.  `FreshReservation == Spec => []ReservationIsFresh` follows.

The argument shows what the code relies on: not the idempotency keys, whose
conflict is ignored, but the status graph being acyclic and every step's first
transaction advancing under the job's row lock.

* `ImageGateProofs`, for any budget, any reference sets, any statuses asked for
  and a cap of one to three, as `_max_attempts` computes it:
  * `GateTyped == Spec => []TypeOK`.
  * `GateInvariant == Spec => []IInv`.  `ScoreStands` alone is not inductive: it
    does not say that the attempt in an open transaction is new.  `IInv` adds
    that one scoring transaction at a time holds a job's row, numbered one beyond
    `imageAttempt` (the row lock keeps everybody else from counting), and that no
    row is numbered beyond `imageAttempt`; so the row that `Scored` writes is
    free, and a pass is never replaced.  Which pass is the last by `created_at`
    plays no part: whichever it is, the job is past the gate only while it
    carries that row's hash.
  * `NothingSlipsThrough == Spec => []GatePassed` and
    `ChargesStand == Spec => []ScoreStands` follow.

  * `BudgetCountsScores == Spec => []BudgetTellsScores`.  The invariant adds that
    one worker at a time has consumed a unit and not committed it (the budget
    row's lock) and that the unit was there; the number of scores is a
    cardinality, which grows by one because `Scored` writes a free row.

* `WorkQueueProofs`: `IInv` says that a worker at a step has its row at the head of
  its batch (`Busy`), that active rows of different ids have different tasks
  (`ActiveApart`, what the unique index enforces) and that claims hold attempts
  no greater than the row's, different for different workers.  A claim counts
  the row up, so it differs from all earlier ones; a mark only ever writes its
  own row, and the index is checked where a row becomes active again.  From it
  `TypeCorrect`, `OneActiveRowHolds`, `DeadMeansExhaustedHolds` and
  `AttemptsTellClaimsHolds`.  `ReopenedOnlyAfterReclaimHolds` needs more
  (`LateInv`): a batch names a row once, a claim is counted, and a row that is
  done or dead after a single claim is in nobody's batch, because another claim
  of it would carry the same number.  So a late mark can change a verdict only
  after a reclaim.  `QueueImplementsPromise == Spec => ImplementsPromise`: a claim
  is a try of the open rows it takes, a mark settles its row or opens it again,
  reclaims, crashes and the clock stutter.  The guards of `WorkPromise` come from
  `LateInv` (a row in a batch has been claimed, a settled one twice) and from the
  unique index, which also guards the way back to pending.

* `OutboxProofs`: `Ownership` says that a row in a flush is pending and in no other
  flush, in one of its three sets; `AttemptsLeft` that a pending row has attempts
  left; `ReceivedAccounted` counts answered POSTs.  With them `SentAccounted` is
  inductive, and `DuplicatesExplained`, `SettledHonestly` and `SettledIsFinal`
  follow.  `OutboxImplementsPromise == Spec => ImplementsPromise`: claims and
  backoffs stutter, a POST is a copy that arrives, arrives unheard or is lost, a
  rollback forgets what was posted in it, and a commit settles the whole batch
  in one step.  That a delivered row has arrived, and a dead one has been sent
  `MaxAttempts` times, are guards of `AtLeastOnce` and come from the invariant
  (`ClaimedRow`); that a copy is sent again only with an excuse does too.

* `SchedulerProofs`: the slots of the day are 1 to n (`Contiguous`), a tick in its
  loop plans from a slot at most n + 1 to an end that the cadence and the forced
  posts allow (`Planned`), and a slot whose job is being made is owned by one
  tick (`Owned`).  The advisory lock is not part of the argument: a reservation is
  by a unique slot, so `CadenceKept` and `OneJobPerSlot` hold even when the lock
  connection breaks and ticks overlap.  `HolesExplained` counts unlinked slots
  against interruptions.  `SchedulerImplementsDayPlan == Spec => ImplementsDayPlan`:
  `Plan` allows posts, `Reserve`, `Create`, `Avatar` and `Link` are the four steps
  of a slot, everything else stutters.  A reservation is within what `DayPlan`
  allows by `Planned`, and the other guards come from `Owned`: the slot of a tick
  has no job before its `Create`, is not named before its `Link`, and has its
  avatar work by then exactly if it was opened for it.

* `ReconcileSweepProofs`: `TypeOK` is inductive as it stands and is the argument:
  `order` names every stuck-eligible job once and nobody else.  From it
  * `NobodyOvertakesHolds`: every step leaves the queue, takes one job out of it
    or puts one in behind the old ones (`NextIsQueueStep`, `TouchQueue`), and none
    of the three puts somebody in front of a job that is old
    (`WithoutKeepsOrder`, `NobodyGetsAhead`);
  * `SweepsAreOfUseHolds`: if the first `Limit` old jobs cannot be resolved, they
    are a crowd in front of every job that can;
  * `ResolvableIsResolved`: a job that can be resolved is, when the sweep comes to
    it and HeyGen answers;
  * `RenderingEndsByItsCallHolds`.

  The first three are the safety part of `StuckResolves`: a job waits its turn,
  its turn comes unless there is a crowd, and the turn is not in vain.  That the
  sweeps go on is fairness, and stays with TLC.

* `SotJobProofs`, for any `Overloads`, batch and limits: a job is locked exactly
  while it runs, its attempts and dead letters agree, its newest event names its
  status, and a claim the job has not left is the only one (`Standing`).  One lemma
  about `Move` serves operators, late reports and the reclaim.
  `OnlyReportsEndARun`: where the functions of 8 and of 9 parameters are both
  installed, as after `apply_migrations.sh`, a running job leaves its step only by
  the report of a worker that is calling for it or by an operator, so no job
  whose worker has died is ever reclaimed; the run `sot_reclaim` shows one.
  `AdvancesOnTheSchema` says which of the pipeline's advances `transition_job`
  accepts after `canonicalize`: five, the ends of the two lanes and the way from
  rendered to delivered.  Those that start a lane are refused, as the legacy
  graph has no queues, and so is every failure; a job that `create_job` made on
  the SQL schema is not moved out of draft by the pipeline (`DraftIsNotLeft`).

* `PipelineHistory`: what a step does to one job's history is one of four things:
  nothing, its creation, one advance, the two advances to staged
  (`NextHistory`).  On that rest
  * `HistoryIsGapless == Spec => []AuditTrail`, by `TrailAppend`;
  * `AnnouncedOnce == Spec => []ReviewReady`: `ReviewInv` adds that a job which the
    system has put up for review is staged or beyond for ever, so that webhook,
    reconcile and renderer cannot put it up again;
  * `FinishedKeysAreBacked == Spec => []FinishedKeyHasAsset`: a key is finished only
    in the transaction that stores its assets (`KeyStep`), and none is removed;
  * `ApprovalInvariant == Spec => []ApprovalInv`: a worker starts to publish only
    from approved, and from there the graph leads to delivered and failed only,
    so what it has read without the lock is still true enough when it uploads.
    `OnlyApprovedIsPublished == Spec => []PublishedOnlyApproved` follows;
  * `PipelineImplementsLifecycle == Spec => ImplementsLifecycle`: with `BillingInv`,
    `ApprovalInv` and `RenderInv` (the events tell whether a job has entered
    rendering) every step is one job's step of `JobLifecycle` or a stutter.

Only model-checked is liveness: `RecordedVideoResolves`, `AudioResolves`, `Settles`,
`EveryRowSettles`, `EveryTickEnds`, `DayIsFilled`, `StuckResolves`, `StuckIsReclaimed`,
because the prover has no rules for weak fairness and `ENABLED`.  Every invariant
and every action property that a run checks is a theorem.  Type correctness is
proved for all seven specifications; only the image gate's run checks it as well,
where it says that no attempt is beyond the cap.

## Not modelled

Of the SQL schema the API keys, the quality scores as rows and the policies; the
quality gate is a refusal without an effect.  The pipeline's steps on the SQL
schema: the pipeline is modelled on the legacy one, and `AdvancesOnTheSchema`
says how far it would come on the other.
Break-glass, prompts, the scorers' HTTP and the reference files.  Captions, the
files of the staging package and OAuth.  Metrics (`scheduler.tick` counts
`jobs_created` once more than `create_job`, which nothing reads back), script
composition, storage, authentication, configuration and the command line have no
state the properties depend on.  Locks below the transaction: a deadlock that
PostgreSQL resolves is a transaction that raises.

## Plan

Modelled, checked and proved about: the pipeline, the queue, the image gate, the
outbox, the scheduler, the sweep and the SQL job.  Left:

* an abstract specification of the SQL job, and its refinement;
* the two files of a distribution and their platforms, where one of several fails;
* the SQL schema's quality gate with its rows, and the API keys.
