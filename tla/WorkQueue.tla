------------------------------ MODULE WorkQueue ------------------------------
(***************************************************************************)
(* The durable work queue (src/app/services/queue.py) and the worker that  *)
(* drains it (src/app/worker.py): rows of work_queue, claimed in batches   *)
(* by any number of workers and API ticks, reclaimed when they look stale, *)
(* retried or dead-lettered.  What a step does is Pipeline's business:     *)
(* here it returns or raises.                                              *)
(*                                                                         *)
(* Time is counted in ticks; Stale ticks are WORK_QUEUE_STALE_SECONDS.     *)
(* The retry delays of max_attempts retries (2, 4, 8, 16 seconds) are      *)
(* shorter than a tick.                                                    *)
(***************************************************************************)
EXTENDS Integers, Sequences, FiniteSets

CONSTANTS
    Tasks,        \* (job_id, step) pairs
    Workers,      \* worker processes, and requests to /admin/worker/tick
    MaxRows,      \* bound: rows of work_queue
    BatchSize,    \* settings.worker_batch_size
    MaxAttempts,  \* work_queue.max_attempts
    Stale,        \* settings.work_queue_stale_seconds, in ticks
    AdminAges,    \* the ages that POST /admin/reclaim-stale is called with, in ticks
    MaxCrashes    \* bound: crashes

ASSUME WorkQueueAssumption ==
    /\ MaxRows \in Nat
    /\ BatchSize \in Nat \ {0}
    /\ MaxAttempts \in Nat \ {0}
    /\ Stale \in Nat \ {0}
    /\ AdminAges \subseteq 0..Stale
    /\ MaxCrashes \in Nat

Rows == 1..MaxRows

VARIABLES
    task,      \* the row's job and step
    status,    \* "absent" before the row is inserted
    attempts,  \* claims of the row
    age,       \* ticks since started_at, NotStarted while it is NULL
    due,       \* next_attempt_at has come
    batch,     \* the rows each worker has claimed and not marked, in order
    phase,     \* what it does with the first of them
    held,      \* ticks since it claimed them
    crashes    \* history: crashes so far

rows == <<task, status, attempts, age, due>>
local == <<batch, phase, held>>
vars == <<task, status, attempts, age, due, batch, phase, held, crashes>>

NotStarted == -1

Active == {"pending", "running"}

(* What claim_due returned: the attempts are the snapshot mark_failure is  *)
(* called with.                                                            *)
Claim == [row : Rows, attempts : Nat]

TypeOK ==
    /\ task \in [Rows -> Tasks]
    /\ status \in [Rows -> {"absent", "pending", "running", "done", "dead"}]
    /\ attempts \in [Rows -> Nat]
    /\ age \in [Rows -> NotStarted..Stale]
    /\ due \in [Rows -> BOOLEAN]
    /\ batch \in [Workers -> Seq(Claim)]
    /\ phase \in [Workers -> {"idle", "run", "done", "failed"}]
    /\ held \in [Workers -> 0..Stale]
    /\ crashes \in 0..MaxCrashes

Init ==
    /\ task \in [Rows -> Tasks]
    /\ status = [r \in Rows |-> "absent"]
    /\ attempts = [r \in Rows |-> 0]
    /\ age = [r \in Rows |-> NotStarted]
    /\ due = [r \in Rows |-> FALSE]
    /\ batch = [w \in Workers |-> <<>>]
    /\ phase = [w \in Workers |-> "idle"]
    /\ held = [w \in Workers |-> 0]
    /\ crashes = 0

-----------------------------------------------------------------------------
(* Variant: a row that runs does not count as active.                      *)
PendingRows(t) == {r \in Rows : status[r] = "pending" /\ task[r] = t}

ActiveRows(t) == {r \in Rows : status[r] \in Active /\ task[r] = t}

(* enqueue returns the active row of (job, step) if there is one.  Of two  *)
(* that insert at once the unique index idx_work_queue_active_job_step     *)
(* refuses the second.                                                     *)
Enqueue(r) ==
    /\ status[r] = "absent"
    /\ \A q \in 1..(r - 1) : status[q] # "absent"
    /\ ActiveRows(task[r]) = {}
    /\ status' = [status EXCEPT ![r] = "pending"]
    /\ due' = [due EXCEPT ![r] = TRUE]
    /\ UNCHANGED <<task, attempts, age, local, crashes>>

(* A batch is handed over in no particular order.                          *)
Orders(S) ==
    {q \in [1..Cardinality(S) -> S] : \A a, b \in DOMAIN q : q[a] = q[b] => a = b}

Smaller(m, n) == IF m < n THEN m ELSE n

(* Variant: no row of a dead worker comes back.                            *)
NoStaleRows == {}

(* Variant: finished rows are reclaimed too.                               *)
OlderOrDoneRows(older) == {r \in Rows : status[r] \in {"running", "done"} /\ age[r] >= older}

OlderRows(older) == {r \in Rows : status[r] = "running" /\ age[r] >= older}
StaleRows == OlderRows(Stale)
DueRows == {r \in Rows : status[r] = "pending" /\ due[r]}

(* Variant: only the first claim of a row is counted.                      *)
TickUncounted(w) ==
    /\ phase[w] = "idle"
    /\ \E claim \in SUBSET (DueRows \cup StaleRows) :
          /\ claim # {}
          /\ Cardinality(claim) = Smaller(BatchSize, Cardinality(DueRows \cup StaleRows))
          /\ claim \subseteq DueRows \/ DueRows \subseteq claim
          /\ status' = [r \in Rows |-> IF r \in claim THEN "running"
                                       ELSE IF r \in StaleRows THEN "pending" ELSE status[r]]
          /\ attempts' = [r \in Rows |-> IF r \in claim /\ age[r] = NotStarted THEN attempts[r] + 1 ELSE attempts[r]]
          /\ age' = [r \in Rows |-> IF r \in claim /\ age[r] = NotStarted THEN 0 ELSE age[r]]
          /\ due' = [r \in Rows |-> due[r] \/ r \in StaleRows]
          /\ \E q \in Orders(claim) :
                batch' = [batch EXCEPT ![w] =
                    [i \in DOMAIN q |-> [row |-> q[i], attempts |-> attempts'[q[i]]]]]
    /\ phase' = [phase EXCEPT ![w] = "run"]
    /\ held' = [held EXCEPT ![w] = 0]
    /\ UNCHANGED <<task, crashes>>

(* The first transaction of tick: reclaim_stale_running, by the age of     *)
(* started_at, and claim_due, which fills the batch with due rows before   *)
(* the ones it has just reclaimed.  A claim sets started_at only if it is  *)
(* NULL.                                                                   *)
Tick(w) ==
    /\ phase[w] = "idle"
    /\ \E claim \in SUBSET (DueRows \cup StaleRows) :
          /\ claim # {}
          /\ Cardinality(claim) = Smaller(BatchSize, Cardinality(DueRows \cup StaleRows))
          /\ claim \subseteq DueRows \/ DueRows \subseteq claim
          /\ status' = [r \in Rows |-> IF r \in claim THEN "running"
                                       ELSE IF r \in StaleRows THEN "pending" ELSE status[r]]
          /\ attempts' = [r \in Rows |-> IF r \in claim THEN attempts[r] + 1 ELSE attempts[r]]
          /\ age' = [r \in Rows |-> IF r \in claim /\ age[r] = NotStarted THEN 0 ELSE age[r]]
          /\ due' = [r \in Rows |-> due[r] \/ r \in StaleRows]
          /\ \E q \in Orders(claim) :
                batch' = [batch EXCEPT ![w] =
                    [i \in DOMAIN q |-> [row |-> q[i], attempts |-> attempts'[q[i]]]]]
    /\ phase' = [phase EXCEPT ![w] = "run"]
    /\ held' = [held EXCEPT ![w] = 0]
    /\ UNCHANGED <<task, crashes>>

(* POST /admin/reclaim-stale: the same with any age, and nobody claims.    *)
ReclaimStale(older) ==
    /\ older \in AdminAges
    /\ OlderRows(older) # {}
    /\ status' = [r \in Rows |-> IF r \in OlderRows(older) THEN "pending" ELSE status[r]]
    /\ due' = [r \in Rows |-> due[r] \/ r \in OlderRows(older)]
    /\ UNCHANGED <<task, attempts, age, local, crashes>>

(* process_work_item runs the step of the first row.                       *)
StepReturns(w) ==
    /\ phase[w] = "run"
    /\ phase' = [phase EXCEPT ![w] = "done"]
    /\ UNCHANGED <<rows, batch, held, crashes>>

StepRaises(w) ==
    /\ phase[w] = "run"
    /\ phase' = [phase EXCEPT ![w] = "failed"]
    /\ UNCHANGED <<rows, batch, held, crashes>>

(* The worker turns to the next row of its batch.                          *)
NextRow(w) ==
    /\ batch' = [batch EXCEPT ![w] = Tail(@)]
    /\ phase' = [phase EXCEPT ![w] = IF Len(batch[w]) > 1 THEN "run" ELSE "idle"]
    /\ held' = [held EXCEPT ![w] = IF Len(batch[w]) > 1 THEN @ ELSE 0]

(* mark_done and mark_failure name the row by its id only: whatever has    *)
(* become of it meanwhile is overwritten.                                  *)
MarkDone(w) ==
    /\ phase[w] = "done"
    /\ status' = [status EXCEPT ![Head(batch[w]).row] = "done"]
    /\ NextRow(w)
    /\ UNCHANGED <<task, attempts, age, due, crashes>>

(* mark_done raises inside the try block that mark_failure follows.        *)
MarkDoneRaises(w) ==
    /\ phase[w] = "done"
    /\ phase' = [phase EXCEPT ![w] = "failed"]
    /\ UNCHANGED <<rows, batch, held, crashes>>

(* Variant: one attempt too few.                                           *)
ExhaustedEarly(claim) == claim.attempts + 1 >= MaxAttempts

Exhausted(claim) == claim.attempts >= MaxAttempts

MarkDead(w) ==
    /\ phase[w] = "failed"
    /\ Exhausted(Head(batch[w]))
    /\ status' = [status EXCEPT ![Head(batch[w]).row] = "dead"]
    /\ NextRow(w)
    /\ UNCHANGED <<task, attempts, age, due, crashes>>

(* A row that is not active any more cannot become pending while its task  *)
(* has another active row: the unique index refuses the update.            *)
IndexRefuses(r) == status[r] \notin Active /\ ActiveRows(task[r]) # {}

MarkRetry(w) ==
    LET r == Head(batch[w]).row
    IN /\ phase[w] = "failed"
       /\ ~Exhausted(Head(batch[w]))
       /\ ~IndexRefuses(r)
       /\ status' = [status EXCEPT ![r] = "pending"]
       /\ due' = [due EXCEPT ![r] = FALSE]
       /\ NextRow(w)
       /\ UNCHANGED <<task, attempts, age, crashes>>

(* The claimed rows are forgotten, and stay running.                       *)
Abandon(w) ==
    /\ batch' = [batch EXCEPT ![w] = <<>>]
    /\ phase' = [phase EXCEPT ![w] = "idle"]
    /\ held' = [held EXCEPT ![w] = 0]
    /\ UNCHANGED rows

(* The refusal is raised from the except block and ends the tick: the rest *)
(* of the batch is abandoned in running.                                   *)
MarkRetryRaises(w) ==
    /\ phase[w] = "failed"
    /\ ~Exhausted(Head(batch[w]))
    /\ IndexRefuses(Head(batch[w]).row)
    /\ Abandon(w)
    /\ UNCHANGED crashes

(* The process dies and is started again.                                  *)
Crash(w) ==
    /\ phase[w] # "idle"
    /\ crashes < MaxCrashes
    /\ crashes' = crashes + 1
    /\ Abandon(w)

-----------------------------------------------------------------------------
FallDue(r) ==
    /\ status[r] = "pending" /\ ~due[r]
    /\ due' = [due EXCEPT ![r] = TRUE]
    /\ UNCHANGED <<task, status, attempts, age, local, crashes>>

(* A tick of the clock.  Claims and rows age together.                     *)
Elapse ==
    /\ age' = [r \in Rows |-> IF age[r] = NotStarted THEN age[r] ELSE Smaller(age[r] + 1, Stale)]
    /\ held' = [w \in Workers |-> IF phase[w] = "idle" THEN 0 ELSE Smaller(held[w] + 1, Stale)]
    /\ due' = [r \in Rows |-> due[r] \/ status[r] = "pending"]
    /\ UNCHANGED <<task, status, attempts, batch, phase, crashes>>

WorkerNext(w) ==
    \/ StepReturns(w)
    \/ StepRaises(w)
    \/ MarkDone(w)
    \/ MarkDoneRaises(w)
    \/ MarkDead(w)
    \/ MarkRetry(w)
    \/ MarkRetryRaises(w)

Next ==
    \/ \E r \in Rows : Enqueue(r) \/ FallDue(r)
    \/ \E w \in Workers : Tick(w) \/ WorkerNext(w) \/ Crash(w)
    \/ \E older \in 0..Stale : ReclaimStale(older)
    \/ Elapse

Spec == Init /\ [][Next]_vars

(* The workers' loops never end (run_forever), a step ends (its calls have *)
(* timeouts), time passes.  Crashes are finitely many by MaxCrashes.       *)
Fairness ==
    /\ \A w \in Workers : WF_vars(Tick(w)) /\ WF_vars(WorkerNext(w))
    /\ WF_vars(Elapse)

FairSpec == Spec /\ Fairness

-----------------------------------------------------------------------------
Claims(w) == {batch[w][i] : i \in DOMAIN batch[w]}

(* A job's step is queued once, whatever late marks and new requests do    *)
(* (PHASE2_REPORT.md 111: one active work row per job and step).           *)
OneActiveRow == \A t \in Tasks : Cardinality(ActiveRows(t)) <= 1

(* Nothing is given up before max_attempts claims of it, although marks    *)
(* arrive late and out of order from claims that were reclaimed.           *)
DeadMeansExhausted == \A r \in Rows : status[r] = "dead" => attempts[r] >= MaxAttempts

(* The attempts that a claim returned tell it from every other claim of    *)
(* the row that is still in some worker's hands: a mark that compared them *)
(* would be fenced, and mark_failure's snapshot is never ahead of the row. *)
AttemptsTellClaims ==
    \A v, w \in Workers : \A a \in Claims(v), b \in Claims(w) :
        /\ a.attempts <= attempts[a.row]
        /\ a.row = b.row /\ a.attempts = b.attempts => v = w

(* A done or dead row is opened again, or changes its verdict, only if it  *)
(* was claimed more than once: a late mark does that, and nothing happens  *)
(* to a row that its first claim has settled (queue.py 121 and 143 name    *)
(* the row by its id, whatever its status).                                *)
ReopenedOnlyAfterReclaim ==
    [][\A r \in Rows : status[r] \in {"done", "dead"} /\ status'[r] # status[r] =>
          attempts[r] >= 2]_vars

(* Every row that is queued is done or given up in the end: the rows of a  *)
(* worker that died come back, and no row is retried for ever.             *)
Settles == \A r \in Rows : status[r] \in Active ~> status[r] \in {"done", "dead"}

(* queue.py 200: reclaim_stale_running resets "stuck running rows to       *)
(* pending after a worker crash", and only rows older than                 *)
(* WORK_QUEUE_STALE_SECONDS: a claim younger than that is the only one of  *)
(* its row.                                                                *)
FreshClaimIsSole ==
    \A v, w \in Workers : \A a \in Claims(v), b \in Claims(w) :
        a.row = b.row /\ a.attempts < b.attempts => held[v] >= Stale

-----------------------------------------------------------------------------
(* The rows as the callers of enqueue see them, without workers and time.  *)
Seen == [r \in Rows |-> IF status[r] \in Active THEN "open" ELSE status[r]]

Promise == INSTANCE WorkPromise WITH
    Patience <- MaxAttempts, of <- task, state <- Seen, tries <- attempts

(* Claims, reclaims, marks that come late and refusals of the index change *)
(* the rows only as WorkPromise allows (queue.py 26 to 221).               *)
ImplementsPromise == Promise!Spec

=============================================================================
