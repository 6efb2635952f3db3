------------------------------- MODULE SotJob -------------------------------
(***************************************************************************)
(* A job on the source-of-truth schema (src/supabase/migrations): its      *)
(* status, its lock, its attempts, its dead letters and the end of its     *)
(* timeline, as create_job, claim_job, transition_job and                  *)
(* reclaim_stuck_jobs write them, each in one transaction.                 *)
(*                                                                         *)
(* The TTS and render lanes, which migrations 002 and 004 treat alike; the *)
(* image lane and its gate are in ImageGate.  A quality or image gate that *)
(* refuses is a call that has no effect.                                   *)
(*                                                                         *)
(* Every migration declares transition_job with one more parameter and     *)
(* drops none of the older functions, and all but two parameters have      *)
(* defaults: PostgreSQL answers a call that two of them could take with    *)
(* "function is not unique".                                               *)
(***************************************************************************)
EXTENDS Integers, FiniteSets, JobStatus

CONSTANTS
    Jobs,
    Workers,
    Overloads,    \* parameters of the installed functions transition_job
    Batch,        \* claim_job's p_limit
    MaxAttempts,  \* jobs.max_attempts
    MaxFailures   \* bound: failures before a job is queued once more

ASSUME SotAssumption ==
    /\ Overloads \subseteq 7..9 /\ Overloads # {}
    /\ Batch \in Nat \ {0}
    /\ MaxAttempts \in Nat \ {0}
    /\ MaxFailures \in Nat

CONSTANT None

ASSUME NoneAssumption == None \notin Workers /\ None \notin Jobs

VARIABLES
    status,    \* "absent" before create_job
    lockedBy,  \* jobs.locked_by
    lock,      \* jobs.locked_at: null, less than two seconds old, older, stale
    attempt,   \* jobs.attempt
    letters,   \* rows of job_dead_letters
    last,      \* to_status of the newest job_events row
    calling,   \* the job each worker has claimed and calls a provider for
    lost       \* history: workers whose job has left the claim meanwhile

columns == <<status, lockedBy, lock, attempt, letters, last>>
vars == <<columns, calling, lost>>

Failed == {"tts_failed", "render_failed"}
Running == {"tts_running", "render_running"}

Queues == {"tts_queued", "render_queued"}

Status ==
    CanonicalStatus \ {"image_queued", "image_running", "image_ready", "image_failed",
                       "needs_human_review"}

(* The ends of a lane: the lock is cleared.                                *)
Unlocking == {"tts_done", "tts_failed", "render_done", "render_failed", "cancelled", "dead"}

TypeOK ==
    /\ status \in [Jobs -> Status \cup {"absent"}]
    /\ lockedBy \in [Jobs -> Workers \cup {None}]
    /\ lock \in [Jobs -> {"null", "recent", "held", "stale"}]
    /\ attempt \in [Jobs -> 0..MaxFailures]
    /\ letters \in [Jobs -> Nat]
    /\ last \in [Jobs -> Status \cup {"absent"}]
    /\ calling \in [Workers -> Jobs \cup {None}]
    /\ lost \subseteq Workers

Init ==
    /\ status = [j \in Jobs |-> "absent"]
    /\ lockedBy = [j \in Jobs |-> None]
    /\ lock = [j \in Jobs |-> "null"]
    /\ attempt = [j \in Jobs |-> 0]
    /\ letters = [j \in Jobs |-> 0]
    /\ last = [j \in Jobs |-> "absent"]
    /\ calling = [w \in Workers |-> None]
    /\ lost = {}

-----------------------------------------------------------------------------
(* create_job; a second call with the same inputs returns the row.  It     *)
(* writes no event.                                                        *)
Create(j) ==
    /\ status[j] = "absent"
    /\ status' = [status EXCEPT ![j] = "draft"]
    /\ UNCHANGED <<lockedBy, lock, attempt, letters, last, calling, lost>>

(* The functions that a call with n arguments could mean.                  *)
Candidates(n) == {a \in Overloads : n <= a}

Resolves(n) == \E a \in Candidates(n) : Candidates(n) = {a}

(* Variant: an attempt too many.                                           *)
ExhaustedLate(j, to) == to \in Failed /\ attempt[j] >= MaxAttempts

(* A failure that uses up the attempts: the job is dead at once.           *)
Exhausted(j, to) == to \in Failed /\ attempt[j] + 1 >= MaxAttempts

(* Variant: a step that fails keeps its lock.                              *)
LockKept(j, to) ==
    IF to \in Running THEN "recent" ELSE IF to \in Unlocking \ Failed THEN "null" ELSE lock[j]

(* The columns of job j after a move to status to.                         *)
LockAfter(j, to) ==
    IF to \in Running THEN "recent" ELSE IF to \in Unlocking THEN "null" ELSE lock[j]

LockedByAfter(j, to, by) ==
    IF to \in Running THEN (IF by = None THEN lockedBy[j] ELSE by)
    ELSE IF to \in Unlocking THEN None ELSE lockedBy[j]

(* Variant: the event of a last failure names the failure.                 *)
LastRequested(j, to) == to

LastAfter(j, to) == IF Exhausted(j, to) THEN "dead" ELSE to

(* The workers whose claim ends when the jobs S leave their status.        *)
Losers(S) == {w \in Workers : calling[w] \in S /\ status[calling[w]] \in Running}

(* transition_job for every job of S, job j to to[j].                      *)
Move(S, to, by) ==
    /\ \A j \in S : to[j] \in CanonicalTransitions[status[j]] \cap Status
    /\ \A j \in S : to[j] \in Queues => attempt[j] < MaxFailures
    /\ status' = [j \in Jobs |-> IF j \notin S THEN status[j]
                                 ELSE IF Exhausted(j, to[j]) THEN "dead" ELSE to[j]]
    /\ attempt' = [j \in Jobs |-> IF j \in S /\ to[j] \in Failed THEN attempt[j] + 1 ELSE attempt[j]]
    /\ letters' = [j \in Jobs |-> IF j \in S /\ Exhausted(j, to[j]) THEN letters[j] + 1 ELSE letters[j]]
    /\ lock' = [j \in Jobs |-> IF j \in S THEN LockAfter(j, to[j]) ELSE lock[j]]
    /\ lockedBy' = [j \in Jobs |-> IF j \in S THEN LockedByAfter(j, to[j], by) ELSE lockedBy[j]]
    /\ last' = [j \in Jobs |-> IF j \in S THEN LastAfter(j, to[j]) ELSE last[j]]

(* transition_job by an operator or the service (state_machine.py,         *)
(* transition), which name every parameter.                                *)
Transition(j, to, by) ==
    /\ status[j] # "absent"
    /\ Move({j}, [i \in {j} |-> to], by)
    /\ lost' = lost \cup Losers({j})
    /\ UNCHANGED calling

Queued(to) == IF to = "tts_running" THEN "tts_queued" ELSE "render_queued"

(* Variant: whatever is running may be claimed as well.                    *)
ClaimableRunning(to) == {j \in Jobs : status[j] \in {Queued(to), to}}

Claimable(to) == {j \in Jobs : status[j] = Queued(to)}

(* claim_job.  SKIP LOCKED: two calls at once pick different rows.  The    *)
(* events it writes are those of every row the worker has locked in the    *)
(* last two seconds, whichever call claimed it.  The worker then calls a   *)
(* provider for one of the rows.                                           *)
ClaimJob(w, to) ==
    /\ calling[w] = None
    /\ to \in Running
    /\ \E S \in SUBSET Claimable(to) :
          /\ S # {} /\ Cardinality(S) <= Batch
          /\ Cardinality(S) = Batch \/ S = Claimable(to)
          /\ status' = [j \in Jobs |-> IF j \in S THEN to ELSE status[j]]
          /\ lockedBy' = [j \in Jobs |-> IF j \in S THEN w ELSE lockedBy[j]]
          /\ lock' = [j \in Jobs |-> IF j \in S THEN "recent" ELSE lock[j]]
          /\ last' = [j \in Jobs |->
                IF lockedBy'[j] = w /\ status'[j] = to /\ lock'[j] = "recent" THEN to ELSE last[j]]
          /\ \E j \in S : calling' = [calling EXCEPT ![w] = j]
    /\ lost' = lost \ {w}
    /\ UNCHANGED <<attempt, letters>>

(* The provider answers, and the worker reports it by transition_job,      *)
(* which does not look at who holds the lock.                              *)
Finish(w, to) ==
    /\ calling[w] # None
    /\ to \in {"tts_done", "render_done"} \cup Failed
    /\ Move({calling[w]}, [i \in {calling[w]} |-> to], None)
    /\ calling' = [calling EXCEPT ![w] = None]
    /\ lost' = (lost \cup Losers({calling[w]})) \ {w}

(* The report is refused: the job has moved on.  Or the worker dies.       *)
Abandon(w) ==
    /\ calling[w] # None
    /\ calling' = [calling EXCEPT ![w] = None]
    /\ lost' = lost \ {w}
    /\ UNCHANGED columns

(* Variant: a lane is forgotten.                                           *)
StuckTts == {j \in Jobs : status[j] = "tts_running" /\ lock[j] = "stale"}

Stuck == {j \in Jobs : status[j] \in Running /\ lock[j] = "stale"}

(* reclaim_stuck_jobs: transition_job with eight arguments, for every row  *)
(* whose lock is stale.                                                    *)
ReclaimStuckJobs ==
    /\ Stuck # {}
    /\ Resolves(8)
    /\ Move(Stuck, [j \in Stuck |-> IF status[j] = "tts_running" THEN "tts_failed" ELSE "render_failed"], None)
    /\ lost' = lost \cup Losers(Stuck)
    /\ UNCHANGED calling

(* Locks grow older.                                                       *)
GrowOld(j) ==
    /\ \/ lock[j] = "recent" /\ lock' = [lock EXCEPT ![j] = "held"]
       \/ lock[j] = "held" /\ lock' = [lock EXCEPT ![j] = "stale"]
    /\ UNCHANGED <<status, lockedBy, attempt, letters, last, calling, lost>>

Next ==
    \/ \E j \in Jobs :
          \/ Create(j) \/ GrowOld(j)
          \/ \E to \in Status, by \in Workers \cup {None} : Transition(j, to, by)
    \/ \E w \in Workers :
          \/ \E to \in Status : ClaimJob(w, to) \/ Finish(w, to)
          \/ Abandon(w)
    \/ ReclaimStuckJobs

Spec == Init /\ [][Next]_vars

(* reclaim_stuck_jobs is called by a cron job every 5 to 15 minutes        *)
(* (supabase/README.md 103), and time passes.                              *)
Fairness == WF_vars(ReclaimStuckJobs) /\ \A j \in Jobs : WF_vars(GrowOld(j))

FairSpec == Spec /\ Fairness

-----------------------------------------------------------------------------
(* A job has locked_at while it runs and at no other time, on every path   *)
(* of claims, reports, cancellations and failures: without it              *)
(* reclaim_stuck_jobs would never find the row.                            *)
LockedWhileRunning ==
    \A j \in Jobs :
        /\ status[j] \in Running <=> lock[j] # "null"
        /\ lockedBy[j] # None => status[j] \in Running

(* A failed job has an attempt left, and every failure beyond the last     *)
(* attempt has left its dead letter, also those of a job that was requeued *)
(* from dead with its attempts used up.                                    *)
ExhaustedIsDead ==
    \A j \in Jobs :
        /\ status[j] \in Failed => attempt[j] < MaxAttempts
        /\ letters[j] = IF attempt[j] < MaxAttempts THEN 0 ELSE attempt[j] - MaxAttempts + 1

(* The newest event of a job's timeline names its status, also where       *)
(* claim_job writes events for rows of an earlier claim and where a        *)
(* failure writes the move to dead only.                                   *)
TimelineEndsAtStatus ==
    \A j \in Jobs : last[j] \in {status[j]} \cup (IF status[j] = "draft" THEN {"absent"} ELSE {})

(* Of two workers that call a provider for the same job one has lost its   *)
(* claim before the other came by its own (002 line 304: claim_job         *)
(* "prevents double paid provider calls"), and a claim that is not lost is *)
(* the one the row names.                                                  *)
OneClaimStands ==
    \A w \in Workers :
        calling[w] # None /\ w \notin lost =>
            /\ lockedBy[calling[w]] = w
            /\ \A v \in Workers \ {w} : calling[v] = calling[w] => v \in lost

(* A job whose worker has died does not run for ever: the lock gets stale  *)
(* and reclaim_stuck_jobs takes it (supabase/README.md 103: "Stuck         *)
(* reclaim").                                                              *)
StuckIsReclaimed == \A j \in Jobs : status[j] \in Running ~> status[j] \notin Running

=============================================================================
