---------------------------- MODULE ReconcileSweep ----------------------------
(***************************************************************************)
(* The sweep over stuck jobs (src/app/services/pipeline.py,                *)
(* reconcile_stuck): every reconcile interval the worker takes the Limit   *)
(* jobs that have been rendering or generating audio the longest, by       *)
(* updated_at, and reconciles them one by one.  A job that cannot be       *)
(* resolved is not written to, so it is among the oldest next time too.    *)
(* What reconciling one job does to its keys, assets and events is in      *)
(* Pipeline; here it is the queue that matters: who is ever looked at.     *)
(*                                                                         *)
(* updated_at is now(), the time at which the writing transaction began:   *)
(* of two that overlap the later to commit may be the earlier in the       *)
(* queue.  A transaction is taken to be shorter than the threshold         *)
(* (stuck_job_seconds), so a job that is written to is young.              *)
(***************************************************************************)
EXTENDS Integers, Sequences, SequencesExt

CONSTANTS
    Jobs,
    Dual,        \* the jobs that bought a second, horizontal video
    Limit,       \* jobs per sweep
    MaxFailures  \* bound: calls to get_video that fail for no reason of the
                 \* video, and deaths of the worker in a sweep

ASSUME SweepAssumption ==
    /\ Dual \subseteq Jobs
    /\ Limit \in Nat \ {0}
    /\ MaxFailures \in Nat

VARIABLES
    status,   \* "ready" before a provider step, "out" when staged or failed
    video,    \* HeyGen's status of the recorded video, "none" without one
    calling,  \* jobs whose provider call is in the hands of a live worker
    horizontal, \* how far each job's horizontal video is
    order,    \* the stuck-eligible jobs by updated_at
    aged,     \* how many of them, from the front, are older than the threshold
    todo,     \* jobs the current sweep has selected and not reconciled
    failures  \* history: failed calls and deaths so far

vars == <<status, video, calling, horizontal, order, aged, todo, failures>>

StuckEligible == {"rendering", "audio_generating"}

TypeOK ==
    /\ status \in [Jobs -> {"ready", "audio_ready", "out"} \cup StuckEligible]
    /\ video \in [Jobs -> {"none", "processing", "ended", "unknown"}]
    /\ calling \subseteq Jobs
    /\ horizontal \in [Jobs -> {"none", "reserved", "failed", "recorded", "reported"}]
    /\ \A j \in Jobs \ Dual : horizontal[j] = "none"
    /\ order \in Seq(Jobs) /\ IsInjective(order)
    /\ ToSet(order) = {j \in Jobs : status[j] \in StuckEligible}
    /\ aged \in 0..Len(order)
    /\ todo \in Seq(Jobs) /\ Len(todo) <= Limit
    /\ failures \in 0..MaxFailures

Init ==
    /\ status = [j \in Jobs |-> "ready"]
    /\ video = [j \in Jobs |-> "none"]
    /\ calling = {}
    /\ horizontal = [j \in Jobs |-> "none"]
    /\ order = <<>> /\ aged = 0
    /\ todo = <<>>
    /\ failures = 0

-----------------------------------------------------------------------------
(* The job's place among the stuck, and who is ahead of it.                *)

Place(j) == CHOOSE i \in DOMAIN order : order[i] = j

Ahead(j) == {order[i] : i \in 1..(Place(j) - 1)}

Without(j) == IF j \in ToSet(order) THEN RemoveAt(order, Place(j)) ELSE order
AgedWithout(j) == IF j \in ToSet(order) /\ Place(j) <= aged THEN aged - 1 ELSE aged

(* Variant: ORDER BY updated_at DESC.                                      *)
ToFront(j) ==
    /\ order' = <<j>> \o Without(j)
    /\ aged' = AgedWithout(j)

(* updated_at = now(): the job is young again, and behind all that are old *)
(* but not always behind all that are young.                               *)
Touch(j) ==
    /\ aged' = AgedWithout(j)
    /\ \E i \in (aged' + 1)..(Len(Without(j)) + 1) : order' = InsertAt(Without(j), i, j)

Resolve(j, s) ==
    /\ status' = [status EXCEPT ![j] = s]
    /\ order' = Without(j)
    /\ aged' = AgedWithout(j)

-----------------------------------------------------------------------------
(* What happens to the jobs meanwhile.                                     *)

(* The first transaction of generate_audio, or of render or                *)
(* generate_avatar.                                                        *)
Begin(j) ==
    /\ \/ status[j] = "ready" /\ \E s \in StuckEligible : status' = [status EXCEPT ![j] = s]
       \/ status[j] = "audio_ready" /\ status' = [status EXCEPT ![j] = "rendering"]
    /\ Touch(j)
    /\ calling' = calling \cup {j}
    /\ UNCHANGED <<video, horizontal, todo, failures>>

(* generate_avatar reserves the horizontal video once HeyGen has accepted  *)
(* the first, and writes to the job as it does.                            *)
ReserveHorizontal(j) ==
    /\ j \in calling \cap Dual /\ status[j] = "rendering"
    /\ horizontal[j] = "none"
    /\ horizontal' = [horizontal EXCEPT ![j] = "reserved"]
    /\ Touch(j)
    /\ UNCHANGED <<status, video, calling, todo, failures>>

(* The image gate or HeyGen refuses it.                                    *)
HorizontalFails(j) ==
    /\ j \in calling \cap Dual /\ status[j] = "rendering"
    /\ horizontal[j] \in {"none", "reserved"}
    /\ horizontal' = [horizontal EXCEPT ![j] = "failed"]
    /\ Touch(j)
    /\ UNCHANGED <<status, video, calling, todo, failures>>

(* The last transaction of generate_avatar.  It writes to the job only if  *)
(* it has a horizontal video to record.                                    *)
RecordVideo(j) ==
    /\ j \in calling /\ status[j] = "rendering"
    /\ j \in Dual => horizontal[j] # "none"
    /\ video' = [video EXCEPT ![j] = "processing"]
    /\ calling' = calling \ {j}
    /\ IF horizontal[j] = "reserved"
       THEN horizontal' = [horizontal EXCEPT ![j] = "recorded"] /\ Touch(j)
       ELSE UNCHANGED <<horizontal, order, aged>>
    /\ UNCHANGED <<status, todo, failures>>

(* The second transaction of generate_audio or render; the advance is      *)
(* refused if the job has left the step meanwhile.                         *)
CallReturns(j) ==
    /\ j \in calling
    /\ status[j] = "rendering" => horizontal[j] = "none"
    /\ calling' = calling \ {j}
    /\ CASE status[j] = "audio_generating" -> Resolve(j, "audio_ready")
         [] status[j] = "rendering" -> Resolve(j, "out")
         [] OTHER -> UNCHANGED <<status, order, aged>>
    /\ UNCHANGED <<video, horizontal, todo, failures>>

(* The provider refuses it, before a horizontal video is asked for.        *)
CallFails(j) ==
    /\ j \in calling
    /\ horizontal[j] = "none"
    /\ calling' = calling \ {j}
    /\ IF status[j] \in StuckEligible THEN Resolve(j, "out") ELSE UNCHANGED <<status, order, aged>>
    /\ UNCHANGED <<video, horizontal, todo, failures>>

(* The worker dies with the call out, and nothing tells the job.           *)
Die(j) ==
    /\ j \in calling
    /\ calling' = calling \ {j}
    /\ UNCHANGED <<status, video, horizontal, order, aged, todo, failures>>

(* HeyGen finishes the video or gives it up, or forgets it: get_video then *)
(* raises.                                                                 *)
VideoEnds(j) ==
    /\ video[j] = "processing"
    /\ \E s \in {"ended", "unknown"} : video' = [video EXCEPT ![j] = s]
    /\ UNCHANGED <<status, calling, horizontal, order, aged, todo, failures>>

(* complete_heygen_webhook for the primary video, made or given up.        *)
Apply(j) ==
    /\ status[j] \in StuckEligible
    /\ video[j] = "ended"
    /\ Resolve(j, "out")

(* The webhook comes, if it comes at all.                                  *)
Webhook(j) ==
    /\ Apply(j)
    /\ UNCHANGED <<video, calling, horizontal, todo, failures>>

(* The webhook of the horizontal video: made, it touches the job whatever  *)
(* the job's status; given up, it does not.                                *)
WebhookHorizontal(j) ==
    /\ horizontal[j] = "recorded"
    /\ horizontal' = [horizontal EXCEPT ![j] = "reported"]
    /\ \/ status[j] \in StuckEligible /\ Touch(j)
       \/ UNCHANGED <<order, aged>>
    /\ UNCHANGED <<status, video, calling, todo, failures>>

(* advance_job: an operator gives the job up.                              *)
GiveUp(j) ==
    /\ status[j] \in StuckEligible
    /\ Resolve(j, "out")
    /\ UNCHANGED <<video, calling, horizontal, todo, failures>>

(* Time passes: the oldest young job reaches the threshold.                *)
GrowOld ==
    /\ aged < Len(order)
    /\ aged' = aged + 1
    /\ UNCHANGED <<status, video, calling, horizontal, order, todo, failures>>

-----------------------------------------------------------------------------
(* The sweep.                                                              *)

Smaller(m, n) == IF m < n THEN m ELSE n

(* Variant: the youngest of the old are taken first.                       *)
SelectLatest == SubSeq(order, aged - Smaller(aged, Limit) + 1, aged)

Select == SubSeq(order, 1, Smaller(aged, Limit))

Sweep ==
    /\ todo = <<>> /\ aged > 0
    /\ todo' = Select
    /\ UNCHANGED <<status, video, calling, horizontal, order, aged, failures>>

(* Variant: whatever has no video is failed.                               *)
ReconcileNoHandle(j) ==
    /\ failures' = failures
    /\ \/ Apply(j)
       \/ status[j] \in StuckEligible /\ video[j] = "none" /\ Resolve(j, "out")
       \/ /\ status[j] \notin StuckEligible \/ video[j] \in {"processing", "unknown"}
          /\ UNCHANGED <<status, order, aged>>

(* reconcile_job, which looks at the job again: it may have left the step. *)
(* Without a recorded video a narration is failed and a rendering passed   *)
(* over; a video that is being made, or that HeyGen does not know, leaves  *)
(* the job as it is.                                                       *)
ReconcileJob(j) ==
    /\ failures' = failures
    /\ \/ Apply(j)
       \/ status[j] = "audio_generating" /\ video[j] = "none" /\ Resolve(j, "out")
       \/ /\ \/ status[j] \notin StuckEligible
             \/ video[j] = "none" /\ status[j] = "rendering"
             \/ video[j] \in {"processing", "unknown"}
          /\ UNCHANGED <<status, order, aged>>

GetVideoRaises(j) ==
    /\ status[j] \in StuckEligible /\ video[j] # "none"
    /\ failures < MaxFailures /\ failures' = failures + 1
    /\ UNCHANGED <<status, order, aged>>

(* The next job of the sweep.  What it raises is swallowed.                *)
ReconcileNext ==
    /\ todo # <<>>
    /\ ReconcileJob(Head(todo)) \/ GetVideoRaises(Head(todo))
    /\ todo' = Tail(todo)
    /\ UNCHANGED <<video, calling, horizontal>>

(* POST /jobs/{id}/reconcile, at any age.                                  *)
ReconcileOne(j) ==
    /\ status[j] \in StuckEligible
    /\ ReconcileJob(j)
    /\ UNCHANGED <<video, calling, horizontal, todo>>

Crash ==
    /\ todo # <<>>
    /\ failures < MaxFailures /\ failures' = failures + 1
    /\ todo' = <<>>
    /\ UNCHANGED <<status, video, calling, horizontal, order, aged>>

Next ==
    \/ \E j \in Jobs :
          \/ Begin(j) \/ ReserveHorizontal(j) \/ HorizontalFails(j) \/ RecordVideo(j)
          \/ CallReturns(j) \/ CallFails(j) \/ Die(j) \/ VideoEnds(j)
          \/ Webhook(j) \/ WebhookHorizontal(j) \/ GiveUp(j) \/ ReconcileOne(j)
    \/ GrowOld \/ Sweep \/ ReconcileNext \/ Crash

Spec == Init /\ [][Next]_vars

(* The worker's loop sweeps again and again (run_forever) and a sweep goes *)
(* on until its jobs are done or it dies; time passes; a call comes back,  *)
(* is refused or times out.  Nothing is assumed of webhooks, of operators  *)
(* or of a video that is being made.                                       *)
Fairness ==
    /\ WF_vars(GrowOld) /\ WF_vars(Sweep) /\ WF_vars(ReconcileNext)
    /\ \A j \in Jobs : WF_vars(RecordVideo(j) \/ CallReturns(j) \/ CallFails(j) \/ Die(j))

FairSpec == Spec /\ Fairness

-----------------------------------------------------------------------------
(* Reconciling the job would end its step.                                 *)
Resolvable(j) ==
    \/ status[j] = "audio_generating" /\ video[j] = "none"
    \/ status[j] \in StuckEligible /\ video[j] = "ended"

(* Limit jobs that cannot be resolved are older.                           *)
Crowded(j) ==
    /\ j \in ToSet(order)
    /\ Cardinality({i \in 1..(Place(j) - 1) : ~Resolvable(order[i])}) >= Limit

(* A job that is old waits its turn (ORDER BY updated_at, pipeline.py      *)
(* 738): the jobs ahead of it only become fewer, whatever calls return,    *)
(* webhooks come, operators do and writes overlap.                         *)
NobodyOvertakes ==
    [][\A j \in Jobs :
          j \in ToSet(order) /\ j \in ToSet(order') /\ Place(j)' <= aged' =>
              Ahead(j)' \subseteq Ahead(j)]_vars

(* A sweep at the time of which an old job can be resolved and is not      *)
(* crowded out takes at least one job that it can resolve: Limit jobs that *)
(* cannot be are the only way for a sweep to be in vain.                   *)
SweepsAreOfUse ==
    [][\A j \in Jobs :
          Sweep /\ Resolvable(j) /\ Place(j) <= aged /\ ~Crowded(j) =>
              \E k \in ToSet(todo') : Resolvable(k)]_vars

(* A job whose video has ended, or whose narration has lost its worker, is *)
(* resolved although every webhook is lost, workers die and calls fail,    *)
(* unless Limit jobs that cannot be resolved stay in front of it for ever  *)
(* (PHASE2_REPORT.md 110: periodic reconcile_stuck).                       *)
StuckResolves ==
    \A j \in Jobs : [](Resolvable(j) => <>(~Resolvable(j) \/ []Crowded(j)))

(* A rendering whose video is not recorded is ended by its own call or by  *)
(* an operator: no sweep takes it from a worker that is merely slow, and   *)
(* none resolves it when the worker has died (pipeline.py 689, unlike the  *)
(* narration of 683).                                                      *)
RenderingEndsByItsCall ==
    [][\A j \in Jobs :
          status[j] = "rendering" /\ video[j] = "none" /\ status'[j] # "rendering" =>
              GiveUp(j) \/ (j \in calling /\ j \notin calling')]_vars

=============================================================================
