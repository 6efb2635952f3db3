------------------------------ MODULE Pipeline ------------------------------
(***************************************************************************)
(* The job pipeline of the media state engine: the steps of                *)
(* src/app/services/pipeline.py that workers run for a job, the operator's *)
(* and the webhooks' operations of src/app/services/jobs.py, and the       *)
(* providers as the pipeline sees them.                                    *)
(*                                                                         *)
(* A database transaction is one action, unless it reads a row before it   *)
(* takes the job's row lock (get_key): then the read is an action of its   *)
(* own.  A call to a provider holds no transaction and is an action of its *)
(* own.  A transaction that raises changes nothing.  Which step of which   *)
(* job a worker picks up is left open: the work queue redelivers, and two  *)
(* workers may run the same step of the same job at once.                  *)
(***************************************************************************)
EXTENDS Integers, Sequences, JobStatus

CONSTANTS
    Jobs,            \* job ids
    Workers,         \* processes and requests that run steps
    PaidDual,        \* a second, horizontal HeyGen video is bought
    YouTube,         \* YouTube credentials and a local video file are present
    ManualTargets,   \* the statuses the operator asks for by POST /jobs/{id}/advance
    ExternalAssets,  \* the asset kinds posted from outside
    MaxUploads       \* bound: YouTube uploads per job

ASSUME PipelineAssumption ==
    /\ PaidDual \in BOOLEAN
    /\ YouTube \in BOOLEAN
    /\ ManualTargets \subseteq LegacyStatus
    /\ ExternalAssets \subseteq {"audio", "final"}
    /\ MaxUploads \in Nat

(* The steps that buy something, one idempotency key each:                 *)
(* {job}:audio, {job}:render, {job}:heygen-avatar, {job}:heygen-avatar-h.  *)
MainStep == {"audio", "render", "avatar"}
PaidStep == MainStep \cup {"avatar_h"}

AssetKind == {"audio", "video", "video_h", "final", "final_h"}

(* The status a step moves the job to before it calls its provider.        *)
Running == [s \in MainStep |-> IF s = "audio" THEN "audio_generating" ELSE "rendering"]

Phase == {"idle", "begin", "call", "fail", "store", "reserve_h", "call_h", "fail_h",
          "store_h", "upload", "persist", "deliver"}

VARIABLES
    status,      \* jobs.status, "absent" before the job is created
    events,      \* rows of events, oldest first
    approvedBy,  \* jobs.approved_by is set
    keys,        \* idempotency_keys: "none", unfinished, or finished
    assets,      \* kinds in assets; UNIQUE(job_id, kind)
    outbox,      \* webhook_outbox rows of the job
    uploadId,    \* jobs.meta.youtube_upload_id is set
    video,       \* HeyGen's record of the job's videos
    billed,      \* history: calls a provider charges for
    uploads,     \* history: videos that exist on YouTube
    phase,       \* where each worker is
    step,        \* the step it runs
    task,        \* the job it runs it for
    seen         \* what its first read returned

db == <<status, events, approvedBy, keys, assets, outbox, uploadId>>
world == <<video, billed, uploads>>
local == <<phase, step, task, seen>>
vars == <<status, events, approvedBy, keys, assets, outbox, uploadId,
          video, billed, uploads, phase, step, task, seen>>

-----------------------------------------------------------------------------
(* Status changes: state_machine._legacy_advance.                          *)

Exists(j) == status[j] # "absent"

(* Variant: a failed job may run its step again.                           *)
FailedMayRetry(from, to) ==
    /\ from \in LegacyStatus
    /\ \/ to \in LegacyTransitions[from]
       \/ from = "failed" /\ to \in {"audio_generating", "rendering"}

CanAdvance(from, to) == from \in LegacyStatus /\ to \in LegacyTransitions[from]

(* Of an event's payload only who asked for the advance is kept: the       *)
(* system's own steps name themselves in it.                               *)
EventRow == [from : LegacyStatus, to : LegacyStatus, by : {"system", "operator"}]

Event(from, to, by) == [from |-> from, to |-> to, by |-> by]

(* One advance: the status and its event row, in the caller's transaction. *)
AdvanceBy(j, to, by) ==
    /\ CanAdvance(status[j], to)
    /\ status' = [status EXCEPT ![j] = to]
    /\ events' = [events EXCEPT ![j] = Append(@, Event(status[j], to, by))]

Advance(j, to) == AdvanceBy(j, to, "system")

(* Variant: only the last of the two advances leaves an event.             *)
AdvanceToStagedSilently(j) ==
    /\ CanAdvance(status[j], "rendered")
    /\ status' = [status EXCEPT ![j] = "staged"]
    /\ events' = [events EXCEPT ![j] = Append(@, Event("rendered", "staged", "system"))]
    /\ outbox' = [outbox EXCEPT ![j] = @ + 1]

(* Two advances in one transaction: rendered, then staged for approval     *)
(* with the review notice (_stage_for_approval).                           *)
AdvanceToStaged(j) ==
    /\ CanAdvance(status[j], "rendered")
    /\ status' = [status EXCEPT ![j] = "staged"]
    /\ events' = [events EXCEPT ![j] = @ \o <<Event(status[j], "rendered", "system"),
                                              Event("rendered", "staged", "system")>>]
    /\ outbox' = [outbox EXCEPT ![j] = @ + 1]

(* pipeline._fail_step: the key is cleared and the job failed; a job that  *)
(* has failed already only loses the key; any other refusal rolls back.    *)
FailStep(j, s) ==
    /\ keys' = [keys EXCEPT ![j][s] = "none"]
    /\ \/ Advance(j, "failed")
       \/ status[j] = "failed" /\ UNCHANGED <<status, events>>

-----------------------------------------------------------------------------
(* The API: create, generic advance, approve, assets.                      *)

CreateJob(j) ==
    /\ ~Exists(j)
    /\ \/ /\ status' = [status EXCEPT ![j] = "pending"]
          /\ UNCHANGED events
       \/ /\ status' = [status EXCEPT ![j] = "script_ready"]
          /\ events' = [events EXCEPT ![j] = Append(@, Event("pending", "script_ready", "system"))]
    /\ UNCHANGED <<approvedBy, keys, assets, outbox, uploadId, world, local>>

(* Variant: without the refusal of approved and delivered (audit F5).      *)
AdvanceJobAnywhere(j, to) ==
    /\ to \in ManualTargets
    /\ AdvanceBy(j, to, "operator")
    /\ UNCHANGED <<approvedBy, keys, assets, outbox, uploadId, world, local>>

AdvanceJob(j, to) ==
    /\ to \in ManualTargets \ {"approved", "delivered"}
    /\ AdvanceBy(j, to, "operator")
    /\ UNCHANGED <<approvedBy, keys, assets, outbox, uploadId, world, local>>

ApproveJob(j) ==
    /\ status[j] = "staged"
    /\ approvedBy' = [approvedBy EXCEPT ![j] = TRUE]
    /\ Advance(j, "approved")
    /\ UNCHANGED <<keys, assets, outbox, uploadId, world, local>>

AddAsset(j, kind) ==
    /\ Exists(j)
    /\ kind \in ExternalAssets \ assets[j]
    /\ assets' = [assets EXCEPT ![j] = @ \cup {kind}]
    /\ UNCHANGED <<status, events, approvedBy, keys, outbox, uploadId, world, local>>

-----------------------------------------------------------------------------
(* Workers: a worker is idle, or runs step[w] for task[w].                 *)

(* A worker that ends a step forgets it.                                   *)
Goto(w, p) ==
    /\ phase' = [phase EXCEPT ![w] = p]
    /\ step' = IF p = "idle" THEN [step EXCEPT ![w] = "none"] ELSE step
    /\ seen' = IF p = "idle" THEN [seen EXCEPT ![w] = "none"] ELSE seen
    /\ UNCHANGED task

At(w, s, p) == phase[w] = p /\ step[w] = s

(* get_key returns a finished key's result or "in progress" for a live     *)
(* one, and the step is over: only the other two outcomes go on.  An       *)
(* expired key is deleted in the transaction that Begin commits, so a      *)
(* second deletion of it waits for the first.                              *)
LookUpKey(w, j, s) ==
    /\ phase[w] = "idle"
    /\ Exists(j)
    /\ keys[j][s] \in {"none", "expired"}
    /\ keys[j][s] = "expired" =>
          \A v \in Workers : ~(phase[v] = "begin" /\ task[v] = j /\ step[v] = s /\ seen[v] = "expired")
    /\ phase' = [phase EXCEPT ![w] = "begin"]
    /\ step' = [step EXCEPT ![w] = s]
    /\ task' = [task EXCEPT ![w] = j]
    /\ seen' = [seen EXCEPT ![w] = keys[j][s]]
    /\ UNCHANGED <<db, world>>

(* reserve_key: ON CONFLICT DO NOTHING, and nobody looks at what it did.   *)
ReserveKey(j, s, deleted) ==
    keys' = [keys EXCEPT ![j][s] = IF deleted \/ @ = "none" THEN "live" ELSE @]

(* Variant: the key alone claims the step.                                 *)
BeginWithoutStatus(w) ==
    LET j == task[w]
        s == step[w]
    IN /\ phase[w] = "begin"
       /\ ReserveKey(j, s, seen[w] = "expired")
       /\ CanAdvance(status[j], Running[s])
       /\ Goto(w, "call")
       /\ UNCHANGED <<status, events, approvedBy, assets, outbox, uploadId, world>>

(* The transaction before the call: the key, and the status that claims    *)
(* the step.                                                               *)
Begin(w) ==
    LET j == task[w]
        s == step[w]
    IN /\ phase[w] = "begin"
       /\ ReserveKey(j, s, seen[w] = "expired")
       /\ Advance(j, Running[s])
       /\ Goto(w, "call")
       /\ UNCHANGED <<approvedBy, assets, outbox, uploadId, world>>

(* It raises: the status does not allow the step, or the image gate        *)
(* refuses the avatar.                                                     *)
BeginRefused(w) ==
    /\ phase[w] = "begin"
    /\ \/ ~CanAdvance(status[task[w]], Running[step[w]])
       \/ step[w] = "avatar"
    /\ Goto(w, "idle")
    /\ UNCHANGED <<db, world>>

Bill(j, s) == billed' = [billed EXCEPT ![j][s] = @ + 1]

StartVideo(j, s) == video' = [video EXCEPT ![j][s] = "running"]

(* Variant: the key is finished with the answer, before the asset is       *)
(* stored.                                                                 *)
CallReturnsFinished(w) ==
    LET j == task[w]
        s == step[w]
    IN /\ phase[w] = "call"
       /\ Bill(j, s)
       /\ keys' = [keys EXCEPT ![j][s] = "done"]
       /\ IF s = "avatar" THEN StartVideo(j, s) ELSE UNCHANGED video
       /\ Goto(w, "store")
       /\ UNCHANGED <<status, events, approvedBy, assets, outbox, uploadId, uploads>>

(* The provider answers.  HeyGen only accepts the video: it is made later. *)
CallReturns(w) ==
    LET j == task[w]
        s == step[w]
    IN /\ phase[w] = "call"
       /\ Bill(j, s)
       /\ IF s = "avatar"
          THEN /\ StartVideo(j, s)
               /\ Goto(w, IF PaidDual THEN "reserve_h" ELSE "store")
          ELSE /\ UNCHANGED video
               /\ Goto(w, "store")
       /\ UNCHANGED <<db, uploads>>

(* The call raises: the provider refused it, or did the work and the       *)
(* answer was lost.                                                        *)
CallRaises(w) ==
    LET j == task[w]
        s == step[w]
    IN /\ phase[w] = "call"
       /\ \/ UNCHANGED <<billed, video>>
          \/ /\ Bill(j, s)
             /\ IF s = "avatar" THEN StartVideo(j, s) ELSE UNCHANGED video
       /\ Goto(w, "fail")
       /\ UNCHANGED <<db, uploads>>

FailStepAfterCall(w) ==
    /\ phase[w] = "fail"
    /\ FailStep(task[w], step[w])
    /\ Goto(w, "idle")
    /\ UNCHANGED <<approvedBy, assets, outbox, uploadId, world>>

(* The second, horizontal video: its own key, read and reserved without    *)
(* the job's lock.  A key that is there already skips the call; a refusal  *)
(* of the image gate is handled like a failed call.                        *)
ReserveHorizontal(w) ==
    LET j == task[w]
    IN /\ phase[w] = "reserve_h"
       /\ \/ /\ keys[j]["avatar_h"] \in {"none", "expired"}
             /\ keys' = [keys EXCEPT ![j]["avatar_h"] = "live"]
             /\ Goto(w, "call_h")
          \/ /\ keys[j]["avatar_h"] \in {"none", "expired"}
             /\ UNCHANGED keys
             /\ Goto(w, "fail_h")
          \/ /\ keys[j]["avatar_h"] \in {"live", "done"}
             /\ UNCHANGED keys
             /\ Goto(w, "store")
       /\ UNCHANGED <<status, events, approvedBy, assets, outbox, uploadId, world>>

CallHorizontal(w) ==
    LET j == task[w]
    IN /\ phase[w] = "call_h"
       /\ \/ /\ Bill(j, "avatar_h")
             /\ StartVideo(j, "avatar_h")
             /\ Goto(w, "store_h") \/ Goto(w, "fail_h")
          \/ /\ UNCHANGED <<billed, video>>
             /\ Goto(w, "fail_h")
       /\ UNCHANGED <<db, uploads>>

(* The primary video is under way: the job goes on without the second.     *)
FailHorizontal(w) ==
    /\ phase[w] = "fail_h"
    /\ keys' = [keys EXCEPT ![task[w]]["avatar_h"] = "none"]
    /\ Goto(w, "store")
    /\ UNCHANGED <<status, events, approvedBy, assets, outbox, uploadId, world>>

(* UPDATE idempotency_keys SET result: a row that is gone stays gone.      *)
Finish(k) == IF k = "none" THEN "none" ELSE "done"

(* The transaction after the call.  The asset is inserted without ON       *)
(* CONFLICT: if it exists already, or the advance is refused, the          *)
(* transaction raises outside the try block and no key is cleared.         *)
StoreAudio(w) ==
    LET j == task[w]
    IN /\ At(w, "audio", "store")
       /\ "audio" \notin assets[j]
       /\ assets' = [assets EXCEPT ![j] = @ \cup {"audio"}]
       /\ Advance(j, "audio_ready")
       /\ keys' = [keys EXCEPT ![j]["audio"] = Finish(@)]
       /\ Goto(w, "idle")
       /\ UNCHANGED <<approvedBy, outbox, uploadId, world>>

StoreRender(w) ==
    LET j == task[w]
    IN /\ At(w, "render", "store")
       /\ "final" \notin assets[j]
       /\ assets' = [assets EXCEPT ![j] = @ \cup {"final"}]
       /\ AdvanceToStaged(j)
       /\ keys' = [keys EXCEPT ![j]["render"] = Finish(@)]
       /\ Goto(w, "idle")
       /\ UNCHANGED <<approvedBy, uploadId, world>>

(* The avatar's transaction records the videos under way; it neither reads *)
(* nor changes the status.                                                 *)
StoreAvatar(w) ==
    LET j == task[w]
    IN /\ step[w] = "avatar"
       /\ phase[w] \in {"store", "store_h"}
       /\ "video" \notin assets[j]
       /\ IF phase[w] = "store_h"
          THEN /\ assets' = [assets EXCEPT ![j] = @ \cup {"video", "video_h"}]
               /\ keys' = [keys EXCEPT ![j]["avatar"] = Finish(@), ![j]["avatar_h"] = Finish(@)]
          ELSE /\ assets' = [assets EXCEPT ![j] = @ \cup {"video"}]
               /\ keys' = [keys EXCEPT ![j]["avatar"] = Finish(@)]
       /\ Goto(w, "idle")
       /\ UNCHANGED <<status, events, approvedBy, outbox, uploadId, world>>

StoreRefused(w) ==
    LET j == task[w]
    IN \/ /\ At(w, "audio", "store")
          /\ "audio" \in assets[j] \/ ~CanAdvance(status[j], "audio_ready")
       \/ /\ At(w, "render", "store")
          /\ "final" \in assets[j] \/ ~CanAdvance(status[j], "rendered")
       \/ /\ step[w] = "avatar" /\ phase[w] \in {"store", "store_h"}
          /\ "video" \in assets[j]

StoreRaises(w) ==
    /\ StoreRefused(w)
    /\ Goto(w, "idle")
    /\ UNCHANGED <<db, world>>

FailStepRaises(w) ==
    /\ phase[w] = "fail"
    /\ status[task[w]] = "delivered"
    /\ Goto(w, "idle")
    /\ UNCHANGED <<db, world>>

(* The process dies: its open transaction rolls back, its memory is lost.  *)
Crash(w) ==
    /\ phase[w] # "idle"
    /\ Goto(w, "idle")
    /\ UNCHANGED <<db, world>>

-----------------------------------------------------------------------------
(* HeyGen's answer: complete_heygen_webhook, called by POST                *)
(* /webhooks/heygen and by reconcile_job.  The video is found through the  *)
(* asset; before StoreAvatar has committed there is none and the event is  *)
(* refused.  Every event that is not a failure counts as success.          *)

Rendered == {"rendered", "staged", "approved", "delivered"}

(* Variant: the early return for a job that is rendered already is gone.   *)
HeyGenSuccessAgain(j) ==
    /\ video[j]["avatar"] = "completed"
    /\ "video" \in assets[j]
    /\ \/ AdvanceToStaged(j)
       \/ /\ status[j] = "staged"
          /\ outbox' = [outbox EXCEPT ![j] = @ + 1]
          /\ UNCHANGED <<status, events>>
    /\ assets' = [assets EXCEPT ![j] = @ \cup {"final"}]
    /\ UNCHANGED <<approvedBy, keys, uploadId, world, local>>

HeyGenSuccess(j) ==
    /\ video[j]["avatar"] = "completed"
    /\ "video" \in assets[j]
    /\ AdvanceToStaged(j)
    /\ assets' = [assets EXCEPT ![j] = @ \cup {"final"}]
    /\ UNCHANGED <<approvedBy, keys, uploadId, world, local>>

HeyGenFailure(j) ==
    /\ video[j]["avatar"] = "failed"
    /\ "video" \in assets[j]
    /\ status[j] \notin Rendered \cup {"failed"}
    /\ Advance(j, "failed")
    /\ keys' = [keys EXCEPT ![j]["avatar"] = "none"]
    /\ UNCHANGED <<approvedBy, assets, outbox, uploadId, world, local>>

(* A horizontal video never touches the status.                            *)
HeyGenHorizontal(j) ==
    /\ video[j]["avatar_h"] = "completed"
    /\ "video_h" \in assets[j]
    /\ assets' = [assets EXCEPT ![j] = @ \cup {"final_h"}]
    /\ UNCHANGED <<status, events, approvedBy, keys, outbox, uploadId, world, local>>

(* The event is posted at any time after the video has ended, any number   *)
(* of times or never.                                                      *)
Webhook(j) == HeyGenSuccess(j) \/ HeyGenFailure(j) \/ HeyGenHorizontal(j)

(* reconcile_job polls HeyGen with the lock released and applies a final   *)
(* state through complete_heygen_webhook, which locks and checks again: a  *)
(* video that has ended does not change, so poll and application are one   *)
(* action.  Without a video a job in audio_generating is failed.           *)
StuckEligible == {"rendering", "audio_generating"}

(* Variant: only a success is applied.                                     *)
ReconcileSuccess(j) ==
    /\ status[j] \in StuckEligible
    /\ \/ "video" \in assets[j] /\ HeyGenSuccess(j)
       \/ /\ "video" \notin assets[j]
          /\ status[j] = "audio_generating"
          /\ FailStep(j, "audio")
          /\ UNCHANGED <<approvedBy, assets, outbox, uploadId, world, local>>

(* Variant: jobs without a video are passed over.                          *)
ReconcileVideo(j) ==
    /\ status[j] \in StuckEligible
    /\ "video" \in assets[j]
    /\ HeyGenSuccess(j) \/ HeyGenFailure(j)

Reconcile(j) ==
    /\ status[j] \in StuckEligible
    /\ \/ /\ "video" \in assets[j]
          /\ HeyGenSuccess(j) \/ HeyGenFailure(j)
       \/ /\ "video" \notin assets[j]
          /\ status[j] = "audio_generating"
          /\ FailStep(j, "audio")
          /\ UNCHANGED <<approvedBy, assets, outbox, uploadId, world, local>>

-----------------------------------------------------------------------------
(* Distribution of an approved job.                                        *)

(* Variant: a job put up for review is taken as well.                      *)
DistributeBeginEarly(w, j) ==
    /\ phase[w] = "idle"
    /\ status[j] \in {"staged", "approved"}
    /\ phase' = [phase EXCEPT ![w] = "upload"]
    /\ step' = [step EXCEPT ![w] = "distribute"]
    /\ task' = [task EXCEPT ![w] = j]
    /\ seen' = [seen EXCEPT ![w] = IF uploadId[j] THEN "uploaded" ELSE "none"]
    /\ UNCHANGED <<db, world>>

(* The first transaction checks the status and lets the lock go; the       *)
(* worker keeps what it has read.  A delivered job is answered at once and *)
(* any other status refused.                                               *)
DistributeBegin(w, j) ==
    /\ phase[w] = "idle"
    /\ status[j] = "approved"
    /\ phase' = [phase EXCEPT ![w] = "upload"]
    /\ step' = [step EXCEPT ![w] = "distribute"]
    /\ task' = [task EXCEPT ![w] = j]
    /\ seen' = [seen EXCEPT ![w] = IF uploadId[j] THEN "uploaded" ELSE "none"]
    /\ UNCHANGED <<db, world>>

(* Nothing to upload: the id was there at the first read, or the files are *)
(* only exported.                                                          *)
SkipUpload(w) ==
    /\ phase[w] = "upload"
    /\ seen[w] = "uploaded" \/ ~YouTube
    /\ Goto(w, "deliver")
    /\ UNCHANGED <<db, world>>

UploadReturns(w) ==
    LET j == task[w]
    IN /\ phase[w] = "upload"
       /\ seen[w] = "none" /\ YouTube
       /\ uploads[j] < MaxUploads
       /\ uploads' = [uploads EXCEPT ![j] = @ + 1]
       /\ Goto(w, "persist")
       /\ UNCHANGED <<db, video, billed>>

(* The upload raises, before or after YouTube has the video: the step ends *)
(* with an error.                                                          *)
UploadRaises(w) ==
    LET j == task[w]
    IN /\ phase[w] = "upload"
       /\ seen[w] = "none" /\ YouTube
       /\ \/ UNCHANGED uploads
          \/ /\ uploads[j] < MaxUploads
             /\ uploads' = [uploads EXCEPT ![j] = @ + 1]
       /\ Goto(w, "idle")
       /\ UNCHANGED <<db, video, billed>>

(* persist_youtube_upload_id: a transaction that looks at no status.       *)
PersistUploadId(w) ==
    /\ phase[w] = "persist"
    /\ uploadId' = [uploadId EXCEPT ![task[w]] = TRUE]
    /\ Goto(w, "deliver")
    /\ UNCHANGED <<status, events, approvedBy, keys, assets, outbox, world>>

(* The last transaction reads jobs.meta without the lock and writes all of *)
(* it back.  Another worker's id may be lost in between, but this worker   *)
(* has seen or persisted one itself: uploadId keeps its value.             *)
Deliver(w) ==
    /\ phase[w] = "deliver"
    /\ Advance(task[w], "delivered")
    /\ Goto(w, "idle")
    /\ UNCHANGED <<approvedBy, keys, assets, outbox, uploadId, world>>

DeliverRefused(w) ==
    /\ phase[w] = "deliver"
    /\ ~CanAdvance(status[task[w]], "delivered")
    /\ Goto(w, "idle")
    /\ UNCHANGED <<db, world>>

-----------------------------------------------------------------------------
(* The passing of time, and HeyGen's work.                                 *)

ExpireKey(j, s) ==
    /\ keys[j][s] = "live"
    /\ keys' = [keys EXCEPT ![j][s] = "expired"]
    /\ UNCHANGED <<status, events, approvedBy, assets, outbox, uploadId, world, local>>

VideoEnds(j, s) ==
    /\ video[j][s] = "running"
    /\ \E end \in {"completed", "failed"} : video' = [video EXCEPT ![j][s] = end]
    /\ UNCHANGED <<db, billed, uploads, local>>

-----------------------------------------------------------------------------
Init ==
    /\ status = [j \in Jobs |-> "absent"]
    /\ events = [j \in Jobs |-> <<>>]
    /\ approvedBy = [j \in Jobs |-> FALSE]
    /\ keys = [j \in Jobs |-> [s \in PaidStep |-> "none"]]
    /\ assets = [j \in Jobs |-> {}]
    /\ outbox = [j \in Jobs |-> 0]
    /\ uploadId = [j \in Jobs |-> FALSE]
    /\ video = [j \in Jobs |-> [s \in {"avatar", "avatar_h"} |-> "none"]]
    /\ billed = [j \in Jobs |-> [s \in PaidStep |-> 0]]
    /\ uploads = [j \in Jobs |-> 0]
    /\ phase = [w \in Workers |-> "idle"]
    /\ step = [w \in Workers |-> "none"]
    /\ task \in [Workers -> Jobs]
    /\ seen = [w \in Workers |-> "none"]

PaidStepNext(w) ==
    \/ Begin(w)
    \/ BeginRefused(w)
    \/ CallReturns(w)
    \/ CallRaises(w)
    \/ FailStepAfterCall(w)
    \/ FailStepRaises(w)
    \/ ReserveHorizontal(w)
    \/ CallHorizontal(w)
    \/ FailHorizontal(w)
    \/ StoreAudio(w)
    \/ StoreRender(w)
    \/ StoreAvatar(w)
    \/ StoreRaises(w)

DistributeNext(w) ==
    \/ SkipUpload(w)
    \/ UploadReturns(w)
    \/ UploadRaises(w)
    \/ PersistUploadId(w)
    \/ Deliver(w)
    \/ DeliverRefused(w)

WorkerNext(w) == PaidStepNext(w) \/ DistributeNext(w)

Next ==
    \/ \E j \in Jobs :
          \/ CreateJob(j)
          \/ \E to \in LegacyStatus : AdvanceJob(j, to)
          \/ ApproveJob(j)
          \/ \E kind \in AssetKind : AddAsset(j, kind)
          \/ Webhook(j)
          \/ Reconcile(j)
          \/ \E s \in PaidStep : ExpireKey(j, s)
          \/ \E s \in {"avatar", "avatar_h"} : VideoEnds(j, s)
          \/ \E w \in Workers :
                \/ \E s \in MainStep : LookUpKey(w, j, s)
                \/ DistributeBegin(w, j)
    \/ \E w \in Workers : WorkerNext(w) \/ Crash(w)

Spec == Init /\ [][Next]_vars

-----------------------------------------------------------------------------
DbTypeOK ==
    /\ status \in [Jobs -> LegacyStatus \cup {"absent"}]
    /\ events \in [Jobs -> Seq(EventRow)]
    /\ approvedBy \in [Jobs -> BOOLEAN]
    /\ keys \in [Jobs -> [PaidStep -> {"none", "live", "expired", "done"}]]
    /\ assets \in [Jobs -> SUBSET AssetKind]
    /\ outbox \in [Jobs -> Nat]
    /\ uploadId \in [Jobs -> BOOLEAN]

WorldTypeOK ==
    /\ video \in [Jobs -> [{"avatar", "avatar_h"} -> {"none", "running", "completed", "failed"}]]
    /\ billed \in [Jobs -> [PaidStep -> Nat]]
    /\ uploads \in [Jobs -> Nat]

LocalTypeOK ==
    /\ phase \in [Workers -> Phase]
    /\ step \in [Workers -> MainStep \cup {"none", "distribute"}]
    /\ task \in [Workers -> Jobs]
    /\ seen \in [Workers -> {"none", "expired", "uploaded"}]

(* What the columns and the workers' variables may hold.                   *)
TypeOK == DbTypeOK /\ WorldTypeOK /\ LocalTypeOK

RendersBilled(j) == billed[j]["render"] + billed[j]["avatar"]

(* A job is rendered, and so paid for, at most once: one HeyGen video or   *)
(* one Remotion render, besides one narration and one horizontal video,    *)
(* however often the queue redelivers a step, a worker dies, a key expires *)
(* or is cleared.  The result of reserve_key is ignored (jobs.py 213); the *)
(* status graph is what keeps the second caller out.                       *)
BilledAtMostOnce ==
    \A j \in Jobs :
        /\ billed[j]["audio"] <= 1
        /\ RendersBilled(j) <= 1
        /\ billed[j]["avatar_h"] <= billed[j]["avatar"]

(* Whenever a job's status lets a step begin, the step's key is free, so   *)
(* the conflict that reserve_key swallows (ON CONFLICT DO NOTHING) never   *)
(* happens to a step that goes on to its provider.                         *)
ReservationIsFresh ==
    \A j \in Jobs, s \in MainStep :
        CanAdvance(status[j], Running[s]) => keys[j][s] = "none"

(* Why it holds.  Three tickets, each good for one charge: a narration, a  *)
(* render, a horizontal video.  A ticket is taken by the advance into the  *)
(* running status, so nobody holds or has spent it while the status comes  *)
(* before that; one worker at a time holds it, and it is unspent.          *)
BeforeAudio == {"absent", "pending", "script_ready"}
BeforeRendering == BeforeAudio \cup {"audio_generating", "audio_ready"}

Calls(w, j, steps) == phase[w] = "call" /\ task[w] = j /\ step[w] \in steps

OneTicket(j, steps, before, spent) ==
    /\ spent <= 1
    /\ status[j] \in before => spent = 0
    /\ \A w \in Workers : Calls(w, j, steps) => status[j] \notin before /\ spent = 0
    /\ \A v, w \in Workers : Calls(v, j, steps) /\ Calls(w, j, steps) => v = w

BuysHorizontal(w, j) == phase[w] \in {"reserve_h", "call_h"} /\ task[w] = j

HorizontalTicket(j) ==
    /\ billed[j]["avatar_h"] <= billed[j]["avatar"]
    /\ \A w \in Workers :
          BuysHorizontal(w, j) => billed[j]["avatar"] = 1 /\ billed[j]["avatar_h"] = 0
    /\ \A v, w \in Workers : BuysHorizontal(v, j) /\ BuysHorizontal(w, j) => v = w

BillingInv ==
    /\ \A w \in Workers : phase[w] \in {"begin", "call"} => step[w] \in MainStep
    /\ \A j \in Jobs :
          /\ OneTicket(j, {"audio"}, BeforeAudio, billed[j]["audio"])
          /\ OneTicket(j, {"render", "avatar"}, BeforeRendering, RendersBilled(j))
          /\ HorizontalTicket(j)

(* A step's key is only there once the job has entered the status that     *)
(* claims the step.                                                        *)
KeyInv ==
    \A j \in Jobs :
        /\ status[j] \in BeforeAudio => keys[j]["audio"] = "none"
        /\ status[j] \in BeforeRendering =>
              keys[j]["render"] = "none" /\ keys[j]["avatar"] = "none"

(* A path of the status graph from pending to the given status.            *)
Trail(history, current) ==
    LET n == Len(history)
    IN /\ \A i \in 1..n : CanAdvance(history[i].from, history[i].to)
       /\ \A i \in 1..(n - 1) : history[i].to = history[i + 1].from
       /\ n > 0 => history[1].from = "pending" /\ history[n].to = current
       /\ n = 0 => current \in {"absent", "pending"}

(* The events of a job are a path of the status graph that ends in its     *)
(* status: every advance, also the two of _stage_for_approval in one       *)
(* transaction, starts where the one before it ended.  This is the status  *)
(* history that GET /jobs/{id}/detail shows.                               *)
AuditTrail == \A j \in Jobs : Trail(events[j], status[j])

Reached(j, to, by) == \E i \in DOMAIN events[j] : events[j][i].to = to /\ events[j][i].by = by

(* A job the pipeline itself has put up for review has its final asset,    *)
(* and was announced in the outbox exactly once, although success webhook, *)
(* reconcile and the Remotion worker race for it; a job the operator moved *)
(* to staged was not announced.  Likewise audio_ready means stored audio.  *)
ReviewReady ==
    \A j \in Jobs :
        /\ outbox[j] = IF Reached(j, "staged", "system") THEN 1 ELSE 0
        /\ Reached(j, "staged", "system") => "final" \in assets[j]
        /\ Reached(j, "audio_ready", "system") => "audio" \in assets[j]

(* Nothing reaches YouTube, and no job is delivered, without an explicit   *)
(* approval, although distribute gives up the job's lock while it uploads  *)
(* and the generic advance is open to every other status.                  *)
PublishedOnlyApproved ==
    \A j \in Jobs :
        uploads[j] > 0 \/ uploadId[j] \/ status[j] = "delivered" =>
            approvedBy[j] /\ Reached(j, "approved", "system")

(* A finished key, which answers every later run of its step for ever, is  *)
(* backed by the asset it stands for.                                      *)
FinishedKeyHasAsset ==
    \A j \in Jobs :
        /\ keys[j]["audio"] = "done" => "audio" \in assets[j]
        /\ keys[j]["render"] = "done" => "final" \in assets[j]
        /\ keys[j]["avatar"] = "done" => "video" \in assets[j]
        /\ keys[j]["avatar_h"] = "done" => {"video", "video_h"} \subseteq assets[j]

-----------------------------------------------------------------------------
(* The pipeline implements JobLifecycle: a job's ticket is issued by the   *)
(* advance to rendering and spent by the call to HeyGen or Remotion.       *)
StageOf(s) ==
    CASE s = "absent" -> "none"
      [] s \in {"pending", "script_ready", "audio_generating", "audio_ready"} -> "open"
      [] s \in {"rendered", "staged"} -> "review"
      [] OTHER -> s

TicketOf(j) ==
    IF RendersBilled(j) > 0 THEN "spent"
    ELSE IF Reached(j, "rendering", "system") \/ Reached(j, "rendering", "operator")
         THEN "issued"
         ELSE "unused"

Lifecycle == INSTANCE JobLifecycle WITH
    stage <- [j \in Jobs |-> StageOf(status[j])],
    ticket <- [j \in Jobs |-> TicketOf(j)],
    signed <- approvedBy,
    online <- [j \in Jobs |-> uploads[j] > 0]

ImplementsLifecycle == Lifecycle!Spec

-----------------------------------------------------------------------------
(* Liveness.  HeyGen ends every video, a worker's loop reconciles stuck    *)
(* jobs for ever (worker.run_forever), and a step in hand goes on unless   *)
(* its process dies.  Nothing is assumed of webhooks, operators or queue.  *)
Fairness ==
    /\ \A j \in Jobs : WF_vars(Reconcile(j))
    /\ \A j \in Jobs : \A s \in {"avatar", "avatar_h"} : WF_vars(VideoEnds(j, s))
    /\ \A w \in Workers : WF_vars(WorkerNext(w))

FairSpec == Spec /\ Fairness

(* A HeyGen job whose video is recorded leaves rendering even if every     *)
(* webhook is lost and any worker dies: reconcile finds it.                *)
RecordedVideoResolves ==
    \A j \in Jobs :
        (status[j] = "rendering" /\ "video" \in assets[j]) ~> status[j] # "rendering"

(* No job generates audio for ever: its worker ends it or reconcile does.  *)
AudioResolves ==
    \A j \in Jobs : status[j] = "audio_generating" ~> status[j] # "audio_generating"

(* PHASE5_REPORT.md 31: the upload id is persisted "ASAP after live        *)
(* upload" so that a second run does not publish again.                    *)
UploadedOnce == \A j \in Jobs : uploads[j] <= 1

=============================================================================
