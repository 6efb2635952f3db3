--------------------------- MODULE PipelineProofs ---------------------------
(***************************************************************************)
(* Theorems about Pipeline, for any number of jobs and workers, whatever   *)
(* the queue redelivers and whoever dies: the types, that no job is        *)
(* charged twice for the same thing, and that a step that may begin finds  *)
(* its key free.                                                           *)
(***************************************************************************)
EXTENDS Pipeline, TLAPS

USE DEF MainStep, PaidStep

-----------------------------------------------------------------------------
(* Types.                                                                  *)

(* Both ends of an allowed advance are statuses of the graph.              *)
LEMMA CanAdvanceType ==
    ASSUME NEW from, NEW to, CanAdvance(from, to)
    PROVE  from \in LegacyStatus /\ to \in LegacyStatus
<1>1. from \in LegacyStatus /\ to \in LegacyTransitions[from]
    BY DEF CanAdvance
<1>2. LegacyTransitions[from] \subseteq LegacyStatus
    BY <1>1 DEF LegacyTransitions, LegacyStatus
<1>. QED BY <1>1, <1>2

(* The types of what an advance writes.                                    *)
HistoryTypeOK ==
    /\ status \in [Jobs -> LegacyStatus \cup {"absent"}]
    /\ events \in [Jobs -> Seq(EventRow)]

(* One advance keeps the types of what it writes.                          *)
LEMMA AdvanceType ==
    ASSUME TypeOK, NEW j \in Jobs, NEW to, NEW by \in {"system", "operator"},
           AdvanceBy(j, to, by)
    PROVE  HistoryTypeOK'
<1>1. status[j] \in LegacyStatus /\ to \in LegacyStatus
    BY CanAdvanceType DEF AdvanceBy
<1>2. Event(status[j], to, by) \in EventRow
    BY <1>1 DEF Event, EventRow
<1>3. status' \in [Jobs -> LegacyStatus \cup {"absent"}]
    BY <1>1 DEF TypeOK, DbTypeOK, AdvanceBy
<1>4. Append(events[j], Event(status[j], to, by)) \in Seq(EventRow)
    BY <1>2 DEF TypeOK, DbTypeOK
<1>5. events' \in [Jobs -> Seq(EventRow)]
    BY <1>4 DEF TypeOK, DbTypeOK, AdvanceBy
<1>. QED BY <1>3, <1>5 DEF HistoryTypeOK

(* The two advances of one transaction, to staged.                         *)
LEMMA AdvanceToStagedType ==
    ASSUME TypeOK, NEW j \in Jobs, AdvanceToStaged(j)
    PROVE  HistoryTypeOK' /\ outbox' \in [Jobs -> Nat]
<1>1. status[j] \in LegacyStatus /\ {"rendered", "staged"} \subseteq LegacyStatus
    BY CanAdvanceType DEF AdvanceToStaged, LegacyStatus
<1>2. /\ Event(status[j], "rendered", "system") \in EventRow
      /\ Event("rendered", "staged", "system") \in EventRow
    BY <1>1 DEF Event, EventRow
<1>3. <<Event(status[j], "rendered", "system"), Event("rendered", "staged", "system")>>
          \in Seq(EventRow)
    BY <1>2
<1>4. events[j] \o <<Event(status[j], "rendered", "system"),
                     Event("rendered", "staged", "system")>> \in Seq(EventRow)
    BY <1>3 DEF TypeOK, DbTypeOK
<1>5. status' \in [Jobs -> LegacyStatus \cup {"absent"}]
    BY <1>1 DEF TypeOK, DbTypeOK, AdvanceToStaged
<1>6. events' \in [Jobs -> Seq(EventRow)]
    BY <1>4 DEF TypeOK, DbTypeOK, AdvanceToStaged
<1>7. outbox' \in [Jobs -> Nat]
    BY DEF TypeOK, DbTypeOK, AdvanceToStaged
<1>. QED BY <1>5, <1>6, <1>7 DEF HistoryTypeOK

(* The clean-up after an error.                                            *)
LEMMA FailStepType ==
    ASSUME TypeOK, NEW j \in Jobs, NEW s, FailStep(j, s)
    PROVE  /\ HistoryTypeOK'
           /\ keys' \in [Jobs -> [PaidStep -> {"none", "live", "expired", "done"}]]
<1>1. keys' \in [Jobs -> [PaidStep -> {"none", "live", "expired", "done"}]]
    BY DEF FailStep, TypeOK, DbTypeOK
<1>2. CASE Advance(j, "failed")
    BY <1>1, <1>2, AdvanceType DEF Advance
<1>3. CASE UNCHANGED <<status, events>>
    BY <1>1, <1>3 DEF TypeOK, DbTypeOK, HistoryTypeOK
<1>. QED BY <1>2, <1>3 DEF FailStep

(* A charge.                                                               *)
LEMMA BillType ==
    ASSUME TypeOK, NEW j \in Jobs, NEW s, Bill(j, s)
    PROVE  billed' \in [Jobs -> [PaidStep -> Nat]]
<1>. DEFINE bill == [billed[j] EXCEPT ![s] = @ + 1]
<1>1. billed \in [Jobs -> [PaidStep -> Nat]]
    BY DEF TypeOK, WorldTypeOK
<1>2. bill \in [PaidStep -> Nat]
  <2>1. billed[j] \in [PaidStep -> Nat]
    BY <1>1
  <2>2. ASSUME NEW t \in PaidStep PROVE bill[t] \in Nat
    BY <2>1
  <2>3. bill = [t \in PaidStep |-> bill[t]]
    BY <2>1
  <2>. QED BY <2>2, <2>3
<1>3. billed' = [billed EXCEPT ![j] = bill]
    BY DEF Bill
<1>. HIDE DEF bill
<1>. QED BY <1>1, <1>2, <1>3

(* What an action leaves alone keeps its type.                             *)
LEMMA UnchangedType ==
    /\ DbTypeOK /\ UNCHANGED db => DbTypeOK'
    /\ WorldTypeOK /\ UNCHANGED world => WorldTypeOK'
    /\ LocalTypeOK /\ UNCHANGED local => LocalTypeOK'
    BY DEF DbTypeOK, db, WorldTypeOK, world, LocalTypeOK, local

(* A worker that moves on.                                                 *)
LEMMA GotoType ==
    ASSUME TypeOK, NEW w \in Workers, NEW p \in Phase, Goto(w, p)
    PROVE  LocalTypeOK'
    BY DEF Goto, TypeOK, LocalTypeOK

LEMMA PhaseNames ==
    {"idle", "begin", "call", "fail", "store", "reserve_h", "call_h", "fail_h",
     "store_h", "upload", "persist", "deliver"} \subseteq Phase
    BY DEF Phase

(* HeyGen's answer.                                                        *)
LEMMA HeyGenType ==
    ASSUME TypeOK, NEW j \in Jobs,
           HeyGenSuccess(j) \/ HeyGenFailure(j) \/ HeyGenHorizontal(j)
    PROVE  TypeOK'
<1>1. WorldTypeOK' /\ LocalTypeOK'
    BY UnchangedType DEF TypeOK, HeyGenSuccess, HeyGenFailure, HeyGenHorizontal
<1>2. CASE HeyGenSuccess(j)
  <2>1. HistoryTypeOK' /\ outbox' \in [Jobs -> Nat]
    BY <1>2, AdvanceToStagedType DEF HeyGenSuccess
  <2>2. assets' \in [Jobs -> SUBSET AssetKind]
    BY <1>2 DEF HeyGenSuccess, TypeOK, DbTypeOK, AssetKind
  <2>3. UNCHANGED <<approvedBy, keys, uploadId>>
    BY <1>2 DEF HeyGenSuccess
  <2>. QED BY <1>1, <2>1, <2>2, <2>3 DEF TypeOK, DbTypeOK, HistoryTypeOK
<1>3. CASE HeyGenFailure(j)
  <2>1. HistoryTypeOK'
    BY <1>3, AdvanceType DEF HeyGenFailure, Advance
  <2>2. keys' \in [Jobs -> [PaidStep -> {"none", "live", "expired", "done"}]]
    BY <1>3 DEF HeyGenFailure, TypeOK, DbTypeOK
  <2>3. UNCHANGED <<approvedBy, assets, outbox, uploadId>>
    BY <1>3 DEF HeyGenFailure
  <2>. QED BY <1>1, <2>1, <2>2, <2>3 DEF TypeOK, DbTypeOK, HistoryTypeOK
<1>4. CASE HeyGenHorizontal(j)
  <2>1. assets' \in [Jobs -> SUBSET AssetKind]
    BY <1>4 DEF HeyGenHorizontal, TypeOK, DbTypeOK, AssetKind
  <2>2. UNCHANGED <<status, events, approvedBy, keys, outbox, uploadId>>
    BY <1>4 DEF HeyGenHorizontal
  <2>. QED BY <1>1, <2>1, <2>2 DEF TypeOK, DbTypeOK
<1>. QED BY <1>2, <1>3, <1>4

(* One job's operations of the API, the webhooks and the clock; the reads  *)
(* that start a worker.                                                    *)
JobNext(j) ==
    \/ CreateJob(j)
    \/ \E to \in LegacyStatus : AdvanceJob(j, to)
    \/ ApproveJob(j)
    \/ \E kind \in AssetKind : AddAsset(j, kind)
    \/ Webhook(j)
    \/ Reconcile(j)
    \/ \E s \in PaidStep : ExpireKey(j, s)
    \/ \E s \in {"avatar", "avatar_h"} : VideoEnds(j, s)
    \/ \E w \in Workers :
          \/ \E s \in MainStep : LookUpKey(w, j, s)
          \/ DistributeBegin(w, j)

LEMMA JobStepType ==
    ASSUME TypeOK, NEW j \in Jobs, JobNext(j)
    PROVE  TypeOK'
<1>1. CASE CreateJob(j)
  <2>1. {"pending", "script_ready"} \subseteq LegacyStatus
    BY DEF LegacyStatus
  <2>2. Event("pending", "script_ready", "system") \in EventRow
    BY <2>1 DEF Event, EventRow
  <2>3. Append(events[j], Event("pending", "script_ready", "system")) \in Seq(EventRow)
    BY <2>2 DEF TypeOK, DbTypeOK
  <2>4. status' \in [Jobs -> LegacyStatus \cup {"absent"}]
    BY <1>1, <2>1 DEF CreateJob, TypeOK, DbTypeOK
  <2>5. events' \in [Jobs -> Seq(EventRow)]
    BY <1>1, <2>3 DEF CreateJob, TypeOK, DbTypeOK
  <2>6. UNCHANGED <<approvedBy, keys, assets, outbox, uploadId, world, local>>
    BY <1>1 DEF CreateJob
  <2>. QED BY <2>4, <2>5, <2>6, UnchangedType DEF TypeOK, DbTypeOK
<1>2. ASSUME NEW to \in LegacyStatus, AdvanceJob(j, to)
      PROVE  TypeOK'
  <2>1. HistoryTypeOK'
    BY <1>2, AdvanceType DEF AdvanceJob
  <2>2. UNCHANGED <<approvedBy, keys, assets, outbox, uploadId, world, local>>
    BY <1>2 DEF AdvanceJob
  <2>. QED BY <2>1, <2>2, UnchangedType DEF TypeOK, DbTypeOK, HistoryTypeOK
<1>3. CASE ApproveJob(j)
  <2>1. HistoryTypeOK'
    BY <1>3, AdvanceType DEF ApproveJob, Advance
  <2>2. approvedBy' \in [Jobs -> BOOLEAN]
    BY <1>3 DEF ApproveJob, TypeOK, DbTypeOK
  <2>3. UNCHANGED <<keys, assets, outbox, uploadId, world, local>>
    BY <1>3 DEF ApproveJob
  <2>. QED BY <2>1, <2>2, <2>3, UnchangedType DEF TypeOK, DbTypeOK, HistoryTypeOK
<1>4. ASSUME NEW kind \in AssetKind, AddAsset(j, kind)
      PROVE  TypeOK'
  <2>1. assets' \in [Jobs -> SUBSET AssetKind]
    BY <1>4 DEF AddAsset, TypeOK, DbTypeOK
  <2>2. UNCHANGED <<status, events, approvedBy, keys, outbox, uploadId, world, local>>
    BY <1>4 DEF AddAsset
  <2>. QED BY <2>1, <2>2, UnchangedType DEF TypeOK, DbTypeOK
<1>5. CASE Webhook(j)
    BY <1>5, HeyGenType DEF Webhook
<1>6. CASE Reconcile(j)
  <2>1. CASE HeyGenSuccess(j) \/ HeyGenFailure(j)
    BY <2>1, HeyGenType
  <2>2. CASE FailStep(j, "audio") /\ UNCHANGED <<approvedBy, assets, outbox, uploadId, world, local>>
    <3>1. /\ HistoryTypeOK'
          /\ keys' \in [Jobs -> [PaidStep -> {"none", "live", "expired", "done"}]]
      BY <2>2, FailStepType
    <3>2. UNCHANGED <<approvedBy, assets, outbox, uploadId, world, local>>
      BY <2>2
    <3>. QED BY <3>1, <3>2, UnchangedType DEF TypeOK, DbTypeOK, HistoryTypeOK
  <2>. QED BY <1>6, <2>1, <2>2 DEF Reconcile
<1>7. ASSUME NEW s \in PaidStep, ExpireKey(j, s)
      PROVE  TypeOK'
  <2>1. keys' \in [Jobs -> [PaidStep -> {"none", "live", "expired", "done"}]]
    BY <1>7 DEF ExpireKey, TypeOK, DbTypeOK
  <2>2. UNCHANGED <<status, events, approvedBy, assets, outbox, uploadId, world, local>>
    BY <1>7 DEF ExpireKey
  <2>. QED BY <2>1, <2>2, UnchangedType DEF TypeOK, DbTypeOK
<1>8. ASSUME NEW s \in {"avatar", "avatar_h"}, VideoEnds(j, s)
      PROVE  TypeOK'
  <2>1. PICK end \in {"completed", "failed"} : video' = [video EXCEPT ![j][s] = end]
    BY <1>8 DEF VideoEnds
  <2>2. video' \in [Jobs -> [{"avatar", "avatar_h"} -> {"none", "running", "completed", "failed"}]]
    BY <2>1 DEF TypeOK, WorldTypeOK
  <2>3. UNCHANGED <<db, billed, uploads, local>>
    BY <1>8 DEF VideoEnds
  <2>. QED BY <2>2, <2>3, UnchangedType DEF TypeOK, WorldTypeOK
<1>9. ASSUME NEW w \in Workers, NEW s \in MainStep, LookUpKey(w, j, s)
      PROVE  TypeOK'
  <2>1. LocalTypeOK'
    BY <1>9, PhaseNames DEF LookUpKey, TypeOK, DbTypeOK, LocalTypeOK
  <2>. QED BY <1>9, <2>1, UnchangedType DEF LookUpKey, TypeOK
<1>10. ASSUME NEW w \in Workers, DistributeBegin(w, j)
       PROVE  TypeOK'
  <2>1. LocalTypeOK'
    BY <1>10, PhaseNames DEF DistributeBegin, TypeOK, LocalTypeOK
  <2>. QED BY <1>10, <2>1, UnchangedType DEF DistributeBegin, TypeOK
<1>. QED BY <1>1, <1>2, <1>3, <1>4, <1>5, <1>6, <1>7, <1>8, <1>9, <1>10 DEF JobNext

(* The steps of a worker.                                                  *)
LEMMA WorkerStepType ==
    ASSUME TypeOK, NEW w \in Workers, WorkerNext(w) \/ Crash(w)
    PROVE  TypeOK'
<1>. USE PhaseNames
<1>j. task[w] \in Jobs
    BY DEF TypeOK, LocalTypeOK
<1>1. CASE Begin(w)
  <2>1. LocalTypeOK'
    BY <1>1, GotoType DEF Begin
  <2>2. HistoryTypeOK'
    BY <1>1, <1>j, AdvanceType DEF Begin, Advance
  <2>3. keys' \in [Jobs -> [PaidStep -> {"none", "live", "expired", "done"}]]
    BY <1>1, <1>j DEF Begin, ReserveKey, TypeOK, DbTypeOK
  <2>4. UNCHANGED <<approvedBy, assets, outbox, uploadId, world>>
    BY <1>1 DEF Begin
  <2>. QED BY <2>1, <2>2, <2>3, <2>4, UnchangedType DEF TypeOK, DbTypeOK, HistoryTypeOK
<1>2. ASSUME NEW p \in Phase, Goto(w, p), UNCHANGED <<db, world>>
      PROVE  TypeOK'
    BY <1>2, GotoType, UnchangedType DEF TypeOK
<1>3. CASE \/ BeginRefused(w) \/ StoreRaises(w) \/ FailStepRaises(w) \/ Crash(w)
           \/ SkipUpload(w) \/ DeliverRefused(w)
    BY <1>2, <1>3 DEF BeginRefused, StoreRaises, FailStepRaises, Crash, SkipUpload, DeliverRefused
<1>4. CASE CallReturns(w)
  <2>1. LocalTypeOK'
    BY <1>4, GotoType DEF CallReturns
  <2>2. billed' \in [Jobs -> [PaidStep -> Nat]]
    <3>1. Bill(task[w], step[w])
      BY <1>4 DEF CallReturns
    <3>. QED BY <3>1, <1>j, BillType
  <2>3. video' \in [Jobs -> [{"avatar", "avatar_h"} -> {"none", "running", "completed", "failed"}]]
    BY <1>4, <1>j DEF CallReturns, StartVideo, TypeOK, WorldTypeOK
  <2>4. UNCHANGED <<db, uploads>>
    BY <1>4 DEF CallReturns
  <2>. QED BY <2>1, <2>2, <2>3, <2>4, UnchangedType DEF TypeOK, WorldTypeOK
<1>5. CASE CallRaises(w)
  <2>1. LocalTypeOK'
    BY <1>5, GotoType DEF CallRaises
  <2>2. billed' \in [Jobs -> [PaidStep -> Nat]]
    BY <1>5, <1>j DEF CallRaises, Bill, TypeOK, WorldTypeOK
  <2>3. video' \in [Jobs -> [{"avatar", "avatar_h"} -> {"none", "running", "completed", "failed"}]]
    BY <1>5, <1>j DEF CallRaises, StartVideo, TypeOK, WorldTypeOK
  <2>4. UNCHANGED <<db, uploads>>
    BY <1>5 DEF CallRaises
  <2>. QED BY <2>1, <2>2, <2>3, <2>4, UnchangedType DEF TypeOK, WorldTypeOK
<1>6. CASE FailStepAfterCall(w)
  <2>1. LocalTypeOK'
    BY <1>6, GotoType DEF FailStepAfterCall
  <2>2. /\ HistoryTypeOK'
        /\ keys' \in [Jobs -> [PaidStep -> {"none", "live", "expired", "done"}]]
    BY <1>6, <1>j, FailStepType DEF FailStepAfterCall
  <2>3. UNCHANGED <<approvedBy, assets, outbox, uploadId, world>>
    BY <1>6 DEF FailStepAfterCall
  <2>. QED BY <2>1, <2>2, <2>3, UnchangedType DEF TypeOK, DbTypeOK, HistoryTypeOK
<1>7. CASE ReserveHorizontal(w) \/ FailHorizontal(w)
  <2>1. LocalTypeOK'
    BY <1>7, GotoType DEF ReserveHorizontal, FailHorizontal
  <2>2. keys' \in [Jobs -> [PaidStep -> {"none", "live", "expired", "done"}]]
    <3>1. \/ \E k \in {"live", "none"} : keys' = [keys EXCEPT ![task[w]]["avatar_h"] = k]
          \/ UNCHANGED keys
      BY <1>7 DEF ReserveHorizontal, FailHorizontal
    <3>2. keys \in [Jobs -> [PaidStep -> {"none", "live", "expired", "done"}]]
      BY DEF TypeOK, DbTypeOK
    <3>3. ASSUME NEW k \in {"live", "none"}
          PROVE  [keys EXCEPT ![task[w]]["avatar_h"] = k]
                     \in [Jobs -> [PaidStep -> {"none", "live", "expired", "done"}]]
      BY <3>2, <1>j
    <3>. QED BY <3>1, <3>2, <3>3
  <2>3. UNCHANGED <<status, events, approvedBy, assets, outbox, uploadId, world>>
    BY <1>7 DEF ReserveHorizontal, FailHorizontal
  <2>. QED BY <2>1, <2>2, <2>3, UnchangedType DEF TypeOK, DbTypeOK
<1>8. CASE CallHorizontal(w)
  <2>1. LocalTypeOK'
    BY <1>8, GotoType DEF CallHorizontal
  <2>2. billed' \in [Jobs -> [PaidStep -> Nat]]
    BY <1>8, <1>j DEF CallHorizontal, Bill, TypeOK, WorldTypeOK
  <2>3. video' \in [Jobs -> [{"avatar", "avatar_h"} -> {"none", "running", "completed", "failed"}]]
    BY <1>8, <1>j DEF CallHorizontal, StartVideo, TypeOK, WorldTypeOK
  <2>4. UNCHANGED <<db, uploads>>
    BY <1>8 DEF CallHorizontal
  <2>. QED BY <2>1, <2>2, <2>3, <2>4, UnchangedType DEF TypeOK, WorldTypeOK
<1>9. CASE StoreAudio(w)
  <2>1. LocalTypeOK'
    BY <1>9, GotoType DEF StoreAudio
  <2>2. keys' \in [Jobs -> [PaidStep -> {"none", "live", "expired", "done"}]]
    BY <1>9, <1>j DEF StoreAudio, Finish, TypeOK, DbTypeOK
  <2>3. assets' \in [Jobs -> SUBSET AssetKind]
    BY <1>9, <1>j DEF StoreAudio, AssetKind, TypeOK, DbTypeOK
  <2>4. HistoryTypeOK'
    BY <1>9, <1>j, AdvanceType DEF StoreAudio, Advance
  <2>5. UNCHANGED <<approvedBy, outbox, uploadId, world>>
    BY <1>9 DEF StoreAudio
  <2>. QED BY <2>1, <2>2, <2>3, <2>4, <2>5, UnchangedType DEF TypeOK, DbTypeOK, HistoryTypeOK
<1>10. CASE StoreRender(w)
  <2>1. LocalTypeOK'
    BY <1>10, GotoType DEF StoreRender
  <2>2. keys' \in [Jobs -> [PaidStep -> {"none", "live", "expired", "done"}]]
    BY <1>10, <1>j DEF StoreRender, Finish, TypeOK, DbTypeOK
  <2>3. assets' \in [Jobs -> SUBSET AssetKind]
    BY <1>10, <1>j DEF StoreRender, AssetKind, TypeOK, DbTypeOK
  <2>4. HistoryTypeOK' /\ outbox' \in [Jobs -> Nat]
    BY <1>10, <1>j, AdvanceToStagedType DEF StoreRender
  <2>5. UNCHANGED <<approvedBy, uploadId, world>>
    BY <1>10 DEF StoreRender
  <2>. QED BY <2>1, <2>2, <2>3, <2>4, <2>5, UnchangedType DEF TypeOK, DbTypeOK, HistoryTypeOK
<1>11. CASE StoreAvatar(w)
  <2>1. LocalTypeOK'
    BY <1>11, GotoType DEF StoreAvatar
  <2>2. CASE phase[w] = "store_h"
    <3>1. keys' = [keys EXCEPT ![task[w]]["avatar"] = Finish(@),
                               ![task[w]]["avatar_h"] = Finish(@)]
      BY <1>11, <2>2 DEF StoreAvatar
    <3>2. \A k : Finish(k) \in {"none", "done"}
      BY DEF Finish
    <3>3. keys' \in [Jobs -> [PaidStep -> {"none", "live", "expired", "done"}]]
      BY <3>1, <3>2, <1>j DEF TypeOK, DbTypeOK
    <3>4. assets' = [assets EXCEPT ![task[w]] = @ \cup {"video", "video_h"}]
      BY <1>11, <2>2 DEF StoreAvatar
    <3>5. assets' \in [Jobs -> SUBSET AssetKind]
      BY <3>4, <1>j DEF AssetKind, TypeOK, DbTypeOK
    <3>6. UNCHANGED <<status, events, approvedBy, outbox, uploadId, world>>
      BY <1>11 DEF StoreAvatar
    <3>. QED BY <2>1, <3>3, <3>5, <3>6, UnchangedType DEF TypeOK, DbTypeOK
  <2>3. CASE phase[w] # "store_h"
    <3>1. keys' = [keys EXCEPT ![task[w]]["avatar"] = Finish(@)]
      BY <1>11, <2>3 DEF StoreAvatar
    <3>2. keys' \in [Jobs -> [PaidStep -> {"none", "live", "expired", "done"}]]
      BY <3>1, <1>j DEF Finish, TypeOK, DbTypeOK
    <3>3. assets' = [assets EXCEPT ![task[w]] = @ \cup {"video"}]
      BY <1>11, <2>3 DEF StoreAvatar
    <3>4. assets' \in [Jobs -> SUBSET AssetKind]
      BY <3>3, <1>j DEF AssetKind, TypeOK, DbTypeOK
    <3>5. UNCHANGED <<status, events, approvedBy, outbox, uploadId, world>>
      BY <1>11 DEF StoreAvatar
    <3>. QED BY <2>1, <3>2, <3>4, <3>5, UnchangedType DEF TypeOK, DbTypeOK
  <2>. QED BY <2>2, <2>3
<1>12. CASE UploadReturns(w) \/ UploadRaises(w)
  <2>1. LocalTypeOK'
    BY <1>12, GotoType DEF UploadReturns, UploadRaises
  <2>2. uploads' \in [Jobs -> Nat]
    BY <1>12, <1>j DEF UploadReturns, UploadRaises, TypeOK, WorldTypeOK
  <2>3. UNCHANGED <<db, video, billed>>
    BY <1>12 DEF UploadReturns, UploadRaises
  <2>. QED BY <2>1, <2>2, <2>3, UnchangedType DEF TypeOK, WorldTypeOK
<1>13. CASE PersistUploadId(w)
  <2>1. LocalTypeOK'
    BY <1>13, GotoType DEF PersistUploadId
  <2>2. uploadId' \in [Jobs -> BOOLEAN]
    BY <1>13 DEF PersistUploadId, TypeOK, DbTypeOK
  <2>3. UNCHANGED <<status, events, approvedBy, keys, assets, outbox, world>>
    BY <1>13 DEF PersistUploadId
  <2>. QED BY <2>1, <2>2, <2>3, UnchangedType DEF TypeOK, DbTypeOK
<1>14. CASE Deliver(w)
  <2>1. LocalTypeOK'
    BY <1>14, GotoType DEF Deliver
  <2>2. HistoryTypeOK'
    BY <1>14, <1>j, AdvanceType DEF Deliver, Advance
  <2>3. UNCHANGED <<approvedBy, keys, assets, outbox, uploadId, world>>
    BY <1>14 DEF Deliver
  <2>. QED BY <2>1, <2>2, <2>3, UnchangedType DEF TypeOK, DbTypeOK, HistoryTypeOK
<1>. QED
    BY <1>1, <1>3, <1>4, <1>5, <1>6, <1>7, <1>8, <1>9, <1>10, <1>11, <1>12, <1>13, <1>14
       DEF WorkerNext, PaidStepNext, DistributeNext

(* Every step is one job's, or one worker's.                               *)
LEMMA NextCases ==
    Next => \/ \E j \in Jobs : JobNext(j)
            \/ \E w \in Workers : WorkerNext(w) \/ Crash(w)
    BY DEF Next, JobNext

(* Every reachable state of the pipeline is well typed.                    *)
THEOREM TypeCorrect == Spec => []TypeOK
<1>1. Init => TypeOK
  <2>. SUFFICES ASSUME Init PROVE TypeOK
    OBVIOUS
  <2>1. DbTypeOK
    BY DEF Init, DbTypeOK
  <2>2. WorldTypeOK
    BY DEF Init, WorldTypeOK
  <2>3. LocalTypeOK
    BY DEF Init, LocalTypeOK, Phase
  <2>. QED BY <2>1, <2>2, <2>3 DEF TypeOK
<1>2. TypeOK /\ [Next]_vars => TypeOK'
  <2>. SUFFICES ASSUME TypeOK, [Next]_vars PROVE TypeOK'
    OBVIOUS
  <2>1. CASE Next
    BY <2>1, NextCases, JobStepType, WorkerStepType
  <2>2. CASE UNCHANGED vars
    BY <2>2, UnchangedType DEF TypeOK, vars, db, world, local
  <2>. QED BY <2>1, <2>2
<1>. QED BY <1>1, <1>2, PTL DEF Spec

-----------------------------------------------------------------------------
(* The status never goes back to where a step may begin.                   *)

LEMMA NoWayBack ==
    ASSUME NEW from, NEW to, CanAdvance(from, to)
    PROVE  /\ to \in BeforeAudio => from \in BeforeAudio
           /\ to \in BeforeRendering => from \in BeforeRendering
    BY DEF CanAdvance, LegacyStatus, LegacyTransitions, BeforeAudio, BeforeRendering

Forward ==
    \A j \in Jobs :
        /\ status'[j] \in BeforeAudio => status[j] \in BeforeAudio
        /\ status'[j] \in BeforeRendering => status[j] \in BeforeRendering

LEMMA AdvanceForward ==
    ASSUME TypeOK, NEW j \in Jobs, NEW to, NEW by, AdvanceBy(j, to, by)
    PROVE  Forward
<1>1. /\ to \in BeforeAudio => status[j] \in BeforeAudio
      /\ to \in BeforeRendering => status[j] \in BeforeRendering
    BY NoWayBack DEF AdvanceBy
<1>2. \A i \in Jobs : status'[i] = IF i = j THEN to ELSE status[i]
    BY DEF AdvanceBy, TypeOK, DbTypeOK
<1>. QED BY <1>1, <1>2 DEF Forward

LEMMA AdvanceToStagedForward ==
    ASSUME TypeOK, NEW j \in Jobs, AdvanceToStaged(j)
    PROVE  Forward
<1>1. \A i \in Jobs : status'[i] = IF i = j THEN "staged" ELSE status[i]
    BY DEF AdvanceToStaged, TypeOK, DbTypeOK
<1>. QED BY <1>1 DEF Forward, BeforeAudio, BeforeRendering

LEMMA FailStepForward ==
    ASSUME TypeOK, NEW j \in Jobs, NEW s, FailStep(j, s)
    PROVE  Forward
<1>1. CASE Advance(j, "failed")
    BY <1>1, AdvanceForward DEF Advance
<1>2. CASE UNCHANGED status
    BY <1>2 DEF Forward
<1>. QED BY <1>1, <1>2 DEF FailStep

LEMMA JobStepForward ==
    ASSUME TypeOK, NEW j \in Jobs, JobNext(j)
    PROVE  Forward
<1>1. CASE CreateJob(j)
  <2>1. \A i \in Jobs : i # j => status'[i] = status[i]
    BY <1>1 DEF CreateJob, TypeOK, DbTypeOK
  <2>2. status[j] = "absent"
    BY <1>1 DEF CreateJob, Exists
  <2>. QED BY <2>1, <2>2 DEF Forward, BeforeAudio, BeforeRendering
<1>2. ASSUME NEW to \in LegacyStatus, AdvanceJob(j, to)
      PROVE  Forward
    BY <1>2, AdvanceForward DEF AdvanceJob
<1>3. CASE ApproveJob(j)
    BY <1>3, AdvanceForward DEF ApproveJob, Advance
<1>4. CASE HeyGenSuccess(j) \/ HeyGenFailure(j)
  <2>1. AdvanceToStaged(j) \/ AdvanceBy(j, "failed", "system")
    BY <1>4 DEF HeyGenSuccess, HeyGenFailure, Advance
  <2>. QED BY <2>1, AdvanceForward, AdvanceToStagedForward
<1>5. CASE FailStep(j, "audio")
    BY <1>5, FailStepForward
<1>6. CASE UNCHANGED status
    BY <1>6 DEF Forward
<1>7. CASE \/ CreateJob(j)
           \/ \E to \in LegacyStatus : AdvanceJob(j, to)
           \/ ApproveJob(j)
    BY <1>1, <1>2, <1>3, <1>7
<1>8. CASE Webhook(j) \/ Reconcile(j)
    BY <1>4, <1>5, <1>6, <1>8 DEF Webhook, Reconcile, HeyGenHorizontal
<1>9. CASE \/ \E kind \in AssetKind : AddAsset(j, kind)
           \/ \E s \in PaidStep : ExpireKey(j, s)
           \/ \E s \in {"avatar", "avatar_h"} : VideoEnds(j, s)
           \/ \E w \in Workers :
                 \/ \E s \in MainStep : LookUpKey(w, j, s)
                 \/ DistributeBegin(w, j)
    BY <1>6, <1>9 DEF AddAsset, ExpireKey, VideoEnds, LookUpKey, DistributeBegin, db
<1>. QED BY <1>7, <1>8, <1>9 DEF JobNext

LEMMA WorkerStepForward ==
    ASSUME TypeOK, NEW w \in Workers, WorkerNext(w) \/ Crash(w)
    PROVE  Forward
<1>j. task[w] \in Jobs
    BY DEF TypeOK, LocalTypeOK
<1>1. CASE Begin(w) \/ StoreAudio(w) \/ Deliver(w)
  <2>1. \E to : AdvanceBy(task[w], to, "system")
    BY <1>1 DEF Begin, StoreAudio, Deliver, Advance
  <2>. QED BY <2>1, <1>j, AdvanceForward
<1>2. CASE StoreRender(w)
    BY <1>2, <1>j, AdvanceToStagedForward DEF StoreRender
<1>3. CASE FailStepAfterCall(w)
    BY <1>3, <1>j, FailStepForward DEF FailStepAfterCall
<1>4. CASE UNCHANGED status
    BY <1>4 DEF Forward
<1>5. CASE \/ BeginRefused(w) \/ CallReturns(w) \/ CallRaises(w) \/ FailStepRaises(w)
           \/ ReserveHorizontal(w) \/ CallHorizontal(w) \/ FailHorizontal(w)
           \/ StoreAvatar(w) \/ StoreRaises(w) \/ SkipUpload(w) \/ UploadReturns(w)
           \/ UploadRaises(w) \/ PersistUploadId(w) \/ DeliverRefused(w) \/ Crash(w)
    BY <1>4, <1>5 DEF BeginRefused, CallReturns, CallRaises, FailStepRaises, ReserveHorizontal,
        CallHorizontal, FailHorizontal, StoreAvatar, StoreRaises, SkipUpload, UploadReturns,
        UploadRaises, PersistUploadId, DeliverRefused, Crash, db
<1>. QED BY <1>1, <1>2, <1>3, <1>5 DEF WorkerNext, PaidStepNext, DistributeNext

-----------------------------------------------------------------------------
(* Tickets.                                                                *)

(* Nobody starts a call, and whoever is before one is there for a step     *)
(* that has a provider.                                                    *)
NobodyCalls ==
    \A w \in Workers :
        /\ phase'[w] = "begin" => step'[w] \in MainStep
        /\ phase'[w] = "call" =>
              phase[w] = "call" /\ step'[w] = step[w] /\ task'[w] = task[w]
        /\ phase'[w] \in {"reserve_h", "call_h"} =>
              phase[w] \in {"reserve_h", "call_h"} /\ task'[w] = task[w]

LEMMA QuietStep ==
    ASSUME BillingInv, Forward, NobodyCalls, UNCHANGED billed
    PROVE  BillingInv'
<1>1. ASSUME NEW w \in Workers, phase'[w] \in {"begin", "call"}
      PROVE  step'[w] \in MainStep
    BY <1>1 DEF BillingInv, NobodyCalls
<1>2. ASSUME NEW w \in Workers, NEW j, NEW S, Calls(w, j, S)'
      PROVE  Calls(w, j, S)
    BY <1>2 DEF Calls, NobodyCalls
<1>3. ASSUME NEW w \in Workers, NEW j, BuysHorizontal(w, j)'
      PROVE  BuysHorizontal(w, j)
    BY <1>3 DEF BuysHorizontal, NobodyCalls
<1>4. ASSUME NEW j \in Jobs
      PROVE  OneTicket(j, {"audio"}, BeforeAudio, billed[j]["audio"])'
  <2>1. OneTicket(j, {"audio"}, BeforeAudio, billed[j]["audio"])
    BY DEF BillingInv
  <2>2. status'[j] \in BeforeAudio => status[j] \in BeforeAudio
    BY DEF Forward
  <2>. QED BY <1>2, <2>1, <2>2 DEF OneTicket
<1>5. ASSUME NEW j \in Jobs
      PROVE  OneTicket(j, {"render", "avatar"}, BeforeRendering, RendersBilled(j))'
  <2>1. OneTicket(j, {"render", "avatar"}, BeforeRendering, RendersBilled(j))
    BY DEF BillingInv
  <2>2. status'[j] \in BeforeRendering => status[j] \in BeforeRendering
    BY DEF Forward
  <2>3. RendersBilled(j)' = RendersBilled(j)
    BY DEF RendersBilled
  <2>. QED BY <1>2, <2>1, <2>2, <2>3 DEF OneTicket
<1>6. ASSUME NEW j \in Jobs
      PROVE  HorizontalTicket(j)'
  <2>1. HorizontalTicket(j)
    BY DEF BillingInv
  <2>. QED BY <1>3, <2>1 DEF HorizontalTicket
<1>. QED BY <1>1, <1>4, <1>5, <1>6 DEF BillingInv

(* A worker that ends, or goes on to anything but a call.                  *)
LEMMA GotoQuiet ==
    ASSUME TypeOK, BillingInv, NEW w \in Workers, NEW p, Goto(w, p),
           p \notin {"begin", "call"},
           p \in {"reserve_h", "call_h"} => phase[w] \in {"reserve_h", "call_h"}
    PROVE  NobodyCalls
<1>1. \A v \in Workers : phase'[v] = IF v = w THEN p ELSE phase[v]
    BY DEF Goto, TypeOK, LocalTypeOK
<1>2. \A v \in Workers \ {w} : step'[v] = step[v]
    BY DEF Goto, TypeOK, LocalTypeOK
<1>3. UNCHANGED task
    BY DEF Goto
<1>4. \A v \in Workers : phase[v] = "begin" => step[v] \in MainStep
    BY DEF BillingInv
<1>. QED BY <1>1, <1>2, <1>3, <1>4 DEF NobodyCalls

LEMMA LocalQuiet ==
    ASSUME BillingInv, UNCHANGED local
    PROVE  NobodyCalls
    BY DEF BillingInv, NobodyCalls, local

LEMMA JobStepBilling ==
    ASSUME TypeOK, BillingInv, NEW j \in Jobs, JobNext(j)
    PROVE  BillingInv'
<1>1. UNCHANGED billed
    BY DEF JobNext, CreateJob, AdvanceJob, ApproveJob, AddAsset, Webhook, Reconcile,
        HeyGenSuccess, HeyGenFailure, HeyGenHorizontal, ExpireKey, VideoEnds, LookUpKey,
        DistributeBegin, world
<1>2. UNCHANGED local => NobodyCalls
    BY LocalQuiet
<1>3. ASSUME NEW w \in Workers, NEW s \in MainStep, LookUpKey(w, j, s)
      PROVE  NobodyCalls
  <2>1. \A v \in Workers : phase'[v] = IF v = w THEN "begin" ELSE phase[v]
    BY <1>3 DEF LookUpKey, TypeOK, LocalTypeOK
  <2>2. \A v \in Workers : /\ step'[v] = IF v = w THEN s ELSE step[v]
                           /\ v # w => task'[v] = task[v]
    BY <1>3 DEF LookUpKey, TypeOK, LocalTypeOK
  <2>. QED BY <2>1, <2>2 DEF BillingInv, NobodyCalls
<1>4. ASSUME NEW w \in Workers, DistributeBegin(w, j)
      PROVE  NobodyCalls
  <2>1. \A v \in Workers : phase'[v] = IF v = w THEN "upload" ELSE phase[v]
    BY <1>4 DEF DistributeBegin, TypeOK, LocalTypeOK
  <2>2. \A v \in Workers \ {w} : step'[v] = step[v] /\ task'[v] = task[v]
    BY <1>4 DEF DistributeBegin, TypeOK, LocalTypeOK
  <2>. QED BY <2>1, <2>2 DEF BillingInv, NobodyCalls
<1>5. \/ UNCHANGED local
      \/ \E w \in Workers : \/ \E s \in MainStep : LookUpKey(w, j, s)
                          \/ DistributeBegin(w, j)
    BY DEF JobNext, CreateJob, AdvanceJob, ApproveJob, AddAsset, Webhook,
        Reconcile, HeyGenSuccess, HeyGenFailure, HeyGenHorizontal, ExpireKey, VideoEnds
<1>6. NobodyCalls
    BY <1>2, <1>3, <1>4, <1>5
<1>. QED BY <1>1, <1>6, JobStepForward, QuietStep

(* Begin takes the ticket: the advance proves that nobody has.             *)
LEMMA BeginBilling ==
    ASSUME TypeOK, BillingInv, NEW w \in Workers, Begin(w)
    PROVE  BillingInv'
<1>. DEFINE j == task[w]
            s == step[w]
<1>1. j \in Jobs /\ s \in MainStep
    BY DEF BillingInv, Begin, TypeOK, LocalTypeOK
<1>2. CanAdvance(status[j], Running[s])
    BY DEF Begin, Advance, AdvanceBy
<1>3. \A i \in Jobs : status'[i] = IF i = j THEN Running[s] ELSE status[i]
    BY DEF Begin, Advance, AdvanceBy, TypeOK, DbTypeOK
<1>4. /\ s = "audio" => status[j] \in BeforeAudio /\ status'[j] = "audio_generating"
      /\ s \in {"render", "avatar"} => status[j] \in BeforeRendering /\ status'[j] = "rendering"
    BY <1>1, <1>2, <1>3 DEF Running, CanAdvance, LegacyStatus, LegacyTransitions,
        BeforeAudio, BeforeRendering
<1>5. UNCHANGED <<billed, task>>
    BY DEF Begin, Goto, world
<1>6. \A v \in Workers : phase'[v] = IF v = w THEN "call" ELSE phase[v]
    BY DEF Begin, Goto, TypeOK, LocalTypeOK
<1>7. step' = step
    BY DEF Begin, Goto
<1>8. Forward
    BY WorkerStepForward DEF WorkerNext, PaidStepNext
<1>9. ASSUME NEW i \in Jobs
      PROVE  OneTicket(i, {"audio"}, BeforeAudio, billed[i]["audio"])'
  <2>1. OneTicket(i, {"audio"}, BeforeAudio, billed[i]["audio"])
    BY DEF BillingInv
  <2>2. status'[i] \in BeforeAudio => status[i] \in BeforeAudio
    BY <1>8 DEF Forward
  <2>3. CASE i = j /\ s = "audio"
    <3>1. billed[i]["audio"] = 0 /\ \A v \in Workers : ~Calls(v, i, {"audio"})
      BY <1>4, <2>1, <2>3 DEF OneTicket
    <3>2. status'[i] \notin BeforeAudio
      BY <1>4, <2>3 DEF BeforeAudio
    <3>3. \A v \in Workers : Calls(v, i, {"audio"})' => v = w
      BY <1>5, <1>6, <1>7, <3>1 DEF Calls
    <3>. QED BY <1>5, <3>1, <3>2, <3>3 DEF OneTicket
  <2>4. CASE ~(i = j /\ s = "audio")
    <3>1. \A v \in Workers : Calls(v, i, {"audio"})' => Calls(v, i, {"audio"})
      BY <1>5, <1>6, <1>7, <2>4 DEF Calls
    <3>. QED BY <1>5, <2>1, <2>2, <3>1 DEF OneTicket
  <2>. QED BY <2>3, <2>4
<1>10. ASSUME NEW i \in Jobs
       PROVE  OneTicket(i, {"render", "avatar"}, BeforeRendering, RendersBilled(i))'
  <2>1. OneTicket(i, {"render", "avatar"}, BeforeRendering, RendersBilled(i))
    BY DEF BillingInv
  <2>2. status'[i] \in BeforeRendering => status[i] \in BeforeRendering
    BY <1>8 DEF Forward
  <2>0. RendersBilled(i)' = RendersBilled(i)
    BY <1>5 DEF RendersBilled
  <2>3. CASE i = j /\ s \in {"render", "avatar"}
    <3>1. RendersBilled(i) = 0 /\ \A v \in Workers : ~Calls(v, i, {"render", "avatar"})
      BY <1>4, <2>1, <2>3 DEF OneTicket
    <3>2. status'[i] \notin BeforeRendering
      BY <1>4, <2>3 DEF BeforeRendering, BeforeAudio
    <3>3. \A v \in Workers : Calls(v, i, {"render", "avatar"})' => v = w
      BY <1>5, <1>6, <1>7, <3>1 DEF Calls
    <3>. QED BY <2>0, <3>1, <3>2, <3>3 DEF OneTicket
  <2>4. CASE ~(i = j /\ s \in {"render", "avatar"})
    <3>1. \A v \in Workers :
              Calls(v, i, {"render", "avatar"})' => Calls(v, i, {"render", "avatar"})
      BY <1>5, <1>6, <1>7, <2>4 DEF Calls
    <3>. QED BY <2>0, <2>1, <2>2, <3>1 DEF OneTicket
  <2>. QED BY <2>3, <2>4
<1>11. ASSUME NEW i \in Jobs
       PROVE  HorizontalTicket(i)'
  <2>1. HorizontalTicket(i)
    BY DEF BillingInv
  <2>2. \A v \in Workers : BuysHorizontal(v, i)' => BuysHorizontal(v, i)
    BY <1>5, <1>6 DEF BuysHorizontal
  <2>. QED BY <1>5, <2>1, <2>2 DEF HorizontalTicket
<1>12. \A v \in Workers : phase'[v] \in {"begin", "call"} => step'[v] \in MainStep
    BY <1>1, <1>6, <1>7 DEF BillingInv
<1>. QED BY <1>9, <1>10, <1>11, <1>12 DEF BillingInv

(* A charge spends the ticket of the worker that makes the call.           *)
LEMMA ChargeBilling ==
    ASSUME TypeOK, BillingInv, NEW w \in Workers, phase[w] = "call",
           Bill(task[w], step[w]), UNCHANGED status,
           NEW p \in {"store", "reserve_h", "fail"}, Goto(w, p),
           p = "reserve_h" => step[w] = "avatar"
    PROVE  BillingInv'
<1>. DEFINE j == task[w]
            s == step[w]
<1>1. j \in Jobs /\ s \in MainStep
    BY DEF BillingInv, TypeOK, LocalTypeOK
<1>2. /\ billed \in [Jobs -> [PaidStep -> Nat]]
      /\ \A i \in Jobs : \A t \in PaidStep :
            billed'[i][t] = IF i = j /\ t = s THEN billed[i][t] + 1 ELSE billed[i][t]
    BY <1>1 DEF Bill, TypeOK, WorldTypeOK
<1>3. /\ \A v \in Workers : phase'[v] = IF v = w THEN p ELSE phase[v]
      /\ UNCHANGED <<task, step>>
    BY DEF Goto, TypeOK, LocalTypeOK
<1>4. \A v \in Workers : \A i, S : Calls(v, i, S)' => Calls(v, i, S) /\ v # w
    BY <1>3 DEF Calls
<1>5. ASSUME NEW i \in Jobs
      PROVE  OneTicket(i, {"audio"}, BeforeAudio, billed[i]["audio"])'
  <2>1. OneTicket(i, {"audio"}, BeforeAudio, billed[i]["audio"])
    BY DEF BillingInv
  <2>2. CASE i = j /\ s = "audio"
    <3>1. Calls(w, i, {"audio"})
      BY <2>2 DEF Calls
    <3>2. billed'[i]["audio"] = 1
      BY <1>2, <2>1, <2>2, <3>1 DEF OneTicket
    <3>3. \A v \in Workers : ~Calls(v, i, {"audio"})'
      BY <1>4, <2>1, <3>1 DEF OneTicket
    <3>4. status[i] \notin BeforeAudio
      BY <2>1, <3>1 DEF OneTicket
    <3>. QED BY <3>2, <3>3, <3>4 DEF OneTicket
  <2>3. CASE ~(i = j /\ s = "audio")
    <3>1. billed'[i]["audio"] = billed[i]["audio"]
      BY <1>2, <2>3
    <3>. QED BY <1>4, <2>1, <3>1 DEF OneTicket
  <2>. QED BY <2>2, <2>3
<1>6. ASSUME NEW i \in Jobs
      PROVE  OneTicket(i, {"render", "avatar"}, BeforeRendering, RendersBilled(i))'
  <2>1. OneTicket(i, {"render", "avatar"}, BeforeRendering, RendersBilled(i))
    BY DEF BillingInv
  <2>2. CASE i = j /\ s \in {"render", "avatar"}
    <3>1. Calls(w, i, {"render", "avatar"})
      BY <2>2 DEF Calls
    <3>2. RendersBilled(i) = 0
      BY <2>1, <3>1 DEF OneTicket
    <3>3. RendersBilled(i)' = 1
      BY <1>2, <2>2, <3>2 DEF RendersBilled
    <3>4. \A v \in Workers : ~Calls(v, i, {"render", "avatar"})'
      BY <1>4, <2>1, <3>1 DEF OneTicket
    <3>5. status[i] \notin BeforeRendering
      BY <2>1, <3>1 DEF OneTicket
    <3>. QED BY <3>3, <3>4, <3>5 DEF OneTicket
  <2>3. CASE ~(i = j /\ s \in {"render", "avatar"})
    <3>1. RendersBilled(i)' = RendersBilled(i)
      BY <1>2, <2>3 DEF RendersBilled
    <3>. QED BY <1>4, <2>1, <3>1 DEF OneTicket
  <2>. QED BY <2>2, <2>3
<1>7. ASSUME NEW i \in Jobs
      PROVE  HorizontalTicket(i)'
  <2>1. HorizontalTicket(i)
    BY DEF BillingInv
  <2>2. CASE i = j /\ s = "avatar"
    <3>1. RendersBilled(i) = 0
      <4>1. Calls(w, i, {"render", "avatar"})
        BY <2>2 DEF Calls
      <4>. QED BY <4>1, <2>2, <1>1 DEF BillingInv, OneTicket
    <3>2. billed[i]["avatar"] = 0 /\ billed[i]["avatar_h"] = 0
      BY <1>2, <2>1, <3>1 DEF RendersBilled, HorizontalTicket
    <3>3. billed'[i]["avatar"] = 1 /\ billed'[i]["avatar_h"] = 0
      BY <1>2, <2>2, <3>2
    <3>4. \A v \in Workers : BuysHorizontal(v, i)' => v = w
      BY <1>3, <2>1, <3>2 DEF HorizontalTicket, BuysHorizontal
    <3>. QED BY <3>3, <3>4 DEF HorizontalTicket
  <2>3. CASE ~(i = j /\ s = "avatar")
    <3>1. billed'[i]["avatar"] = billed[i]["avatar"] /\ billed'[i]["avatar_h"] = billed[i]["avatar_h"]
      BY <1>1, <1>2, <2>3
    <3>2. \A v \in Workers : BuysHorizontal(v, i)' => BuysHorizontal(v, i)
      BY <1>3, <2>3 DEF BuysHorizontal
    <3>. QED BY <2>1, <3>1, <3>2 DEF HorizontalTicket
  <2>. QED BY <2>2, <2>3
<1>8. \A v \in Workers : phase'[v] \in {"begin", "call"} => step'[v] \in MainStep
    BY <1>3 DEF BillingInv
<1>. QED BY <1>5, <1>6, <1>7, <1>8 DEF BillingInv

(* The charge for the horizontal video.                                    *)
LEMMA ChargeHorizontalBilling ==
    ASSUME TypeOK, BillingInv, NEW w \in Workers, phase[w] = "call_h",
           Bill(task[w], "avatar_h"), UNCHANGED status,
           NEW p \in {"store_h", "fail_h"}, Goto(w, p)
    PROVE  BillingInv'
<1>. DEFINE j == task[w]
<1>1. j \in Jobs
    BY DEF TypeOK, LocalTypeOK
<1>2. /\ billed \in [Jobs -> [PaidStep -> Nat]]
      /\ \A i \in Jobs : \A t \in PaidStep :
            billed'[i][t] = IF i = j /\ t = "avatar_h" THEN billed[i][t] + 1 ELSE billed[i][t]
    BY <1>1 DEF Bill, TypeOK, WorldTypeOK
<1>3. /\ \A v \in Workers : phase'[v] = IF v = w THEN p ELSE phase[v]
      /\ UNCHANGED <<task, step>>
    BY DEF Goto, TypeOK, LocalTypeOK
<1>4. \A v \in Workers : \A i, S : Calls(v, i, S)' => Calls(v, i, S)
    BY <1>3 DEF Calls
<1>5. ASSUME NEW i \in Jobs
      PROVE  OneTicket(i, {"audio"}, BeforeAudio, billed[i]["audio"])'
  <2>1. OneTicket(i, {"audio"}, BeforeAudio, billed[i]["audio"])
    BY DEF BillingInv
  <2>2. billed'[i]["audio"] = billed[i]["audio"]
    BY <1>2
  <2>. QED BY <1>4, <2>1, <2>2 DEF OneTicket
<1>6. ASSUME NEW i \in Jobs
      PROVE  OneTicket(i, {"render", "avatar"}, BeforeRendering, RendersBilled(i))'
  <2>1. OneTicket(i, {"render", "avatar"}, BeforeRendering, RendersBilled(i))
    BY DEF BillingInv
  <2>2. RendersBilled(i)' = RendersBilled(i)
    BY <1>2 DEF RendersBilled
  <2>. QED BY <1>4, <2>1, <2>2 DEF OneTicket
<1>7. ASSUME NEW i \in Jobs
      PROVE  HorizontalTicket(i)'
  <2>1. HorizontalTicket(i)
    BY DEF BillingInv
  <2>2. \A v \in Workers : BuysHorizontal(v, i)' => BuysHorizontal(v, i) /\ v # w
    BY <1>3 DEF BuysHorizontal
  <2>3. billed'[i]["avatar"] = billed[i]["avatar"]
    BY <1>2
  <2>4. CASE i = j
    <3>1. BuysHorizontal(w, i)
      BY <2>4 DEF BuysHorizontal
    <3>2. billed'[i]["avatar_h"] = 1 /\ billed[i]["avatar"] = 1
      BY <1>2, <2>1, <2>4, <3>1 DEF HorizontalTicket
    <3>3. \A v \in Workers : ~BuysHorizontal(v, i)'
      BY <2>1, <2>2, <3>1 DEF HorizontalTicket
    <3>. QED BY <2>3, <3>2, <3>3 DEF HorizontalTicket
  <2>5. CASE i # j
    <3>1. billed'[i]["avatar_h"] = billed[i]["avatar_h"]
      BY <1>2, <2>5
    <3>. QED BY <2>1, <2>2, <2>3, <3>1 DEF HorizontalTicket
  <2>. QED BY <2>4, <2>5
<1>8. \A v \in Workers : phase'[v] \in {"begin", "call"} => step'[v] \in MainStep
    BY <1>3 DEF BillingInv
<1>. QED BY <1>5, <1>6, <1>7, <1>8 DEF BillingInv

LEMMA WorkerStepBilling ==
    ASSUME TypeOK, BillingInv, NEW w \in Workers, WorkerNext(w) \/ Crash(w)
    PROVE  BillingInv'
<1>1. CASE Begin(w)
    BY <1>1, BeginBilling
<1>2. CASE CallReturns(w)
  <2>1. PICK p \in {"store", "reserve_h"} : Goto(w, p) /\ (p = "reserve_h" => step[w] = "avatar")
    BY <1>2 DEF CallReturns
  <2>2. phase[w] = "call" /\ Bill(task[w], step[w]) /\ UNCHANGED status
    BY <1>2 DEF CallReturns, db
  <2>. QED BY <2>1, <2>2, ChargeBilling
<1>3. ASSUME UNCHANGED billed, NEW p \in Phase \ {"begin", "call", "reserve_h"}, Goto(w, p),
             p = "call_h" => phase[w] = "reserve_h"
      PROVE  BillingInv'
  <2>1. NobodyCalls
    BY <1>3, GotoQuiet
  <2>. QED BY <1>3, <2>1, WorkerStepForward, QuietStep
<1>4. CASE CallRaises(w)
  <2>1. phase[w] = "call" /\ Goto(w, "fail") /\ UNCHANGED status
    BY <1>4 DEF CallRaises, db
  <2>2. CASE UNCHANGED billed
    BY <2>1, <2>2, <1>3 DEF Phase
  <2>3. CASE Bill(task[w], step[w])
    BY <2>1, <2>3, ChargeBilling
  <2>. QED BY <1>4, <2>2, <2>3 DEF CallRaises
<1>5. CASE CallHorizontal(w)
  <2>1. PICK p \in {"store_h", "fail_h"} : Goto(w, p)
    BY <1>5 DEF CallHorizontal
  <2>2. phase[w] = "call_h" /\ UNCHANGED status
    BY <1>5 DEF CallHorizontal, db
  <2>3. CASE UNCHANGED billed
    BY <2>1, <2>3, <1>3 DEF Phase
  <2>4. CASE Bill(task[w], "avatar_h")
    BY <2>1, <2>2, <2>4, ChargeHorizontalBilling
  <2>. QED BY <1>5, <2>3, <2>4 DEF CallHorizontal
<1>6. CASE \/ ReserveHorizontal(w) \/ FailHorizontal(w) \/ FailStepAfterCall(w)
           \/ FailStepRaises(w) \/ BeginRefused(w) \/ StoreAudio(w) \/ StoreRender(w)
           \/ StoreAvatar(w) \/ StoreRaises(w) \/ SkipUpload(w) \/ UploadReturns(w)
           \/ UploadRaises(w) \/ PersistUploadId(w) \/ Deliver(w) \/ DeliverRefused(w) \/ Crash(w)
  <2>1. PICK p \in Phase \ {"begin", "call", "reserve_h"} :
            Goto(w, p) /\ (p = "call_h" => phase[w] = "reserve_h")
    BY <1>6 DEF Phase, ReserveHorizontal, FailHorizontal, FailStepAfterCall, FailStepRaises,
        BeginRefused, StoreAudio, StoreRender, StoreAvatar, StoreRaises, SkipUpload,
        UploadReturns, UploadRaises, PersistUploadId, Deliver, DeliverRefused, Crash
  <2>2. UNCHANGED billed
    BY <1>6 DEF world, ReserveHorizontal, FailHorizontal, FailStepAfterCall, FailStepRaises,
        BeginRefused, StoreAudio, StoreRender, StoreAvatar, StoreRaises, SkipUpload,
        UploadReturns, UploadRaises, PersistUploadId, Deliver, DeliverRefused, Crash
  <2>. QED BY <1>3, <2>1, <2>2
<1>. QED BY <1>1, <1>2, <1>4, <1>5, <1>6 DEF WorkerNext, PaidStepNext, DistributeNext

(* The tickets of every reachable state are in order.                      *)
THEOREM BillingInvariant == Spec => []BillingInv
<1>1. Init => BillingInv
    BY DEF Init, BillingInv, OneTicket, HorizontalTicket, RendersBilled, Calls, BuysHorizontal
<1>2. TypeOK /\ BillingInv /\ [Next]_vars => BillingInv'
  <2>. SUFFICES ASSUME TypeOK, BillingInv, [Next]_vars PROVE BillingInv'
    OBVIOUS
  <2>1. CASE Next
    BY <2>1, NextCases, JobStepBilling, WorkerStepBilling
  <2>2. CASE UNCHANGED vars
    <3>1. Forward /\ NobodyCalls /\ UNCHANGED billed
      BY <2>2, LocalQuiet DEF vars, local, Forward
    <3>. QED BY <3>1, QuietStep
  <2>. QED BY <2>1, <2>2
<1>. QED BY <1>1, <1>2, TypeCorrect, PTL DEF Spec

(* At most one narration, one render and one horizontal video are charged  *)
(* for a job.                                                              *)
THEOREM ChargedOnce == Spec => []BilledAtMostOnce
<1>1. BillingInv => BilledAtMostOnce
    BY DEF BillingInv, OneTicket, HorizontalTicket, BilledAtMostOnce
<1>. QED BY <1>1, BillingInvariant, PTL

-----------------------------------------------------------------------------
(* Keys.                                                                   *)

(* No key of a main step appears.                                          *)
NoNewKey ==
    \A j \in Jobs, s \in MainStep : keys[j][s] = "none" => keys'[j][s] = "none"

LEMMA KeylessStep ==
    ASSUME KeyInv, Forward, NoNewKey
    PROVE  KeyInv'
<1>1. ASSUME NEW j \in Jobs, status'[j] \in BeforeAudio
      PROVE  keys'[j]["audio"] = "none"
    BY <1>1 DEF KeyInv, Forward, NoNewKey
<1>2. ASSUME NEW j \in Jobs, status'[j] \in BeforeRendering
      PROVE  keys'[j]["render"] = "none" /\ keys'[j]["avatar"] = "none"
    BY <1>2 DEF KeyInv, Forward, NoNewKey
<1>. QED BY <1>1, <1>2 DEF KeyInv

LEMMA ClearKey ==
    ASSUME TypeOK, NEW j \in Jobs, NEW s \in PaidStep,
           keys' = [keys EXCEPT ![j][s] = "none"]
    PROVE  NoNewKey
    BY DEF NoNewKey, TypeOK, DbTypeOK

LEMMA JobStepKeys ==
    ASSUME TypeOK, NEW j \in Jobs, JobNext(j)
    PROVE  NoNewKey
<1>1. CASE UNCHANGED keys
    BY <1>1 DEF NoNewKey
<1>2. ASSUME NEW s \in PaidStep, keys' = [keys EXCEPT ![j][s] = "none"]
      PROVE  NoNewKey
    BY <1>2, ClearKey
<1>3. ASSUME NEW s \in PaidStep, ExpireKey(j, s)
      PROVE  NoNewKey
  <2>1. \A i \in Jobs, t \in PaidStep :
            keys'[i][t] = IF i = j /\ t = s THEN "expired" ELSE keys[i][t]
    BY <1>3 DEF ExpireKey, TypeOK, DbTypeOK
  <2>2. keys[j][s] = "live"
    BY <1>3 DEF ExpireKey
  <2>. QED BY <2>1, <2>2 DEF NoNewKey
<1>4. CASE HeyGenFailure(j)
    BY <1>2, <1>4 DEF HeyGenFailure
<1>5. CASE FailStep(j, "audio")
    BY <1>2, <1>5 DEF FailStep
<1>6. CASE Webhook(j) \/ Reconcile(j)
    BY <1>1, <1>4, <1>5, <1>6 DEF Webhook, Reconcile, HeyGenSuccess, HeyGenHorizontal
<1>7. CASE \/ CreateJob(j)
           \/ \E to \in LegacyStatus : AdvanceJob(j, to)
           \/ ApproveJob(j)
           \/ \E kind \in AssetKind : AddAsset(j, kind)
           \/ \E s \in {"avatar", "avatar_h"} : VideoEnds(j, s)
           \/ \E w \in Workers :
                 \/ \E s \in MainStep : LookUpKey(w, j, s)
                 \/ DistributeBegin(w, j)
    BY <1>1, <1>7 DEF CreateJob, AdvanceJob, ApproveJob, AddAsset, VideoEnds, LookUpKey,
        DistributeBegin, db
<1>. QED BY <1>3, <1>6, <1>7 DEF JobNext

(* Every step of a worker but Begin.                                       *)
LEMMA WorkerStepKeys ==
    ASSUME TypeOK, BillingInv, NEW w \in Workers, WorkerNext(w) \/ Crash(w), ~Begin(w)
    PROVE  NoNewKey
<1>j. task[w] \in Jobs
    BY DEF TypeOK, LocalTypeOK
<1>1. CASE UNCHANGED keys
    BY <1>1 DEF NoNewKey
<1>2. CASE FailStepAfterCall(w)
  <2>1. \A i \in Jobs, t \in PaidStep : keys'[i][t] = keys[i][t] \/ keys'[i][t] = "none"
    BY <1>2, <1>j DEF FailStepAfterCall, FailStep, TypeOK, DbTypeOK
  <2>. QED BY <2>1 DEF NoNewKey
<1>3. CASE FailHorizontal(w)
    BY <1>3, <1>j, ClearKey DEF FailHorizontal
<1>4. CASE ReserveHorizontal(w)
  <2>1. CASE keys' = [keys EXCEPT ![task[w]]["avatar_h"] = "live"]
    BY <2>1, <1>j DEF NoNewKey, TypeOK, DbTypeOK
  <2>. QED BY <1>1, <1>4, <2>1 DEF ReserveHorizontal
<1>5. CASE StoreAudio(w) \/ StoreRender(w) \/ StoreAvatar(w)
  <2>1. \A i \in Jobs, t \in PaidStep : keys'[i][t] \in {keys[i][t], Finish(keys[i][t])}
    <3>1. keys \in [Jobs -> [PaidStep -> {"none", "live", "expired", "done"}]]
      BY DEF TypeOK, DbTypeOK
    <3>2. \/ \E s \in MainStep : keys' = [keys EXCEPT ![task[w]][s] = Finish(@)]
          \/ keys' = [keys EXCEPT ![task[w]]["avatar"] = Finish(@),
                                 ![task[w]]["avatar_h"] = Finish(@)]
      BY <1>5 DEF StoreAudio, StoreRender, StoreAvatar
    <3>. QED BY <3>1, <3>2, <1>j
  <2>. QED BY <2>1 DEF NoNewKey, Finish
<1>6. CASE \/ BeginRefused(w) \/ CallReturns(w) \/ CallRaises(w) \/ FailStepRaises(w)
           \/ CallHorizontal(w) \/ StoreRaises(w) \/ SkipUpload(w) \/ UploadReturns(w)
           \/ UploadRaises(w) \/ PersistUploadId(w) \/ Deliver(w) \/ DeliverRefused(w) \/ Crash(w)
    BY <1>1, <1>6 DEF BeginRefused, CallReturns, CallRaises, FailStepRaises, CallHorizontal,
        StoreRaises, SkipUpload, UploadReturns, UploadRaises, PersistUploadId, Deliver,
        DeliverRefused, Crash, db
<1>. QED BY <1>2, <1>3, <1>4, <1>5, <1>6 DEF WorkerNext, PaidStepNext, DistributeNext

(* Begin adds a key and leaves the statuses that come before it.           *)
LEMMA BeginKeys ==
    ASSUME TypeOK, BillingInv, KeyInv, NEW w \in Workers, Begin(w)
    PROVE  KeyInv'
<1>. DEFINE j == task[w]
            s == step[w]
<1>1. j \in Jobs /\ s \in MainStep
    BY DEF BillingInv, Begin, TypeOK, LocalTypeOK
<1>2. \A i \in Jobs : status'[i] = IF i = j THEN Running[s] ELSE status[i]
    BY DEF Begin, Advance, AdvanceBy, TypeOK, DbTypeOK
<1>3. \A i \in Jobs, t \in PaidStep : ~(i = j /\ t = s) => keys'[i][t] = keys[i][t]
    BY <1>1 DEF Begin, ReserveKey, TypeOK, DbTypeOK
<1>4. Forward
    BY WorkerStepForward DEF WorkerNext, PaidStepNext
<1>5. ASSUME NEW i \in Jobs, status'[i] \in BeforeAudio
      PROVE  keys'[i]["audio"] = "none"
  <2>1. i # j
    BY <1>1, <1>2, <1>5 DEF Running, BeforeAudio
  <2>. QED BY <1>3, <1>4, <1>5, <2>1 DEF KeyInv, Forward
<1>6. ASSUME NEW i \in Jobs, status'[i] \in BeforeRendering
      PROVE  keys'[i]["render"] = "none" /\ keys'[i]["avatar"] = "none"
  <2>1. i # j \/ s = "audio"
    BY <1>1, <1>2, <1>6 DEF Running, BeforeRendering, BeforeAudio
  <2>. QED BY <1>3, <1>4, <1>6, <2>1 DEF KeyInv, Forward
<1>. QED BY <1>5, <1>6 DEF KeyInv

(* The keys of every reachable state are in order.                         *)
THEOREM KeyInvariant == Spec => []KeyInv
<1>1. Init => KeyInv
    BY DEF Init, KeyInv
<1>2. TypeOK /\ BillingInv /\ KeyInv /\ [Next]_vars => KeyInv'
  <2>. SUFFICES ASSUME TypeOK, BillingInv, KeyInv, [Next]_vars PROVE KeyInv'
    OBVIOUS
  <2>1. ASSUME NEW j \in Jobs, JobNext(j) PROVE KeyInv'
    BY <2>1, JobStepForward, JobStepKeys, KeylessStep
  <2>2. ASSUME NEW w \in Workers, WorkerNext(w) \/ Crash(w) PROVE KeyInv'
    BY <2>2, BeginKeys, WorkerStepForward, WorkerStepKeys, KeylessStep
  <2>3. CASE UNCHANGED vars
    <3>1. Forward /\ NoNewKey
      BY <2>3 DEF vars, Forward, NoNewKey
    <3>. QED BY <3>1, KeylessStep
  <2>. QED BY <2>1, <2>2, <2>3, NextCases
<1>. QED BY <1>1, <1>2, TypeCorrect, BillingInvariant, PTL DEF Spec

(* A step that its job's status lets begin finds its key free.             *)
THEOREM FreshReservation == Spec => []ReservationIsFresh
<1>1. KeyInv => ReservationIsFresh
  <2>. SUFFICES ASSUME KeyInv, NEW j \in Jobs, NEW s \in MainStep,
                       CanAdvance(status[j], Running[s])
                PROVE  keys[j][s] = "none"
    BY DEF ReservationIsFresh
  <2>1. /\ s = "audio" => status[j] \in BeforeAudio
        /\ s \in {"render", "avatar"} => status[j] \in BeforeRendering
    BY DEF Running, CanAdvance, LegacyStatus, LegacyTransitions, BeforeAudio, BeforeRendering
  <2>. QED BY <2>1 DEF KeyInv
<1>. QED BY <1>1, KeyInvariant, PTL

=============================================================================
