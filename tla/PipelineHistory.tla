--------------------------- MODULE PipelineHistory ---------------------------
(***************************************************************************)
(* What a job's past tells of its present, for any number of jobs and      *)
(* workers: its events are a path to its status, what was put up for       *)
(* review is there and was announced once, what is published was approved, *)
(* and a finished key has its asset; and the pipeline implements           *)
(* JobLifecycle.                                                           *)
(***************************************************************************)
EXTENDS PipelineProofs

USE DEF MainStep, PaidStep

-----------------------------------------------------------------------------
(* What one step does to the history of a job: nothing, its creation, one  *)
(* advance, or the two advances that put it up for review.                 *)

Quiet(i) == UNCHANGED <<status[i], events[i], outbox[i]>>

Created(i) ==
    /\ status[i] = "absent"
    /\ outbox'[i] = outbox[i]
    /\ \/ status'[i] = "pending" /\ events'[i] = events[i]
       \/ /\ status'[i] = "script_ready"
          /\ events'[i] = Append(events[i], Event("pending", "script_ready", "system"))

Advanced(i, to, by) ==
    /\ CanAdvance(status[i], to)
    /\ status'[i] = to
    /\ events'[i] = Append(events[i], Event(status[i], to, by))
    /\ outbox'[i] = outbox[i]
    /\ by = "operator" => to \notin {"approved", "delivered"}
    /\ by = "system" => to # "staged"
    /\ to = "approved" => approvedBy'[i]
    /\ by = "system" /\ to = "audio_ready" => "audio" \in assets'[i]

Staged(i) ==
    /\ CanAdvance(status[i], "rendered")
    /\ status'[i] = "staged"
    /\ events'[i] = events[i] \o <<Event(status[i], "rendered", "system"),
                                   Event("rendered", "staged", "system")>>
    /\ outbox'[i] = outbox[i] + 1
    /\ "final" \in assets'[i]

HistoryStep(i) ==
    /\ assets[i] \subseteq assets'[i]
    /\ approvedBy[i] => approvedBy'[i]
    /\ \/ Quiet(i)
       \/ Created(i)
       \/ \E to \in LegacyStatus, by \in {"system", "operator"} : Advanced(i, to, by)
       \/ Staged(i)

(* An advance is a step of its job, and of no other.                       *)
LEMMA AdvanceHistory ==
    ASSUME TypeOK, NEW j \in Jobs, NEW to, NEW by \in {"system", "operator"},
           AdvanceBy(j, to, by), UNCHANGED <<outbox>>,
           assets[j] \subseteq assets'[j], \A i \in Jobs \ {j} : assets'[i] = assets[i],
           approvedBy[j] => approvedBy'[j],
           \A i \in Jobs \ {j} : approvedBy'[i] = approvedBy[i],
           by = "operator" => to \notin {"approved", "delivered"},
           by = "system" => to # "staged",
           to = "approved" => approvedBy'[j],
           by = "system" /\ to = "audio_ready" => "audio" \in assets'[j]
    PROVE  \A i \in Jobs : HistoryStep(i)
<1>1. to \in LegacyStatus
    BY CanAdvanceType DEF AdvanceBy
<1>2. \A i \in Jobs : /\ status'[i] = IF i = j THEN to ELSE status[i]
                      /\ events'[i] = IF i = j THEN Append(events[j], Event(status[j], to, by))
                                               ELSE events[i]
    BY DEF AdvanceBy, TypeOK, DbTypeOK
<1>3. Advanced(j, to, by)
    BY <1>2 DEF Advanced, AdvanceBy
<1>4. HistoryStep(j)
    BY <1>1, <1>3 DEF HistoryStep
<1>5. ASSUME NEW i \in Jobs, i # j
      PROVE  HistoryStep(i)
    BY <1>2, <1>5 DEF HistoryStep, Quiet
<1>. QED BY <1>4, <1>5

(* The two advances to staged, which come with the final asset.            *)
LEMMA StagedHistory ==
    ASSUME TypeOK, NEW j \in Jobs, AdvanceToStaged(j), UNCHANGED approvedBy,
           assets' = [assets EXCEPT ![j] = @ \cup {"final"}]
    PROVE  \A i \in Jobs : HistoryStep(i)
<1>1. \A i \in Jobs : i # j => HistoryStep(i)
    BY DEF AdvanceToStaged, TypeOK, DbTypeOK, HistoryStep, Quiet
<1>2. Staged(j)
    BY DEF AdvanceToStaged, TypeOK, DbTypeOK, Staged
<1>3. HistoryStep(j)
    BY <1>2 DEF TypeOK, DbTypeOK, HistoryStep
<1>. QED BY <1>1, <1>3

(* A step that fails its job, or finds it failed.                          *)
LEMMA FailStepHistory ==
    ASSUME TypeOK, NEW j \in Jobs, NEW s, FailStep(j, s),
           UNCHANGED <<approvedBy, assets, outbox>>
    PROVE  \A i \in Jobs : HistoryStep(i)
<1>1. CASE Advance(j, "failed")
    BY <1>1, AdvanceHistory DEF Advance
<1>2. CASE UNCHANGED <<status, events>>
    BY <1>2 DEF HistoryStep, Quiet
<1>. QED BY <1>1, <1>2 DEF FailStep

(* What the API, the webhooks and reconcile do to a job's history.         *)
LEMMA JobStepHistory ==
    ASSUME TypeOK, NEW j \in Jobs, JobNext(j)
    PROVE  \A i \in Jobs : HistoryStep(i)
<1>1. CASE CreateJob(j)
  <2>1. \A i \in Jobs : i # j => HistoryStep(i)
    BY <1>1 DEF CreateJob, TypeOK, DbTypeOK, HistoryStep, Quiet
  <2>2. Created(j)
    BY <1>1 DEF CreateJob, Exists, TypeOK, DbTypeOK, Created
  <2>3. HistoryStep(j)
    BY <1>1, <2>2 DEF CreateJob, HistoryStep
  <2>. QED BY <2>1, <2>3
<1>2. ASSUME NEW to \in LegacyStatus, AdvanceJob(j, to)
      PROVE  \A i \in Jobs : HistoryStep(i)
    BY <1>2, AdvanceHistory DEF AdvanceJob
<1>3. CASE ApproveJob(j)
  <2>1. /\ approvedBy'[j] = TRUE
        /\ \A i \in Jobs \ {j} : approvedBy'[i] = approvedBy[i]
    BY <1>3 DEF ApproveJob, TypeOK, DbTypeOK
  <2>. QED BY <1>3, <2>1, AdvanceHistory DEF ApproveJob, Advance
<1>4. CASE HeyGenSuccess(j)
    BY <1>4, StagedHistory DEF HeyGenSuccess
<1>5. CASE HeyGenFailure(j)
    BY <1>5, AdvanceHistory DEF HeyGenFailure, Advance
<1>6. CASE FailStep(j, "audio") /\ UNCHANGED <<approvedBy, assets, outbox>>
    BY <1>6, FailStepHistory
<1>7. CASE UNCHANGED <<status, events, outbox, approvedBy>> /\ \A i \in Jobs : assets[i] \subseteq assets'[i]
    BY <1>7 DEF HistoryStep, Quiet
<1>8. CASE HeyGenHorizontal(j) \/ \E kind \in AssetKind : AddAsset(j, kind)
  <2>1. PICK kind : assets' = [assets EXCEPT ![j] = @ \cup {kind}]
    BY <1>8 DEF HeyGenHorizontal, AddAsset
  <2>2. \A i \in Jobs : assets[i] \subseteq assets'[i]
    BY <2>1 DEF TypeOK, DbTypeOK
  <2>. QED BY <1>7, <1>8, <2>2 DEF HeyGenHorizontal, AddAsset
<1>9. CASE Webhook(j) \/ Reconcile(j)
    BY <1>4, <1>5, <1>6, <1>8, <1>9 DEF Webhook, Reconcile
<1>10. CASE \/ \E s \in PaidStep : ExpireKey(j, s)
            \/ \E s \in {"avatar", "avatar_h"} : VideoEnds(j, s)
            \/ \E w \in Workers :
                  \/ \E s \in MainStep : LookUpKey(w, j, s)
                  \/ DistributeBegin(w, j)
    BY <1>7, <1>10 DEF ExpireKey, VideoEnds, LookUpKey, DistributeBegin, db
<1>. QED BY <1>1, <1>2, <1>3, <1>8, <1>9, <1>10 DEF JobNext

(* What a worker does to a job's history.                                  *)
LEMMA WorkerStepHistory ==
    ASSUME TypeOK, BillingInv, NEW w \in Workers, WorkerNext(w) \/ Crash(w)
    PROVE  \A i \in Jobs : HistoryStep(i)
<1>j. task[w] \in Jobs
    BY DEF TypeOK, LocalTypeOK
<1>1. CASE Begin(w)
  <2>1. Running[step[w]] \notin {"staged", "approved", "audio_ready"}
    BY <1>1 DEF Begin, BillingInv, Running
  <2>. QED BY <1>1, <1>j, <2>1, AdvanceHistory DEF Begin, Advance
<1>2. CASE StoreAudio(w)
  <2>1. /\ "audio" \in assets'[task[w]] /\ assets[task[w]] \subseteq assets'[task[w]]
        /\ \A i \in Jobs \ {task[w]} : assets'[i] = assets[i]
    BY <1>2, <1>j DEF StoreAudio, TypeOK, DbTypeOK
  <2>. QED BY <1>2, <1>j, <2>1, AdvanceHistory DEF StoreAudio, Advance
<1>3. CASE Deliver(w)
    BY <1>3, <1>j, AdvanceHistory DEF Deliver, Advance
<1>4. CASE StoreRender(w)
    BY <1>4, <1>j, StagedHistory DEF StoreRender
<1>5. CASE FailStepAfterCall(w)
    BY <1>5, <1>j, FailStepHistory DEF FailStepAfterCall
<1>6. CASE StoreAvatar(w)
  <2>1. PICK more : assets' = [assets EXCEPT ![task[w]] = @ \cup more]
    BY <1>6 DEF StoreAvatar
  <2>2. \A i \in Jobs : assets[i] \subseteq assets'[i]
    BY <2>1 DEF TypeOK, DbTypeOK
  <2>. QED BY <1>6, <2>2 DEF StoreAvatar, HistoryStep, Quiet
<1>7. CASE UNCHANGED <<status, events, outbox, approvedBy, assets>>
    BY <1>7 DEF HistoryStep, Quiet
<1>8. CASE \/ BeginRefused(w) \/ CallReturns(w) \/ CallRaises(w) \/ FailStepRaises(w)
           \/ ReserveHorizontal(w) \/ CallHorizontal(w) \/ FailHorizontal(w)
           \/ StoreRaises(w) \/ SkipUpload(w) \/ UploadReturns(w)
           \/ UploadRaises(w) \/ PersistUploadId(w) \/ DeliverRefused(w) \/ Crash(w)
    BY <1>7, <1>8 DEF BeginRefused, CallReturns, CallRaises, FailStepRaises, ReserveHorizontal,
        CallHorizontal, FailHorizontal, StoreRaises, SkipUpload, UploadReturns,
        UploadRaises, PersistUploadId, DeliverRefused, Crash, db
<1>. QED BY <1>1, <1>2, <1>3, <1>4, <1>5, <1>6, <1>8 DEF WorkerNext, PaidStepNext, DistributeNext

(* Every step is one of the four for each job.                             *)
LEMMA NextHistory ==
    ASSUME TypeOK, BillingInv, [Next]_vars
    PROVE  \A i \in Jobs : HistoryStep(i)
<1>1. CASE UNCHANGED vars
    BY <1>1 DEF vars, HistoryStep, Quiet
<1>. QED BY <1>1, NextCases, JobStepHistory, WorkerStepHistory

-----------------------------------------------------------------------------
(* Events that are appended.                                               *)

(* A path that is not empty ends in a status of the graph.                 *)
LEMMA TrailEnds ==
    ASSUME NEW h \in Seq(EventRow), NEW s, Trail(h, s), Len(h) # 0
    PROVE  s \in LegacyStatus /\ s # "absent"
<1>1. CanAdvance(h[Len(h)].from, h[Len(h)].to) /\ h[Len(h)].to = s
    BY DEF Trail
<1>2. s \in LegacyStatus
    BY <1>1, CanAdvanceType
<1>. QED BY <1>2 DEF LegacyStatus

(* A path goes on along an edge from its end.                              *)
LEMMA TrailAppend ==
    ASSUME NEW h \in Seq(EventRow), NEW s, Trail(h, s), NEW e \in EventRow,
           CanAdvance(e.from, e.to),
           e.from = s \/ (s = "absent" /\ e.from = "pending")
    PROVE  Trail(Append(h, e), e.to)
<1>. DEFINE n == Len(h)
            g == Append(h, e)
<1>1. /\ n \in Nat /\ Len(g) = n + 1 /\ g[n + 1] = e
      /\ \A i \in 1..n : g[i] = h[i]
    OBVIOUS
<1>2. n > 0 => s # "absent"
    BY TrailEnds DEF Trail
<1>0. e.from # "absent"
    BY CanAdvanceType DEF LegacyStatus
<1>3. \A i \in 1..(n + 1) : CanAdvance(g[i].from, g[i].to)
    BY <1>1 DEF Trail
<1>4. \A i \in 1..n : g[i].to = g[i + 1].from
  <2>. TAKE i \in 1..n
  <2>1. CASE i = n
    BY <1>1, <1>2, <2>1 DEF Trail
  <2>2. CASE i # n
    <3>1. i \in 1..(n - 1) /\ i + 1 \in 1..n
      BY <1>1, <2>2
    <3>. QED BY <1>1, <3>1 DEF Trail
  <2>. QED BY <2>1, <2>2
<1>5. g[1].from = "pending"
  <2>1. CASE n = 0
    <3>1. s \in {"absent", "pending"}
      BY <2>1 DEF Trail
    <3>. QED BY <1>0, <1>1, <2>1, <3>1
  <2>2. CASE n > 0
    BY <1>1, <2>2 DEF Trail
  <2>. QED BY <1>1, <2>1, <2>2
<1>6. g[n + 1].to = e.to
    BY <1>1
<1>. HIDE DEF g
<1>7. Len(g) - 1 = n
    BY <1>1
<1>. QED BY <1>1, <1>3, <1>4, <1>5, <1>6, <1>7 DEF Trail

(* Two events appended at once are one after the other.                    *)
LEMMA AppendTwo ==
    ASSUME NEW h \in Seq(EventRow), NEW a \in EventRow, NEW b \in EventRow
    PROVE  /\ h \o <<a, b>> = Append(Append(h, a), b)
           /\ Append(h, a) \in Seq(EventRow)
    OBVIOUS

Told(h, to, by) == \E i \in DOMAIN h : h[i].to = to /\ h[i].by = by

(* An event more tells what it says, and nothing else.                     *)
LEMMA ToldAppend ==
    ASSUME NEW h \in Seq(EventRow), NEW e \in EventRow, NEW to, NEW by
    PROVE  Told(Append(h, e), to, by) <=> Told(h, to, by) \/ (e.to = to /\ e.by = by)
<1>. DEFINE g == Append(h, e)
<1>1. /\ DOMAIN h = 1..Len(h) /\ DOMAIN g = 1..(Len(h) + 1) /\ Len(h) \in Nat
      /\ \A i \in 1..Len(h) : g[i] = h[i]
      /\ g[Len(h) + 1] = e
    OBVIOUS
<1>. HIDE DEF g
<1>2. ASSUME Told(g, to, by)
      PROVE  Told(h, to, by) \/ (e.to = to /\ e.by = by)
  <2>1. PICK i \in 1..(Len(h) + 1) : g[i].to = to /\ g[i].by = by
    BY <1>1, <1>2 DEF Told
  <2>2. CASE i = Len(h) + 1
    BY <1>1, <2>1, <2>2
  <2>3. CASE i \in 1..Len(h)
    BY <1>1, <2>1, <2>3 DEF Told
  <2>. QED BY <1>1, <2>2, <2>3
<1>3. ASSUME Told(h, to, by) \/ (e.to = to /\ e.by = by)
      PROVE  Told(g, to, by)
  <2>1. CASE Told(h, to, by)
    <3>1. PICK i \in 1..Len(h) : h[i].to = to /\ h[i].by = by
      BY <1>1, <2>1 DEF Told
    <3>2. i \in 1..(Len(h) + 1) /\ g[i] = h[i]
      BY <1>1
    <3>. QED BY <1>1, <3>1, <3>2 DEF Told
  <2>2. CASE e.to = to /\ e.by = by
    <3>1. Len(h) + 1 \in 1..(Len(h) + 1)
      BY <1>1
    <3>. QED BY <1>1, <2>2, <3>1 DEF Told
  <2>. QED BY <1>3, <2>1, <2>2
<1>. QED BY <1>2, <1>3 DEF g

(* What the step of a job adds to its past.                                *)
LEMMA PastCreated ==
    ASSUME TypeOK, NEW j \in Jobs, Created(j), NEW to, NEW by, to # "script_ready"
    PROVE  Reached(j, to, by)' <=> Reached(j, to, by)
<1>1. events[j] \in Seq(EventRow)
    BY DEF TypeOK, DbTypeOK
<1>2. Event("pending", "script_ready", "system") \in EventRow
    BY DEF Event, EventRow, LegacyStatus
<1>3. Told(events'[j], to, by) <=> Told(events[j], to, by)
  <2>1. CASE events'[j] = events[j]
    BY <2>1
  <2>2. CASE events'[j] = Append(events[j], Event("pending", "script_ready", "system"))
    BY <1>1, <1>2, <2>2, ToldAppend DEF Event
  <2>. QED BY <2>1, <2>2 DEF Created
<1>. QED BY <1>3 DEF Told, Reached

(* An advance adds the status it leads to.                                 *)
LEMMA PastAdvanced ==
    ASSUME TypeOK, NEW j \in Jobs, NEW s \in LegacyStatus, NEW b \in {"system", "operator"},
           Advanced(j, s, b), NEW to, NEW by
    PROVE  Reached(j, to, by)' <=> Reached(j, to, by) \/ (s = to /\ b = by)
<1>1. events[j] \in Seq(EventRow)
    BY DEF TypeOK, DbTypeOK
<1>2. Event(status[j], s, b) \in EventRow
    BY DEF Advanced, CanAdvance, Event, EventRow
<1>3. Told(events'[j], to, by) <=> Told(events[j], to, by) \/ (s = to /\ b = by)
    BY <1>1, <1>2, ToldAppend DEF Advanced, Event
<1>. QED BY <1>3 DEF Told, Reached

(* The two advances to staged add both.                                    *)
LEMMA PastStaged ==
    ASSUME TypeOK, NEW j \in Jobs, Staged(j), NEW to, NEW by
    PROVE  Reached(j, to, by)' <=>
               Reached(j, to, by) \/ (to \in {"rendered", "staged"} /\ by = "system")
<1>. DEFINE a == Event(status[j], "rendered", "system")
            b == Event("rendered", "staged", "system")
<1>1. events[j] \in Seq(EventRow)
    BY DEF TypeOK, DbTypeOK
<1>2. /\ a \in EventRow /\ a.to = "rendered" /\ a.by = "system"
      /\ b \in EventRow /\ b.to = "staged" /\ b.by = "system"
    BY DEF Staged, CanAdvance, Event, EventRow, LegacyStatus
<1>3. events'[j] = Append(Append(events[j], a), b) /\ Append(events[j], a) \in Seq(EventRow)
    BY <1>1, <1>2, AppendTwo DEF Staged
<1>. HIDE DEF a, b
<1>4. Told(Append(events[j], a), to, by) <=>
          Told(events[j], to, by) \/ (to = "rendered" /\ by = "system")
    BY <1>1, <1>2, ToldAppend
<1>. DEFINE h == Append(events[j], a)
<1>h. h \in Seq(EventRow)
    BY <1>3
<1>. HIDE DEF h
<1>5. Told(Append(h, b), to, by) <=> Told(h, to, by) \/ (b.to = to /\ b.by = by)
    BY <1>2, <1>h, ToldAppend
<1>. USE DEF h
<1>6. Told(events'[j], to, by) <=>
          Told(events[j], to, by) \/ (to \in {"rendered", "staged"} /\ by = "system")
    BY <1>2, <1>3, <1>4, <1>5
<1>. QED BY <1>6 DEF Told, Reached

-----------------------------------------------------------------------------
(* The events of a job are a path of the status graph to its status.       *)
THEOREM HistoryIsGapless == Spec => []AuditTrail
<1>1. Init => AuditTrail
    BY DEF Init, AuditTrail, Trail
<1>2. TypeOK /\ BillingInv /\ AuditTrail /\ [Next]_vars => AuditTrail'
  <2>. SUFFICES ASSUME TypeOK, BillingInv, AuditTrail, [Next]_vars, NEW j \in Jobs
                PROVE  Trail(events'[j], status'[j])
    BY DEF AuditTrail
  <2>0. /\ HistoryStep(j) /\ events[j] \in Seq(EventRow) /\ Trail(events[j], status[j])
    BY NextHistory DEF AuditTrail, TypeOK, DbTypeOK
  <2>1. CASE Quiet(j)
    BY <2>0, <2>1 DEF Quiet
  <2>2. CASE Created(j)
    <3>. DEFINE e == Event("pending", "script_ready", "system")
    <3>1. CASE status'[j] = "pending" /\ events'[j] = events[j]
      <4>1. Len(events[j]) = 0
        BY <2>0, <2>2, TrailEnds DEF Created
      <4>. QED BY <2>0, <3>1, <4>1 DEF Trail
    <3>2. CASE status'[j] = "script_ready" /\ events'[j] = Append(events[j], e)
      <4>1. e \in EventRow /\ CanAdvance(e.from, e.to) /\ e.to = "script_ready"
                /\ e.from = "pending"
        BY DEF Event, EventRow, CanAdvance, LegacyStatus, LegacyTransitions
      <4>2. status[j] = "absent"
        BY <2>2 DEF Created
      <4>3. Trail(Append(events[j], e), e.to)
        BY <2>0, <4>1, <4>2, TrailAppend
      <4>. QED BY <3>2, <4>1, <4>3
    <3>. QED BY <2>2, <3>1, <3>2 DEF Created
  <2>3. ASSUME NEW to \in LegacyStatus, NEW by \in {"system", "operator"}, Advanced(j, to, by)
        PROVE  Trail(events'[j], status'[j])
    <3>. DEFINE e == Event(status[j], to, by)
    <3>1. /\ e \in EventRow /\ CanAdvance(e.from, e.to) /\ e.from = status[j] /\ e.to = to
          /\ events'[j] = Append(events[j], e) /\ status'[j] = to
      BY <2>3 DEF Advanced, Event, EventRow, CanAdvance
    <3>. HIDE DEF e
    <3>. QED BY <2>0, <3>1, TrailAppend
  <2>4. CASE Staged(j)
    <3>. DEFINE a == Event(status[j], "rendered", "system")
                b == Event("rendered", "staged", "system")
    <3>1. /\ a \in EventRow /\ CanAdvance(a.from, a.to) /\ a.from = status[j] /\ a.to = "rendered"
          /\ b \in EventRow /\ CanAdvance(b.from, b.to) /\ b.from = "rendered" /\ b.to = "staged"
          /\ events'[j] = events[j] \o <<a, b>> /\ status'[j] = "staged"
      BY <2>4 DEF Staged, Event, EventRow, CanAdvance, LegacyStatus, LegacyTransitions
    <3>. HIDE DEF a, b
    <3>2. Trail(Append(events[j], a), "rendered")
      BY <2>0, <3>1, TrailAppend
    <3>3. events'[j] = Append(Append(events[j], a), b) /\ Append(events[j], a) \in Seq(EventRow)
      BY <2>0, <3>1, AppendTwo
    <3>. QED BY <3>1, <3>2, <3>3, TrailAppend
  <2>. QED BY <2>0, <2>1, <2>2, <2>3, <2>4 DEF HistoryStep
<1>. QED BY <1>1, <1>2, TypeCorrect, BillingInvariant, PTL DEF Spec

-----------------------------------------------------------------------------
(* What a job has reached stays reached.                                   *)
LEMMA PastStays ==
    ASSUME TypeOK, NEW j \in Jobs, HistoryStep(j), NEW to, NEW by, Reached(j, to, by),
           to # "script_ready"
    PROVE  Reached(j, to, by)'
<1>1. CASE Quiet(j)
    BY <1>1 DEF Quiet, Reached
<1>2. CASE Created(j)
    BY <1>2, PastCreated
<1>3. ASSUME NEW s \in LegacyStatus, NEW b \in {"system", "operator"}, Advanced(j, s, b)
      PROVE  Reached(j, to, by)'
    BY <1>3, PastAdvanced
<1>4. CASE Staged(j)
    BY <1>4, PastStaged
<1>. QED BY <1>1, <1>2, <1>3, <1>4 DEF HistoryStep

(* The end of the status graph: no way back to the review.                 *)
LEMMA LastEdges ==
    ASSUME NEW from, NEW to, CanAdvance(from, to)
    PROVE  /\ from \in {"staged", "approved", "delivered", "failed"} =>
                  to \in {"approved", "delivered", "failed"}
           /\ to = "rendered" => from = "rendering"
           /\ to = "staged" => from = "rendered"
           /\ to = "approved" => from = "staged"
           /\ to = "delivered" => from = "approved"
    BY DEF CanAdvance, LegacyStatus, LegacyTransitions

(* What the system has put up for review never leaves it but for the end   *)
(* of the graph, so it cannot be put up, and announced, a second time.     *)
ReviewInv ==
    \A j \in Jobs :
        /\ outbox[j] = IF Reached(j, "staged", "system") THEN 1 ELSE 0
        /\ Reached(j, "staged", "system") =>
              "final" \in assets[j] /\ status[j] \in {"staged", "approved", "delivered", "failed"}
        /\ Reached(j, "audio_ready", "system") => "audio" \in assets[j]

(* A job the pipeline has put up for review has its final asset and was    *)
(* announced exactly once; audio_ready means stored audio.                 *)
THEOREM AnnouncedOnce == Spec => []ReviewReady
<1>1. Init => ReviewInv
    BY DEF Init, ReviewInv, Reached
<1>2. TypeOK /\ BillingInv /\ ReviewInv /\ [Next]_vars => ReviewInv'
  <2>. SUFFICES ASSUME TypeOK, BillingInv, ReviewInv, [Next]_vars, NEW j \in Jobs
                PROVE  /\ outbox'[j] = IF Reached(j, "staged", "system")' THEN 1 ELSE 0
                       /\ Reached(j, "staged", "system")' =>
                             /\ "final" \in assets'[j]
                             /\ status'[j] \in {"staged", "approved", "delivered", "failed"}
                       /\ Reached(j, "audio_ready", "system")' => "audio" \in assets'[j]
    BY DEF ReviewInv
  <2>0. HistoryStep(j) /\ assets[j] \subseteq assets'[j]
    BY NextHistory DEF HistoryStep
  <2>. DEFINE told == Reached(j, "staged", "system")
             heard == Reached(j, "audio_ready", "system")
  <2>i. /\ outbox[j] = IF told THEN 1 ELSE 0
        /\ told => "final" \in assets[j] /\ status[j] \in {"staged", "approved", "delivered", "failed"}
        /\ heard => "audio" \in assets[j]
    BY DEF ReviewInv
  <2>1. CASE Quiet(j)
    <3>1. (told' <=> told) /\ (heard' <=> heard)
      BY <2>1 DEF Quiet, Reached
    <3>. QED BY <2>0, <2>1, <2>i, <3>1 DEF Quiet
  <2>2. CASE Created(j)
    <3>1. (told' <=> told) /\ (heard' <=> heard)
      BY <2>2, PastCreated
    <3>. QED BY <2>0, <2>2, <2>i, <3>1 DEF Created
  <2>3. ASSUME NEW to \in LegacyStatus, NEW by \in {"system", "operator"}, Advanced(j, to, by)
        PROVE  /\ outbox'[j] = IF told' THEN 1 ELSE 0
               /\ told' => /\ "final" \in assets'[j]
                           /\ status'[j] \in {"staged", "approved", "delivered", "failed"}
               /\ heard' => "audio" \in assets'[j]
    <3>1. /\ told' <=> told \/ (to = "staged" /\ by = "system")
          /\ heard' <=> heard \/ (to = "audio_ready" /\ by = "system")
      BY <2>3, PastAdvanced
    <3>2. /\ status[j] \in {"staged", "approved", "delivered", "failed"} =>
               to \in {"approved", "delivered", "failed"}
          /\ status'[j] = to /\ outbox'[j] = outbox[j]
          /\ ~(to = "staged" /\ by = "system")
          /\ by = "system" /\ to = "audio_ready" => "audio" \in assets'[j]
      BY <2>3, LastEdges DEF Advanced
    <3>. QED BY <2>0, <2>i, <3>1, <3>2
  <2>4. CASE Staged(j)
    <3>1. /\ told' /\ (heard' <=> heard)
      BY <2>4, PastStaged
    <3>2. status[j] = "rendering"
      BY <2>4, LastEdges DEF Staged
    <3>3. outbox[j] = 0 /\ outbox'[j] = 1
      BY <2>4, <2>i, <3>2 DEF Staged
    <3>. QED BY <2>0, <2>4, <2>i, <3>1, <3>3 DEF Staged
  <2>. QED BY <2>0, <2>1, <2>2, <2>3, <2>4 DEF HistoryStep
<1>3. ReviewInv => ReviewReady
    BY DEF ReviewInv, ReviewReady
<1>. QED BY <1>1, <1>2, <1>3, TypeCorrect, BillingInvariant, PTL DEF Spec

-----------------------------------------------------------------------------
(* Finished keys.                                                          *)

(* The assets a step's finished key stands for.                            *)
Bought == [s \in PaidStep |-> CASE s = "audio"  -> {"audio"}
                               [] s = "render" -> {"final"}
                               [] s = "avatar" -> {"video"}
                               [] OTHER        -> {"video", "video_h"}]

LEMMA BoughtIs ==
    /\ Bought["audio"] = {"audio"} /\ Bought["render"] = {"final"}
    /\ Bought["avatar"] = {"video"} /\ Bought["avatar_h"] = {"video", "video_h"}
    BY DEF Bought

(* A key is only finished together with its assets.                        *)
KeyStep ==
    \A j \in Jobs, s \in PaidStep :
        keys'[j][s] = "done" => keys[j][s] = "done" \/ Bought[s] \subseteq assets'[j]

(* One key is set, and finished only with its assets.                      *)
LEMMA KeyStepSet ==
    ASSUME TypeOK, NEW i \in Jobs, NEW r \in PaidStep, NEW k,
           keys' = [keys EXCEPT ![i][r] = k],
           k = "done" => keys[i][r] = "done" \/ Bought[r] \subseteq assets'[i]
    PROVE  KeyStep
<1>1. \A j \in Jobs, s \in PaidStep :
          keys'[j][s] = IF j = i /\ s = r THEN k ELSE keys[j][s]
    BY DEF TypeOK, DbTypeOK
<1>. QED BY <1>1 DEF KeyStep

(* The API, the webhooks and reconcile finish no key.                      *)
LEMMA JobStepDone ==
    ASSUME TypeOK, NEW j \in Jobs, JobNext(j)
    PROVE  KeyStep
<1>1. CASE UNCHANGED keys
    BY <1>1 DEF KeyStep
<1>2. ASSUME NEW s \in PaidStep, NEW k \in {"none", "expired"}, keys' = [keys EXCEPT ![j][s] = k]
      PROVE  KeyStep
    BY <1>2, KeyStepSet
<1>3. CASE UNCHANGED keys \/ \E s \in PaidStep, k \in {"none", "expired"} :
                                keys' = [keys EXCEPT ![j][s] = k]
    BY <1>1, <1>2, <1>3
<1>4. CASE HeyGenFailure(j) \/ (FailStep(j, "audio"))
    BY <1>3, <1>4 DEF HeyGenFailure, FailStep
<1>5. CASE \E s \in PaidStep : ExpireKey(j, s)
    BY <1>3, <1>5 DEF ExpireKey
<1>6. CASE UNCHANGED db
    BY <1>1, <1>6 DEF db
<1>7. CASE \/ CreateJob(j) \/ (\E to \in LegacyStatus : AdvanceJob(j, to)) \/ ApproveJob(j)
           \/ (\E kind \in AssetKind : AddAsset(j, kind)) \/ HeyGenSuccess(j) \/ HeyGenHorizontal(j)
    BY <1>1, <1>7 DEF CreateJob, AdvanceJob, ApproveJob, AddAsset, HeyGenSuccess, HeyGenHorizontal
<1>. QED BY <1>1, <1>4, <1>5, <1>7
         DEF JobNext, Webhook, Reconcile, VideoEnds, LookUpKey, DistributeBegin, db

(* A worker finishes a key in the transaction that stores the assets.      *)
LEMMA WorkerStepDone ==
    ASSUME TypeOK, BillingInv, NEW w \in Workers, WorkerNext(w) \/ Crash(w)
    PROVE  KeyStep
<1>j. task[w] \in Jobs
    BY DEF TypeOK, LocalTypeOK
<1>1. CASE UNCHANGED keys
    BY <1>1 DEF KeyStep
<1>2. ASSUME NEW s \in PaidStep, NEW k \in {"none", "live"},
             keys' = [keys EXCEPT ![task[w]][s] = k]
      PROVE  KeyStep
    BY <1>2, <1>j, KeyStepSet
<1>3. CASE Begin(w)
  <2>1. step[w] \in PaidStep
    BY <1>3 DEF Begin, BillingInv
  <2>. DEFINE old == keys[task[w]][step[w]]
             k == IF seen[w] = "expired" \/ old = "none" THEN "live" ELSE old
  <2>2. keys' = [keys EXCEPT ![task[w]][step[w]] = k]
    BY <1>3 DEF Begin, ReserveKey
  <2>3. k = "done" => old = "done"
    OBVIOUS
  <2>. HIDE DEF k
  <2>. QED BY <1>j, <2>1, <2>2, <2>3, KeyStepSet
<1>4. CASE FailStepAfterCall(w)
  <2>1. CASE step[w] \in PaidStep
    BY <1>2, <1>4, <2>1 DEF FailStepAfterCall, FailStep
  <2>2. CASE step[w] \notin PaidStep
    <3>1. \A j \in Jobs, s \in PaidStep : keys'[j][s] = keys[j][s]
      BY <1>4, <2>2 DEF FailStepAfterCall, FailStep, TypeOK, DbTypeOK
    <3>. QED BY <3>1 DEF KeyStep
  <2>. QED BY <2>1, <2>2
<1>5. CASE ReserveHorizontal(w) \/ FailHorizontal(w)
    BY <1>1, <1>2, <1>5 DEF ReserveHorizontal, FailHorizontal
<1>6. CASE StoreAudio(w)
  <2>1. PICK k : keys' = [keys EXCEPT ![task[w]]["audio"] = k]
    BY <1>6 DEF StoreAudio
  <2>2. Bought["audio"] \subseteq assets'[task[w]]
    BY <1>6, <1>j, BoughtIs DEF StoreAudio, TypeOK, DbTypeOK
  <2>. QED BY <1>j, <2>1, <2>2, KeyStepSet
<1>7. CASE StoreRender(w)
  <2>1. PICK k : keys' = [keys EXCEPT ![task[w]]["render"] = k]
    BY <1>7 DEF StoreRender
  <2>2. Bought["render"] \subseteq assets'[task[w]]
    BY <1>7, <1>j, BoughtIs DEF StoreRender, TypeOK, DbTypeOK
  <2>. QED BY <1>j, <2>1, <2>2, KeyStepSet
<1>8. CASE StoreAvatar(w)
  <2>1. CASE phase[w] = "store_h"
    <3>0. PICK k, h : keys' = [keys EXCEPT ![task[w]]["avatar"] = k, ![task[w]]["avatar_h"] = h]
      BY <1>8, <2>1 DEF StoreAvatar
    <3>1. \A j \in Jobs, s \in PaidStep :
             (j # task[w] \/ s \notin {"avatar", "avatar_h"}) => keys'[j][s] = keys[j][s]
      BY <3>0 DEF TypeOK, DbTypeOK
    <3>2. {"video", "video_h"} \subseteq assets'[task[w]]
      BY <1>8, <1>j, <2>1 DEF StoreAvatar, TypeOK, DbTypeOK
    <3>. QED BY <3>1, <3>2, BoughtIs DEF KeyStep
  <2>2. CASE phase[w] # "store_h"
    <3>1. PICK k : keys' = [keys EXCEPT ![task[w]]["avatar"] = k]
      BY <1>8, <2>2 DEF StoreAvatar
    <3>2. Bought["avatar"] \subseteq assets'[task[w]]
      BY <1>8, <1>j, <2>2, BoughtIs DEF StoreAvatar, TypeOK, DbTypeOK
    <3>. QED BY <1>j, <3>1, <3>2, KeyStepSet
  <2>. QED BY <2>1, <2>2
<1>9. CASE \/ BeginRefused(w) \/ CallReturns(w) \/ CallRaises(w) \/ FailStepRaises(w)
           \/ CallHorizontal(w) \/ StoreRaises(w) \/ SkipUpload(w) \/ UploadReturns(w)
           \/ UploadRaises(w) \/ PersistUploadId(w) \/ Deliver(w) \/ DeliverRefused(w) \/ Crash(w)
    BY <1>1, <1>9 DEF BeginRefused, CallReturns, CallRaises, FailStepRaises, CallHorizontal,
        StoreRaises, SkipUpload, UploadReturns, UploadRaises, PersistUploadId, Deliver,
        DeliverRefused, Crash, db
<1>. QED BY <1>3, <1>4, <1>5, <1>6, <1>7, <1>8, <1>9 DEF WorkerNext, PaidStepNext, DistributeNext

(* A finished key, which answers every later run of its step, is backed by *)
(* the assets it stands for.                                               *)
THEOREM FinishedKeysAreBacked == Spec => []FinishedKeyHasAsset
<1>. DEFINE Backed == \A j \in Jobs, s \in PaidStep : keys[j][s] = "done" => Bought[s] \subseteq assets[j]
<1>1. Init => Backed
    BY DEF Init
<1>2. TypeOK /\ BillingInv /\ Backed /\ [Next]_vars => Backed'
  <2>. SUFFICES ASSUME TypeOK, BillingInv, Backed, [Next]_vars
                PROVE  Backed'
    OBVIOUS
  <2>1. \A j \in Jobs : assets[j] \subseteq assets'[j]
    BY NextHistory DEF HistoryStep
  <2>2. KeyStep
    <3>1. CASE UNCHANGED vars
      BY <3>1 DEF vars, KeyStep
    <3>. QED BY <3>1, NextCases, JobStepDone, WorkerStepDone
  <2>. QED BY <2>1, <2>2 DEF KeyStep
<1>3. Backed => FinishedKeyHasAsset
    BY BoughtIs DEF FinishedKeyHasAsset
<1>. QED BY <1>1, <1>2, <1>3, TypeCorrect, BillingInvariant, PTL DEF Spec

-----------------------------------------------------------------------------
(* Publishing.                                                             *)

(* A worker that has read the status approved, and may upload.             *)
Publishing(w, j) == phase[w] \in {"upload", "persist", "deliver"} /\ task[w] = j

(* Uploads come from such a worker, and it started from an approved job.   *)
PublishStep(j) ==
    /\ uploads'[j] # uploads[j] \/ uploadId'[j] # uploadId[j] =>
          \E w \in Workers : Publishing(w, j)
    /\ \A w \in Workers : Publishing(w, j)' => Publishing(w, j) \/ status[j] = "approved"

(* A worker goes on or ends, and publishes only where it may.              *)
LEMMA GotoPublish ==
    ASSUME TypeOK, NEW w \in Workers, NEW p, Goto(w, p),
           p \in {"upload", "persist", "deliver"} => phase[w] \in {"upload", "persist", "deliver"},
           UNCHANGED <<uploads, uploadId>>
           \/ (/\ phase[w] \in {"upload", "persist", "deliver"}
               /\ \A j \in Jobs \ {task[w]} :
                     uploads'[j] = uploads[j] /\ uploadId'[j] = uploadId[j])
    PROVE  \A j \in Jobs : PublishStep(j)
<1>1. \A v \in Workers : phase'[v] = IF v = w THEN p ELSE phase[v]
    BY DEF Goto, TypeOK, LocalTypeOK
<1>2. UNCHANGED task
    BY DEF Goto
<1>. QED BY <1>1, <1>2 DEF PublishStep, Publishing

(* Of the other steps only distribute's first starts to publish.           *)
LEMMA JobStepPublish ==
    ASSUME TypeOK, NEW j \in Jobs, JobNext(j)
    PROVE  \A i \in Jobs : PublishStep(i)
<1>1. CASE UNCHANGED <<uploads, uploadId, phase, task>>
    BY <1>1 DEF PublishStep, Publishing
<1>2. ASSUME NEW w \in Workers, NEW s \in MainStep, LookUpKey(w, j, s)
      PROVE  \A i \in Jobs : PublishStep(i)
  <2>1. \A v \in Workers : /\ phase'[v] = IF v = w THEN "begin" ELSE phase[v]
                           /\ v # w => task'[v] = task[v]
    BY <1>2 DEF LookUpKey, TypeOK, LocalTypeOK
  <2>. QED BY <1>2, <2>1 DEF LookUpKey, db, world, PublishStep, Publishing
<1>3. ASSUME NEW w \in Workers, DistributeBegin(w, j)
      PROVE  \A i \in Jobs : PublishStep(i)
  <2>1. \A v \in Workers : /\ phase'[v] = IF v = w THEN "upload" ELSE phase[v]
                           /\ task'[v] = IF v = w THEN j ELSE task[v]
    BY <1>3 DEF DistributeBegin, TypeOK, LocalTypeOK
  <2>. QED BY <1>3, <2>1 DEF DistributeBegin, db, world, PublishStep, Publishing
<1>4. \/ UNCHANGED <<uploads, uploadId, phase, task>>
      \/ \E w \in Workers : \/ \E s \in MainStep : LookUpKey(w, j, s)
                           \/ DistributeBegin(w, j)
    BY DEF JobNext, CreateJob, AdvanceJob, ApproveJob, AddAsset, Webhook, Reconcile,
        HeyGenSuccess, HeyGenFailure, HeyGenHorizontal, ExpireKey, VideoEnds, db, world, local
<1>. QED BY <1>1, <1>2, <1>3, <1>4

(* A worker publishes only what it has started to publish.                 *)
LEMMA WorkerStepPublish ==
    ASSUME TypeOK, NEW w \in Workers, WorkerNext(w) \/ Crash(w)
    PROVE  \A j \in Jobs : PublishStep(j)
<1>1. ASSUME UNCHANGED <<uploads, uploadId>>,
             NEW p \in Phase \ {"upload", "persist", "deliver"}, Goto(w, p)
      PROVE  \A j \in Jobs : PublishStep(j)
    BY <1>1, GotoPublish
<1>2. CASE PaidStepNext(w) \/ Crash(w) \/ Deliver(w) \/ DeliverRefused(w)
  <2>1. UNCHANGED <<uploads, uploadId>>
    BY <1>2 DEF PaidStepNext, Begin, BeginRefused, CallReturns, CallRaises, FailStepAfterCall,
        FailStepRaises, ReserveHorizontal, CallHorizontal, FailHorizontal, StoreAudio,
        StoreRender, StoreAvatar, StoreRaises, Crash, Deliver, DeliverRefused, db, world
  <2>2. PICK p \in Phase \ {"upload", "persist", "deliver"} : Goto(w, p)
    BY <1>2 DEF Phase, PaidStepNext, Begin, BeginRefused, CallReturns, CallRaises,
        FailStepAfterCall, FailStepRaises, ReserveHorizontal, CallHorizontal, FailHorizontal,
        StoreAudio, StoreRender, StoreAvatar, StoreRaises, Crash, Deliver, DeliverRefused
  <2>. QED BY <1>1, <2>1, <2>2
<1>3. CASE SkipUpload(w)
    BY <1>3, GotoPublish DEF SkipUpload, db, world
<1>4. CASE UploadReturns(w)
  <2>1. \A j \in Jobs \ {task[w]} : uploads'[j] = uploads[j] /\ uploadId'[j] = uploadId[j]
    BY <1>4 DEF UploadReturns, db, TypeOK, WorldTypeOK
  <2>. QED BY <1>4, <2>1, GotoPublish DEF UploadReturns
<1>5. CASE UploadRaises(w)
  <2>1. \A j \in Jobs \ {task[w]} : uploads'[j] = uploads[j] /\ uploadId'[j] = uploadId[j]
    BY <1>5 DEF UploadRaises, db, TypeOK, WorldTypeOK
  <2>. QED BY <1>5, <2>1, GotoPublish DEF UploadRaises
<1>6. CASE PersistUploadId(w)
  <2>1. \A j \in Jobs \ {task[w]} : uploads'[j] = uploads[j] /\ uploadId'[j] = uploadId[j]
    BY <1>6 DEF PersistUploadId, world, TypeOK, DbTypeOK
  <2>. QED BY <1>6, <2>1, GotoPublish DEF PersistUploadId
<1>. QED BY <1>2, <1>3, <1>4, <1>5, <1>6 DEF WorkerNext, DistributeNext

(* Whoever uploads has read the status approved, and the lock is free      *)
(* since: the job may have been delivered or failed, but not gone back.    *)
Public(j) ==
    \/ uploads[j] > 0 \/ uploadId[j]
    \/ \E w \in Workers : Publishing(w, j)

ApprovalInv ==
    \A j \in Jobs :
        /\ Public(j) => status[j] \in {"approved", "delivered", "failed"}
        /\ Public(j) \/ status[j] \in {"approved", "delivered"} =>
              approvedBy[j] /\ Reached(j, "approved", "system")

(* A job becomes public only from approved.                                *)
LEMMA PublicStep ==
    ASSUME TypeOK, NEW j \in Jobs, PublishStep(j), Public(j)'
    PROVE  Public(j) \/ status[j] = "approved"
<1>1. uploads[j] \in Nat /\ uploadId[j] \in BOOLEAN
    BY DEF TypeOK, DbTypeOK, WorldTypeOK
<1>2. CASE uploads'[j] # uploads[j] \/ uploadId'[j] # uploadId[j]
    BY <1>2 DEF PublishStep, Public
<1>3. CASE uploads'[j] = uploads[j] /\ uploadId'[j] = uploadId[j]
    BY <1>3 DEF PublishStep, Public
<1>. QED BY <1>2, <1>3

(* Of a job that is public, or on its way there, the status is approved or *)
(* beyond, and the approval is on record.                                  *)
THEOREM ApprovalInvariant == Spec => []ApprovalInv
<1>1. Init => ApprovalInv
    BY DEF Init, ApprovalInv, Public, Publishing
<1>2. TypeOK /\ BillingInv /\ ApprovalInv /\ [Next]_vars => ApprovalInv'
  <2>. SUFFICES ASSUME TypeOK, BillingInv, ApprovalInv, [Next]_vars, NEW j \in Jobs
                PROVE  /\ Public(j)' => status'[j] \in {"approved", "delivered", "failed"}
                       /\ Public(j)' \/ status'[j] \in {"approved", "delivered"} =>
                             approvedBy'[j] /\ Reached(j, "approved", "system")'
    BY DEF ApprovalInv
  <2>1. HistoryStep(j) /\ (approvedBy[j] => approvedBy'[j])
    BY NextHistory DEF HistoryStep
  <2>2. PublishStep(j)
    <3>1. CASE UNCHANGED vars
      BY <3>1 DEF vars, PublishStep, Publishing
    <3>. QED BY <3>1, NextCases, JobStepPublish, WorkerStepPublish
  <2>3. Reached(j, "approved", "system") => Reached(j, "approved", "system")'
    BY <2>1, PastStays
  <2>4. Public(j)' => Public(j) \/ status[j] = "approved"
    BY <2>2, PublicStep
  <2>i. /\ Public(j) => status[j] \in {"approved", "delivered", "failed"}
        /\ Public(j) \/ status[j] \in {"approved", "delivered"} =>
              approvedBy[j] /\ Reached(j, "approved", "system")
    BY DEF ApprovalInv
  <2>5. CASE Quiet(j)
    BY <2>1, <2>3, <2>4, <2>5, <2>i DEF Quiet
  <2>6. CASE Created(j)
    BY <2>4, <2>6, <2>i DEF Created
  <2>7. ASSUME NEW to \in LegacyStatus, NEW by \in {"system", "operator"}, Advanced(j, to, by)
        PROVE  /\ Public(j)' => status'[j] \in {"approved", "delivered", "failed"}
               /\ Public(j)' \/ status'[j] \in {"approved", "delivered"} =>
                     approvedBy'[j] /\ Reached(j, "approved", "system")'
    <3>1. /\ status'[j] = to
          /\ status[j] \in {"approved", "delivered", "failed"} =>
                 to \in {"approved", "delivered", "failed"}
          /\ to = "delivered" => status[j] = "approved"
      BY <2>7, LastEdges DEF Advanced
    <3>2. CASE to = "approved"
      <4>1. by = "system" /\ approvedBy'[j]
        BY <2>7, <3>2 DEF Advanced
      <4>2. Reached(j, "approved", "system")'
        BY <2>7, <3>2, <4>1, PastAdvanced
      <4>. QED BY <3>1, <3>2, <4>1, <4>2
    <3>3. CASE to # "approved"
      BY <2>1, <2>3, <2>4, <2>i, <3>1, <3>3
    <3>. QED BY <3>2, <3>3
  <2>8. CASE Staged(j)
    <3>1. status[j] = "rendering" /\ status'[j] = "staged"
      BY <2>8, LastEdges DEF Staged
    <3>. QED BY <2>4, <2>i, <3>1
  <2>. QED BY <2>1, <2>5, <2>6, <2>7, <2>8 DEF HistoryStep
<1>. QED BY <1>1, <1>2, TypeCorrect, BillingInvariant, PTL DEF Spec

(* Nothing reaches YouTube, and no job is delivered, without an approval.  *)
THEOREM OnlyApprovedIsPublished == Spec => []PublishedOnlyApproved
<1>1. ApprovalInv => PublishedOnlyApproved
    BY DEF ApprovalInv, Public, PublishedOnlyApproved
<1>. QED BY <1>1, ApprovalInvariant, PTL

-----------------------------------------------------------------------------
(* The pipeline implements JobLifecycle: what one step does to the record  *)
(* that the abstract job keeps.                                            *)

(* The step is about one job.                                              *)
Touches(j) ==
    \A i \in Jobs \ {j} :
        /\ status'[i] = status[i] /\ events'[i] = events[i]
        /\ billed'[i] = billed[i] /\ uploads'[i] = uploads[i]

(* Money and uploads move only while the status stands still.              *)
Spends(j) ==
    /\ UNCHANGED <<status, events>>
    /\ \/ /\ UNCHANGED uploads
          /\ \/ RendersBilled(j)' = RendersBilled(j)
             \/ \E w \in Workers :
                   Calls(w, j, {"render", "avatar"}) /\ RendersBilled(j)' = RendersBilled(j) + 1
       \/ /\ UNCHANGED billed
          /\ uploads'[j] = uploads[j] + 1
          /\ \E w \in Workers : Publishing(w, j)

(* A step of the API, a webhook or reconcile: one job, no money.           *)
LEMMA JobStepTouches ==
    ASSUME TypeOK, NEW j \in Jobs, JobNext(j)
    PROVE  /\ Touches(j) /\ UNCHANGED <<billed, uploads>>
           /\ \/ UNCHANGED approvedBy
              \/ /\ status[j] = "staged" /\ status'[j] = "approved"
                 /\ approvedBy' = [approvedBy EXCEPT ![j] = TRUE]
<1>1. UNCHANGED <<billed, uploads>>
    BY DEF JobNext, CreateJob, AdvanceJob, ApproveJob, AddAsset, Webhook, Reconcile,
        HeyGenSuccess, HeyGenFailure, HeyGenHorizontal, ExpireKey, VideoEnds, LookUpKey,
        DistributeBegin, world
<1>2. /\ UNCHANGED status \/ \E s : status' = [status EXCEPT ![j] = s]
      /\ UNCHANGED events \/ \E h : events' = [events EXCEPT ![j] = h]
  <2>1. CASE CreateJob(j)
    BY <2>1 DEF CreateJob
  <2>2. CASE UNCHANGED <<status, events>>
    BY <2>2
  <2>3. ASSUME NEW to, NEW by, AdvanceBy(j, to, by)
        PROVE  /\ \E s : status' = [status EXCEPT ![j] = s]
               /\ \E h : events' = [events EXCEPT ![j] = h]
    BY <2>3 DEF AdvanceBy
  <2>4. CASE AdvanceToStaged(j)
    BY <2>4 DEF AdvanceToStaged
  <2>5. CASE (\E to \in LegacyStatus : AdvanceJob(j, to)) \/ ApproveJob(j) \/ HeyGenFailure(j)
             \/ FailStep(j, "audio")
    BY <2>2, <2>3, <2>5 DEF AdvanceJob, ApproveJob, HeyGenFailure, Advance, FailStep
  <2>. QED BY <2>1, <2>2, <2>4, <2>5 DEF JobNext, AddAsset, Webhook, Reconcile,
        HeyGenSuccess, HeyGenHorizontal, ExpireKey, VideoEnds, LookUpKey, DistributeBegin, db
<1>3. Touches(j)
    BY <1>1, <1>2 DEF Touches, TypeOK, DbTypeOK
<1>4. CASE ApproveJob(j)
    BY <1>1, <1>3, <1>4 DEF ApproveJob, Advance, AdvanceBy, TypeOK, DbTypeOK
<1>5. CASE ~ApproveJob(j)
  <2>1. UNCHANGED approvedBy
    BY <1>5 DEF JobNext, CreateJob, AdvanceJob, AddAsset, Webhook, Reconcile,
        HeyGenSuccess, HeyGenFailure, HeyGenHorizontal, ExpireKey, VideoEnds, LookUpKey,
        DistributeBegin, db
  <2>. QED BY <1>1, <1>3, <2>1
<1>. QED BY <1>4, <1>5

(* What a charge adds to the renders that are billed.                      *)
LEMMA BillRenders ==
    ASSUME TypeOK, NEW j \in Jobs, NEW s \in PaidStep, Bill(j, s)
    PROVE  RendersBilled(j)' = IF s \in {"render", "avatar"} THEN RendersBilled(j) + 1
                                                             ELSE RendersBilled(j)
<1>1. \A r \in PaidStep : billed'[j][r] = IF r = s THEN billed[j][r] + 1 ELSE billed[j][r]
    BY DEF Bill, TypeOK, WorldTypeOK
<1>2. billed[j]["render"] \in Nat /\ billed[j]["avatar"] \in Nat
    BY DEF TypeOK, WorldTypeOK
<1>. QED BY <1>1, <1>2 DEF RendersBilled

(* A worker's step: its job, and money only for a renderer it calls.       *)
LEMMA WorkerStepTouches ==
    ASSUME TypeOK, BillingInv, NEW w \in Workers, WorkerNext(w) \/ Crash(w),
           NEW j \in Jobs, j = task[w]
    PROVE  /\ Touches(j) /\ UNCHANGED approvedBy
           /\ UNCHANGED <<billed, uploads>> \/ Spends(j)
<1>1. CASE UNCHANGED <<billed, uploads, approvedBy>>
           /\ \/ UNCHANGED <<status, events>>
              \/ \E s, h : status' = [status EXCEPT ![j] = s] /\ events' = [events EXCEPT ![j] = h]
    BY <1>1 DEF Touches, TypeOK, DbTypeOK
<1>2. CASE Begin(w) \/ FailStepAfterCall(w) \/ StoreAudio(w) \/ StoreRender(w) \/ Deliver(w)
    BY <1>1, <1>2 DEF Begin, FailStepAfterCall, StoreAudio, StoreRender, Deliver,
        Advance, AdvanceBy, AdvanceToStaged, FailStep, world
<1>3. CASE \/ BeginRefused(w) \/ FailStepRaises(w) \/ ReserveHorizontal(w) \/ FailHorizontal(w)
           \/ StoreAvatar(w) \/ StoreRaises(w) \/ SkipUpload(w) \/ PersistUploadId(w)
           \/ DeliverRefused(w) \/ Crash(w)
    BY <1>1, <1>3 DEF BeginRefused, FailStepRaises, ReserveHorizontal, FailHorizontal,
        StoreAvatar, StoreRaises, SkipUpload, PersistUploadId, DeliverRefused, Crash, db, world
<1>4. ASSUME UNCHANGED <<status, events, approvedBy, uploads>>,
             NEW s \in PaidStep, Bill(j, s),
             s \in {"render", "avatar"} => Calls(w, j, {"render", "avatar"})
      PROVE  /\ Touches(j) /\ UNCHANGED approvedBy
             /\ UNCHANGED <<billed, uploads>> \/ Spends(j)
  <2>1. Touches(j)
    BY <1>4 DEF Touches, Bill, TypeOK, WorldTypeOK
  <2>2. RendersBilled(j)' = RendersBilled(j)
        \/ (Calls(w, j, {"render", "avatar"}) /\ RendersBilled(j)' = RendersBilled(j) + 1)
    <3>1. RendersBilled(j)' = IF s \in {"render", "avatar"} THEN RendersBilled(j) + 1
                                                           ELSE RendersBilled(j)
      BY <1>4, BillRenders
    <3>. QED BY <1>4, <3>1
  <2>3. Spends(j)
    BY <1>4, <2>2 DEF Spends
  <2>. QED BY <1>4, <2>1, <2>3
<1>5. CASE CallReturns(w) \/ CallRaises(w)
  <2>1. /\ step[w] \in MainStep /\ phase[w] = "call"
        /\ UNCHANGED <<status, events, approvedBy, uploads>>
        /\ Bill(j, step[w]) \/ UNCHANGED billed
    BY <1>5 DEF CallReturns, CallRaises, BillingInv, db
  <2>2. step[w] \in {"render", "avatar"} => Calls(w, j, {"render", "avatar"})
    BY <2>1 DEF Calls
  <2>. QED BY <1>1, <1>4, <2>1, <2>2
<1>6. CASE CallHorizontal(w)
    BY <1>1, <1>4, <1>6 DEF CallHorizontal, db
<1>7. CASE UploadReturns(w) \/ UploadRaises(w)
  <2>1. /\ UNCHANGED <<status, events, approvedBy, billed>> /\ Publishing(w, j)
        /\ \/ UNCHANGED uploads
           \/ uploads' = [uploads EXCEPT ![j] = @ + 1]
    BY <1>7 DEF UploadReturns, UploadRaises, Publishing, db
  <2>2. CASE UNCHANGED uploads
    BY <1>1, <2>1, <2>2
  <2>3. CASE uploads' = [uploads EXCEPT ![j] = @ + 1]
    <3>1. Touches(j) /\ uploads'[j] = uploads[j] + 1
      BY <2>1, <2>3 DEF Touches, TypeOK, WorldTypeOK
    <3>. QED BY <2>1, <3>1 DEF Spends
  <2>. QED BY <2>1, <2>2, <2>3
<1>. QED BY <1>2, <1>3, <1>5, <1>6, <1>7 DEF WorkerNext, PaidStepNext, DistributeNext

RenderCall(w, j) == Calls(w, j, {"render", "avatar"})

(* Whoever comes to call a renderer has just moved the job to rendering.   *)
LEMMA RenderCallBegins ==
    ASSUME TypeOK, BillingInv, [Next]_vars, NEW w \in Workers, NEW j \in Jobs,
           RenderCall(w, j)', ~RenderCall(w, j)
    PROVE  AdvanceBy(j, "rendering", "system") /\ UNCHANGED outbox
<1>1. ~(phase'[w] = phase[w] /\ step'[w] = step[w] /\ task'[w] = task[w])
    BY DEF RenderCall, Calls
<1>2. ASSUME NEW i \in Jobs, JobNext(i)
      PROVE  FALSE
  <2>1. \/ UNCHANGED local
        \/ \E v \in Workers : \/ \E s \in MainStep : LookUpKey(v, i, s)
                             \/ DistributeBegin(v, i)
    BY <1>2 DEF JobNext, CreateJob, AdvanceJob, ApproveJob, AddAsset, Webhook, Reconcile,
        HeyGenSuccess, HeyGenFailure, HeyGenHorizontal, ExpireKey, VideoEnds
  <2>2. PICK v \in Workers : (\E s \in MainStep : LookUpKey(v, i, s)) \/ DistributeBegin(v, i)
    BY <1>1, <2>1 DEF local
  <2>3. CASE v = w
    BY <2>2, <2>3 DEF LookUpKey, DistributeBegin, RenderCall, Calls, TypeOK, LocalTypeOK
  <2>4. CASE v # w
    BY <1>1, <2>2, <2>4 DEF LookUpKey, DistributeBegin, TypeOK, LocalTypeOK
  <2>. QED BY <2>3, <2>4
<1>3. PICK v \in Workers : WorkerNext(v) \/ Crash(v)
    BY <1>1, <1>2, NextCases DEF vars
<1>4. PICK p \in Phase : Goto(v, p) /\ (p = "call" => Begin(v))
    BY <1>3 DEF Phase, WorkerNext, PaidStepNext, DistributeNext, Begin, BeginRefused, CallReturns,
        CallRaises, FailStepAfterCall, FailStepRaises, ReserveHorizontal, CallHorizontal,
        FailHorizontal, StoreAudio, StoreRender, StoreAvatar, StoreRaises, SkipUpload,
        UploadReturns, UploadRaises, PersistUploadId, Deliver, DeliverRefused, Crash
<1>5. v = w /\ p = "call"
  <2>1. \A u \in Workers : phase'[u] = IF u = v THEN p ELSE phase[u]
    BY <1>4 DEF Goto, TypeOK, LocalTypeOK
  <2>2. \A u \in Workers \ {v} : step'[u] = step[u]
    BY <1>4 DEF Goto, TypeOK, LocalTypeOK
  <2>3. UNCHANGED task
    BY <1>4 DEF Goto
  <2>. QED BY <1>1, <2>1, <2>2, <2>3 DEF RenderCall, Calls
<1>6. Begin(w) /\ UNCHANGED <<task, step>> /\ task[w] = j /\ step[w] \in {"render", "avatar"}
    BY <1>4, <1>5 DEF Goto, RenderCall, Calls
<1>7. Running[step[w]] = "rendering"
    BY <1>6 DEF Running
<1>. QED BY <1>6, <1>7 DEF Begin, Advance

EnteredRendering(j) == Reached(j, "rendering", "system") \/ Reached(j, "rendering", "operator")

(* The events tell whether a job has entered rendering: not while its      *)
(* status comes before that, and always when a worker calls the renderer.  *)
RenderInv ==
    \A j \in Jobs :
        /\ EnteredRendering(j) => status[j] \notin BeforeRendering
        /\ \A w \in Workers : RenderCall(w, j) => EnteredRendering(j)

(* The edges into rendering and before it.                                 *)
LEMMA RenderingEdges ==
    ASSUME NEW from, NEW to, CanAdvance(from, to)
    PROVE  /\ to = "rendering" => from \in {"script_ready", "audio_ready"}
           /\ to \in BeforeRendering => from \in BeforeRendering
    BY DEF CanAdvance, LegacyStatus, LegacyTransitions, BeforeRendering, BeforeAudio

(* How a step changes whether the job has entered rendering.               *)
LEMMA EntersRendering ==
    ASSUME TypeOK, NEW j \in Jobs, HistoryStep(j)
    PROVE  /\ EnteredRendering(j) => EnteredRendering(j)'
           /\ EnteredRendering(j)' /\ ~EnteredRendering(j) =>
                 CanAdvance(status[j], "rendering") /\ status'[j] = "rendering"
           /\ CanAdvance(status[j], "rendering") /\ status'[j] = "rendering" => EnteredRendering(j)'
<1>1. CASE Quiet(j)
  <2>1. ~CanAdvance("rendering", "rendering")
    BY RenderingEdges
  <2>. QED BY <1>1, <2>1 DEF Quiet, EnteredRendering, Reached
<1>2. CASE Created(j)
    BY <1>2, PastCreated DEF Created, EnteredRendering
<1>3. ASSUME NEW s \in LegacyStatus, NEW b \in {"system", "operator"}, Advanced(j, s, b)
      PROVE  /\ EnteredRendering(j) => EnteredRendering(j)'
             /\ EnteredRendering(j)' /\ ~EnteredRendering(j) =>
                   CanAdvance(status[j], "rendering") /\ status'[j] = "rendering"
             /\ CanAdvance(status[j], "rendering") /\ status'[j] = "rendering" => EnteredRendering(j)'
  <2>1. EnteredRendering(j)' <=> EnteredRendering(j) \/ s = "rendering"
    BY <1>3, PastAdvanced DEF EnteredRendering
  <2>. QED BY <1>3, <2>1 DEF Advanced
<1>4. CASE Staged(j)
    BY <1>4, PastStaged DEF Staged, EnteredRendering
<1>. QED BY <1>1, <1>2, <1>3, <1>4 DEF HistoryStep

(* The events of every reachable state tell who has entered rendering.     *)
THEOREM RenderInvariant == Spec => []RenderInv
<1>1. Init => RenderInv
    BY DEF Init, RenderInv, EnteredRendering, RenderCall, Calls, Reached
<1>2. TypeOK /\ BillingInv /\ RenderInv /\ [Next]_vars => RenderInv'
  <2>. SUFFICES ASSUME TypeOK, BillingInv, RenderInv, [Next]_vars, NEW j \in Jobs
                PROVE  /\ EnteredRendering(j)' => status'[j] \notin BeforeRendering
                       /\ \A w \in Workers : RenderCall(w, j)' => EnteredRendering(j)'
    BY DEF RenderInv
  <2>1. HistoryStep(j)
    BY NextHistory
  <2>2. status'[j] \in BeforeRendering => status[j] \in BeforeRendering \/ Created(j)
    <3>1. ASSUME NEW s \in LegacyStatus, NEW b \in {"system", "operator"}, Advanced(j, s, b)
          PROVE  status'[j] \in BeforeRendering => status[j] \in BeforeRendering
      BY <3>1, RenderingEdges DEF Advanced
    <3>. QED BY <2>1, <3>1 DEF HistoryStep, Quiet, Staged, BeforeRendering, BeforeAudio
  <2>3. Created(j) => status[j] \in BeforeRendering
    BY DEF Created, BeforeRendering, BeforeAudio
  <2>4. "rendering" \notin BeforeRendering
    BY DEF BeforeRendering, BeforeAudio
  <2>5. EnteredRendering(j)' => status'[j] \notin BeforeRendering
    BY <2>1, <2>2, <2>3, <2>4, EntersRendering DEF RenderInv
  <2>6. ASSUME NEW w \in Workers, RenderCall(w, j)'
        PROVE  EnteredRendering(j)'
    <3>1. CASE RenderCall(w, j)
      BY <2>1, <3>1, EntersRendering DEF RenderInv
    <3>2. CASE ~RenderCall(w, j)
      <4>1. AdvanceBy(j, "rendering", "system")
        BY <2>6, <3>2, RenderCallBegins
      <4>2. CanAdvance(status[j], "rendering") /\ status'[j] = "rendering"
        BY <4>1 DEF AdvanceBy, TypeOK, DbTypeOK
      <4>. QED BY <2>1, <4>2, EntersRendering
    <3>. QED BY <3>1, <3>2
  <2>. QED BY <2>5, <2>6
<1>. QED BY <1>1, <1>2, TypeCorrect, BillingInvariant, PTL DEF Spec

-----------------------------------------------------------------------------
(* The abstract step of one job.                                           *)

Stage(j) == StageOf(status[j])
Online(j) == uploads[j] > 0

(* The stage of every status.                                              *)
LEMMA StageIs ==
    /\ StageOf("absent") = "none"
    /\ \A s \in {"pending", "script_ready", "audio_generating", "audio_ready"} : StageOf(s) = "open"
    /\ \A s \in {"rendered", "staged"} : StageOf(s) = "review"
    /\ \A s \in {"rendering", "approved", "delivered", "failed"} : StageOf(s) = s
    BY DEF StageOf

Moves(j, from, to) == Stage(j) = from /\ Stage(j)' = to

OneStep(j) ==
    \/ Stage(j)' = Stage(j) /\ TicketOf(j)' = TicketOf(j) /\ Online(j)' = Online(j)
          /\ UNCHANGED approvedBy
    \/ /\ Moves(j, "none", "open")
       /\ TicketOf(j)' = TicketOf(j) /\ Online(j)' = Online(j) /\ UNCHANGED approvedBy
    \/ /\ Moves(j, "open", "rendering") /\ TicketOf(j) = "unused" /\ TicketOf(j)' = "issued"
       /\ Online(j)' = Online(j) /\ UNCHANGED approvedBy
    \/ /\ TicketOf(j) = "issued" /\ TicketOf(j)' = "spent"
       /\ Stage(j)' = Stage(j) /\ Online(j)' = Online(j) /\ UNCHANGED approvedBy
    \/ /\ Moves(j, "rendering", "review")
       /\ TicketOf(j)' = TicketOf(j) /\ Online(j)' = Online(j) /\ UNCHANGED approvedBy
    \/ /\ Moves(j, "review", "approved") /\ approvedBy' = [approvedBy EXCEPT ![j] = TRUE]
       /\ TicketOf(j)' = TicketOf(j) /\ Online(j)' = Online(j)
    \/ /\ approvedBy[j] /\ Stage(j) \in {"approved", "delivered", "failed"} /\ Online(j)' = TRUE
       /\ Stage(j)' = Stage(j) /\ TicketOf(j)' = TicketOf(j) /\ UNCHANGED approvedBy
    \/ /\ Moves(j, "approved", "delivered")
       /\ TicketOf(j)' = TicketOf(j) /\ Online(j)' = Online(j) /\ UNCHANGED approvedBy
    \/ /\ Stage(j) \in {"open", "rendering", "review", "approved"} /\ Stage(j)' = "failed"
       /\ TicketOf(j)' = TicketOf(j) /\ Online(j)' = Online(j) /\ UNCHANGED approvedBy

(* A step of one job is a step of the abstract specification.              *)
LEMMA OneStepIsAbstract ==
    ASSUME NEW j \in Jobs, Touches(j), OneStep(j)
    PROVE  [Lifecycle!Next]_Lifecycle!vars
<1>. DEFINE stages == [i \in Jobs |-> StageOf(status[i])]
            tickets == [i \in Jobs |-> TicketOf(i)]
            onlines == [i \in Jobs |-> uploads[i] > 0]
<1>1. \A i \in Jobs \ {j} : /\ Stage(i)' = Stage(i) /\ TicketOf(i)' = TicketOf(i)
                           /\ Online(i)' = Online(i)
    BY DEF Touches, Stage, TicketOf, Online, RendersBilled, Reached
<1>2. /\ stages[j] = Stage(j) /\ tickets[j] = TicketOf(j) /\ onlines[j] = Online(j)
    BY DEF Stage, Online
<1>3. ASSUME NEW s, Stage(j)' = s
      PROVE  stages' = [stages EXCEPT ![j] = s]
    BY <1>1, <1>3 DEF Stage
<1>4. ASSUME NEW t, TicketOf(j)' = t
      PROVE  tickets' = [tickets EXCEPT ![j] = t]
    BY <1>1, <1>4
<1>5. ASSUME NEW b, Online(j)' = b
      PROVE  onlines' = [onlines EXCEPT ![j] = b]
    BY <1>1, <1>5 DEF Online
<1>6. /\ Stage(j)' = Stage(j) => UNCHANGED stages
      /\ TicketOf(j)' = TicketOf(j) => UNCHANGED tickets
      /\ Online(j)' = Online(j) => UNCHANGED onlines
    BY <1>1 DEF Stage, Online
<1>. HIDE DEF stages, tickets, onlines
<1>7. ASSUME \/ UNCHANGED <<stages, tickets, approvedBy, onlines>>
             \/ /\ stages[j] = "none" /\ stages' = [stages EXCEPT ![j] = "open"]
                /\ UNCHANGED <<tickets, approvedBy, onlines>>
             \/ /\ stages[j] = "open" /\ stages' = [stages EXCEPT ![j] = "rendering"]
                /\ tickets[j] = "unused" /\ tickets' = [tickets EXCEPT ![j] = "issued"]
                /\ UNCHANGED <<approvedBy, onlines>>
             \/ /\ tickets[j] = "issued" /\ tickets' = [tickets EXCEPT ![j] = "spent"]
                /\ UNCHANGED <<stages, approvedBy, onlines>>
             \/ /\ stages[j] = "rendering" /\ stages' = [stages EXCEPT ![j] = "review"]
                /\ UNCHANGED <<tickets, approvedBy, onlines>>
             \/ /\ stages[j] = "review" /\ stages' = [stages EXCEPT ![j] = "approved"]
                /\ approvedBy' = [approvedBy EXCEPT ![j] = TRUE]
                /\ UNCHANGED <<tickets, onlines>>
             \/ /\ approvedBy[j] /\ stages[j] \in {"approved", "delivered", "failed"}
                /\ onlines' = [onlines EXCEPT ![j] = TRUE]
                /\ UNCHANGED <<stages, tickets, approvedBy>>
             \/ /\ stages[j] = "approved" /\ stages' = [stages EXCEPT ![j] = "delivered"]
                /\ UNCHANGED <<tickets, approvedBy, onlines>>
             \/ /\ stages[j] \in {"open", "rendering", "review", "approved"}
                /\ stages' = [stages EXCEPT ![j] = "failed"]
                /\ UNCHANGED <<tickets, approvedBy, onlines>>
      PROVE  [Lifecycle!Next]_Lifecycle!vars
    BY <1>7 DEF Lifecycle!Next, Lifecycle!vars, Lifecycle!Create, Lifecycle!StartRender,
        Lifecycle!SpendTicket, Lifecycle!FinishRender, Lifecycle!Sign, Lifecycle!GoOnline,
        Lifecycle!Deliver, Lifecycle!Fail, Lifecycle!Move, stages, tickets, onlines
<1>. QED
    BY <1>2, <1>3, <1>4, <1>5, <1>6, <1>7 DEF OneStep, Moves

(* An edge of the status graph, seen from the stages.                      *)
LEMMA StageEdges ==
    ASSUME NEW from, NEW to, CanAdvance(from, to)
    PROVE  \/ StageOf(from) = "open" /\ StageOf(to) = "open" /\ to \notin {"rendering", "approved"}
           \/ StageOf(from) = "open" /\ to = "rendering"
           \/ from = "rendering" /\ to = "rendered"
           \/ from = "rendered" /\ to = "staged"
           \/ from = "staged" /\ to = "approved"
           \/ from = "approved" /\ to = "delivered"
           \/ StageOf(from) \in {"open", "rendering", "review", "approved"} /\ to = "failed"
<1>1. \/ /\ from \in {"pending", "script_ready", "audio_generating", "audio_ready"}
         /\ to \in {"script_ready", "audio_generating", "audio_ready", "rendering", "failed"}
      \/ from = "rendering" /\ to = "rendered"
      \/ from = "rendered" /\ to = "staged"
      \/ from = "staged" /\ to = "approved"
      \/ from = "approved" /\ to = "delivered"
      \/ from \in {"rendering", "rendered", "staged", "approved"} /\ to = "failed"
    BY DEF CanAdvance, LegacyStatus, LegacyTransitions
<1>. QED BY <1>1, StageIs

(* What the invariants make of one step for the job it is about.           *)
LEMMA JobRefines ==
    ASSUME TypeOK, BillingInv, ApprovalInv, RenderInv, NEW j \in Jobs,
           HistoryStep(j),
           UNCHANGED <<billed, uploads>> \/ Spends(j),
           \/ UNCHANGED approvedBy
           \/ /\ status[j] = "staged" /\ status'[j] = "approved"
              /\ approvedBy' = [approvedBy EXCEPT ![j] = TRUE]
    PROVE  OneStep(j)
<1>t. /\ TicketOf(j) = IF RendersBilled(j) > 0 THEN "spent"
                        ELSE IF EnteredRendering(j) THEN "issued" ELSE "unused"
      /\ TicketOf(j)' = IF RendersBilled(j)' > 0 THEN "spent"
                        ELSE IF EnteredRendering(j)' THEN "issued" ELSE "unused"
    BY DEF TicketOf, EnteredRendering
<1>n. RendersBilled(j) \in Nat /\ uploads[j] \in Nat
    BY DEF TypeOK, WorldTypeOK, RendersBilled
<1>1. CASE Spends(j)
  <2>1. Stage(j)' = Stage(j) /\ EnteredRendering(j)' = EnteredRendering(j) /\ status'[j] = status[j]
    BY <1>1 DEF Spends, Stage, EnteredRendering, Reached
  <2>2. UNCHANGED approvedBy
    BY <2>1
  <2>3. CASE UNCHANGED uploads /\ RendersBilled(j)' = RendersBilled(j)
    BY <1>t, <2>1, <2>2, <2>3 DEF OneStep, Online
  <2>4. ASSUME UNCHANGED uploads, NEW w \in Workers, RenderCall(w, j),
               RendersBilled(j)' = RendersBilled(j) + 1
        PROVE  OneStep(j)
    <3>1. RendersBilled(j) = 0
      BY <2>4 DEF BillingInv, OneTicket, RenderCall
    <3>2. EnteredRendering(j)
      BY <2>4 DEF RenderInv
    <3>3. TicketOf(j) = "issued" /\ TicketOf(j)' = "spent"
      BY <1>t, <2>4, <3>1, <3>2
    <3>. QED BY <2>1, <2>2, <2>4, <3>3 DEF OneStep, Online
  <2>5. ASSUME UNCHANGED billed, uploads'[j] = uploads[j] + 1, NEW w \in Workers, Publishing(w, j)
        PROVE  OneStep(j)
    <3>1. Public(j)
      BY <2>5 DEF Public
    <3>2. approvedBy[j] /\ status[j] \in {"approved", "delivered", "failed"}
      BY <3>1 DEF ApprovalInv
    <3>3. Stage(j) \in {"approved", "delivered", "failed"}
      BY <3>2, StageIs DEF Stage
    <3>4. RendersBilled(j)' = RendersBilled(j)
      BY <2>5 DEF RendersBilled
    <3>5. Online(j)' = TRUE
      BY <1>n, <2>5 DEF Online
    <3>. QED BY <1>t, <2>1, <2>2, <3>2, <3>3, <3>4, <3>5 DEF OneStep
  <2>. QED BY <1>1, <2>3, <2>4, <2>5 DEF Spends, RenderCall
<1>2. CASE UNCHANGED <<billed, uploads>>
  <2>1. RendersBilled(j)' = RendersBilled(j) /\ Online(j)' = Online(j)
    BY <1>2 DEF RendersBilled, Online
  <2>2. /\ EnteredRendering(j) => EnteredRendering(j)'
        /\ EnteredRendering(j)' /\ ~EnteredRendering(j) =>
              CanAdvance(status[j], "rendering") /\ status'[j] = "rendering"
        /\ CanAdvance(status[j], "rendering") /\ status'[j] = "rendering" => EnteredRendering(j)'
    BY EntersRendering
  <2>3. status'[j] # "rendering" => TicketOf(j)' = TicketOf(j)
    BY <1>t, <2>1, <2>2
  <2>4. CASE Quiet(j)
    <3>1. /\ Stage(j)' = Stage(j) /\ EnteredRendering(j)' = EnteredRendering(j)
          /\ status'[j] = status[j]
      BY <2>4 DEF Quiet, Stage, EnteredRendering, Reached
    <3>. QED BY <1>t, <2>1, <3>1 DEF OneStep
  <2>5. CASE Created(j)
    <3>1. status[j] = "absent" /\ status'[j] \in {"pending", "script_ready"}
      BY <2>5 DEF Created
    <3>2. Moves(j, "none", "open")
      BY <3>1, StageIs DEF Moves, Stage
    <3>. QED BY <2>1, <2>3, <3>1, <3>2 DEF OneStep
  <2>6. CASE Staged(j)
    <3>1. status[j] = "rendering" /\ status'[j] = "staged"
      BY <2>6, LastEdges DEF Staged
    <3>2. Moves(j, "rendering", "review")
      BY <3>1, StageIs DEF Moves, Stage
    <3>. QED BY <2>1, <2>3, <3>1, <3>2 DEF OneStep
  <2>7. ASSUME NEW to \in LegacyStatus, NEW by \in {"system", "operator"}, Advanced(j, to, by)
        PROVE  OneStep(j)
    <3>1. CanAdvance(status[j], to) /\ status'[j] = to /\ (to = "approved" => approvedBy'[j])
      BY <2>7 DEF Advanced
    <3>2. Stage(j) = StageOf(status[j]) /\ Stage(j)' = StageOf(to)
      BY <3>1 DEF Stage
    <3>3. to # "approved" => UNCHANGED approvedBy
      BY <3>1
    <3>4. CASE StageOf(status[j]) = "open" /\ StageOf(to) = "open" /\ to \notin {"rendering", "approved"}
      BY <2>1, <2>3, <3>1, <3>2, <3>3, <3>4 DEF OneStep
    <3>5. CASE StageOf(status[j]) = "open" /\ to = "rendering"
      <4>1. status[j] \in BeforeRendering
        BY <3>1, <3>5, RenderingEdges DEF BeforeRendering, BeforeAudio
      <4>2. ~EnteredRendering(j) /\ RendersBilled(j) = 0
        BY <4>1 DEF RenderInv, BillingInv, OneTicket
      <4>3. TicketOf(j) = "unused" /\ TicketOf(j)' = "issued"
        BY <1>t, <2>1, <2>2, <3>1, <3>5, <4>2
      <4>4. Moves(j, "open", "rendering")
        BY <3>2, <3>5, StageIs DEF Moves
      <4>. QED BY <2>1, <3>3, <3>5, <4>3, <4>4 DEF OneStep
    <3>6. CASE status[j] = "rendering" /\ to = "rendered"
      <4>1. Moves(j, "rendering", "review")
        BY <3>2, <3>6, StageIs DEF Moves
      <4>. QED BY <2>1, <2>3, <3>1, <3>3, <3>6, <4>1 DEF OneStep
    <3>7. CASE status[j] = "rendered" /\ to = "staged"
      <4>1. Stage(j)' = Stage(j)
        BY <3>2, <3>7, StageIs
      <4>. QED BY <2>1, <2>3, <3>1, <3>3, <3>7, <4>1 DEF OneStep
    <3>8. CASE status[j] = "staged" /\ to = "approved"
      <4>1. Moves(j, "review", "approved")
        BY <3>2, <3>8, StageIs DEF Moves
      <4>2. approvedBy' = [approvedBy EXCEPT ![j] = TRUE]
        BY <3>1, <3>8 DEF TypeOK, DbTypeOK
      <4>. QED BY <2>1, <2>3, <3>1, <3>8, <4>1, <4>2 DEF OneStep
    <3>9. CASE status[j] = "approved" /\ to = "delivered"
      <4>1. Moves(j, "approved", "delivered")
        BY <3>2, <3>9, StageIs DEF Moves
      <4>. QED BY <2>1, <2>3, <3>1, <3>3, <3>9, <4>1 DEF OneStep
    <3>10. CASE StageOf(status[j]) \in {"open", "rendering", "review", "approved"} /\ to = "failed"
      <4>1. Stage(j) \in {"open", "rendering", "review", "approved"} /\ Stage(j)' = "failed"
        BY <3>2, <3>10, StageIs
      <4>. QED BY <2>1, <2>3, <3>1, <3>3, <3>10, <4>1 DEF OneStep
    <3>. QED BY <3>1, <3>4, <3>5, <3>6, <3>7, <3>8, <3>9, <3>10, StageEdges
  <2>. QED BY <2>4, <2>5, <2>6, <2>7 DEF HistoryStep
<1>. QED BY <1>1, <1>2

(* The pipeline implements the lifecycle it promises: every step is one    *)
(* step of one abstract job, or none.                                      *)
THEOREM PipelineImplementsLifecycle == Spec => ImplementsLifecycle
<1>1. Init => Lifecycle!Init
  <2>. SUFFICES ASSUME Init PROVE Lifecycle!Init
    OBVIOUS
  <2>1. \A j \in Jobs : /\ StageOf(status[j]) = "none" /\ TicketOf(j) = "unused"
                        /\ approvedBy[j] = FALSE /\ (uploads[j] > 0) = FALSE
    BY StageIs DEF Init, TicketOf, RendersBilled, Reached
  <2>2. approvedBy = [j \in Jobs |-> FALSE]
    BY DEF Init
  <2>. QED BY <2>1, <2>2 DEF Lifecycle!Init
<1>2. TypeOK /\ BillingInv /\ ApprovalInv /\ RenderInv /\ [Next]_vars
        => [Lifecycle!Next]_Lifecycle!vars
  <2>. SUFFICES ASSUME TypeOK, BillingInv, ApprovalInv, RenderInv, [Next]_vars
                PROVE  [Lifecycle!Next]_Lifecycle!vars
    OBVIOUS
  <2>1. CASE UNCHANGED vars
    BY <2>1 DEF vars, Lifecycle!vars, TicketOf, RendersBilled, Reached
  <2>2. ASSUME NEW j \in Jobs, JobNext(j)
        PROVE  [Lifecycle!Next]_Lifecycle!vars
    <3>1. Next
      BY <2>2 DEF Next, JobNext
    <3>2. HistoryStep(j)
      BY <3>1, NextHistory
    <3>3. Touches(j) /\ OneStep(j)
      BY <2>2, <3>2, JobStepTouches, JobRefines
    <3>. QED BY <3>3, OneStepIsAbstract
  <2>3. ASSUME NEW w \in Workers, WorkerNext(w) \/ Crash(w)
        PROVE  [Lifecycle!Next]_Lifecycle!vars
    <3>1. PICK j \in Jobs : j = task[w]
      BY DEF TypeOK, LocalTypeOK
    <3>2. HistoryStep(j)
      BY <2>3, NextHistory
    <3>3. Touches(j) /\ OneStep(j)
      BY <2>3, <3>1, <3>2, WorkerStepTouches, JobRefines
    <3>. QED BY <3>3, OneStepIsAbstract
  <2>. QED BY <2>1, <2>2, <2>3, NextCases
<1>. QED BY <1>1, <1>2, TypeCorrect, BillingInvariant, ApprovalInvariant, RenderInvariant, PTL
         DEF Spec, ImplementsLifecycle, Lifecycle!Spec

=============================================================================
