----------------------------- MODULE SotJobProofs -----------------------------
(***************************************************************************)
(* Proofs about SotJob, for any jobs, workers, installed overloads, batch  *)
(* and limits.                                                             *)
(***************************************************************************)
EXTENDS SotJob, TLAPS

(* Whatever is queued or runs may still fail within the bound.             *)
Bounded == \A j \in Jobs : status[j] \in Queues \cup Running => attempt[j] < MaxFailures

(* A claim that is not lost is the one the row names, and the row runs.    *)
Standing ==
    \A w \in Workers : calling[w] # None /\ w \notin lost =>
        status[calling[w]] \in Running /\ lockedBy[calling[w]] = w

ColumnsTyped ==
    /\ status \in [Jobs -> Status \cup {"absent"}]
    /\ lockedBy \in [Jobs -> Workers \cup {None}]
    /\ lock \in [Jobs -> {"null", "recent", "held", "stale"}]
    /\ attempt \in [Jobs -> 0..MaxFailures]
    /\ letters \in [Jobs -> Nat]
    /\ last \in [Jobs -> Status \cup {"absent"}]

CallsTyped == calling \in [Workers -> Jobs \cup {None}] /\ lost \subseteq Workers

(* What a worker calls a provider for has been created.                    *)
Existing == \A w \in Workers : calling[w] # None => status[calling[w]] # "absent"

Columns == ColumnsTyped /\ Bounded /\ LockedWhileRunning /\ ExhaustedIsDead /\ TimelineEndsAtStatus

IInv == Columns /\ CallsTyped /\ Existing /\ Standing

-----------------------------------------------------------------------------
(* What the graph of transition_job leaves to the lock and the counters.   *)

(* A job starts to run from its queue only, fails from its queue or while  *)
(* it runs, and leaves running for a status that clears the lock.          *)
LEMMA Edges ==
    ASSUME NEW s \in Status, NEW t \in CanonicalTransitions[s] \cap Status
    PROVE  /\ t \in Running => s \in Queues
           /\ t \in Failed => s \in Queues \cup Running
           /\ s \in Running => t \in Unlocking
BY DEF Status, CanonicalTransitions, CanonicalStatus, Running, Queues, Failed, Unlocking

LEMMA StatusFacts ==
    /\ Running \cup Queues \cup Failed \cup Unlocking \subseteq Status
    /\ "dead" \in Status /\ "draft" \in Status /\ "absent" \notin Status
    /\ Running \cap Queues = {} /\ Running \cap Failed = {} /\ Queues \cap Failed = {}
    /\ Running \cap Unlocking = {} /\ Failed \subseteq Unlocking
    /\ "dead" \notin Running \cup Queues \cup Failed
    /\ "draft" \notin Running \cup Queues \cup Failed
    /\ "absent" \notin Running \cup Queues \cup Failed
BY DEF Status, CanonicalStatus, Running, Queues, Failed, Unlocking

-----------------------------------------------------------------------------
(* transition_job, for any set of jobs at once.                            *)

LEMMA MoveKeepsColumns ==
    ASSUME Columns,
           NEW S \in SUBSET Jobs, \A j \in S : status[j] # "absent",
           NEW to \in [S -> Status], NEW by \in Workers \cup {None},
           Move(S, to, by)
    PROVE  Columns'
<1> USE SotAssumption
<1>1. \A j \in S : /\ status[j] \in Status /\ to[j] \in Status
                   /\ to[j] \in CanonicalTransitions[status[j]] \cap Status
    BY DEF Columns, ColumnsTyped, Move
<1>2. \A j \in S : /\ to[j] \in Running => status[j] \in Queues
                   /\ to[j] \in Failed => status[j] \in Queues \cup Running
                   /\ status[j] \in Running => to[j] \in Unlocking
    BY <1>1, Edges
<1>3. \A j \in S : to[j] \in Failed \cup Running => attempt[j] < MaxFailures
    BY <1>2 DEF Columns, Bounded
<1>4. ColumnsTyped'
  <2>1. status' \in [Jobs -> Status \cup {"absent"}]
      BY <1>1, StatusFacts DEF Columns, ColumnsTyped, Move
  <2>2. lockedBy' \in [Jobs -> Workers \cup {None}]
      BY DEF Columns, ColumnsTyped, Move, LockedByAfter
  <2>3. lock' \in [Jobs -> {"null", "recent", "held", "stale"}]
      BY DEF Columns, ColumnsTyped, Move, LockAfter
  <2>4. attempt' \in [Jobs -> 0..MaxFailures]
      BY <1>3 DEF Columns, ColumnsTyped, Move
  <2>5. letters' \in [Jobs -> Nat]
      BY DEF Columns, ColumnsTyped, Move
  <2>6. last' \in [Jobs -> Status \cup {"absent"}]
      BY <1>1, StatusFacts DEF Columns, ColumnsTyped, Move, LastAfter
  <2> QED BY <2>1, <2>2, <2>3, <2>4, <2>5, <2>6 DEF ColumnsTyped
<1>5. Bounded'
  <2> SUFFICES ASSUME NEW j \in Jobs, status'[j] \in Queues \cup Running
               PROVE  attempt'[j] < MaxFailures
      BY DEF Bounded
  <2>1. CASE j \notin S
      BY <2>1 DEF Columns, ColumnsTyped, Bounded, Move
  <2>2. CASE j \in S
    <3>1. status'[j] = to[j]
        BY <2>2, StatusFacts DEF Move
    <3>2. to[j] \notin Failed
        BY <3>1, StatusFacts
    <3>3. attempt'[j] = attempt[j]
        BY <2>2, <3>2 DEF Move
    <3>4. to[j] \in Queues => attempt[j] < MaxFailures
        BY <2>2 DEF Move
    <3> QED BY <1>3, <2>2, <3>1, <3>3, <3>4
  <2> QED BY <2>1, <2>2
<1>6. LockedWhileRunning'
  <2> SUFFICES ASSUME NEW j \in Jobs
               PROVE  /\ status'[j] \in Running <=> lock'[j] # "null"
                      /\ lockedBy'[j] # None => status'[j] \in Running
      BY DEF LockedWhileRunning
  <2>0. /\ status[j] \in Running <=> lock[j] # "null"
        /\ lockedBy[j] # None => status[j] \in Running
      BY DEF Columns, LockedWhileRunning
  <2>1. CASE j \notin S
      BY <2>0, <2>1 DEF Columns, ColumnsTyped, Move
  <2>2. CASE j \in S
    <3>0. /\ status'[j] = IF Exhausted(j, to[j]) THEN "dead" ELSE to[j]
          /\ lock'[j] = LockAfter(j, to[j])
          /\ lockedBy'[j] = LockedByAfter(j, to[j], by)
        BY <2>2 DEF Move
    <3>1. CASE to[j] \in Running
        BY <2>2, <3>0, <3>1, StatusFacts DEF Exhausted, LockAfter
    <3>2. CASE to[j] \in Unlocking
        BY <2>2, <3>0, <3>2, StatusFacts DEF LockAfter, LockedByAfter
    <3>3. CASE to[j] \notin Running \cup Unlocking
      <4>1. status[j] \notin Running
          BY <1>2, <2>2, <3>3
      <4>2. status'[j] = to[j]
          BY <3>0, <3>3, StatusFacts DEF Exhausted
      <4> QED BY <2>0, <3>0, <3>3, <4>1, <4>2 DEF LockAfter, LockedByAfter
    <3> QED BY <3>1, <3>2, <3>3
  <2> QED BY <2>1, <2>2
<1>7. ExhaustedIsDead'
  <2> SUFFICES ASSUME NEW j \in Jobs
               PROVE  /\ status'[j] \in Failed => attempt'[j] < MaxAttempts
                      /\ letters'[j] = IF attempt'[j] < MaxAttempts THEN 0
                                       ELSE attempt'[j] - MaxAttempts + 1
      BY DEF ExhaustedIsDead
  <2>0. /\ status[j] \in Failed => attempt[j] < MaxAttempts
        /\ letters[j] = IF attempt[j] < MaxAttempts THEN 0 ELSE attempt[j] - MaxAttempts + 1
        /\ attempt[j] \in Nat /\ letters[j] \in Nat
      BY DEF Columns, ColumnsTyped, ExhaustedIsDead
  <2>1. CASE j \notin S
      BY <2>0, <2>1 DEF Columns, ColumnsTyped, Move
  <2>2. CASE j \in S /\ to[j] \in Failed
    <3>1. /\ status'[j] = IF attempt[j] + 1 >= MaxAttempts THEN "dead" ELSE to[j]
          /\ attempt'[j] = attempt[j] + 1
          /\ letters'[j] = IF attempt[j] + 1 >= MaxAttempts THEN letters[j] + 1 ELSE letters[j]
        BY <2>2 DEF Move, Exhausted
    <3> QED BY <2>0, <2>2, <3>1, StatusFacts
  <2>3. CASE j \in S /\ to[j] \notin Failed
    <3>1. status'[j] = to[j] /\ attempt'[j] = attempt[j] /\ letters'[j] = letters[j]
        BY <2>3 DEF Move, Exhausted
    <3> QED BY <2>0, <2>3, <3>1
  <2> QED BY <2>1, <2>2, <2>3
<1>8. TimelineEndsAtStatus'
  <2> SUFFICES ASSUME NEW j \in Jobs
               PROVE  last'[j] \in {status'[j]} \cup (IF status'[j] = "draft" THEN {"absent"} ELSE {})
      BY DEF TimelineEndsAtStatus
  <2>1. CASE j \notin S
      BY <2>1 DEF Columns, ColumnsTyped, TimelineEndsAtStatus, Move
  <2>2. CASE j \in S
      BY <2>2 DEF Move, LastAfter
  <2> QED BY <2>1, <2>2
<1> QED BY <1>4, <1>5, <1>6, <1>7, <1>8 DEF Columns

(* Claims that are not lost are not touched by a move whose losers are     *)
(* marked.                                                                 *)
LEMMA MoveKeepsStanding ==
    ASSUME IInv,
           NEW S \in SUBSET Jobs, NEW to, NEW by,
           Move(S, to, by),
           NEW w \in Workers, calling[w] # None, w \notin lost \cup Losers(S)
    PROVE  status'[calling[w]] \in Running /\ lockedBy'[calling[w]] = w
<1>1. status[calling[w]] \in Running /\ lockedBy[calling[w]] = w /\ calling[w] \in Jobs
    BY DEF IInv, Standing, CallsTyped
<1>2. calling[w] \notin S
    BY <1>1 DEF Losers
<1> QED BY <1>1, <1>2 DEF IInv, Columns, ColumnsTyped, Move

LEMMA MoveKeepsExistence ==
    ASSUME Columns, NEW S \in SUBSET Jobs, NEW to \in [S -> Status], NEW by,
           Move(S, to, by),
           NEW j \in Jobs, status[j] # "absent"
    PROVE  status'[j] # "absent"
BY StatusFacts DEF Columns, ColumnsTyped, Move

-----------------------------------------------------------------------------
LEMMA InitIInv == Init => IInv
<1> SUFFICES ASSUME Init PROVE IInv
    OBVIOUS
<1>1. Columns
    BY SotAssumption, StatusFacts DEF Init, Columns, ColumnsTyped, Bounded, LockedWhileRunning,
          ExhaustedIsDead, TimelineEndsAtStatus
<1>2. CallsTyped /\ Existing /\ Standing
    BY DEF Init, CallsTyped, Existing, Standing
<1> QED BY <1>1, <1>2 DEF IInv

LEMMA CreateIInv ==
    ASSUME IInv, NEW j \in Jobs, Create(j)
    PROVE  IInv'
<1>1. Columns'
    BY SotAssumption, StatusFacts DEF IInv, Create, Columns, ColumnsTyped, Bounded, LockedWhileRunning,
          ExhaustedIsDead, TimelineEndsAtStatus
<1>2. CallsTyped' /\ Existing' /\ Standing'
    BY StatusFacts DEF IInv, Create, Columns, ColumnsTyped, CallsTyped, Existing, Standing
<1> QED BY <1>1, <1>2 DEF IInv

LEMMA TransitionIInv ==
    ASSUME IInv, NEW j \in Jobs, NEW t \in Status, NEW by \in Workers \cup {None},
           Transition(j, t, by)
    PROVE  IInv'
<1> DEFINE to == [i \in {j} |-> t]
<1>1. Move({j}, to, by) /\ status[j] # "absent"
    BY DEF Transition
<1>2. Columns'
    BY <1>1, MoveKeepsColumns DEF IInv
<1>3. CallsTyped'
    BY DEF IInv, CallsTyped, Transition, Losers
<1>4. Existing'
    BY <1>1, MoveKeepsExistence DEF IInv, CallsTyped, Existing, Transition
<1>5. Standing'
    BY <1>1, MoveKeepsStanding DEF Standing, Transition
<1> QED BY <1>2, <1>3, <1>4, <1>5 DEF IInv

LEMMA ClaimIInv ==
    ASSUME IInv, NEW w \in Workers, NEW t \in Status, ClaimJob(w, t)
    PROVE  IInv'
<1> USE SotAssumption
<1>0. PICK S \in SUBSET Claimable(t) :
          /\ status' = [j \in Jobs |-> IF j \in S THEN t ELSE status[j]]
          /\ lockedBy' = [j \in Jobs |-> IF j \in S THEN w ELSE lockedBy[j]]
          /\ lock' = [j \in Jobs |-> IF j \in S THEN "recent" ELSE lock[j]]
          /\ last' = [j \in Jobs |->
                IF lockedBy'[j] = w /\ status'[j] = t /\ lock'[j] = "recent" THEN t ELSE last[j]]
          /\ \E j \in S : calling' = [calling EXCEPT ![w] = j]
    BY DEF ClaimJob
<1>1. /\ t \in Running /\ S \subseteq Jobs
      /\ \A j \in S : status[j] \in Queues
      /\ UNCHANGED <<attempt, letters>> /\ lost' = lost \ {w}
    BY DEF ClaimJob, Claimable, Queued, Queues, Running
<1>2. ColumnsTyped'
    BY <1>0, <1>1, StatusFacts DEF IInv, Columns, ColumnsTyped
<1>3. Bounded' /\ ExhaustedIsDead'
    BY <1>0, <1>1, StatusFacts DEF IInv, Columns, ColumnsTyped, Bounded, ExhaustedIsDead
<1>4. LockedWhileRunning'
    BY <1>0, <1>1, StatusFacts DEF IInv, Columns, ColumnsTyped, LockedWhileRunning
<1>5. TimelineEndsAtStatus'
    BY <1>0, <1>1, StatusFacts DEF IInv, Columns, ColumnsTyped, TimelineEndsAtStatus
<1>6. CallsTyped'
    BY <1>0, <1>1 DEF IInv, CallsTyped
<1>7. Standing'
  <2> SUFFICES ASSUME NEW v \in Workers, calling'[v] # None, v \notin lost'
               PROVE  status'[calling'[v]] \in Running /\ lockedBy'[calling'[v]] = v
      BY DEF Standing
  <2>1. CASE v = w
      BY <1>0, <1>1, <2>1 DEF IInv, CallsTyped
  <2>2. CASE v # w
    <3>1. calling'[v] = calling[v] /\ calling[v] \in Jobs /\ v \notin lost
        BY <1>0, <1>1, <2>2 DEF IInv, CallsTyped
    <3>2. status[calling[v]] \in Running /\ lockedBy[calling[v]] = v
        BY <3>1 DEF IInv, Standing
    <3>3. calling[v] \notin S
        BY <1>1, <3>2, StatusFacts
    <3> QED BY <1>0, <3>1, <3>2, <3>3
  <2> QED BY <2>1, <2>2
<1>8. Existing'
    BY <1>0, <1>1, StatusFacts DEF IInv, CallsTyped, Existing
<1> QED BY <1>2, <1>3, <1>4, <1>5, <1>6, <1>7, <1>8 DEF IInv, Columns

LEMMA FinishIInv ==
    ASSUME IInv, NEW w \in Workers, NEW t \in Status, Finish(w, t)
    PROVE  IInv'
<1> DEFINE c == calling[w]
           to == [i \in {c} |-> t]
<1>1. c \in Jobs /\ Move({c}, to, None)
    BY DEF IInv, CallsTyped, Finish
<1>2. status[c] # "absent"
    BY DEF IInv, Existing, Finish
<1>3. Columns'
    BY <1>1, <1>2, MoveKeepsColumns DEF IInv
<1>4. CallsTyped'
    BY DEF IInv, CallsTyped, Finish, Losers
<1>5. Standing'
    BY <1>1, MoveKeepsStanding DEF Standing, Finish, IInv, CallsTyped
<1>6. Existing'
    BY <1>1, MoveKeepsExistence DEF IInv, CallsTyped, Existing, Finish
<1> QED BY <1>3, <1>4, <1>5, <1>6 DEF IInv

LEMMA ReclaimIInv ==
    ASSUME IInv, ReclaimStuckJobs
    PROVE  IInv'
<1> DEFINE to == [j \in Stuck |-> IF status[j] = "tts_running" THEN "tts_failed" ELSE "render_failed"]
<1>1. Move(Stuck, to, None) /\ Stuck \in SUBSET Jobs
    BY DEF ReclaimStuckJobs, Stuck
<1>2. to \in [Stuck -> Status]
    BY StatusFacts DEF Failed
<1>3. \A j \in Stuck : status[j] # "absent"
    BY StatusFacts DEF Stuck
<1>4. Columns'
    BY <1>1, <1>2, <1>3, MoveKeepsColumns DEF IInv
<1>5. CallsTyped'
    BY DEF IInv, CallsTyped, ReclaimStuckJobs, Losers
<1>6. Existing'
    BY <1>1, <1>2, MoveKeepsExistence DEF IInv, CallsTyped, Existing, ReclaimStuckJobs
<1>7. Standing'
    BY <1>1, MoveKeepsStanding DEF Standing, ReclaimStuckJobs
<1> QED BY <1>4, <1>5, <1>6, <1>7 DEF IInv

LEMMA NextIInv == IInv /\ [Next]_vars => IInv'
<1> SUFFICES ASSUME IInv, [Next]_vars PROVE IInv'
    OBVIOUS
<1>1. ASSUME NEW j \in Jobs, GrowOld(j) PROVE IInv'
    BY <1>1 DEF GrowOld, IInv, Columns, ColumnsTyped, Bounded, LockedWhileRunning, ExhaustedIsDead,
          TimelineEndsAtStatus, CallsTyped, Existing, Standing
<1>2. ASSUME NEW w \in Workers, Abandon(w) PROVE IInv'
    BY <1>2 DEF Abandon, columns, IInv, Columns, ColumnsTyped, Bounded, LockedWhileRunning,
          ExhaustedIsDead, TimelineEndsAtStatus, CallsTyped, Existing, Standing
<1>3. CASE UNCHANGED vars
    BY <1>3 DEF vars, columns, IInv, Columns, ColumnsTyped, Bounded, LockedWhileRunning,
          ExhaustedIsDead, TimelineEndsAtStatus, CallsTyped, Existing, Standing
<1> QED
    BY <1>1, <1>2, <1>3, CreateIInv, TransitionIInv, ClaimIInv, FinishIInv, ReclaimIInv DEF Next

LEMMA Invariance == Spec => []IInv
BY InitIInv, NextIInv, PTL DEF Spec

-----------------------------------------------------------------------------
(* Every column keeps its type: no job fails more often than the bound of  *)
(* its queueing allows.                                                    *)
THEOREM TypeCorrect == Spec => []TypeOK
<1>1. IInv => TypeOK
    BY DEF IInv, Columns, ColumnsTyped, CallsTyped, TypeOK
<1> QED BY <1>1, Invariance, PTL

(* A job has locked_at while it runs and at no other time, whoever claims, *)
(* cancels, fails, requeues or reclaims it: reclaim_stuck_jobs can find    *)
(* every job that runs.                                                    *)
THEOREM LockedWhileRunningHolds == Spec => []LockedWhileRunning
<1>1. IInv => LockedWhileRunning
    BY DEF IInv, Columns
<1> QED BY <1>1, Invariance, PTL

(* No failed job has used up its attempts, and there is a dead letter for  *)
(* every failure from the last attempt on.                                 *)
THEOREM ExhaustedIsDeadHolds == Spec => []ExhaustedIsDead
<1>1. IInv => ExhaustedIsDead
    BY DEF IInv, Columns
<1> QED BY <1>1, Invariance, PTL

(* The newest event of the timeline names the job's status.                *)
THEOREM TimelineEndsAtStatusHolds == Spec => []TimelineEndsAtStatus
<1>1. IInv => TimelineEndsAtStatus
    BY DEF IInv, Columns
<1> QED BY <1>1, Invariance, PTL

(* A claim that the job has not left is the only one of the job, for any   *)
(* number of workers and any batch.                                        *)
THEOREM OneClaimStandsHolds == Spec => []OneClaimStands
<1>1. ASSUME IInv PROVE OneClaimStands
    BY <1>1 DEF IInv, Standing, OneClaimStands
<1> QED BY <1>1, Invariance, PTL

(* The call of transition_job could mean the function of 002 and the one   *)
(* of 004.                                                                 *)
LEMMA ReclaimIsAmbiguous ==
    ASSUME {8, 9} \subseteq Overloads
    PROVE  ~ReclaimStuckJobs
<1>1. 8 \in Candidates(8) /\ 9 \in Candidates(8)
    BY DEF Candidates
<1> QED BY <1>1 DEF ReclaimStuckJobs, Resolves

(* On a database with all migrations, whatever locks grow stale and crons  *)
(* run, a job that runs leaves its step only when a worker that calls for  *)
(* it reports or an operator moves it: no other step writes its status, so *)
(* the job of a worker that has died waits for an operator.                *)
THEOREM OnlyReportsEndARun ==
    ASSUME {8, 9} \subseteq Overloads
    PROVE  Spec => [][\A j \in Jobs :
                        status[j] \in Running /\ status'[j] # status[j] =>
                            \/ \E w \in Workers : calling[w] = j /\ calling'[w] = None
                            \/ \E to \in Status, by \in Workers \cup {None} :
                                    Transition(j, to, by)]_vars
<1> DEFINE Ends == \A j \in Jobs :
              status[j] \in Running /\ status'[j] # status[j] =>
                  \/ \E w \in Workers : calling[w] = j /\ calling'[w] = None
                  \/ \E to \in Status, by \in Workers \cup {None} : Transition(j, to, by)
<1>1. IInv /\ [Next]_vars => Ends
  <2> SUFFICES ASSUME IInv, [Next]_vars, NEW j \in Jobs,
                      status[j] \in Running, status'[j] # status[j]
               PROVE  \/ \E w \in Workers : calling[w] = j /\ calling'[w] = None
                      \/ \E to \in Status, by \in Workers \cup {None} : Transition(j, to, by)
      OBVIOUS
  <2>0. ColumnsTyped /\ CallsTyped
      BY DEF IInv, Columns
  <2>1. ASSUME NEW k \in Jobs, NEW to \in Status, NEW by \in Workers \cup {None},
               Transition(k, to, by)
        PROVE  Transition(j, to, by)
    <3>1. j \in {k}
        BY <2>1 DEF Transition, Move
    <3> QED BY <2>1, <3>1
  (* A claim takes queued jobs only.                                       *)
  <2>2. ASSUME NEW w \in Workers, NEW to \in Status, ClaimJob(w, to)
        PROVE  FALSE
    <3>1. PICK S \in SUBSET Claimable(to) :
              status' = [i \in Jobs |-> IF i \in S THEN to ELSE status[i]]
        BY <2>2 DEF ClaimJob
    <3>2. j \in Claimable(to)
        BY <3>1
    <3>3. status[j] \in Queues
        BY <3>2 DEF Claimable, Queued, Queues
    <3> QED BY <3>3, StatusFacts
  <2>3. ASSUME NEW w \in Workers, NEW to \in Status, Finish(w, to)
        PROVE  calling[w] = j /\ calling'[w] = None
    <3>1. j \in {calling[w]}
        BY <2>3 DEF Finish, Move
    <3>2. calling'[w] = None
        BY <2>0, <2>3 DEF Finish, CallsTyped
    <3> QED BY <3>1, <3>2
  <2>4. ASSUME NEW k \in Jobs, Create(k)
        PROVE  FALSE
    <3>1. k = j
        BY <2>0, <2>4 DEF Create, ColumnsTyped
    <3> QED BY <2>4, <3>1, StatusFacts DEF Create
  <2>5. CASE (\E k \in Jobs : GrowOld(k)) \/ (\E w \in Workers : Abandon(w)) \/ UNCHANGED vars
      BY <2>5 DEF GrowOld, Abandon, columns, vars
  <2>6. ~ReclaimStuckJobs
      BY ReclaimIsAmbiguous
  <2> QED BY <2>1, <2>2, <2>3, <2>4, <2>5, <2>6 DEF Next
<1>2. Ends => [Ends]_vars
    OBVIOUS
<1> QED BY <1>1, <1>2, Invariance, PTL DEF Spec

-----------------------------------------------------------------------------
(* The pipeline asks for statuses of the legacy graph, and on this schema  *)
(* transition calls transition_job with their canonical names.             *)
Accepted(s, t) == Canonicalize[t] \in CanonicalTransitions[Canonicalize[s]]

(* Of the pipeline's advances transition_job accepts the end of a lane and *)
(* the way to publication.  Those that would start a lane, and every       *)
(* failure, are refused: the legacy graph knows no queues and no failure   *)
(* of a lane, and canonicalize cannot supply them.                         *)
THEOREM AdvancesOnTheSchema ==
    \A s \in LegacyStatus : \A t \in LegacyTransitions[s] :
        Accepted(s, t) <=>
            <<s, t>> \in {<<"audio_generating", "audio_ready">>, <<"rendering", "rendered">>,
                          <<"rendered", "staged">>, <<"staged", "approved">>,
                          <<"approved", "delivered">>}
<1> SUFFICES ASSUME NEW s \in LegacyStatus, NEW t \in LegacyTransitions[s]
             PROVE  Accepted(s, t) <=>
                        \/ s = "audio_generating" /\ t = "audio_ready"
                        \/ s = "rendering" /\ t = "rendered"
                        \/ s = "rendered" /\ t = "staged"
                        \/ s = "staged" /\ t = "approved"
                        \/ s = "approved" /\ t = "delivered"
    OBVIOUS
<1> USE DEF Accepted, LegacyTransitions, LegacyStatus, Canonicalize, CanonicalTransitions, CanonicalStatus
<1>1. CASE s \in {"pending", "script_ready"}
    BY <1>1
<1>2. CASE s \in {"audio_generating", "audio_ready"}
    BY <1>2
<1>3. CASE s \in {"rendering", "rendered"}
    BY <1>3
<1>4. CASE s \in {"staged", "approved"}
    BY <1>4
<1>5. CASE s \in {"delivered", "failed"}
    BY <1>5
<1> QED
    BY <1>1, <1>2, <1>3, <1>4, <1>5

(* A job that the pipeline has created on this schema never leaves draft   *)
(* by an advance, and none that it works on can be failed.                 *)
THEOREM DraftIsNotLeft ==
    \A s \in LegacyStatus : \A t \in LegacyTransitions[s] :
        Accepted(s, t) => Canonicalize[s] # "draft" /\ Canonicalize[t] # "dead"
<1> SUFFICES ASSUME NEW s \in LegacyStatus, NEW t \in LegacyTransitions[s], Accepted(s, t)
             PROVE  Canonicalize[s] # "draft" /\ Canonicalize[t] # "dead"
    OBVIOUS
<1>1. \/ s = "audio_generating" /\ t = "audio_ready"
      \/ s = "rendering" /\ t = "rendered"
      \/ s = "rendered" /\ t = "staged"
      \/ s = "staged" /\ t = "approved"
      \/ s = "approved" /\ t = "delivered"
    BY AdvancesOnTheSchema
<1> QED
    BY <1>1 DEF Canonicalize, LegacyStatus

=============================================================================
