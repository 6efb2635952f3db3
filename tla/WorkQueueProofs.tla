---------------------------- MODULE WorkQueueProofs ----------------------------
(***************************************************************************)
(* Proofs about WorkQueue for any number of tasks, workers, rows, crashes, *)
(* any batch size and any reclaim ages.                                    *)
(*                                                                         *)
(* A mark names its row by the id only, so what keeps the queue sound is   *)
(* that attempts grow with every claim: a claim is never ahead of its row  *)
(* (Behind), and two claims of a row never carry the same number.          *)
(***************************************************************************)
EXTENDS WorkQueue, FiniteSetTheorems, TLAPS

(* A busy worker has a row to work on.                                     *)
Busy == \A w \in Workers : phase[w] # "idle" => batch[w] # <<>>

(* No two active rows of a task.                                           *)
ActiveApart ==
    \A q, r \in Rows :
        status[q] \in Active /\ status[r] \in Active /\ task[q] = task[r] => q = r

IInv == TypeOK /\ Busy /\ ActiveApart /\ AttemptsTellClaims /\ DeadMeansExhausted

-----------------------------------------------------------------------------
LEMMA HeadOfBatch ==
    ASSUME TypeOK, Busy, NEW w \in Workers, phase[w] # "idle"
    PROVE  /\ batch[w] \in Seq(Claim) /\ batch[w] # <<>>
           /\ Head(batch[w]) \in Claims(w)
           /\ Head(batch[w]).row \in Rows /\ Head(batch[w]).attempts \in Nat
<1>1. batch[w] \in Seq(Claim) /\ batch[w] # <<>>
    BY DEF TypeOK, Busy
<1>2. Head(batch[w]) = batch[w][1] /\ 1 \in DOMAIN batch[w] /\ batch[w][1] \in Claim
    BY <1>1
<1> QED BY <1>1, <1>2 DEF Claims, Claim

LEMMA TailFacts ==
    ASSUME NEW T, NEW q \in Seq(T), q # <<>>
    PROVE  /\ Tail(q) \in Seq(T)
           /\ \A i \in DOMAIN Tail(q) : i + 1 \in DOMAIN q /\ Tail(q)[i] = q[i + 1]
           /\ Len(q) > 1 => Tail(q) # <<>>
<1>1. Len(q) \in Nat /\ DOMAIN q = 1..Len(q) /\ Len(q) # 0
    OBVIOUS
<1>2. /\ Tail(q) \in Seq(T) /\ Len(Tail(q)) = Len(q) - 1
      /\ \A i \in 1..(Len(q) - 1) : Tail(q)[i] = q[i + 1]
    OBVIOUS
<1>3. DOMAIN Tail(q) = 1..(Len(q) - 1)
    BY <1>2
<1>4. Len(q) > 1 => Len(Tail(q)) # Len(<<>>)
    BY <1>1, <1>2
<1> QED BY <1>1, <1>2, <1>3, <1>4

LEMMA ClaimsTyped ==
    ASSUME TypeOK, NEW w \in Workers
    PROVE  Claims(w) \subseteq Claim
BY DEF TypeOK, Claims

(* Turning to the next row drops a claim and adds none.                    *)
LEMMA NextRowLocal ==
    ASSUME TypeOK, Busy, NEW w \in Workers, phase[w] # "idle", NextRow(w)
    PROVE  /\ batch' \in [Workers -> Seq(Claim)]
           /\ phase' \in [Workers -> {"idle", "run", "done", "failed"}]
           /\ held' \in [Workers -> 0..Stale]
           /\ Busy'
           /\ \A v \in Workers : Claims(v)' \subseteq Claims(v)
<1> USE WorkQueueAssumption
<1>1. batch[w] \in Seq(Claim) /\ batch[w] # <<>>
    BY HeadOfBatch
<1>2. /\ Tail(batch[w]) \in Seq(Claim)
      /\ \A i \in DOMAIN Tail(batch[w]) :
            i + 1 \in DOMAIN batch[w] /\ Tail(batch[w])[i] = batch[w][i + 1]
      /\ Len(batch[w]) > 1 => Tail(batch[w]) # <<>>
    BY <1>1, TailFacts
<1>3. batch' = [batch EXCEPT ![w] = Tail(batch[w])]
    BY DEF NextRow
<1>4. batch' \in [Workers -> Seq(Claim)]
    BY <1>2, <1>3 DEF TypeOK
<1>5. /\ phase' \in [Workers -> {"idle", "run", "done", "failed"}]
      /\ held' \in [Workers -> 0..Stale]
    BY DEF NextRow, TypeOK
<1>6. Busy'
  <2> SUFFICES ASSUME NEW v \in Workers, phase'[v] # "idle" PROVE batch'[v] # <<>>
      BY DEF Busy
  <2>1. CASE v # w
      BY <2>1, <1>3 DEF NextRow, Busy, TypeOK
  <2>2. CASE v = w
    <3>1. Len(batch[w]) > 1
        BY <2>2 DEF NextRow, TypeOK
    <3>2. batch'[v] = Tail(batch[w])
        BY <2>2, <1>3 DEF TypeOK
    <3> QED BY <1>2, <3>1, <3>2
  <2> QED BY <2>1, <2>2
<1>7. ASSUME NEW v \in Workers PROVE Claims(v)' \subseteq Claims(v)
  <2>1. CASE v # w
      BY <2>1, <1>3 DEF Claims, TypeOK
  <2>2. CASE v = w
    <3>1. batch'[v] = Tail(batch[w])
        BY <2>2, <1>3 DEF TypeOK
    <3> QED BY <1>2, <2>2, <3>1 DEF Claims
  <2> QED BY <2>1, <2>2
<1> QED BY <1>4, <1>5, <1>6, <1>7

(* Claims keep apart when they are dropped and attempts do not shrink.     *)
LEMMA ClaimsShrink ==
    ASSUME TypeOK, AttemptsTellClaims, attempts' = attempts,
           \A v \in Workers : Claims(v)' \subseteq Claims(v)
    PROVE  AttemptsTellClaims'
BY DEF AttemptsTellClaims

LEMMA AbandonLocal ==
    ASSUME TypeOK, Busy, NEW w \in Workers, Abandon(w)
    PROVE  /\ batch' \in [Workers -> Seq(Claim)]
           /\ phase' \in [Workers -> {"idle", "run", "done", "failed"}]
           /\ held' \in [Workers -> 0..Stale]
           /\ Busy'
           /\ \A v \in Workers : Claims(v)' \subseteq Claims(v)
<1> USE WorkQueueAssumption
<1>1. batch' = [batch EXCEPT ![w] = <<>>]
    BY DEF Abandon
<1>2. /\ batch' \in [Workers -> Seq(Claim)]
      /\ phase' \in [Workers -> {"idle", "run", "done", "failed"}]
      /\ held' \in [Workers -> 0..Stale]
    BY <1>1 DEF Abandon, TypeOK
<1>3. Busy'
    BY <1>1 DEF Abandon, TypeOK, Busy
<1>4. \A v \in Workers : Claims(v)' \subseteq Claims(v)
    BY <1>1 DEF Claims, TypeOK
<1> QED BY <1>2, <1>3, <1>4

-----------------------------------------------------------------------------
LEMMA InitIInv == Init => IInv
<1> SUFFICES ASSUME Init PROVE IInv
    OBVIOUS
<1>1. TypeOK
    BY WorkQueueAssumption DEF Init, TypeOK, NotStarted
<1>2. \A w \in Workers : Claims(w) = {}
    BY DEF Init, Claims
<1>3. Busy /\ ActiveApart /\ AttemptsTellClaims /\ DeadMeansExhausted
    BY <1>2 DEF Init, Busy, ActiveApart, Active, AttemptsTellClaims, DeadMeansExhausted
<1> QED BY <1>1, <1>3 DEF IInv

LEMMA EnqueueIInv ==
    ASSUME IInv, NEW r \in Rows, Enqueue(r)
    PROVE  IInv'
<1>1. TypeOK'
    BY DEF Enqueue, IInv, TypeOK, local
<1>2. Busy' /\ AttemptsTellClaims' /\ DeadMeansExhausted'
    BY DEF Enqueue, IInv, TypeOK, local, Busy, AttemptsTellClaims, Claims, DeadMeansExhausted
<1>3. ActiveApart'
  <2>1. \A q \in Rows : status[q] \in Active => task[q] # task[r]
      BY DEF Enqueue, ActiveRows
  <2> QED BY <2>1 DEF Enqueue, IInv, TypeOK, ActiveApart
<1> QED BY <1>1, <1>2, <1>3 DEF IInv

LEMMA TickIInv ==
    ASSUME IInv, NEW w \in Workers, Tick(w)
    PROVE  IInv'
<1> USE WorkQueueAssumption
<1>0. PICK claim \in SUBSET (DueRows \cup StaleRows) :
          /\ claim # {}
          /\ status' = [r \in Rows |-> IF r \in claim THEN "running"
                                       ELSE IF r \in StaleRows THEN "pending" ELSE status[r]]
          /\ attempts' = [r \in Rows |-> IF r \in claim THEN attempts[r] + 1 ELSE attempts[r]]
          /\ age' = [r \in Rows |-> IF r \in claim /\ age[r] = NotStarted THEN 0 ELSE age[r]]
          /\ due' = [r \in Rows |-> due[r] \/ r \in StaleRows]
          /\ \E q \in Orders(claim) :
                batch' = [batch EXCEPT ![w] =
                    [i \in DOMAIN q |-> [row |-> q[i], attempts |-> attempts'[q[i]]]]]
    BY DEF Tick
<1>1. PICK q \in Orders(claim) :
          batch' = [batch EXCEPT ![w] =
              [i \in DOMAIN q |-> [row |-> q[i], attempts |-> attempts'[q[i]]]]]
    BY <1>0
<1>2. claim \subseteq Rows /\ StaleRows \subseteq Rows
    BY DEF DueRows, StaleRows, OlderRows
<1>3. Cardinality(claim) \in Nat /\ Cardinality(claim) # 0
  <2>1. IsFiniteSet(Rows)
      BY FS_Interval DEF Rows
  <2>2. IsFiniteSet(claim)
      BY <1>2, <2>1, FS_Subset
  <2> QED BY <1>0, <2>2, FS_CardinalityType, FS_EmptySet
<1>4. q \in [1..Cardinality(claim) -> claim] /\ DOMAIN q = 1..Cardinality(claim)
    BY DEF Orders
<1>5. /\ attempts' \in [Rows -> Nat] /\ \A r \in Rows : attempts'[r] >= attempts[r]
      /\ \A r \in claim : attempts'[r] = attempts[r] + 1
    BY <1>0, <1>2 DEF IInv, TypeOK
<1> DEFINE new == [i \in DOMAIN q |-> [row |-> q[i], attempts |-> attempts'[q[i]]]]
<1>6. /\ new \in Seq(Claim) /\ new # <<>>
      /\ \A i \in DOMAIN new : new[i].row \in claim /\ new[i].attempts = attempts[new[i].row] + 1
  <2>1. \A i \in 1..Cardinality(claim) : [row |-> q[i], attempts |-> attempts'[q[i]]] \in Claim
      BY <1>2, <1>4, <1>5 DEF Claim
  <2>2. new \in [1..Cardinality(claim) -> Claim]
      BY <2>1, <1>4
  <2>3. new \in Seq(Claim) /\ new # <<>>
      BY <2>2, <1>3
  <2>4. ASSUME NEW i \in DOMAIN new
        PROVE  new[i].row \in claim /\ new[i].attempts = attempts[new[i].row] + 1
    <3>1. i \in 1..Cardinality(claim) /\ q[i] \in claim
        BY <1>4, <2>4
    <3>2. new[i].row = q[i] /\ new[i].attempts = attempts'[q[i]]
        BY <1>4, <3>1
    <3> QED BY <1>5, <3>1, <3>2
  <2> QED BY <2>3, <2>4
<1>7. /\ batch'[w] = new
      /\ \A v \in Workers \ {w} : batch'[v] = batch[v]
      /\ batch' \in [Workers -> Seq(Claim)]
    BY <1>1, <1>6 DEF IInv, TypeOK
<1>8. TypeOK'
  <2>1. status' \in [Rows -> {"absent", "pending", "running", "done", "dead"}]
        /\ age' \in [Rows -> NotStarted..Stale]
      BY <1>0 DEF IInv, TypeOK, NotStarted
  <2>3. due' \in [Rows -> BOOLEAN]
      BY <1>0
  <2>2. phase' \in [Workers -> {"idle", "run", "done", "failed"}]
        /\ held' \in [Workers -> 0..Stale] /\ task' \in [Rows -> Tasks] /\ crashes' \in 0..MaxCrashes
      BY DEF IInv, TypeOK, Tick
  <2> QED BY <1>5, <1>7, <2>1, <2>2, <2>3 DEF TypeOK
<1>9. Busy'
    BY <1>6, <1>7 DEF IInv, TypeOK, Busy, Tick
<1>10. ActiveApart'
  <2>1. \A r \in Rows : status'[r] \in Active => status[r] \in Active
      BY <1>0 DEF DueRows, StaleRows, OlderRows, Active
  <2>2. task' = task
      BY DEF Tick
  <2> QED BY <2>1, <2>2 DEF IInv, ActiveApart
<1>11. DeadMeansExhausted'
    BY <1>0, <1>5 DEF IInv, TypeOK, DeadMeansExhausted
<1>12. AttemptsTellClaims'
  <2> SUFFICES ASSUME NEW u \in Workers, NEW v \in Workers, NEW a \in Claims(u)', NEW b \in Claims(v)'
               PROVE  /\ a.attempts <= attempts'[a.row]
                      /\ a.row = b.row /\ a.attempts = b.attempts => u = v
      BY DEF AttemptsTellClaims
  <2>1. \A x \in Claims(w)' : x.row \in claim /\ x.attempts = attempts[x.row] + 1
      BY <1>6, <1>7 DEF Claims
  <2>2. \A x \in Workers \ {w} : Claims(x)' = Claims(x)
      BY <1>7 DEF Claims
  <2>3. \A x \in Workers : \A c \in Claims(x) :
            c.row \in Rows /\ c.attempts \in Nat /\ c.attempts <= attempts[c.row]
    <3>1. \A x \in Workers : \A c \in Claims(x) : c.row \in Rows /\ c.attempts \in Nat
        BY ClaimsTyped DEF IInv, Claim
    <3> QED BY <3>1 DEF IInv, AttemptsTellClaims
  <2>4. \A r \in Rows : attempts[r] \in Nat
      BY DEF IInv, TypeOK
  <2>5. a.attempts <= attempts'[a.row]
    <3>1. CASE u = w
        BY <2>1, <3>1, <1>2, <1>5, <2>4
    <3>2. CASE u # w
      <4>1. a.row \in Rows /\ a.attempts \in Nat /\ a.attempts <= attempts[a.row]
          BY <2>2, <2>3, <3>2
      <4> QED BY <4>1, <1>5, <2>4
    <3> QED BY <3>1, <3>2
  <2>6. a.row = b.row /\ a.attempts = b.attempts => u = v
    <3>1. CASE u # w /\ v # w
        BY <3>1, <2>2 DEF IInv, AttemptsTellClaims
    <3>2. CASE u = w /\ v # w
      <4>1. b.attempts <= attempts[b.row] /\ b.row \in Rows /\ b.attempts \in Nat
          BY <2>2, <2>3, <3>2
      <4> QED BY <2>1, <2>4, <3>2, <4>1
    <3>3. CASE u # w /\ v = w
      <4>1. a.attempts <= attempts[a.row] /\ a.row \in Rows /\ a.attempts \in Nat
          BY <2>2, <2>3, <3>3
      <4> QED BY <2>1, <2>4, <3>3, <4>1
    <3> QED BY <3>1, <3>2, <3>3
  <2> QED BY <2>5, <2>6
<1> QED BY <1>8, <1>9, <1>10, <1>11, <1>12 DEF IInv

(* Reclaims, the clock and the end of a step leave claims and the set of   *)
(* active rows alone.                                                      *)
LEMMA ReclaimIInv ==
    ASSUME IInv, NEW older, ReclaimStale(older)
    PROVE  IInv'
<1>1. \A r \in Rows : status'[r] \in Active => status[r] \in Active
    BY DEF ReclaimStale, OlderRows, Active, IInv, TypeOK
<1>2. TypeOK'
    BY DEF ReclaimStale, IInv, TypeOK, local
<1>3. Busy' /\ AttemptsTellClaims' /\ DeadMeansExhausted'
    BY DEF ReclaimStale, IInv, TypeOK, local, Busy, AttemptsTellClaims, Claims, DeadMeansExhausted
<1>4. ActiveApart'
    BY <1>1 DEF ReclaimStale, IInv, ActiveApart
<1> QED BY <1>2, <1>3, <1>4 DEF IInv

LEMMA PhaseIInv ==
    ASSUME IInv, NEW w \in Workers, StepReturns(w) \/ StepRaises(w) \/ MarkDoneRaises(w)
    PROVE  IInv'
<1>1. phase[w] # "idle" /\ UNCHANGED <<rows, batch, held, crashes>>
    BY DEF StepReturns, StepRaises, MarkDoneRaises
<1>2. TypeOK' /\ Busy'
    BY <1>1 DEF StepReturns, StepRaises, MarkDoneRaises, IInv, TypeOK, Busy, rows
<1>3. ActiveApart' /\ AttemptsTellClaims' /\ DeadMeansExhausted'
    BY <1>1 DEF IInv, rows, ActiveApart, AttemptsTellClaims, Claims, DeadMeansExhausted
<1> QED BY <1>2, <1>3 DEF IInv

LEMMA MarkIInv ==
    ASSUME IInv, NEW w \in Workers, MarkDone(w) \/ MarkDead(w) \/ MarkRetry(w)
    PROVE  IInv'
<1> DEFINE c == Head(batch[w])
           r == c.row
<1>1. phase[w] # "idle" /\ NextRow(w) /\ UNCHANGED <<task, attempts, age, crashes>>
    BY DEF MarkDone, MarkDead, MarkRetry
<1>2. c \in Claims(w) /\ r \in Rows /\ c.attempts \in Nat /\ c.attempts <= attempts[r]
    BY <1>1, HeadOfBatch DEF IInv, AttemptsTellClaims
<1>3. /\ \E s \in {"done", "dead", "pending"} : status' = [status EXCEPT ![r] = s]
      /\ due' \in [Rows -> BOOLEAN]
      /\ status'[r] = "dead" => c.attempts >= MaxAttempts
      /\ status'[r] \in Active => ~IndexRefuses(r)
    BY <1>2 DEF MarkDone, MarkDead, MarkRetry, Exhausted, Active, IInv, TypeOK
<1>4. TypeOK' /\ Busy' /\ \A v \in Workers : Claims(v)' \subseteq Claims(v)
    BY <1>1, <1>2, <1>3, NextRowLocal DEF IInv, TypeOK
<1>5. AttemptsTellClaims'
    BY <1>1, <1>4, ClaimsShrink DEF IInv
<1>6. DeadMeansExhausted'
    BY <1>1, <1>2, <1>3, WorkQueueAssumption DEF IInv, TypeOK, DeadMeansExhausted
<1>7. ActiveApart'
  <2>1. status'[r] \in Active => \A q \in Rows : status[q] \in Active /\ task[q] = task[r] => q = r
      BY <1>2, <1>3 DEF IInv, ActiveApart, IndexRefuses, ActiveRows
  <2>2. \A q \in Rows : q # r => status'[q] = status[q]
      BY <1>3 DEF IInv, TypeOK
  <2> QED BY <1>1, <2>1, <2>2 DEF IInv, ActiveApart
<1> QED BY <1>4, <1>5, <1>6, <1>7 DEF IInv

LEMMA AbandonIInv ==
    ASSUME IInv, NEW w \in Workers, MarkRetryRaises(w) \/ Crash(w)
    PROVE  IInv'
<1>1. Abandon(w) /\ UNCHANGED rows /\ crashes' \in 0..MaxCrashes
    BY WorkQueueAssumption DEF MarkRetryRaises, Crash, Abandon, IInv, TypeOK
<1>2. TypeOK' /\ Busy' /\ \A v \in Workers : Claims(v)' \subseteq Claims(v)
    BY <1>1, AbandonLocal DEF IInv, TypeOK, rows
<1>3. AttemptsTellClaims'
    BY <1>1, <1>2, ClaimsShrink DEF IInv, rows
<1>4. ActiveApart' /\ DeadMeansExhausted'
    BY <1>1 DEF IInv, rows, ActiveApart, DeadMeansExhausted
<1> QED BY <1>2, <1>3, <1>4 DEF IInv

LEMMA ClockIInv ==
    ASSUME IInv, Elapse \/ \E r \in Rows : FallDue(r)
    PROVE  IInv'
<1>1. UNCHANGED <<task, status, attempts, batch, phase, crashes>>
    BY DEF Elapse, FallDue, local
<1>2. age' \in [Rows -> NotStarted..Stale]
  <2>1. CASE Elapse
    <3>1. \A r \in Rows : age[r] \in NotStarted..Stale /\ Smaller(age[r] + 1, Stale) \in NotStarted..Stale
        BY WorkQueueAssumption DEF IInv, TypeOK, Smaller, NotStarted
    <3> QED BY <2>1, <3>1 DEF Elapse
  <2>2. CASE \E r \in Rows : FallDue(r)
      BY <2>2 DEF FallDue, IInv, TypeOK
  <2> QED BY <2>1, <2>2
<1>3. held' \in [Workers -> 0..Stale]
  <2>1. CASE Elapse
    <3>1. \A w \in Workers :
             (IF phase[w] = "idle" THEN 0 ELSE Smaller(held[w] + 1, Stale)) \in 0..Stale
        BY WorkQueueAssumption DEF IInv, TypeOK, Smaller
    <3> QED BY <2>1, <3>1 DEF Elapse
  <2>2. CASE \E r \in Rows : FallDue(r)
      BY <2>2 DEF FallDue, local, IInv, TypeOK
  <2> QED BY <2>1, <2>2
<1>4. due' \in [Rows -> BOOLEAN]
  <2>1. CASE Elapse
      BY <2>1 DEF Elapse
  <2>2. CASE \E r \in Rows : FallDue(r)
      BY <2>2 DEF FallDue, IInv, TypeOK
  <2> QED BY <2>1, <2>2
<1>5. TypeOK'
    BY <1>1, <1>2, <1>3, <1>4 DEF IInv, TypeOK
<1>6. Busy' /\ ActiveApart' /\ AttemptsTellClaims' /\ DeadMeansExhausted'
    BY <1>1 DEF IInv, Busy, ActiveApart, AttemptsTellClaims, Claims, DeadMeansExhausted
<1> QED BY <1>5, <1>6 DEF IInv

LEMMA NextIInv == IInv /\ [Next]_vars => IInv'
<1> SUFFICES ASSUME IInv, [Next]_vars PROVE IInv'
    OBVIOUS
<1>1. CASE UNCHANGED vars
    BY <1>1 DEF vars, IInv, TypeOK, Busy, ActiveApart, AttemptsTellClaims, Claims, DeadMeansExhausted
<1>2. CASE Next
    BY <1>2, EnqueueIInv, TickIInv, ReclaimIInv, PhaseIInv, MarkIInv, AbandonIInv, ClockIInv
       DEF Next, WorkerNext
<1> QED BY <1>1, <1>2

LEMMA Invariance == Spec => []IInv
BY InitIInv, NextIInv, PTL DEF Spec

-----------------------------------------------------------------------------
(* Every column and every worker's batch keeps its type.                   *)
THEOREM TypeCorrect == Spec => []TypeOK
<1>1. IInv => TypeOK
    BY DEF IInv
<1> QED BY <1>1, Invariance, PTL

(* A job's step is queued or running once, for any number of requests,     *)
(* workers, reclaims and late marks.                                       *)
THEOREM OneActiveRowHolds == Spec => []OneActiveRow
<1>1. ASSUME ActiveApart, NEW t \in Tasks PROVE Cardinality(ActiveRows(t)) <= 1
  <2>1. \A q, r \in ActiveRows(t) : q = r
      BY <1>1 DEF ActiveRows, ActiveApart
  <2>2. CASE ActiveRows(t) = {}
      BY <2>2, FS_EmptySet
  <2>3. ASSUME NEW r \in ActiveRows(t) PROVE Cardinality(ActiveRows(t)) <= 1
    <3>1. ActiveRows(t) = {r}
        BY <2>1, <2>3
    <3>2. Cardinality({r}) = 1
        BY FS_Singleton
    <3> QED BY <3>1, <3>2
  <2> QED BY <2>2, <2>3
<1>2. IInv => OneActiveRow
    BY <1>1 DEF IInv, OneActiveRow
<1> QED BY <1>2, Invariance, PTL

(* No row is given up before max_attempts claims of it, however late the   *)
(* marks are.                                                              *)
THEOREM DeadMeansExhaustedHolds == Spec => []DeadMeansExhausted
<1>1. IInv => DeadMeansExhausted
    BY DEF IInv
<1> QED BY <1>1, Invariance, PTL

(* A claim's attempts tell it from every other claim of the row that a     *)
(* worker still holds.                                                     *)
THEOREM AttemptsTellClaimsHolds == Spec => []AttemptsTellClaims
<1>1. IInv => AttemptsTellClaims
    BY DEF IInv
<1> QED BY <1>1, Invariance, PTL

-----------------------------------------------------------------------------
(* What a settled row needs to stay settled: a batch names a row once, a   *)
(* claim is counted, and a row that was claimed once and has been settled  *)
(* is in nobody's hands.                                                   *)
Distinct ==
    \A w \in Workers : \A i \in DOMAIN batch[w] : \A k \in DOMAIN batch[w] :
        batch[w][i].row = batch[w][k].row => i = k

Counted == \A w \in Workers : \A a \in Claims(w) : a.attempts >= 1

Settled == {r \in Rows : status[r] \in {"done", "dead"}}

Released ==
    \A r \in Settled : attempts[r] <= 1 => \A w \in Workers : \A a \in Claims(w) : a.row # r

LateInv == Distinct /\ Counted /\ Released

(* The claim of a tick: what it does to rows and to the worker's batch.    *)
LEMMA TickClaims ==
    ASSUME IInv, NEW w \in Workers, Tick(w)
    PROVE  \E claim \in SUBSET Rows :
              /\ \A r \in claim : status[r] \notin {"done", "dead"}
              /\ \A r \in Rows : status'[r] = status[r] \/ status'[r] \notin {"done", "dead"}
              /\ \A r \in Settled : UNCHANGED <<status[r], attempts[r]>>
              /\ \A i \in DOMAIN batch'[w] :
                    batch'[w][i].row \in claim /\ batch'[w][i].attempts >= 1
              /\ \A i \in DOMAIN batch'[w] : \A k \in DOMAIN batch'[w] :
                    batch'[w][i].row = batch'[w][k].row => i = k
              /\ \A v \in Workers \ {w} : batch'[v] = batch[v]
<1>1. PICK claim \in SUBSET (DueRows \cup StaleRows) :
          /\ status' = [r \in Rows |-> IF r \in claim THEN "running"
                                       ELSE IF r \in StaleRows THEN "pending" ELSE status[r]]
          /\ attempts' = [r \in Rows |-> IF r \in claim THEN attempts[r] + 1 ELSE attempts[r]]
          /\ \E q \in Orders(claim) :
                batch' = [batch EXCEPT ![w] =
                    [i \in DOMAIN q |-> [row |-> q[i], attempts |-> attempts'[q[i]]]]]
    BY DEF Tick
<1>2. PICK q \in Orders(claim) :
          batch' = [batch EXCEPT ![w] =
              [i \in DOMAIN q |-> [row |-> q[i], attempts |-> attempts'[q[i]]]]]
    BY <1>1
<1>3. /\ claim \in SUBSET Rows
      /\ \A r \in claim \cup StaleRows : status[r] \in Active
    BY DEF DueRows, StaleRows, OlderRows, Active
<1>4. /\ \A i \in DOMAIN q : q[i] \in claim
      /\ \A i \in DOMAIN q : \A k \in DOMAIN q : q[i] = q[k] => i = k
    BY DEF Orders
<1>5. /\ batch'[w] = [i \in DOMAIN q |-> [row |-> q[i], attempts |-> attempts'[q[i]]]]
      /\ \A v \in Workers \ {w} : batch'[v] = batch[v]
    BY <1>2 DEF IInv, TypeOK
<1>6. \A r \in claim : attempts'[r] >= 1
    BY <1>1, <1>3 DEF IInv, TypeOK
<1>7. \A r \in Settled : r \notin claim /\ r \notin StaleRows
    BY <1>3 DEF Settled, Active
<1>8. /\ \A r \in claim : status[r] \notin {"done", "dead"}
      /\ \A r \in Rows : status'[r] = status[r] \/ status'[r] \notin {"done", "dead"}
      /\ \A r \in Settled : UNCHANGED <<status[r], attempts[r]>>
    BY <1>1, <1>3, <1>7 DEF Active, Settled
<1>9. \A i \in DOMAIN batch'[w] : i \in DOMAIN q /\ batch'[w][i].row = q[i]
                                   /\ batch'[w][i].attempts = attempts'[q[i]]
    BY <1>5
<1> QED
    BY <1>3, <1>4, <1>5, <1>6, <1>8, <1>9

LEMMA TickLate ==
    ASSUME IInv, LateInv, NEW w \in Workers, Tick(w)
    PROVE  LateInv'
<1>1. PICK claim \in SUBSET Rows :
          /\ \A r \in claim : status[r] \notin {"done", "dead"}
          /\ \A r \in Rows : status'[r] = status[r] \/ status'[r] \notin {"done", "dead"}
          /\ \A r \in Settled : UNCHANGED <<status[r], attempts[r]>>
          /\ \A i \in DOMAIN batch'[w] :
                batch'[w][i].row \in claim /\ batch'[w][i].attempts >= 1
          /\ \A i \in DOMAIN batch'[w] : \A k \in DOMAIN batch'[w] :
                batch'[w][i].row = batch'[w][k].row => i = k
          /\ \A v \in Workers \ {w} : batch'[v] = batch[v]
    BY TickClaims
<1>2. /\ \A v \in Workers \ {w} : Claims(v)' = Claims(v)
      /\ \A a \in Claims(w)' : a.row \in claim /\ a.attempts >= 1
    BY <1>1 DEF Claims
<1>3. Distinct'
    BY <1>1 DEF LateInv, Distinct
<1>4. Counted'
    BY <1>2 DEF LateInv, Counted
<1>5. ASSUME NEW r \in Settled'
      PROVE  r \in Settled /\ attempts'[r] = attempts[r] /\ r \notin claim
    BY <1>1, <1>5 DEF Settled
<1>6. Released'
    BY <1>2, <1>5 DEF LateInv, Released
<1> QED
    BY <1>3, <1>4, <1>6 DEF LateInv

(* A row that its first claim settles is in nobody else's hands: another   *)
(* claim of it would carry the same number.                                *)
LEMMA MarkLate ==
    ASSUME IInv, LateInv, NEW w \in Workers, MarkDone(w) \/ MarkDead(w) \/ MarkRetry(w)
    PROVE  /\ LateInv'
           /\ \A r \in Settled : status'[r] # status[r] => attempts[r] >= 2
<1> DEFINE c == Head(batch[w])
<1>1. phase[w] # "idle" /\ NextRow(w) /\ attempts' = attempts
    BY DEF MarkDone, MarkDead, MarkRetry
<1>2. /\ c \in Claims(w) /\ c.row \in Rows /\ c.attempts \in Nat
      /\ c.attempts <= attempts[c.row] /\ attempts[c.row] \in Nat /\ c.attempts >= 1
    BY <1>1, HeadOfBatch DEF IInv, TypeOK, AttemptsTellClaims, LateInv, Counted
<1>3. \A r \in Rows : r # c.row => status'[r] = status[r]
    BY DEF MarkDone, MarkDead, MarkRetry, IInv, TypeOK
<1>4. /\ batch[w] \in Seq(Claim) /\ batch[w] # <<>> /\ c = batch[w][1]
      /\ Tail(batch[w]) \in Seq(Claim)
      /\ \A i \in DOMAIN Tail(batch[w]) :
            i \in Nat \ {0} /\ i + 1 \in DOMAIN batch[w] /\ Tail(batch[w])[i] = batch[w][i + 1]
  <2>1. batch[w] \in Seq(Claim) /\ batch[w] # <<>>
    BY <1>1, HeadOfBatch DEF IInv
  <2>2. \A i \in DOMAIN Tail(batch[w]) : i \in Nat \ {0}
    BY <2>1
  <2> QED
    BY <2>1, <2>2, TailFacts
<1>5. batch'[w] = Tail(batch[w]) /\ \A v \in Workers \ {w} : batch'[v] = batch[v]
    BY <1>1 DEF NextRow, IInv, TypeOK
<1>6. \A v \in Workers : Claims(v)' \subseteq Claims(v)
    BY <1>1, NextRowLocal DEF IInv
<1>7. Distinct'
  <2> SUFFICES ASSUME NEW v \in Workers, NEW i \in DOMAIN batch'[v], NEW k \in DOMAIN batch'[v],
                      batch'[v][i].row = batch'[v][k].row
               PROVE  i = k
    BY DEF Distinct
  <2>1. CASE v # w
    BY <1>5, <2>1 DEF LateInv, Distinct
  <2>2. CASE v = w
    <3>1. /\ i \in Nat /\ k \in Nat /\ i + 1 \in DOMAIN batch[w] /\ k + 1 \in DOMAIN batch[w]
          /\ batch[w][i + 1].row = batch[w][k + 1].row
      BY <1>4, <1>5, <2>2
    <3>2. i + 1 = k + 1
      BY <3>1 DEF LateInv, Distinct
    <3> QED
      BY <3>1, <3>2
  <2> QED
    BY <2>1, <2>2
<1>8. Counted'
    BY <1>6 DEF LateInv, Counted
<1>9. ASSUME attempts[c.row] <= 1
      PROVE  \A v \in Workers : \A a \in Claims(v)' : a.row # c.row
  <2> SUFFICES ASSUME NEW v \in Workers, NEW a \in Claims(v)', a.row = c.row
               PROVE  FALSE
    OBVIOUS
  <2>1. a \in Claims(v) /\ a.attempts \in Nat /\ a.attempts >= 1 /\ a.attempts <= attempts[c.row]
    BY <1>6, ClaimsTyped DEF IInv, Claim, AttemptsTellClaims, LateInv, Counted
  <2>2. a.attempts = c.attempts
    BY <1>2, <1>9, <2>1
  <2>3. v = w
    BY <1>2, <2>1, <2>2 DEF IInv, AttemptsTellClaims
  <2>4. PICK i \in DOMAIN batch'[w] : a = batch'[w][i]
    BY <2>3 DEF Claims
  <2>5. i \in Nat \ {0} /\ i + 1 \in DOMAIN batch[w] /\ 1 \in DOMAIN batch[w]
        /\ batch[w][i + 1].row = batch[w][1].row
    BY <1>4, <1>5, <2>4
  <2>6. i + 1 = 1
    BY <2>5 DEF LateInv, Distinct
  <2> QED
    BY <2>5, <2>6
<1>10. Released'
  <2> SUFFICES ASSUME NEW r \in Settled', attempts[r] <= 1, NEW v \in Workers, NEW a \in Claims(v)'
               PROVE  a.row # r
    BY <1>1 DEF Released
  <2>1. CASE r = c.row
    BY <1>9, <2>1
  <2>2. CASE r # c.row
    BY <1>3, <1>6, <2>2 DEF Settled, LateInv, Released
  <2> QED
    BY <2>1, <2>2
<1>11. ASSUME NEW r \in Settled, status'[r] # status[r]
       PROVE  attempts[r] >= 2
  <2>1. r = c.row
    BY <1>3, <1>11 DEF Settled
  <2>2. ~(attempts[r] <= 1)
    BY <1>2, <1>11, <2>1 DEF LateInv, Released
  <2> QED
    BY <1>2, <2>1, <2>2
<1> QED
    BY <1>7, <1>8, <1>10, <1>11 DEF LateInv

(* Everything else leaves settled rows alone and adds no claim.            *)
LEMMA OtherLate ==
    ASSUME IInv, LateInv, attempts' = attempts,
           \A r \in Rows : status'[r] = status[r] \/ (status[r] \notin {"done", "dead"} /\ status'[r] \notin {"done", "dead"}),
           \A v \in Workers : batch'[v] = batch[v] \/ batch'[v] = <<>>
    PROVE  LateInv' /\ \A r \in Settled : status'[r] = status[r]
<1>1. \A v \in Workers : Claims(v)' \subseteq Claims(v)
    BY DEF Claims
<1>2. Settled' = Settled
    BY DEF Settled
<1>3. Distinct'
    BY DEF LateInv, Distinct
<1>4. Counted' /\ Released'
    BY <1>1, <1>2 DEF LateInv, Counted, Released
<1>5. \A r \in Settled : status'[r] = status[r]
    BY DEF Settled
<1> QED
    BY <1>3, <1>4, <1>5 DEF LateInv

LEMMA NextLate ==
    ASSUME IInv, LateInv, [Next]_vars
    PROVE  LateInv' /\ \A r \in Settled : status'[r] # status[r] => attempts[r] >= 2
<1>1. ASSUME NEW w \in Workers, Tick(w)
      PROVE  LateInv' /\ \A r \in Settled : status'[r] = status[r]
    BY <1>1, TickLate, TickClaims
<1>2. ASSUME NEW w \in Workers, MarkDone(w) \/ MarkDead(w) \/ MarkRetry(w)
      PROVE  LateInv' /\ \A r \in Settled : status'[r] # status[r] => attempts[r] >= 2
    BY <1>2, MarkLate
<1>3. ASSUME NEW w \in Workers,
             StepReturns(w) \/ StepRaises(w) \/ MarkDoneRaises(w) \/ MarkRetryRaises(w) \/ Crash(w)
      PROVE  LateInv' /\ \A r \in Settled : status'[r] = status[r]
  <2>1. UNCHANGED rows /\ \A v \in Workers : batch'[v] = batch[v] \/ batch'[v] = <<>>
    BY <1>3 DEF StepReturns, StepRaises, MarkDoneRaises, MarkRetryRaises, Crash, Abandon, IInv, TypeOK
  <2> QED
    BY <2>1, OtherLate DEF rows
<1>4. ASSUME NEW r \in Rows, Enqueue(r) \/ FallDue(r)
      PROVE  LateInv' /\ \A q \in Settled : status'[q] = status[q]
  <2>1. /\ attempts' = attempts /\ batch' = batch
        /\ \A q \in Rows : status'[q] = status[q]
              \/ (status[q] \notin {"done", "dead"} /\ status'[q] \notin {"done", "dead"})
    BY <1>4 DEF Enqueue, FallDue, local, IInv, TypeOK
  <2> QED
    BY <2>1, OtherLate
<1>5. ASSUME NEW older, ReclaimStale(older)
      PROVE  LateInv' /\ \A r \in Settled : status'[r] = status[r]
  <2>1. /\ attempts' = attempts /\ batch' = batch
        /\ \A q \in Rows : status'[q] = status[q]
              \/ (status[q] \notin {"done", "dead"} /\ status'[q] \notin {"done", "dead"})
    BY <1>5 DEF ReclaimStale, OlderRows, local, IInv, TypeOK
  <2> QED
    BY <2>1, OtherLate
<1>6. CASE Elapse \/ UNCHANGED vars
    BY <1>6, OtherLate DEF Elapse, vars
<1> QED
    BY <1>1, <1>2, <1>3, <1>4, <1>5, <1>6 DEF Next, WorkerNext

(* A row that its first claim has settled stays as it is: only overlapping *)
(* claims, which a reclaim makes, change a verdict.                        *)
THEOREM ReopenedOnlyAfterReclaimHolds == Spec => ReopenedOnlyAfterReclaim
<1>1. Init => LateInv
    BY DEF Init, LateInv, Distinct, Counted, Released, Settled, Claims
<1>2. IInv /\ LateInv /\ [Next]_vars => LateInv'
    BY NextLate
<1>3. IInv /\ LateInv /\ [Next]_vars =>
        [\A r \in Rows : status[r] \in {"done", "dead"} /\ status'[r] # status[r] =>
            attempts[r] >= 2]_vars
    BY NextLate DEF Settled
<1> QED
    BY <1>1, <1>2, <1>3, Invariance, PTL DEF Spec, ReopenedOnlyAfterReclaim

-----------------------------------------------------------------------------
(* How the steps of the queue appear in WorkPromise.                       *)

(* A row that is not inserted yet has not been claimed.                    *)
Unclaimed == \A r \in Rows : status[r] = "absent" => attempts[r] = 0

LEMMA NextUnclaimed ==
    ASSUME IInv, Unclaimed, [Next]_vars
    PROVE  Unclaimed'
<1>1. ASSUME NEW w \in Workers, Tick(w)
      PROVE  Unclaimed'
  <2>1. PICK claim \in SUBSET (DueRows \cup StaleRows) :
          /\ status' = [r \in Rows |-> IF r \in claim THEN "running"
                                       ELSE IF r \in StaleRows THEN "pending" ELSE status[r]]
          /\ attempts' = [r \in Rows |-> IF r \in claim THEN attempts[r] + 1 ELSE attempts[r]]
    BY <1>1 DEF Tick
  <2> QED
    BY <2>1 DEF Unclaimed
<1>2. ASSUME attempts' = attempts,
             \A r \in Rows : status'[r] = "absent" => status[r] = "absent"
      PROVE  Unclaimed'
    BY <1>2 DEF Unclaimed
<1>3. ASSUME NEW w \in Workers, WorkerNext(w) \/ Crash(w)
      PROVE  Unclaimed'
  <2>1. attempts' = attempts /\ \A r \in Rows : status'[r] = "absent" => status[r] = "absent"
    BY <1>3 DEF WorkerNext, StepReturns, StepRaises, MarkDone, MarkDoneRaises, MarkDead, MarkRetry,
                MarkRetryRaises, Crash, Abandon, rows, IInv, TypeOK
  <2> QED
    BY <1>2, <2>1
<1>4. ASSUME NEW r \in Rows, Enqueue(r) \/ FallDue(r)
      PROVE  Unclaimed'
    BY <1>2, <1>4 DEF Enqueue, FallDue, IInv, TypeOK
<1>5. ASSUME NEW older, ReclaimStale(older)
      PROVE  Unclaimed'
    BY <1>2, <1>5 DEF ReclaimStale
<1>6. CASE Elapse \/ UNCHANGED vars
    BY <1>2, <1>6 DEF Elapse, vars
<1> QED
    BY <1>1, <1>3, <1>4, <1>5, <1>6 DEF Next

(* An active row is open, and nothing else is.                             *)
LEMMA SeenRows ==
    ASSUME TypeOK, NEW r \in Rows
    PROVE  /\ Seen[r] = "open" <=> status[r] \in Active
           /\ status[r] \notin Active => Seen[r] = status[r]
           /\ Seen[r] = "absent" <=> status[r] = "absent"
           /\ Seen[r] \in Promise!Verdicts <=> r \in Settled
  BY DEF Seen, TypeOK, Active, Settled, Promise!Verdicts

LEMMA FreeTask ==
    ASSUME TypeOK, NEW t, ActiveRows(t) = {}
    PROVE  Promise!Free(t)
  BY SeenRows DEF Promise!Free, ActiveRows

(* A step that writes one row changes what is seen of that row.            *)
LEMMA SeenChange ==
    ASSUME TypeOK, NEW r \in Rows, NEW s, status' = [status EXCEPT ![r] = s]
    PROVE  Seen' = [Seen EXCEPT ![r] = IF s \in Active THEN "open" ELSE s]
<1>1. ASSUME NEW q \in Rows
      PROVE  Seen'[q] = IF q = r THEN (IF s \in Active THEN "open" ELSE s) ELSE Seen[q]
    BY DEF Seen, TypeOK
<1>2. Seen' = [q \in Rows |-> Seen'[q]] /\ Seen = [q \in Rows |-> Seen[q]]
    BY DEF Seen
<1> QED
    BY <1>1, <1>2

LEMMA TickPromise ==
    ASSUME IInv, NEW w \in Workers, Tick(w)
    PROVE  Promise!Next
<1>1. PICK claim \in SUBSET (DueRows \cup StaleRows) :
          /\ status' = [r \in Rows |-> IF r \in claim THEN "running"
                                       ELSE IF r \in StaleRows THEN "pending" ELSE status[r]]
          /\ attempts' = [r \in Rows |-> IF r \in claim THEN attempts[r] + 1 ELSE attempts[r]]
    BY DEF Tick
<1>2. claim \in SUBSET Rows /\ \A r \in claim \cup StaleRows : status[r] \in Active
    BY DEF DueRows, StaleRows, OlderRows, Active
<1>3. \A r \in claim : Seen[r] = "open"
    BY <1>2 DEF Seen
<1>4. Seen' = Seen
  <2>1. \A r \in Rows : (status'[r] \in Active <=> status[r] \in Active)
                        /\ (status[r] \notin Active => status'[r] = status[r])
    BY <1>1, <1>2 DEF Active
  <2> QED
    BY <2>1 DEF Seen
<1>5. Promise!Try(claim)
    BY <1>1, <1>3, <1>4 DEF Tick, Promise!Try
<1> QED
    BY <1>2, <1>5 DEF Promise!Next

LEMMA EnqueuePromise ==
    ASSUME IInv, NEW r \in Rows, Enqueue(r)
    PROVE  Promise!Next
<1>1. Seen' = [Seen EXCEPT ![r] = "open"]
    BY SeenChange DEF Enqueue, IInv, Active
<1>2. Seen[r] = "absent"
    BY SeenRows DEF Enqueue, IInv
<1>3. Promise!Free(task[r])
    BY FreeTask DEF Enqueue, IInv
<1>4. Promise!Submit(r)
    BY <1>1, <1>2, <1>3 DEF Enqueue, Promise!Submit
<1> QED
    BY <1>4 DEF Promise!Next

LEMMA MarkPromise ==
    ASSUME IInv, LateInv, Unclaimed, NEW w \in Workers, MarkDone(w) \/ MarkDead(w) \/ MarkRetry(w)
    PROVE  Promise!Next \/ UNCHANGED Promise!vars
<1>1. phase[w] # "idle" /\ UNCHANGED <<task, attempts>>
    BY DEF MarkDone, MarkDead, MarkRetry
<1>2. PICK c \in Claims(w) : c = Head(batch[w])
    BY <1>1, HeadOfBatch DEF IInv
<1>3. PICK r \in Rows : r = c.row
    BY <1>1, <1>2, HeadOfBatch DEF IInv
<1>4. /\ c.attempts \in Nat /\ c.attempts >= 1 /\ c.attempts <= attempts[r] /\ attempts[r] \in Nat
      /\ status[r] # "absent"
  <2>1. c.attempts \in Nat /\ c.attempts >= 1 /\ c.attempts <= attempts[r] /\ attempts[r] \in Nat
    BY <1>2, <1>3, ClaimsTyped DEF IInv, TypeOK, Claim, AttemptsTellClaims, LateInv, Counted
  <2> QED
    BY <2>1 DEF Unclaimed
<1>5. Seen[r] # "absent" /\ (Seen[r] \in Promise!Verdicts <=> r \in Settled)
    BY <1>4, SeenRows DEF IInv
<1>6. r \in Settled /\ status'[r] # status[r] => attempts[r] >= 2
    BY MarkLate
<1>7. ASSUME NEW s \in {"done", "dead"}, status' = [status EXCEPT ![r] = s],
             s = "dead" => attempts[r] >= MaxAttempts
      PROVE  Promise!Next \/ UNCHANGED Promise!vars
  <2>1. Seen' = [Seen EXCEPT ![r] = s]
    BY <1>7, SeenChange DEF IInv, Active
  <2>2. CASE r \in Settled /\ status'[r] = status[r]
    <3>1. status' = status
      BY <1>7, <2>2 DEF IInv, TypeOK
    <3> QED
      BY <1>1, <3>1 DEF Promise!vars, Seen
  <2>3. CASE r \notin Settled \/ status'[r] # status[r]
    <3>1. Promise!Settle(r, s)
      BY <1>1, <1>4, <1>5, <1>6, <1>7, <2>1, <2>3 DEF Promise!Settle
    <3> QED
      BY <3>1 DEF Promise!Next, Promise!Verdicts
  <2> QED
    BY <2>2, <2>3
<1>8. CASE MarkDone(w)
    BY <1>2, <1>3, <1>7, <1>8 DEF MarkDone
<1>9. CASE MarkDead(w)
  <2>1. attempts[r] >= MaxAttempts
    BY <1>2, <1>3, <1>4, <1>9, WorkQueueAssumption DEF MarkDead, Exhausted
  <2> QED
    BY <1>2, <1>3, <1>7, <1>9, <2>1 DEF MarkDead
<1>10. CASE MarkRetry(w)
  <2>1. status' = [status EXCEPT ![r] = "pending"] /\ ~IndexRefuses(r)
    BY <1>2, <1>3, <1>10 DEF MarkRetry
  <2>2. Seen' = [Seen EXCEPT ![r] = "open"]
    BY <2>1, SeenChange DEF IInv, Active
  <2>3. CASE r \in Settled
    <3>1. attempts[r] >= 2
      BY <1>6, <2>1, <2>3 DEF Settled, IInv, TypeOK
    <3>2. Promise!Free(task[r])
      BY <2>1, <2>3, FreeTask DEF IndexRefuses, Settled, Active, IInv
    <3>3. Promise!Reopen(r)
      BY <1>1, <1>5, <2>2, <2>3, <3>1, <3>2 DEF Promise!Reopen
    <3> QED
      BY <3>3 DEF Promise!Next
  <2>4. CASE r \notin Settled
    <3>1. Seen[r] = "open"
      BY <1>4, <2>4, SeenRows DEF IInv, TypeOK, Settled, Active
    <3>2. Seen' = Seen
      BY <2>2, <3>1 DEF Seen
    <3> QED
      BY <1>1, <3>2 DEF Promise!vars
  <2> QED
    BY <2>3, <2>4
<1> QED
    BY <1>8, <1>9, <1>10

(* Whatever happens to workers, marks and the clock, callers see no more   *)
(* than WorkPromise.                                                       *)
THEOREM QueueImplementsPromise == Spec => ImplementsPromise
<1>1. Init => Promise!Init /\ Unclaimed /\ LateInv
  <2> SUFFICES ASSUME Init PROVE Promise!Init /\ Unclaimed /\ LateInv
    OBVIOUS
  <2>1. Seen = [r \in Rows |-> "absent"]
    BY DEF Init, Seen, Active
  <2>2. LateInv
    BY DEF Init, LateInv, Distinct, Counted, Released, Settled, Claims
  <2> QED
    BY <2>1, <2>2 DEF Init, Promise!Init, Unclaimed
<1>2. IInv /\ LateInv /\ [Next]_vars => LateInv'
    BY NextLate
<1>3. IInv /\ Unclaimed /\ [Next]_vars => Unclaimed'
    BY NextUnclaimed
<1>4. IInv /\ LateInv /\ Unclaimed /\ [Next]_vars => [Promise!Next]_(Promise!vars)
  <2> SUFFICES ASSUME IInv, LateInv, Unclaimed, [Next]_vars
               PROVE  Promise!Next \/ UNCHANGED Promise!vars
    OBVIOUS
  <2>1. ASSUME UNCHANGED <<task, status, attempts>>
        PROVE  UNCHANGED Promise!vars
    BY <2>1 DEF Promise!vars, Seen
  <2>2. ASSUME NEW w \in Workers, Tick(w) \/ MarkDone(w) \/ MarkDead(w) \/ MarkRetry(w)
        PROVE  Promise!Next \/ UNCHANGED Promise!vars
    BY <2>2, TickPromise, MarkPromise
  <2>3. ASSUME NEW w \in Workers,
               StepReturns(w) \/ StepRaises(w) \/ MarkDoneRaises(w) \/ MarkRetryRaises(w) \/ Crash(w)
        PROVE  UNCHANGED <<task, status, attempts>>
    BY <2>3 DEF StepReturns, StepRaises, MarkDoneRaises, MarkRetryRaises, Crash, Abandon, rows
  <2>4. ASSUME NEW r \in Rows, Enqueue(r)
        PROVE  Promise!Next
    BY <2>4, EnqueuePromise
  <2>5. ASSUME NEW older, ReclaimStale(older)
        PROVE  UNCHANGED Promise!vars
    <3>1. \A r \in Rows : (status'[r] \in Active <=> status[r] \in Active)
                          /\ (status[r] \notin Active => status'[r] = status[r])
      BY <2>5 DEF ReclaimStale, OlderRows, Active
    <3>2. Seen' = Seen
      BY <3>1 DEF Seen
    <3> QED
      BY <2>5, <3>2 DEF ReclaimStale, Promise!vars
  <2>6. ASSUME NEW r \in Rows, FallDue(r)
        PROVE  UNCHANGED <<task, status, attempts>>
    BY <2>6 DEF FallDue
  <2>7. CASE Elapse \/ UNCHANGED vars
    BY <2>1, <2>7 DEF Elapse, vars
  <2> QED
    BY <2>1, <2>2, <2>3, <2>4, <2>5, <2>6, <2>7 DEF Next, WorkerNext
<1> QED
    BY <1>1, <1>2, <1>3, <1>4, Invariance, PTL DEF Spec, ImplementsPromise, Promise!Spec

=============================================================================
