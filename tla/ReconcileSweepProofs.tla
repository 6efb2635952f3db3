------------------------ MODULE ReconcileSweepProofs ------------------------
(***************************************************************************)
(* Proofs about ReconcileSweep for any set of jobs and any limit.          *)
(*                                                                         *)
(* The argument: the queue holds every stuck job once, so taking one out   *)
(* and putting it in behind the old ones are the only things that ever     *)
(* happen to it.  Neither brings a job in front of an old one that stays   *)
(* where it is.  What a sweep takes is a prefix of the queue, and a prefix *)
(* that reaches up to a job, or has Limit members, holds the job or a      *)
(* crowd.                                                                  *)
(***************************************************************************)
EXTENDS ReconcileSweep, SequenceTheorems, FiniteSetTheorems, TLAPS

-----------------------------------------------------------------------------
(* Sequences without repetition.                                           *)

(* A sequence with one position taken out.                                 *)
LEMMA RemoveAtProperties ==
    ASSUME NEW S, NEW s \in Seq(S), NEW i \in 1..Len(s)
    PROVE  /\ RemoveAt(s, i) \in Seq(S)
           /\ Len(RemoveAt(s, i)) = Len(s) - 1
           /\ \A k \in 1..(Len(s) - 1) :
                 RemoveAt(s, i)[k] = IF k < i THEN s[k] ELSE s[k + 1]
<1>1. \A k \in 1..Len(s) : s[k] \in S
    BY ElementOfSeq
<1>2. /\ SubSeq(s, 1, i - 1) \in Seq(S)
      /\ Len(SubSeq(s, 1, i - 1)) = i - 1
      /\ \A k \in 1..(i - 1) : SubSeq(s, 1, i - 1)[k] = s[k]
    BY <1>1, SubSeqProperties
<1>3. /\ SubSeq(s, i + 1, Len(s)) \in Seq(S)
      /\ Len(SubSeq(s, i + 1, Len(s))) = Len(s) - i
      /\ \A k \in 1..(Len(s) - i) : SubSeq(s, i + 1, Len(s))[k] = s[i + k]
    BY <1>1, SubSeqProperties
<1> DEFINE front == SubSeq(s, 1, i - 1)
           back == SubSeq(s, i + 1, Len(s))
<1>4. Len(s) \in Nat
    BY LenProperties
<1>5. /\ front \o back \in Seq(S)
      /\ Len(front \o back) = Len(front) + Len(back)
      /\ \A k \in 1..(Len(front) + Len(back)) :
            (front \o back)[k] = IF k <= Len(front) THEN front[k] ELSE back[k - Len(front)]
    BY <1>2, <1>3, ConcatProperties, Zenon
<1>6. RemoveAt(s, i) = front \o back
    BY DEF RemoveAt
<1> HIDE DEF front, back
<1>7. /\ Len(front) = i - 1 /\ \A k \in 1..(i - 1) : front[k] = s[k]
      /\ Len(back) = Len(s) - i /\ \A k \in 1..(Len(s) - i) : back[k] = s[i + k]
    BY <1>2, <1>3 DEF front, back
<1>8. ASSUME NEW k \in 1..(Len(s) - 1)
      PROVE  (front \o back)[k] = IF k < i THEN s[k] ELSE s[k + 1]
  <2>1. k \in 1..(Len(front) + Len(back))
      BY <1>4, <1>7
  <2>2. CASE k < i
      BY <1>5, <1>7, <2>1, <2>2
  <2>3. CASE ~(k < i)
    <3>1. k - (i - 1) \in 1..(Len(s) - i) /\ i + (k - (i - 1)) = k + 1 /\ ~(k <= Len(front))
        BY <1>4, <1>7, <2>3
    <3>2. (front \o back)[k] = back[k - (i - 1)]
        BY <1>5, <1>7, <2>1, <3>1
    <3>. QED BY <1>7, <2>3, <3>1, <3>2
  <2>. QED BY <2>2, <2>3
<1>9. Len(front \o back) = Len(s) - 1
    BY <1>4, <1>5, <1>7
<1>. QED BY <1>5, <1>6, <1>8, <1>9, Zenon

(* It keeps its members but the one at that position, each once.           *)
LEMMA RemoveAtMembers ==
    ASSUME NEW S, NEW s \in Seq(S), IsInjective(s), NEW i \in 1..Len(s)
    PROVE  /\ IsInjective(RemoveAt(s, i))
           /\ ToSet(RemoveAt(s, i)) = ToSet(s) \ {s[i]}
<1> DEFINE r == RemoveAt(s, i)
<1>0. DOMAIN s = 1..Len(s) /\ Len(s) \in Nat
    BY LenProperties
<1>1. /\ DOMAIN s = 1..Len(s)
      /\ r \in Seq(S) /\ Len(r) = Len(s) - 1
      /\ \A k \in 1..(Len(s) - 1) : r[k] = IF k < i THEN s[k] ELSE s[k + 1]
  <2>1. /\ r \in Seq(S) /\ Len(r) = Len(s) - 1
        /\ \A k \in 1..(Len(s) - 1) : r[k] = IF k < i THEN s[k] ELSE s[k + 1]
      BY RemoveAtProperties, Zenon
  <2>. QED BY <1>0, <2>1
<1>2. DOMAIN r = 1..(Len(s) - 1)
    BY <1>1
<1>3. \A a, b \in 1..Len(s) : s[a] = s[b] => a = b
    BY <1>1 DEF IsInjective
<1> HIDE DEF r
<1>4. IsInjective(r)
  <2>1. ASSUME NEW a \in 1..(Len(s) - 1), NEW b \in 1..(Len(s) - 1), r[a] = r[b]
        PROVE  a = b
    <3>1. \A k \in 1..(Len(s) - 1) : k \in 1..Len(s) /\ k + 1 \in 1..Len(s)
        OBVIOUS
    <3>. QED BY <1>1, <1>3, <2>1, <3>1
  <2>. QED BY <1>2, <2>1 DEF IsInjective
<1>5. ToSet(r) \subseteq ToSet(s) \ {s[i]}
  <2>1. ASSUME NEW k \in 1..(Len(s) - 1)
        PROVE  r[k] \in ToSet(s) \ {s[i]}
    <3>1. CASE k < i
      <4>1. k \in 1..Len(s) /\ r[k] = s[k] /\ s[k] # s[i]
          BY <1>1, <1>3, <3>1
      <4>. QED BY <1>1, <4>1 DEF ToSet
    <3>2. CASE ~(k < i)
      <4>1. k + 1 \in 1..Len(s) /\ r[k] = s[k + 1] /\ s[k + 1] # s[i]
          BY <1>1, <1>3, <3>2
      <4>. QED BY <1>1, <4>1 DEF ToSet
    <3>. QED BY <3>1, <3>2
  <2>. QED BY <1>2, <2>1 DEF ToSet
<1>6. ToSet(s) \ {s[i]} \subseteq ToSet(r)
  <2>1. ASSUME NEW k \in 1..Len(s), k # i
        PROVE  s[k] \in ToSet(r)
    <3>1. CASE k < i
        BY <1>1, <1>2, <2>1, <3>1 DEF ToSet
    <3>2. CASE k > i
      <4>1. k - 1 \in 1..(Len(s) - 1) /\ ~(k - 1 < i) /\ (k - 1) + 1 = k
          BY <3>2
      <4>. QED BY <1>1, <1>2, <4>1 DEF ToSet
    <3>. QED BY <2>1, <3>1, <3>2
  <2>. QED BY <1>1, <2>1 DEF ToSet
<1>. QED BY <1>4, <1>5, <1>6 DEF r

(* A sequence with a newcomer at position i.                               *)
LEMMA InsertAtProperties ==
    ASSUME NEW S, NEW s \in Seq(S), NEW i \in 1..(Len(s) + 1), NEW e \in S
    PROVE  /\ InsertAt(s, i, e) \in Seq(S)
           /\ Len(InsertAt(s, i, e)) = Len(s) + 1
           /\ \A k \in 1..(Len(s) + 1) :
                 InsertAt(s, i, e)[k] = IF k < i THEN s[k] ELSE IF k = i THEN e ELSE s[k - 1]
<1>0. Len(s) \in Nat /\ i \in Nat \ {0} /\ (i - 1) + 1 = i
    BY LenProperties
<1>1. \A k \in 1..Len(s) : s[k] \in S
    BY ElementOfSeq
<1>2. /\ SubSeq(s, 1, i - 1) \in Seq(S)
      /\ Len(SubSeq(s, 1, i - 1)) = i - 1
      /\ \A k \in 1..(i - 1) : SubSeq(s, 1, i - 1)[k] = s[k]
    BY <1>0, <1>1, SubSeqProperties
<1>3. /\ SubSeq(s, i, Len(s)) \in Seq(S)
      /\ Len(SubSeq(s, i, Len(s))) = (Len(s) + 1) - i
      /\ \A k \in 1..((Len(s) + 1) - i) : SubSeq(s, i, Len(s))[k] = s[(i + k) - 1]
    BY <1>0, <1>1, SubSeqProperties
<1> DEFINE front == SubSeq(s, 1, i - 1)
           back == SubSeq(s, i, Len(s))
           upto == front \o <<e>>
<1>4. InsertAt(s, i, e) = upto \o back
    BY DEF InsertAt
<1>5. <<e>> \in Seq(S) /\ Len(<<e>>) = 1 /\ <<e>>[1] = e
    OBVIOUS
<1> HIDE DEF front, back
<1>6. /\ front \in Seq(S) /\ Len(front) = i - 1 /\ \A k \in 1..(i - 1) : front[k] = s[k]
      /\ back \in Seq(S) /\ Len(back) = (Len(s) + 1) - i
      /\ \A k \in 1..((Len(s) + 1) - i) : back[k] = s[(i + k) - 1]
    BY <1>2, <1>3 DEF front, back
<1>7. /\ upto \in Seq(S) /\ Len(upto) = i
      /\ \A k \in 1..(i - 1) : upto[k] = s[k]
      /\ upto[i] = e
  <2>1. /\ front \o <<e>> \in Seq(S)
        /\ Len(front \o <<e>>) = Len(front) + Len(<<e>>)
        /\ \A k \in 1..(Len(front) + Len(<<e>>)) :
              (front \o <<e>>)[k] = IF k <= Len(front) THEN front[k] ELSE <<e>>[k - Len(front)]
      BY <1>5, <1>6, ConcatProperties, Zenon
  <2>. QED BY <1>0, <1>5, <1>6, <2>1
<1> HIDE DEF upto
<1>8. /\ upto \o back \in Seq(S)
      /\ Len(upto \o back) = Len(upto) + Len(back)
      /\ \A k \in 1..(Len(upto) + Len(back)) :
            (upto \o back)[k] = IF k <= Len(upto) THEN upto[k] ELSE back[k - Len(upto)]
    BY <1>6, <1>7, ConcatProperties, Zenon
<1>9. Len(upto \o back) = Len(s) + 1
    BY <1>0, <1>6, <1>7, <1>8
<1>10. ASSUME NEW k \in 1..(Len(s) + 1)
       PROVE  (upto \o back)[k] = IF k < i THEN s[k] ELSE IF k = i THEN e ELSE s[k - 1]
  <2>1. CASE k <= i
      BY <1>0, <1>6, <1>7, <1>8, <2>1
  <2>2. CASE ~(k <= i)
    <3>1. k - i \in 1..((Len(s) + 1) - i) /\ (i + (k - i)) - 1 = k - 1
        BY <1>0, <2>2
    <3>2. (upto \o back)[k] = back[k - i]
        BY <1>0, <1>6, <1>7, <1>8, <2>2
    <3>3. back[k - i] = s[(i + (k - i)) - 1]
        BY <1>6, <3>1
    <3>. QED BY <1>0, <2>2, <3>1, <3>2, <3>3
  <2>. QED BY <2>1, <2>2
<1>. QED BY <1>4, <1>8, <1>9, <1>10, Zenon

(* It keeps its members and gains one.                                     *)
LEMMA InsertAtMembers ==
    ASSUME NEW S, NEW s \in Seq(S), IsInjective(s), NEW i \in 1..(Len(s) + 1),
           NEW e \in S, e \notin ToSet(s)
    PROVE  /\ IsInjective(InsertAt(s, i, e))
           /\ ToSet(InsertAt(s, i, e)) = ToSet(s) \cup {e}
<1> DEFINE t == InsertAt(s, i, e)
           from(k) == IF k < i THEN k ELSE k - 1
<1>1. /\ t \in Seq(S) /\ Len(t) = Len(s) + 1
      /\ \A k \in 1..(Len(s) + 1) :
            t[k] = IF k < i THEN s[k] ELSE IF k = i THEN e ELSE s[k - 1]
    BY InsertAtProperties
<1> HIDE DEF t
<1>2. DOMAIN s = 1..Len(s) /\ DOMAIN t = 1..(Len(s) + 1) /\ Len(s) \in Nat /\ i \in Nat
    BY <1>1, LenProperties
<1>3. /\ \A k \in 1..Len(s) : s[k] # e
      /\ \A a, b \in 1..Len(s) : s[a] = s[b] => a = b
    BY <1>2 DEF ToSet, IsInjective
<1>4. t[i] = e
    BY <1>1, <1>2
<1>5. ASSUME NEW k \in 1..(Len(s) + 1), k # i
      PROVE  from(k) \in 1..Len(s) /\ t[k] = s[from(k)]
    BY <1>1, <1>2, <1>5
<1>6. IsInjective(t)
  <2>1. ASSUME NEW a \in 1..(Len(s) + 1), NEW b \in 1..(Len(s) + 1), t[a] = t[b]
        PROVE  a = b
    <3>1. a = i <=> b = i
      <4>1. \A k \in 1..(Len(s) + 1) : k = i <=> t[k] = e
          BY <1>3, <1>4, <1>5
      <4>. QED BY <2>1, <4>1
    <3>2. CASE a # i /\ b # i
      <4>1. from(a) = from(b)
          BY <1>3, <1>5, <2>1, <3>2
      <4>. QED BY <1>2, <3>2, <4>1
    <3>. QED BY <3>1, <3>2
  <2>. QED BY <1>2, <2>1 DEF IsInjective
<1>7. ASSUME NEW k \in 1..(Len(s) + 1)
      PROVE  t[k] \in ToSet(s) \cup {e}
    BY <1>2, <1>4, <1>5 DEF ToSet
<1>8. ASSUME NEW k \in 1..Len(s)
      PROVE  s[k] \in ToSet(t)
  <2>1. CASE k < i
      BY <1>1, <1>2, <2>1 DEF ToSet
  <2>2. CASE ~(k < i)
    <3>1. k + 1 \in 1..(Len(s) + 1) /\ t[k + 1] = s[k]
        BY <1>1, <1>2, <2>2
    <3>. QED BY <1>2, <3>1 DEF ToSet
  <2>. QED BY <2>1, <2>2
<1>9. e \in ToSet(t)
    BY <1>2, <1>4 DEF ToSet
<1>. QED BY <1>2, <1>6, <1>7, <1>8, <1>9 DEF ToSet, t

-----------------------------------------------------------------------------
(* The queue.                                                              *)

QueueOK ==
    /\ order \in Seq(Jobs) /\ IsInjective(order)
    /\ aged \in 0..Len(order)

(* A job that waits is at its place and nowhere else.                      *)
LEMMA PlaceOf ==
    ASSUME QueueOK
    PROVE  /\ DOMAIN order = 1..Len(order)
           /\ Len(order) \in Nat
           /\ \A i \in 1..Len(order) : order[i] \in Jobs /\ Place(order[i]) = i
           /\ \A j \in ToSet(order) : Place(j) \in 1..Len(order) /\ order[Place(j)] = j
<1>1. /\ DOMAIN order = 1..Len(order)
      /\ Len(order) \in Nat
      /\ \A i \in 1..Len(order) : order[i] \in Jobs
    BY LenProperties, ElementOfSeq DEF QueueOK
<1>2. ASSUME NEW j \in ToSet(order)
      PROVE  Place(j) \in DOMAIN order /\ order[Place(j)] = j
  <2>1. \E i \in DOMAIN order : order[i] = j
      BY DEF ToSet
  <2>. QED BY <2>1 DEF Place
<1>3. ASSUME NEW i \in 1..Len(order)
      PROVE  Place(order[i]) = i
  <2>1. order[i] \in ToSet(order)
      BY <1>1 DEF ToSet
  <2>. QED BY <1>1, <1>2, <2>1 DEF QueueOK, IsInjective
<1>. QED BY <1>1, <1>2, <1>3

(* The queue without one job, and how many of the others are old.          *)
LEMMA WithoutProperties ==
    ASSUME QueueOK, NEW j \in Jobs
    PROVE  /\ Without(j) \in Seq(Jobs) /\ IsInjective(Without(j))
           /\ ToSet(Without(j)) = ToSet(order) \ {j}
           /\ AgedWithout(j) \in 0..Len(Without(j))
<1>1. CASE j \in ToSet(order)
  <2>1. /\ Place(j) \in 1..Len(order) /\ order[Place(j)] = j
        /\ Len(order) \in Nat
      BY <1>1, PlaceOf
  <2>2. Without(j) = RemoveAt(order, Place(j))
      BY <1>1 DEF Without
  <2>3. Without(j) \in Seq(Jobs) /\ Len(Without(j)) = Len(order) - 1
      BY <2>1, <2>2, RemoveAtProperties, Zenon DEF QueueOK
  <2>4. IsInjective(Without(j)) /\ ToSet(Without(j)) = ToSet(order) \ {j}
      BY <2>1, <2>2, RemoveAtMembers, Zenon DEF QueueOK
  <2>5. AgedWithout(j) \in 0..(Len(order) - 1)
      BY <1>1, <2>1 DEF AgedWithout, QueueOK
  <2>. QED BY <2>3, <2>4, <2>5
<1>2. CASE j \notin ToSet(order)
    BY <1>2 DEF Without, AgedWithout, QueueOK
<1>. QED BY <1>1, <1>2

(* Touch and Resolve keep the queue in order.                              *)
LEMMA TouchQueue ==
    ASSUME QueueOK, NEW j \in Jobs, Touch(j)
    PROVE  QueueOK' /\ ToSet(order') = ToSet(order) \cup {j}
<1> DEFINE w == Without(j)
<1>1. /\ w \in Seq(Jobs) /\ IsInjective(w) /\ ToSet(w) = ToSet(order) \ {j}
      /\ AgedWithout(j) \in 0..Len(w)
    BY WithoutProperties
<1>2. /\ aged' = AgedWithout(j)
      /\ \E i \in (aged' + 1)..(Len(w) + 1) : order' = InsertAt(w, i, j)
    BY DEF Touch
<1> HIDE DEF w
<1>3. Len(w) \in Nat
    BY <1>1, LenProperties
<1>4. PICK i \in 1..(Len(w) + 1) : order' = InsertAt(w, i, j)
    BY <1>1, <1>2, <1>3
<1>5. j \notin ToSet(w) /\ w \in Seq(Jobs) /\ IsInjective(w) /\ i \in 1..(Len(w) + 1)
    BY <1>1, <1>4
<1>6. /\ IsInjective(InsertAt(w, i, j))
      /\ ToSet(InsertAt(w, i, j)) = ToSet(w) \cup {j}
    BY <1>5, InsertAtMembers
<1>7. InsertAt(w, i, j) \in Seq(Jobs) /\ Len(InsertAt(w, i, j)) = Len(w) + 1
    BY <1>5, InsertAtProperties
<1>. QED BY <1>1, <1>2, <1>3, <1>4, <1>6, <1>7 DEF QueueOK

LEMMA ResolveQueue ==
    ASSUME QueueOK, NEW j \in Jobs, NEW s, Resolve(j, s)
    PROVE  QueueOK' /\ ToSet(order') = ToSet(order) \ {j}
    BY WithoutProperties DEF Resolve, QueueOK

-----------------------------------------------------------------------------
(* What a step does to the queue: nothing, or one more job is old; a job   *)
(* that is stuck afterwards is written to; or one leaves its step.         *)

Quiet == UNCHANGED <<status, order>> /\ aged' \in 0..Len(order)

Queued(j) ==
    /\ Touch(j)
    /\ \E s \in StuckEligible : status' = [status EXCEPT ![j] = s]

Left(j) == \E s \in {"audio_ready", "out"} : Resolve(j, s)

QueueStep == Quiet \/ \E j \in Jobs : Queued(j) \/ Left(j)

LEMMA TypeQueue ==
    ASSUME TypeOK
    PROVE  QueueOK
    BY DEF TypeOK, QueueOK

LEMMA UnchangedQueue ==
    ASSUME TypeOK, UNCHANGED <<status, order, aged>>
    PROVE  QueueStep
    BY DEF TypeOK, QueueStep, Quiet

LEMMA ReconcileJobQueue ==
    ASSUME TypeOK, NEW j \in Jobs, ReconcileJob(j)
    PROVE  QueueStep
<1>1. CASE Apply(j)
    BY <1>1 DEF Apply, QueueStep, Left
<1>2. CASE Resolve(j, "out")
    BY <1>2 DEF QueueStep, Left
<1>3. CASE UNCHANGED <<status, order, aged>>
    BY <1>3, UnchangedQueue
<1>. QED BY <1>1, <1>2, <1>3 DEF ReconcileJob

LEMMA NextIsQueueStep ==
    ASSUME TypeOK, Next
    PROVE  QueueStep
<1>1. ASSUME NEW j \in Jobs, Begin(j)
      PROVE  QueueStep
    BY <1>1 DEF Begin, QueueStep, Queued, StuckEligible
<1>2. ASSUME NEW j \in Jobs,
             \/ ReserveHorizontal(j) \/ HorizontalFails(j) \/ RecordVideo(j)
             \/ WebhookHorizontal(j)
      PROVE  QueueStep
  <2>1. CASE Touch(j) /\ status' = status /\ status[j] \in StuckEligible
    <3>1. status' = [status EXCEPT ![j] = status[j]]
        BY <2>1 DEF TypeOK
    <3>. QED BY <2>1, <3>1 DEF QueueStep, Queued
  <2>2. CASE UNCHANGED <<status, order, aged>>
      BY <2>2, UnchangedQueue
  <2>3. \/ Touch(j) /\ status' = status /\ status[j] \in StuckEligible
        \/ UNCHANGED <<status, order, aged>>
      BY <1>2 DEF ReserveHorizontal, HorizontalFails, RecordVideo, WebhookHorizontal,
                  StuckEligible
  <2>. QED BY <2>1, <2>2, <2>3
<1>3. ASSUME NEW j \in Jobs, CallReturns(j) \/ CallFails(j)
      PROVE  QueueStep
  <2>1. Left(j) \/ UNCHANGED <<status, order, aged>>
      BY <1>3 DEF CallReturns, CallFails, Left
  <2>. QED BY <2>1, UnchangedQueue DEF QueueStep
<1>4. ASSUME NEW j \in Jobs, Die(j) \/ VideoEnds(j)
      PROVE  QueueStep
    BY <1>4, UnchangedQueue DEF Die, VideoEnds
<1>5. ASSUME NEW j \in Jobs, Webhook(j) \/ GiveUp(j)
      PROVE  QueueStep
    BY <1>5 DEF Webhook, Apply, GiveUp, QueueStep, Left
<1>7. ASSUME NEW j \in Jobs, ReconcileOne(j)
      PROVE  QueueStep
    BY <1>7, ReconcileJobQueue DEF ReconcileOne
<1>8. CASE GrowOld
  <2>1. Len(order) \in Nat
      BY TypeQueue, PlaceOf
  <2>. QED BY <1>8, <2>1 DEF GrowOld, QueueStep, Quiet, TypeOK
<1>9. CASE Sweep \/ Crash
    BY <1>9, UnchangedQueue DEF Sweep, Crash
<1>10. CASE ReconcileNext
  <2>1. Head(todo) \in Jobs
      BY <1>10, HeadTailProperties DEF ReconcileNext, TypeOK
  <2>2. CASE ReconcileJob(Head(todo))
      BY <2>1, <2>2, ReconcileJobQueue
  <2>3. CASE GetVideoRaises(Head(todo))
      BY <2>3, UnchangedQueue DEF GetVideoRaises
  <2>. QED BY <1>10, <2>2, <2>3 DEF ReconcileNext
<1>. QED BY <1>1, <1>2, <1>3, <1>4, <1>5, <1>7, <1>8, <1>9, <1>10 DEF Next

-----------------------------------------------------------------------------
(* Types.                                                                  *)

Stuck == {j \in Jobs : status[j] \in StuckEligible}

(* The queue holds the stuck jobs and no others.                           *)
LEMMA QueueType ==
    ASSUME TypeOK, QueueStep
    PROVE  /\ QueueOK' /\ ToSet(order') = Stuck'
           /\ status' \in [Jobs -> {"ready", "audio_ready", "out"} \cup StuckEligible]
<1>1. QueueOK /\ ToSet(order) = Stuck
    BY TypeQueue DEF TypeOK, Stuck
<1>2. CASE Quiet
    BY <1>1, <1>2 DEF Quiet, QueueOK, Stuck, TypeOK
<1>3. ASSUME NEW j \in Jobs, Queued(j)
      PROVE  /\ QueueOK' /\ ToSet(order') = Stuck'
             /\ status' \in [Jobs -> {"ready", "audio_ready", "out"} \cup StuckEligible]
  <2>1. QueueOK' /\ ToSet(order') = ToSet(order) \cup {j}
      BY <1>1, <1>3, TouchQueue DEF Queued
  <2>2. PICK s \in StuckEligible : status' = [status EXCEPT ![j] = s]
      BY <1>3 DEF Queued
  <2>. QED BY <1>1, <2>1, <2>2 DEF Stuck, TypeOK
<1>4. ASSUME NEW j \in Jobs, Left(j)
      PROVE  /\ QueueOK' /\ ToSet(order') = Stuck'
             /\ status' \in [Jobs -> {"ready", "audio_ready", "out"} \cup StuckEligible]
  <2>1. PICK s \in {"audio_ready", "out"} : Resolve(j, s)
      BY <1>4 DEF Left
  <2>2. QueueOK' /\ ToSet(order') = ToSet(order) \ {j}
      BY <1>1, <2>1, ResolveQueue
  <2>3. status' = [status EXCEPT ![j] = s] /\ s \notin StuckEligible
      BY <2>1 DEF Resolve, StuckEligible
  <2>. QED BY <1>1, <2>2, <2>3 DEF Stuck, TypeOK
<1>. QED BY <1>2, <1>3, <1>4 DEF QueueStep

(* The rest: HeyGen's videos, the calls, the current sweep, the bound.     *)
RestTypeOK ==
    /\ video \in [Jobs -> {"none", "processing", "ended", "unknown"}]
    /\ calling \subseteq Jobs
    /\ horizontal \in [Jobs -> {"none", "reserved", "failed", "recorded", "reported"}]
    /\ \A j \in Jobs \ Dual : horizontal[j] = "none"
    /\ todo \in Seq(Jobs) /\ Len(todo) <= Limit
    /\ failures \in 0..MaxFailures

LEMMA SelectType ==
    ASSUME QueueOK
    PROVE  Select \in Seq(Jobs) /\ Len(Select) = Smaller(aged, Limit)
<1>1. \A i \in 1..Smaller(aged, Limit) : order[i] \in Jobs
    BY PlaceOf, SweepAssumption DEF QueueOK, Smaller
<1>2. Smaller(aged, Limit) \in Nat
    BY PlaceOf, SweepAssumption DEF QueueOK, Smaller
<1>. QED BY <1>1, <1>2, SubSeqProperties DEF Select

LEMMA RestType ==
    ASSUME TypeOK, Next
    PROVE  RestTypeOK'
<1> USE SweepAssumption
<1>1. ASSUME NEW j \in Jobs,
             \/ Begin(j) \/ CallReturns(j) \/ CallFails(j) \/ Die(j)
             \/ VideoEnds(j) \/ Webhook(j) \/ GiveUp(j)
      PROVE  RestTypeOK'
    BY <1>1 DEF TypeOK, RestTypeOK, Begin, CallReturns, CallFails, Die,
                VideoEnds, Webhook, GiveUp
<1>7. ASSUME NEW j \in Jobs,
             \/ ReserveHorizontal(j) \/ HorizontalFails(j) \/ RecordVideo(j)
             \/ WebhookHorizontal(j)
      PROVE  RestTypeOK'
  <2>1. /\ todo' = todo /\ failures' = failures
        /\ calling' = calling \/ calling' = calling \ {j}
        /\ video' = video \/ video' = [video EXCEPT ![j] = "processing"]
      BY <1>7 DEF ReserveHorizontal, HorizontalFails, RecordVideo, WebhookHorizontal
  <2>2. \/ horizontal' = horizontal
        \/ j \in Dual /\ \E h \in {"reserved", "failed", "recorded", "reported"} :
                horizontal' = [horizontal EXCEPT ![j] = h]
      BY <1>7 DEF ReserveHorizontal, HorizontalFails, RecordVideo, WebhookHorizontal, TypeOK
  <2>. QED BY <2>1, <2>2 DEF TypeOK, RestTypeOK
<1>2. ASSUME NEW j \in Jobs, ReconcileOne(j)
      PROVE  RestTypeOK'
    BY <1>2 DEF TypeOK, RestTypeOK, ReconcileOne, ReconcileJob
<1>3. CASE GrowOld
    BY <1>3 DEF TypeOK, RestTypeOK, GrowOld
<1>4. CASE Sweep
  <2>1. Smaller(aged, Limit) <= Limit
      BY DEF TypeOK, Smaller
  <2>. QED BY <1>4, <2>1, TypeQueue, SelectType DEF Sweep, TypeOK, RestTypeOK
<1>5. CASE ReconcileNext
  <2>1. Tail(todo) \in Seq(Jobs) /\ Len(Tail(todo)) <= Limit
    <3>1. Tail(todo) \in Seq(Jobs) /\ Len(Tail(todo)) = Len(todo) - 1 /\ Len(todo) \in Nat
        BY <1>5, HeadTailProperties, LenProperties DEF ReconcileNext, TypeOK
    <3>. QED BY <3>1 DEF TypeOK
  <2>2. failures' \in 0..MaxFailures
      BY <1>5 DEF ReconcileNext, ReconcileJob, GetVideoRaises, TypeOK
  <2>. QED BY <1>5, <2>1, <2>2 DEF ReconcileNext, TypeOK, RestTypeOK
<1>6. CASE Crash
  <2>1. <<>> \in Seq(Jobs) /\ Len(<<>>) = 0
      OBVIOUS
  <2>. QED BY <1>6, <2>1 DEF Crash, TypeOK, RestTypeOK
<1>. QED BY <1>1, <1>2, <1>3, <1>4, <1>5, <1>6, <1>7 DEF Next

(* Every variable keeps its type; above all, the queue holds each stuck    *)
(* job once and nothing else.                                              *)
THEOREM TypeCorrect == Spec => []TypeOK
<1>1. Init => TypeOK
  <2>1. <<>> \in Seq(Jobs) /\ Len(<<>>) = 0 /\ IsInjective(<<>>) /\ ToSet(<<>>) = {}
      BY DEF IsInjective, ToSet
  <2>. QED BY <2>1, SweepAssumption DEF Init, TypeOK, StuckEligible
<1>2. TypeOK /\ [Next]_vars => TypeOK'
  <2> SUFFICES ASSUME TypeOK, [Next]_vars PROVE TypeOK'
      OBVIOUS
  <2>1. CASE Next
      BY <2>1, NextIsQueueStep, QueueType, RestType DEF TypeOK, QueueOK, RestTypeOK, Stuck
  <2>2. CASE UNCHANGED vars
      BY <2>2 DEF TypeOK, vars
  <2>. QED BY <2>1, <2>2
<1>. QED BY <1>1, <1>2, PTL DEF Spec

-----------------------------------------------------------------------------
(* Who is ahead.                                                           *)

(* Of two jobs that stay, the one ahead stays ahead.                       *)
LEMMA WithoutKeepsOrder ==
    ASSUME QueueOK, NEW j \in Jobs,
           NEW m \in 1..Len(Without(j)), NEW n \in 1..Len(Without(j)), m < n
    PROVE  \E a, b \in 1..Len(order) :
              a < b /\ Without(j)[m] = order[a] /\ Without(j)[n] = order[b]
<1>1. CASE j \in ToSet(order)
  <2> DEFINE p == Place(j)
             at(k) == IF k < p THEN k ELSE k + 1
  <2>1. p \in 1..Len(order) /\ order \in Seq(Jobs) /\ Len(order) \in Nat
      BY <1>1, PlaceOf DEF QueueOK
  <2>2. Without(j) = RemoveAt(order, p)
      BY <1>1 DEF Without
  <2>3. /\ Len(Without(j)) = Len(order) - 1
        /\ \A k \in 1..(Len(order) - 1) :
              Without(j)[k] = IF k < p THEN order[k] ELSE order[k + 1]
    <3>1. /\ Len(RemoveAt(order, p)) = Len(order) - 1
          /\ \A k \in 1..(Len(order) - 1) :
                RemoveAt(order, p)[k] = IF k < p THEN order[k] ELSE order[k + 1]
        BY <2>1, RemoveAtProperties, Zenon
    <3>. QED BY <2>2, <3>1
  <2> HIDE DEF p
  <2>4. at(m) \in 1..Len(order) /\ at(n) \in 1..Len(order) /\ at(m) < at(n)
      BY <2>1, <2>3
  <2>5. Without(j)[m] = order[at(m)] /\ Without(j)[n] = order[at(n)]
      BY <2>3
  <2>. QED BY <2>4, <2>5
<1>2. CASE j \notin ToSet(order)
  <2>1. Without(j) = order
      BY <1>2 DEF Without
  <2>. QED BY <2>1
<1>. QED BY <1>1, <1>2

(* The step that takes k out, or puts it back behind the first i, lets     *)
(* nobody in front of another among those.                                 *)
LEMMA NobodyGetsAhead ==
    ASSUME QueueOK, QueueOK', NEW k \in Jobs, NEW i \in 0..Len(Without(k)),
           \A n \in 1..i : n <= Len(order') /\ order'[n] = Without(k)[n],
           NEW j \in Jobs, j \in ToSet(order), j \in ToSet(order'), Place(j)' <= i
    PROVE  Ahead(j)' \subseteq Ahead(j)
<1> DEFINE w == Without(k)
           p == Place(j)'
<1>1. w \in Seq(Jobs) /\ Len(w) \in Nat
    BY WithoutProperties, LenProperties
<1>2. /\ p \in 1..Len(order') /\ order'[p] = j
      /\ Len(order') \in Nat /\ DOMAIN order' = 1..Len(order')
  <2>1. p = CHOOSE n \in DOMAIN order' : order'[n] = j
      BY DEF Place
  <2>2. \E n \in DOMAIN order' : order'[n] = j
      BY DEF ToSet
  <2>3. p \in DOMAIN order' /\ order'[p] = j
      BY <2>1, <2>2
  <2>. QED BY <2>3, LenProperties DEF QueueOK
<1>3. Ahead(j)' = {order'[n] : n \in 1..(p - 1)}
    BY DEF Ahead
<1>4. p <= i /\ i \in Nat /\ i <= Len(w) /\ \A n \in 1..i : order'[n] = w[n]
    BY <1>1
<1> HIDE DEF w, p
<1>5. ASSUME NEW m \in 1..(p - 1)
      PROVE  order'[m] \in Ahead(j)
  <2>1. /\ m \in 1..Len(w) /\ p \in 1..Len(w) /\ m < p
        /\ order'[m] = w[m] /\ order'[p] = w[p]
      BY <1>1, <1>2, <1>4
  <2>2. PICK a \in 1..Len(order), b \in 1..Len(order) :
            a < b /\ w[m] = order[a] /\ w[p] = order[b]
      BY <2>1, WithoutKeepsOrder DEF w
  <2>3. order[b] = j /\ order'[m] = order[a]
      BY <1>2, <2>1, <2>2
  <2>4. Place(j) = b
      BY <2>2, <2>3, PlaceOf
  <2>5. a \in 1..(Place(j) - 1)
      BY <2>2, <2>4, PlaceOf
  <2>. QED BY <2>3, <2>5 DEF Ahead
<1>. QED BY <1>3, <1>5

(* The jobs ahead of an old job only become fewer.                         *)
THEOREM NobodyOvertakesHolds == Spec => NobodyOvertakes
<1> DEFINE Waits == \A j \in Jobs :
              j \in ToSet(order) /\ j \in ToSet(order') /\ Place(j)' <= aged' =>
                  Ahead(j)' \subseteq Ahead(j)
<1>1. TypeOK /\ TypeOK' /\ [Next]_vars => Waits
  <2> SUFFICES ASSUME TypeOK, TypeOK', [Next]_vars, NEW j \in Jobs,
                      j \in ToSet(order), j \in ToSet(order'), Place(j)' <= aged'
               PROVE  Ahead(j)' \subseteq Ahead(j)
      OBVIOUS
  <2>1. QueueOK /\ QueueOK'
      BY DEF TypeOK, QueueOK
  <2>2. CASE UNCHANGED order
    <3>1. Place(j)' = Place(j)
        BY <2>2 DEF Place
    <3>. QED BY <2>2, <3>1 DEF Ahead
  <2>3. ASSUME NEW k \in Jobs, Left(k)
        PROVE  Ahead(j)' \subseteq Ahead(j)
    <3>1. order' = Without(k) /\ aged' = AgedWithout(k)
        BY <2>3 DEF Left, Resolve
    <3>2. Without(k) \in Seq(Jobs) /\ AgedWithout(k) \in 0..Len(Without(k))
        BY <2>1, WithoutProperties
    <3>3. Len(Without(k)) \in Nat
        BY <3>2, LenProperties
    <3>4. \A n \in 1..aged' : n <= Len(order') /\ order'[n] = Without(k)[n]
        BY <3>1, <3>2, <3>3
    <3>. QED BY <2>1, <3>1, <3>2, <3>4, NobodyGetsAhead
  <2>4. ASSUME NEW k \in Jobs, Touch(k)
        PROVE  Ahead(j)' \subseteq Ahead(j)
    <3> DEFINE w == Without(k)
    <3>1. w \in Seq(Jobs) /\ AgedWithout(k) \in 0..Len(w) /\ Len(w) \in Nat
        BY <2>1, WithoutProperties, LenProperties
    <3>2. /\ aged' = AgedWithout(k)
          /\ \E i \in (aged' + 1)..(Len(w) + 1) : order' = InsertAt(w, i, k)
        BY <2>4 DEF Touch
    <3> HIDE DEF w
    <3>3. PICK i \in 1..(Len(w) + 1) : i > aged' /\ order' = InsertAt(w, i, k)
        BY <3>1, <3>2
    <3>4. /\ Len(InsertAt(w, i, k)) = Len(w) + 1
          /\ \A n \in 1..(Len(w) + 1) :
                InsertAt(w, i, k)[n] = IF n < i THEN w[n] ELSE IF n = i THEN k ELSE w[n - 1]
        BY <3>1, <3>3, InsertAtProperties
    <3>5. aged' \in 0..Len(w) /\ \A n \in 1..aged' : n <= Len(order') /\ order'[n] = w[n]
        BY <3>1, <3>2, <3>3, <3>4
    <3>. QED BY <2>1, <3>5, NobodyGetsAhead DEF w
  <2>5. CASE Next
    <3>1. QueueStep
        BY <2>5, NextIsQueueStep
    <3>. QED BY <2>2, <2>3, <2>4, <3>1 DEF QueueStep, Quiet, Queued
  <2>. QED BY <2>2, <2>5 DEF vars
<1>2. Waits => [Waits]_vars
    OBVIOUS
<1>. QED BY <1>1, TypeCorrect, PTL DEF Spec, NobodyOvertakes

-----------------------------------------------------------------------------
(* What a sweep is good for.                                               *)

(* A sweep takes the front of the queue.  If it does not reach as far as a *)
(* job that is old, it is full, and if none of those it takes can be       *)
(* resolved, they crowd the job out.                                       *)
THEOREM SweepsAreOfUseHolds == Spec => SweepsAreOfUse
<1> DEFINE Use == \A j \in Jobs :
              Sweep /\ Resolvable(j) /\ Place(j) <= aged /\ ~Crowded(j) =>
                  \E k \in ToSet(todo') : Resolvable(k)
<1>1. TypeOK => Use
  <2> SUFFICES ASSUME TypeOK, NEW j \in Jobs,
                      Sweep, Resolvable(j), Place(j) <= aged, ~Crowded(j),
                      \A k \in ToSet(todo') : ~Resolvable(k)
               PROVE  FALSE
      OBVIOUS
  <2> DEFINE p == Place(j)
             taken == Smaller(aged, Limit)
  <2>1. j \in ToSet(order)
      BY DEF Resolvable, TypeOK, StuckEligible
  <2>2. /\ p \in 1..Len(order) /\ order[p] = j
        /\ Len(order) \in Nat /\ QueueOK
      BY <2>1, TypeQueue, PlaceOf
  <2>3. aged \in Nat /\ Limit \in Nat /\ taken \in Nat
      BY <2>2, SweepAssumption DEF TypeOK, Smaller
  <2>4. todo' = SubSeq(order, 1, taken)
      BY DEF Sweep, Select
  <2>5. \A i \in 1..taken : order[i] \in Jobs
      BY <2>2, <2>3, PlaceOf DEF Smaller, QueueOK
  <2>6. /\ todo' \in Seq(Jobs) /\ Len(todo') = taken
        /\ \A i \in 1..taken : todo'[i] = order[i]
      BY <2>3, <2>4, <2>5, SubSeqProperties
  <2>7. \A i \in 1..taken : ~Resolvable(order[i])
    <3>1. DOMAIN todo' = 1..taken
        BY <2>6, LenProperties
    <3>. QED BY <2>6, <3>1 DEF ToSet
  <2>8. p > taken /\ taken = Limit
      BY <2>2, <2>3, <2>7 DEF Smaller
  <2> DEFINE crowd == {i \in 1..(p - 1) : ~Resolvable(order[i])}
  <2>9. 1..Limit \subseteq crowd /\ crowd \subseteq 1..(p - 1)
      BY <2>2, <2>3, <2>7, <2>8
  <2>10. IsFiniteSet(crowd)
    <3>1. IsFiniteSet(1..(p - 1))
        BY <2>2, FS_Interval
    <3>. QED BY <2>9, <3>1, FS_Subset
  <2>11. Cardinality(1..Limit) <= Cardinality(crowd)
      BY <2>9, <2>10, FS_Subset
  <2>12. Cardinality(1..Limit) = Limit
      BY SweepAssumption, FS_Interval
  <2>13. Cardinality(crowd) \in Nat
      BY <2>10, FS_CardinalityType
  <2> HIDE DEF p, crowd
  <2>14. Cardinality(crowd) >= Limit
      BY <2>3, <2>11, <2>12, <2>13
  <2>. QED BY <2>1, <2>14 DEF Crowded, crowd, p
<1>2. Use => [Use]_vars
    OBVIOUS
<1>. QED BY <1>1, TypeCorrect, PTL DEF SweepsAreOfUse

(* A job that can be resolved is, when the sweep comes to it, unless       *)
(* get_video raises for no reason of the video.                            *)
THEOREM ResolvableIsResolved ==
    Spec => [][\A j \in Jobs :
                  ReconcileNext /\ j = Head(todo) /\ Resolvable(j) =>
                      ~Resolvable(j)' \/ failures' > failures]_vars
<1> DEFINE Done == \A j \in Jobs :
              ReconcileNext /\ j = Head(todo) /\ Resolvable(j) =>
                  ~Resolvable(j)' \/ failures' > failures
<1>1. TypeOK => Done
  <2> SUFFICES ASSUME TypeOK, ReconcileNext,
                      NEW j \in Jobs, j = Head(todo), Resolvable(j)
               PROVE  ~Resolvable(j)' \/ failures' > failures
      OBVIOUS
  <2>1. CASE GetVideoRaises(j)
      BY <2>1 DEF GetVideoRaises, TypeOK
  <2>2. CASE ReconcileJob(j)
    <3>1. Apply(j) \/ Resolve(j, "out")
        BY <2>2 DEF ReconcileJob, Resolvable, StuckEligible
    <3>2. status' = [status EXCEPT ![j] = "out"]
        BY <3>1 DEF Apply, Resolve
    <3>3. status'[j] = "out"
        BY <3>2 DEF TypeOK
    <3>. QED BY <3>3 DEF Resolvable, StuckEligible
  <2>. QED BY <2>1, <2>2 DEF ReconcileNext
<1>2. Done => [Done]_vars
    OBVIOUS
<1>. QED BY <1>1, TypeCorrect, PTL

-----------------------------------------------------------------------------
(* Renderings.                                                             *)

LEMMA ReconcileSparesRendering ==
    ASSUME TypeOK, NEW j \in Jobs, status[j] = "rendering", video[j] = "none",
           NEW k \in Jobs, ReconcileJob(k) \/ Webhook(k)
    PROVE  status'[j] = "rendering"
<1>1. CASE Apply(k) \/ (status[k] = "audio_generating" /\ Resolve(k, "out"))
  <2>1. k # j /\ status' = [status EXCEPT ![k] = "out"]
      BY <1>1 DEF Apply, Resolve
  <2>. QED BY <2>1 DEF TypeOK
<1>2. CASE UNCHANGED status
    BY <1>2
<1>. QED BY <1>1, <1>2 DEF ReconcileJob, Webhook

(* Neither a sweep nor a webhook ends a rendering whose video is not       *)
(* recorded.                                                               *)
THEOREM RenderingEndsByItsCallHolds == Spec => RenderingEndsByItsCall
<1> DEFINE Ends == \A j \in Jobs :
              status[j] = "rendering" /\ video[j] = "none" /\ status'[j] # "rendering" =>
                  GiveUp(j) \/ (j \in calling /\ j \notin calling')
<1>1. TypeOK /\ [Next]_vars => Ends
  <2> SUFFICES ASSUME TypeOK, [Next]_vars, NEW j \in Jobs,
                      status[j] = "rendering", video[j] = "none", status'[j] # "rendering"
               PROVE  GiveUp(j) \/ (j \in calling /\ j \notin calling')
      OBVIOUS
  <2>1. ASSUME NEW k \in Jobs, Begin(k)
        PROVE  FALSE
    <3>1. k # j /\ \E s : status' = [status EXCEPT ![k] = s]
        BY <2>1 DEF Begin
    <3>. QED BY <3>1 DEF TypeOK
  <2>2. ASSUME NEW k \in Jobs, CallReturns(k) \/ CallFails(k)
        PROVE  j \in calling /\ j \notin calling'
    <3>1. (\E s : Resolve(k, s)) \/ UNCHANGED status
        BY <2>2 DEF CallReturns, CallFails
    <3>2. k = j
        BY <3>1 DEF Resolve, TypeOK
    <3>. QED BY <2>2, <3>2 DEF CallReturns, CallFails
  <2>3. ASSUME NEW k \in Jobs, GiveUp(k)
        PROVE  GiveUp(j)
    <3>1. status' = [status EXCEPT ![k] = "out"]
        BY <2>3 DEF GiveUp, Resolve
    <3>2. k = j
        BY <3>1 DEF TypeOK
    <3>. QED BY <2>3, <3>2
  <2>4. ASSUME NEW k \in Jobs, Webhook(k) \/ ReconcileOne(k)
        PROVE  FALSE
      BY <2>4, ReconcileSparesRendering DEF ReconcileOne
  <2>5. CASE ReconcileNext
    <3>1. Head(todo) \in Jobs
        BY <2>5, HeadTailProperties DEF ReconcileNext, TypeOK
    <3>. QED BY <2>5, <3>1, ReconcileSparesRendering DEF ReconcileNext, GetVideoRaises
  <2>6. CASE \/ \E k \in Jobs :
                   \/ ReserveHorizontal(k) \/ HorizontalFails(k) \/ RecordVideo(k)
                   \/ Die(k) \/ VideoEnds(k) \/ WebhookHorizontal(k)
             \/ GrowOld \/ Sweep \/ Crash
      BY <2>6 DEF ReserveHorizontal, HorizontalFails, RecordVideo, Die, VideoEnds,
                  WebhookHorizontal, GrowOld, Sweep, Crash
  <2>7. CASE UNCHANGED vars
      BY <2>7 DEF vars
  <2>. QED BY <2>1, <2>2, <2>3, <2>4, <2>5, <2>6, <2>7 DEF Next
<1>2. Ends => [Ends]_vars
    OBVIOUS
<1>. QED BY <1>1, TypeCorrect, PTL DEF Spec, RenderingEndsByItsCall

=============================================================================
