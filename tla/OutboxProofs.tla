---------------------------- MODULE OutboxProofs ----------------------------
(***************************************************************************)
(* Proofs about Outbox for any set of rows and flushers, any number of     *)
(* attempts, any batch size and any number of rollbacks.                   *)
(*                                                                         *)
(* The argument: a row belongs to at most one open flush, and only while   *)
(* it is pending (Ownership).  So a POST, its mark and its commit see a    *)
(* row that nobody else changes, and the counts of what was sent and       *)
(* received move together with it (Counts).                                *)
(***************************************************************************)
EXTENDS Outbox, TLAPS

(* A row is in at most one of the three sets of at most one flush, and     *)
(* pending as long as it is.                                               *)
Ownership ==
    /\ \A f \in Flushers : \A r \in Claimed(f) : status[r] = "pending"
    /\ \A f, g \in Flushers : f # g => Claimed(f) \cap Claimed(g) = {}
    /\ \A f \in Flushers :
          /\ todo[f] \cap Posted(f) = {}
          /\ heard[f] \cap failed[f] = {}

(* Attempts are left as long as a row is not settled, and none when it is  *)
(* dead.                                                                   *)
AttemptsLeft ==
    \A r \in Rows :
        /\ status[r] \in {"absent", "pending"} => attempts[r] < MaxAttempts
        /\ status[r] = "dead" => attempts[r] = MaxAttempts

InFlight(r) == \E f \in Flushers : r \in Posted(f)
Answered(r) == status[r] = "delivered" \/ \E f \in Flushers : r \in heard[f]

(* How often the receiver took a row, for each of its states.              *)
ReceivedAccounted ==
    \A r \in Rows :
        /\ unheard[r] <= received[r]
        /\ Answered(r) => unheard[r] < received[r]
        /\ received[r] <= unheard[r] + undone[r] + One(Answered(r))

IInv == TypeOK /\ Ownership /\ AttemptsLeft /\ SentAccounted /\ ReceivedAccounted

-----------------------------------------------------------------------------
(* What a flush may claim is pending and in nobody's hands.                *)
LEMMA ClaimableFree ==
    ASSUME NEW r \in Claimable
    PROVE  /\ r \in Rows
           /\ status[r] = "pending"
           /\ \A f \in Flushers : r \notin Claimed(f)
  BY DEF Claimable, Locked

LEMMA InitIInv == Init => IInv
<1> SUFFICES ASSUME Init PROVE IInv
    OBVIOUS
<1> USE OutboxAssumption DEF Init
<1>1. TypeOK
    BY DEF TypeOK
<1>2. Ownership
    BY DEF Ownership, Claimed, Posted
<1>3. AttemptsLeft
    BY DEF AttemptsLeft
<1>4. SentAccounted
    BY DEF SentAccounted, Posted, One
<1>5. ReceivedAccounted
    BY DEF ReceivedAccounted, Answered, One
<1> QED
    BY <1>1, <1>2, <1>3, <1>4, <1>5 DEF IInv

LEMMA EnqueueIInv ==
    ASSUME IInv, NEW r \in Rows, Enqueue(r)
    PROVE  IInv'
<1> USE DEF IInv, Enqueue, local, history
<1>1. TypeOK'
    BY DEF TypeOK
<1>2. Ownership'
    BY DEF Ownership, Claimed, Posted, TypeOK
<1>3. AttemptsLeft'
    BY DEF AttemptsLeft, TypeOK
<1>4. SentAccounted'
    BY DEF SentAccounted, Posted, One, TypeOK
<1>5. ReceivedAccounted'
    BY DEF ReceivedAccounted, Answered, One, TypeOK
<1> QED
    BY <1>1, <1>2, <1>3, <1>4, <1>5

LEMMA BackoffEndsIInv ==
    ASSUME IInv, NEW r \in Rows, BackoffEnds(r)
    PROVE  IInv'
<1> USE DEF IInv, BackoffEnds, local, history
<1>1. TypeOK'
    BY DEF TypeOK
<1>2. Ownership'
    BY DEF Ownership, Claimed, Posted
<1>3. AttemptsLeft'
    BY DEF AttemptsLeft
<1>4. SentAccounted' /\ ReceivedAccounted'
    BY DEF SentAccounted, ReceivedAccounted, Posted, Answered, One
<1> QED
    BY <1>1, <1>2, <1>3, <1>4

LEMMA ClaimDueIInv ==
    ASSUME IInv, NEW f \in Flushers, ClaimDue(f)
    PROVE  IInv'
<1> USE DEF IInv
<1>1. PICK S \in SUBSET Claimable : todo' = [todo EXCEPT ![f] = S]
    BY DEF ClaimDue
<1>2. UNCHANGED <<committed, heard, failed, history>> /\ Claimed(f) = {}
    BY DEF ClaimDue
<1>3. \A r \in S : /\ r \in Rows
                   /\ status[r] = "pending"
                   /\ \A g \in Flushers : r \notin Claimed(g)
    BY ClaimableFree
<1>4. TypeOK'
    BY <1>1, <1>2, <1>3 DEF TypeOK, committed, history
<1>5. Ownership'
  <2>1. \A g \in Flushers : Posted(g)' = Posted(g)
    BY <1>2 DEF Posted
  <2>2. Posted(f) = {}
    BY <1>2 DEF Claimed
  <2>3. Claimed(f)' = S
    BY <1>1, <2>1, <2>2 DEF Claimed, TypeOK
  <2>4. \A g \in Flushers \ {f} : Claimed(g)' = Claimed(g)
    BY <1>1, <2>1 DEF Claimed, TypeOK
  <2>5. \A g \in Flushers : \A r \in Claimed(g)' : status'[r] = "pending"
    BY <1>2, <1>3, <2>3, <2>4 DEF Ownership, committed
  <2>6. \A g, h \in Flushers : g # h => Claimed(g)' \cap Claimed(h)' = {}
    BY <1>3, <2>3, <2>4 DEF Ownership
  <2>7. \A g \in Flushers : todo'[g] \cap Posted(g)' = {} /\ heard'[g] \cap failed'[g] = {}
    BY <1>1, <1>2, <2>1, <2>2 DEF Ownership, TypeOK, Posted
  <2> QED
    BY <2>5, <2>6, <2>7 DEF Ownership
<1>6. AttemptsLeft'
    BY <1>2 DEF AttemptsLeft, committed
<1>7. SentAccounted' /\ ReceivedAccounted'
    BY <1>2 DEF SentAccounted, ReceivedAccounted, Posted, Answered, One, committed, history
<1> QED
    BY <1>4, <1>5, <1>6, <1>7

(* What one flush does to the rows it holds: the others are not concerned, *)
(* because nobody else holds them.                                         *)
LEMMA DeliverIInv ==
    ASSUME IInv, NEW f \in Flushers, NEW r \in Rows, Deliver(f, r)
    PROVE  IInv'
<1> USE DEF IInv
<1>1. /\ r \in todo[f]
      /\ todo' = [todo EXCEPT ![f] = @ \ {r}]
      /\ sent' = [sent EXCEPT ![r] = @ + 1]
      /\ UNCHANGED <<committed, undone, aborts>>
    BY DEF Deliver
<1>2. status[r] = "pending" /\ r \notin Posted(f)
    BY <1>1 DEF Ownership, Claimed
<1>3. \A g \in Flushers \ {f} : r \notin Claimed(g)
    BY <1>1 DEF Ownership, Claimed
<1>4. PICK got \in BOOLEAN, lost \in BOOLEAN :
          /\ lost => got
          /\ heard' = IF got /\ ~lost THEN [heard EXCEPT ![f] = @ \cup {r}] ELSE heard
          /\ failed' = IF got /\ ~lost THEN failed ELSE [failed EXCEPT ![f] = @ \cup {r}]
          /\ received' = IF got THEN [received EXCEPT ![r] = @ + 1] ELSE received
          /\ unheard' = IF lost THEN [unheard EXCEPT ![r] = @ + 1] ELSE unheard
  <2> DEFINE Outcome(got, lost) ==
          /\ lost => got
          /\ heard' = IF got /\ ~lost THEN [heard EXCEPT ![f] = @ \cup {r}] ELSE heard
          /\ failed' = IF got /\ ~lost THEN failed ELSE [failed EXCEPT ![f] = @ \cup {r}]
          /\ received' = IF got THEN [received EXCEPT ![r] = @ + 1] ELSE received
          /\ unheard' = IF lost THEN [unheard EXCEPT ![r] = @ + 1] ELSE unheard
  <2>1. Outcome(TRUE, FALSE) \/ Outcome(TRUE, TRUE) \/ Outcome(FALSE, FALSE)
    BY DEF Deliver
  <2>2. \E got \in BOOLEAN, lost \in BOOLEAN : Outcome(got, lost)
    <3> HIDE DEF Outcome
    <3> QED BY <2>1
  <2> QED
    BY <2>2
<1>5. TypeOK'
  <2>1. todo' \in [Flushers -> SUBSET Rows] /\ sent' \in [Rows -> Nat]
    BY <1>1 DEF TypeOK
  <2>2. heard' \in [Flushers -> SUBSET Rows] /\ failed' \in [Flushers -> SUBSET Rows]
    BY <1>4 DEF TypeOK
  <2>3. received' \in [Rows -> Nat] /\ unheard' \in [Rows -> Nat]
    BY <1>4 DEF TypeOK
  <2> QED
    BY <1>1, <2>1, <2>2, <2>3 DEF TypeOK, committed
<1>6. \A g \in Flushers \ {f} : /\ todo'[g] = todo[g]
                              /\ heard'[g] = heard[g]
                              /\ failed'[g] = failed[g]
    BY <1>1, <1>4 DEF TypeOK
<1>7. todo'[f] = todo[f] \ {r} /\ Posted(f)' = Posted(f) \cup {r}
    BY <1>1, <1>4 DEF TypeOK, Posted
<1>8. \A g \in Flushers : Claimed(g)' = Claimed(g)
    BY <1>1, <1>6, <1>7 DEF Claimed, Posted
<1>9. Ownership'
  <2>1. \A g \in Flushers : todo'[g] \cap Posted(g)' = {}
    BY <1>6, <1>7 DEF Ownership, Posted
  <2>2. heard'[f] \cap failed'[f] = {}
    BY <1>2, <1>4 DEF Ownership, Posted, TypeOK
  <2>3. \A g \in Flushers : heard'[g] \cap failed'[g] = {}
    BY <1>6, <2>2 DEF Ownership
  <2> QED
    BY <1>1, <1>8, <2>1, <2>3 DEF Ownership, committed
<1>10. AttemptsLeft'
    BY <1>1 DEF AttemptsLeft, committed
<1>11. SentAccounted'
  <2> SUFFICES ASSUME NEW q \in Rows
               PROVE  sent'[q] = attempts'[q] + undone'[q] + One(status'[q] = "delivered")
                                   + One(InFlight(q)')
    BY DEF SentAccounted, InFlight
  <2>1. sent[q] = attempts[q] + undone[q] + One(status[q] = "delivered") + One(InFlight(q))
    BY DEF SentAccounted, InFlight
  <2>2. CASE q = r
    <3>1. ~InFlight(r)
      BY <1>2, <1>3 DEF InFlight, Claimed
    <3>2. InFlight(r)'
      BY <1>7 DEF InFlight
    <3>3. sent'[r] = sent[r] + 1
      BY <1>1 DEF TypeOK
    <3> QED
      BY <1>1, <2>1, <2>2, <3>1, <3>2, <3>3 DEF One, TypeOK, committed
  <2>3. CASE q # r
    <3>1. InFlight(q)' <=> InFlight(q)
      BY <1>6, <1>7, <2>3 DEF InFlight, Posted
    <3>2. sent'[q] = sent[q]
      BY <1>1, <2>3 DEF TypeOK
    <3> QED
      BY <1>1, <2>1, <3>1, <3>2 DEF One, committed
  <2> QED
    BY <2>2, <2>3
<1>12. ReceivedAccounted'
  <2> SUFFICES ASSUME NEW q \in Rows
               PROVE  /\ unheard'[q] <= received'[q]
                      /\ Answered(q)' => unheard'[q] < received'[q]
                      /\ received'[q] <= unheard'[q] + undone'[q] + One(Answered(q)')
    BY DEF ReceivedAccounted
  <2>1. /\ unheard[q] <= received[q]
        /\ Answered(q) => unheard[q] < received[q]
        /\ received[q] <= unheard[q] + undone[q] + One(Answered(q))
    BY DEF ReceivedAccounted
  <2>2. CASE q = r
    <3>1. ~Answered(r)
      BY <1>2, <1>3 DEF Answered, Claimed, Posted
    <3>2. Answered(r)' <=> got /\ ~lost
      BY <1>1, <1>2, <1>3, <1>4, <1>6 DEF Answered, Claimed, Posted, TypeOK, committed
    <3>3. /\ received'[r] = received[r] + One(got)
          /\ unheard'[r] = unheard[r] + One(lost)
      BY <1>4 DEF TypeOK, One
    <3> QED
      BY <1>1, <1>4, <2>1, <2>2, <3>1, <3>2, <3>3 DEF One, TypeOK
  <2>3. CASE q # r
    <3>1. Answered(q)' <=> Answered(q)
      BY <1>1, <1>4, <1>6, <2>3 DEF Answered, TypeOK, committed
    <3>2. received'[q] = received[q] /\ unheard'[q] = unheard[q]
      BY <1>4, <2>3 DEF TypeOK
    <3> QED
      BY <1>1, <2>1, <3>1, <3>2 DEF One
  <2> QED
    BY <2>2, <2>3
<1> QED
    BY <1>5, <1>9, <1>10, <1>11, <1>12

(* When a flush is over, nobody holds its rows.                            *)
LEMMA CloseOwnership ==
    ASSUME IInv, NEW f \in Flushers, Close(f),
           \A r \in Rows \ Claimed(f) : status'[r] = status[r]
    PROVE  /\ Ownership'
           /\ Claimed(f)' = {}
           /\ \A g \in Flushers \ {f} : /\ Posted(g)' = Posted(g)
                                        /\ heard'[g] = heard[g]
           /\ todo' \in [Flushers -> SUBSET Rows]
           /\ heard' \in [Flushers -> SUBSET Rows]
           /\ failed' \in [Flushers -> SUBSET Rows]
<1> USE DEF IInv, TypeOK
<1>1. todo'[f] = {} /\ heard'[f] = {} /\ failed'[f] = {}
    BY DEF Close
<1>2. \A g \in Flushers \ {f} : todo'[g] = todo[g] /\ heard'[g] = heard[g] /\ failed'[g] = failed[g]
    BY DEF Close
<1>3. Claimed(f)' = {} /\ \A g \in Flushers \ {f} : Claimed(g)' = Claimed(g) /\ Posted(g)' = Posted(g)
    BY <1>1, <1>2 DEF Claimed, Posted
<1>4. \A g \in Flushers : \A r \in Claimed(g)' : r \in Rows /\ r \notin Claimed(f) /\ status[r] = "pending"
    BY <1>3 DEF Ownership, Claimed, Posted
<1>5. Ownership'
    BY <1>1, <1>2, <1>3, <1>4 DEF Ownership
<1> QED
    BY <1>2, <1>3, <1>5 DEF Close

(* A row in flight of a flush is in flight of no other.                    *)
LEMMA InFlightOfOne ==
    ASSUME IInv, NEW f \in Flushers, NEW r \in Posted(f)
    PROVE  /\ r \in Rows
           /\ status[r] = "pending"
           /\ \A g \in Flushers \ {f} : r \notin Posted(g) /\ r \notin heard[g]
  BY DEF IInv, TypeOK, Ownership, Claimed, Posted

LEMMA CommitIInv ==
    ASSUME IInv, NEW f \in Flushers, Commit(f)
    PROVE  IInv'
<1> USE OutboxAssumption DEF IInv
<1>1. /\ \A r \in Rows :
            /\ status'[r] = IF r \in heard[f] THEN "delivered"
                            ELSE IF r \in failed[f] /\ attempts[r] + 1 >= MaxAttempts THEN "dead"
                                 ELSE status[r]
            /\ attempts'[r] = IF r \in failed[f] THEN attempts[r] + 1 ELSE attempts[r]
      /\ UNCHANGED history
    BY DEF Commit, Marks, DeadAt
<1>2. \A r \in Rows \ Claimed(f) : status'[r] = status[r]
    BY <1>1 DEF Claimed, Posted
<1>3. /\ Ownership'
      /\ Claimed(f)' = {}
      /\ \A g \in Flushers \ {f} : Posted(g)' = Posted(g) /\ heard'[g] = heard[g]
      /\ todo' \in [Flushers -> SUBSET Rows]
      /\ heard' \in [Flushers -> SUBSET Rows]
      /\ failed' \in [Flushers -> SUBSET Rows]
    BY <1>2, CloseOwnership DEF Commit
<1>4. \A r \in Posted(f) : /\ attempts[r] < MaxAttempts
                           /\ \A g \in Flushers \ {f} : r \notin Posted(g) /\ r \notin heard[g]
    BY InFlightOfOne DEF AttemptsLeft
<1>5. heard[f] \cap failed[f] = {}
    BY DEF Ownership
<1>6. TypeOK'
  <2>1. attempts' \in [Rows -> 0..MaxAttempts]
    <3>1. \A r \in Rows : attempts'[r] \in 0..MaxAttempts
      BY <1>1, <1>4 DEF TypeOK, Posted
    <3> QED
      BY <3>1 DEF Commit, Marks
  <2>2. status' \in [Rows -> {"absent", "pending", "delivered", "dead"}]
    BY DEF Commit, Marks, TypeOK
  <2>3. due' \in [Rows -> BOOLEAN]
    BY DEF Commit, Marks, TypeOK
  <2> QED
    BY <1>1, <1>3, <2>1, <2>2, <2>3 DEF TypeOK, history
<1>7. AttemptsLeft'
    BY <1>1, <1>4, <1>5 DEF AttemptsLeft, TypeOK, Posted
<1>8. SentAccounted'
  <2> SUFFICES ASSUME NEW r \in Rows
               PROVE  sent'[r] = attempts'[r] + undone'[r] + One(status'[r] = "delivered")
                                   + One(InFlight(r)')
    BY DEF SentAccounted, InFlight
  <2>1. sent[r] = attempts[r] + undone[r] + One(status[r] = "delivered") + One(InFlight(r))
    BY DEF SentAccounted, InFlight
  <2>2. CASE r \in Posted(f)
    <3>1. InFlight(r) /\ ~InFlight(r)'
      BY <1>3, <1>4, <2>2 DEF InFlight, Claimed
    <3>2. status[r] = "pending"
      BY <2>2, InFlightOfOne
    <3> QED
      BY <1>1, <1>5, <2>1, <2>2, <3>1, <3>2 DEF One, TypeOK, Posted, history
  <2>3. CASE r \notin Posted(f)
    <3>1. InFlight(r)' <=> InFlight(r)
      BY <1>3, <2>3 DEF InFlight, Claimed
    <3> QED
      BY <1>1, <2>1, <2>3, <3>1 DEF One, Posted, history
  <2> QED
    BY <2>2, <2>3
<1>9. ReceivedAccounted'
  <2>1. \A r \in Rows : Answered(r)' <=> Answered(r)
    <3> SUFFICES ASSUME NEW r \in Rows
                 PROVE  Answered(r)' <=> Answered(r)
      OBVIOUS
    <3>1. status'[r] = "delivered" <=> r \in heard[f] \/ status[r] = "delivered"
      BY <1>1, InFlightOfOne DEF Posted
    <3>2. r \notin heard'[f]
      BY <1>3 DEF Claimed, Posted
    <3> QED
      BY <1>3, <3>1, <3>2 DEF Answered
  <2> QED
    BY <1>1, <2>1 DEF ReceivedAccounted, One, history
<1> QED
    BY <1>3, <1>6, <1>7, <1>8, <1>9

LEMMA AbortIInv ==
    ASSUME IInv, NEW f \in Flushers, Abort(f)
    PROVE  IInv'
<1> USE DEF IInv
<1>1. /\ \A r \in Rows : undone'[r] = IF r \in Posted(f) THEN undone[r] + 1 ELSE undone[r]
      /\ UNCHANGED <<committed, sent, received, unheard>>
    BY DEF Abort
<1>2. \A r \in Rows \ Claimed(f) : status'[r] = status[r]
    BY <1>1 DEF committed
<1>3. /\ Ownership'
      /\ Claimed(f)' = {}
      /\ \A g \in Flushers \ {f} : Posted(g)' = Posted(g) /\ heard'[g] = heard[g]
      /\ todo' \in [Flushers -> SUBSET Rows]
      /\ heard' \in [Flushers -> SUBSET Rows]
      /\ failed' \in [Flushers -> SUBSET Rows]
    BY <1>2, CloseOwnership DEF Abort
<1>4. TypeOK'
  <2>1. undone' \in [Rows -> Nat] /\ aborts' \in 0..MaxAborts
    BY OutboxAssumption DEF Abort, TypeOK
  <2> QED
    BY <1>1, <1>3, <2>1 DEF TypeOK, committed
<1>5. AttemptsLeft'
    BY <1>1 DEF AttemptsLeft, committed
<1>6. SentAccounted'
  <2> SUFFICES ASSUME NEW r \in Rows
               PROVE  sent'[r] = attempts'[r] + undone'[r] + One(status'[r] = "delivered")
                                   + One(InFlight(r)')
    BY DEF SentAccounted, InFlight
  <2>1. sent[r] = attempts[r] + undone[r] + One(status[r] = "delivered") + One(InFlight(r))
    BY DEF SentAccounted, InFlight
  <2>2. CASE r \in Posted(f)
    <3>1. InFlight(r) /\ ~InFlight(r)'
      BY <1>3, <2>2, InFlightOfOne DEF InFlight, Claimed
    <3> QED
      BY <1>1, <2>1, <2>2, <3>1 DEF One, TypeOK, committed
  <2>3. CASE r \notin Posted(f)
    <3>1. InFlight(r)' <=> InFlight(r)
      BY <1>3, <2>3 DEF InFlight, Claimed
    <3> QED
      BY <1>1, <2>1, <2>3, <3>1 DEF One, committed
  <2> QED
    BY <2>2, <2>3
<1>7. ReceivedAccounted'
  <2> SUFFICES ASSUME NEW r \in Rows
               PROVE  /\ unheard'[r] <= received'[r]
                      /\ Answered(r)' => unheard'[r] < received'[r]
                      /\ received'[r] <= unheard'[r] + undone'[r] + One(Answered(r)')
    BY DEF ReceivedAccounted
  <2>1. /\ unheard[r] <= received[r]
        /\ Answered(r) => unheard[r] < received[r]
        /\ received[r] <= unheard[r] + undone[r] + One(Answered(r))
    BY DEF ReceivedAccounted
  <2>2. Answered(r)' => Answered(r)
    BY <1>1, <1>3 DEF Answered, Claimed, Posted, committed
  <2>3. Answered(r) => Answered(r)' \/ r \in Posted(f)
    BY <1>1, <1>3 DEF Answered, Posted, committed
  <2> QED
    BY <1>1, <2>1, <2>2, <2>3 DEF One, TypeOK
<1> QED
    BY <1>3, <1>4, <1>5, <1>6, <1>7

-----------------------------------------------------------------------------
LEMMA NextIInv ==
    ASSUME IInv, [Next]_vars
    PROVE  IInv'
<1>1. CASE UNCHANGED vars
  <2>1. UNCHANGED <<status, attempts, due, todo, heard, failed>>
        /\ UNCHANGED <<sent, received, unheard, undone, aborts>>
    BY <1>1 DEF vars, committed, local, history
  <2>2. TypeOK'
    BY <2>1 DEF IInv, TypeOK
  <2>3. Ownership' /\ AttemptsLeft'
    BY <2>1 DEF IInv, Ownership, AttemptsLeft, Claimed, Posted
  <2>4. SentAccounted'
    BY <2>1 DEF IInv, SentAccounted, Posted
  <2>5. ReceivedAccounted'
    BY <2>1 DEF IInv, ReceivedAccounted, Answered
  <2> QED BY <2>2, <2>3, <2>4, <2>5 DEF IInv
<1>2. ASSUME NEW r \in Rows, Enqueue(r) PROVE IInv'
    BY <1>2, EnqueueIInv
<1>3. ASSUME NEW r \in Rows, BackoffEnds(r) PROVE IInv'
    BY <1>3, BackoffEndsIInv
<1>4. ASSUME NEW f \in Flushers, ClaimDue(f) PROVE IInv'
    BY <1>4, ClaimDueIInv
<1>5. ASSUME NEW f \in Flushers, NEW r \in Rows, Deliver(f, r) PROVE IInv'
    BY <1>5, DeliverIInv
<1>6. ASSUME NEW f \in Flushers, Commit(f) PROVE IInv'
    BY <1>6, CommitIInv
<1>7. ASSUME NEW f \in Flushers, Abort(f) PROVE IInv'
    BY <1>7, AbortIInv
<1> QED
    BY <1>1, <1>2, <1>3, <1>4, <1>5, <1>6, <1>7 DEF Next, Continue

LEMMA InductiveInvariant == Spec => []IInv
<1>1. Init => IInv
    BY InitIInv
<1>2. IInv /\ [Next]_vars => IInv'
    BY NextIInv
<1> QED
    BY <1>1, <1>2, PTL DEF Spec

(* The variables have their types; in particular no row is tried more      *)
(* often than max_attempts as far as its count tells.                      *)
THEOREM TypeCorrect == Spec => []TypeOK
<1>1. IInv => TypeOK
    BY DEF IInv
<1> QED
    BY <1>1, InductiveInvariant, PTL

(* flush_outbox: every POST is counted, delivered, in flight or lost with  *)
(* a rolled-back flush.                                                    *)
THEOREM SentAccountedHolds == Spec => []SentAccounted
<1>1. IInv => SentAccounted
    BY DEF IInv
<1> QED
    BY <1>1, InductiveInvariant, PTL

(* claim_due with SKIP LOCKED: duplicates come from lost answers and       *)
(* rollbacks only.                                                         *)
THEOREM DuplicatesExplainedHolds == Spec => []DuplicatesExplained
<1>1. IInv => DuplicatesExplained
    BY DEF IInv, TypeOK, ReceivedAccounted, DuplicatesExplained, One
<1> QED
    BY <1>1, InductiveInvariant, PTL

(* mark_delivered and mark_failure tell the truth about the receiver.      *)
THEOREM SettledHonestlyHolds == Spec => []SettledHonestly
<1>1. ASSUME IInv PROVE SettledHonestly
  <2> SUFFICES ASSUME NEW r \in Rows
               PROVE  /\ status[r] = "delivered" => received[r] > unheard[r]
                      /\ status[r] = "dead" => sent[r] - undone[r] >= MaxAttempts
    BY DEF SettledHonestly
  <2>1. status[r] = "delivered" => received[r] > unheard[r]
    BY <1>1 DEF IInv, TypeOK, ReceivedAccounted, Answered
  <2>2. sent[r] = attempts[r] + undone[r] + One(status[r] = "delivered") + One(InFlight(r))
    BY <1>1 DEF IInv, SentAccounted, InFlight
  <2>3. status[r] = "dead" => attempts[r] = MaxAttempts
    BY <1>1 DEF IInv, AttemptsLeft
  <2> QED
    BY <1>1, <2>1, <2>2, <2>3, OutboxAssumption DEF IInv, TypeOK, One
<1> QED
    BY <1>1, InductiveInvariant, PTL

(* A settled row is out of every flusher's reach.                          *)
THEOREM SettledIsFinalHolds == Spec => SettledIsFinal
<1> DEFINE Final == \A r \in Rows : status[r] \in {"delivered", "dead"} =>
                       /\ status'[r] = status[r]
                       /\ attempts'[r] = attempts[r]
                       /\ sent'[r] = sent[r]
<1>1. ASSUME IInv, [Next]_vars PROVE Final
  <2> SUFFICES ASSUME NEW r \in Rows, status[r] \in {"delivered", "dead"}
               PROVE  /\ status'[r] = status[r]
                      /\ attempts'[r] = attempts[r]
                      /\ sent'[r] = sent[r]
    OBVIOUS
  <2> USE <1>1 DEF IInv, TypeOK
  <2>0. \A f \in Flushers : r \notin Claimed(f)
    BY DEF Ownership
  <2>1. CASE UNCHANGED vars
    BY <2>1 DEF vars, committed, history
  <2>2. ASSUME NEW q \in Rows, Enqueue(q) \/ BackoffEnds(q) PROVE Final
    BY <2>2 DEF Enqueue, BackoffEnds, history
  <2>3. ASSUME NEW f \in Flushers, ClaimDue(f) \/ Abort(f) PROVE Final
    BY <2>3 DEF ClaimDue, Abort, committed, history
  <2>4. ASSUME NEW f \in Flushers, NEW q \in Rows, Deliver(f, q)
        PROVE  UNCHANGED <<status, attempts>> /\ sent'[r] = sent[r]
    <3>1. q # r
      BY <2>0, <2>4 DEF Deliver, Claimed
    <3> QED
      BY <2>4, <3>1 DEF Deliver, committed
  <2>5. ASSUME NEW f \in Flushers, Commit(f)
        PROVE  status'[r] = status[r] /\ attempts'[r] = attempts[r] /\ sent' = sent
    BY <2>0, <2>5 DEF Commit, Marks, Claimed, Posted, history
  <2> QED
    BY <2>1, <2>2, <2>3, <2>4, <2>5 DEF Next, Continue
<1>2. IInv /\ [Next]_vars => [Final]_vars
    BY <1>1
<1>3. Spec => [][Final]_vars
    BY <1>2, InductiveInvariant, PTL DEF Spec
<1> QED
    BY <1>3 DEF SettledIsFinal

-----------------------------------------------------------------------------
(* Outbox implements AtLeastOnce.                                          *)

(* What the count of excuses becomes.                                      *)
Excuses == [r \in Rows |-> unheard[r] + undone[r]]

LEMMA InitPromise ==
    ASSUME Init
    PROVE  Promise!Init
  BY DEF Init, Promise!Init

(* A row in an open flush is pending, was answered by nobody and, once     *)
(* POSTed, counts as sent.                                                 *)
LEMMA ClaimedRow ==
    ASSUME IInv, NEW f \in Flushers, NEW r \in Claimed(f)
    PROVE  /\ r \in Rows /\ status[r] = "pending"
           /\ r \in todo[f] => received[r] <= unheard[r] + undone[r]
           /\ r \in heard[f] => received[r] > 0
           /\ r \in Posted(f) => sent[r] >= attempts[r] + 1
<1> USE DEF IInv
<1>1. r \in Rows /\ status[r] = "pending"
    BY DEF TypeOK, Ownership, Claimed, Posted
<1>2. ASSUME r \in todo[f]
      PROVE  received[r] <= unheard[r] + undone[r]
  <2>1. \A g \in Flushers : r \notin heard[g]
      BY <1>2 DEF Ownership, Claimed, Posted
  <2>2. One(Answered(r)) = 0
      BY <1>1, <2>1 DEF Answered, One
  <2>. QED BY <1>1, <2>2 DEF ReceivedAccounted, TypeOK
<1>3. ASSUME r \in heard[f]
      PROVE  received[r] > 0
  <2>1. Answered(r)
      BY <1>3 DEF Answered
  <2>. QED BY <1>1, <2>1 DEF ReceivedAccounted, TypeOK
<1>4. ASSUME r \in Posted(f)
      PROVE  sent[r] >= attempts[r] + 1
  <2>1. sent[r] = attempts[r] + undone[r] + One(status[r] = "delivered") + One(InFlight(r))
      BY <1>1 DEF SentAccounted, InFlight
  <2>2. InFlight(r)
      BY <1>4 DEF InFlight
  <2>3. attempts[r] \in Nat /\ undone[r] \in Nat
      BY <1>1, OutboxAssumption DEF TypeOK
  <2>. QED BY <2>1, <2>2, <2>3 DEF One
<1>. QED BY <1>1, <1>2, <1>3, <1>4

LEMMA DeliverPromise ==
    ASSUME IInv, NEW f \in Flushers, NEW r \in Rows, Deliver(f, r)
    PROVE  Promise!Next
<1>1. r \in Claimed(f) /\ r \in todo[f]
    BY DEF Deliver, Claimed
<1>2. Promise!Resend(r)
  <2>1. status[r] = "pending" /\ received[r] <= unheard[r] + undone[r]
      BY <1>1, ClaimedRow
  <2>. QED BY <2>1 DEF Promise!Resend, Deliver, committed
<1>3. \/ /\ received' = [received EXCEPT ![r] = @ + 1]
         /\ UNCHANGED unheard
      \/ /\ received' = [received EXCEPT ![r] = @ + 1]
         /\ unheard' = [unheard EXCEPT ![r] = @ + 1]
      \/ UNCHANGED <<received, unheard>>
    BY DEF Deliver
<1>4. UNCHANGED undone
    BY DEF Deliver
<1>5. CASE received' = [received EXCEPT ![r] = @ + 1] /\ UNCHANGED unheard
    BY <1>2, <1>4, <1>5 DEF Promise!Next, Promise!Arrives
<1>6. CASE /\ received' = [received EXCEPT ![r] = @ + 1]
           /\ unheard' = [unheard EXCEPT ![r] = @ + 1]
  <2>1. Excuses' = [Excuses EXCEPT ![r] = @ + 1]
    <3>1. ASSUME NEW q \in Rows
          PROVE  Excuses'[q] = IF q = r THEN Excuses[q] + 1 ELSE Excuses[q]
        BY <1>4, <1>6 DEF Excuses, IInv, TypeOK
    <3>2. Excuses' = [q \in Rows |-> Excuses'[q]] /\ Excuses = [q \in Rows |-> Excuses[q]]
        BY DEF Excuses
    <3>. QED BY <3>1, <3>2
  <2>2. Promise!ArrivesUnheard(r)
      BY <1>2, <1>6, <2>1 DEF Promise!ArrivesUnheard, Excuses
  <2>. QED BY <2>2 DEF Promise!Next
<1>7. CASE UNCHANGED <<received, unheard>>
    BY <1>2, <1>4, <1>7 DEF Promise!Next, Promise!IsLost
<1>. QED BY <1>3, <1>5, <1>6, <1>7

LEMMA CommitPromise ==
    ASSUME IInv, NEW f \in Flushers, Commit(f)
    PROVE  Promise!Next
<1> DEFINE good == heard[f]
           bad == {r \in failed[f] : DeadAt(attempts[r] + 1)}
<1>1. good \in SUBSET Rows /\ bad \in SUBSET Rows
    BY DEF IInv, TypeOK
<1>2. good \cap bad = {}
    BY DEF IInv, Ownership
<1>3. \A r \in good \cup bad : status[r] = "pending"
    BY ClaimedRow DEF Claimed, Posted
<1>4. \A r \in good : received[r] > 0
    BY ClaimedRow DEF Claimed, Posted
<1>5. ASSUME NEW r \in bad
      PROVE  sent[r] >= MaxAttempts
  <2>1. r \in Rows /\ sent[r] >= attempts[r] + 1
      BY <1>1, ClaimedRow DEF Claimed, Posted
  <2>. QED BY <2>1, OutboxAssumption DEF DeadAt, IInv, TypeOK
<1>6. status' = [r \in Rows |->
          IF r \in good THEN "delivered" ELSE IF r \in bad THEN "dead" ELSE status[r]]
    BY DEF Commit, Marks
<1>7. UNCHANGED <<sent, received, unheard, undone>>
    BY DEF Commit, history
<1>8. Promise!Settle(good, bad)
    BY <1>2, <1>3, <1>4, <1>5, <1>6, <1>7 DEF Promise!Settle
<1>. QED BY <1>1, <1>8 DEF Promise!Next

LEMMA AbortPromise ==
    ASSUME IInv, NEW f \in Flushers, Abort(f)
    PROVE  Promise!Next
<1>1. Posted(f) \in SUBSET Rows
    BY DEF IInv, TypeOK, Posted
<1>2. \A r \in Posted(f) : status[r] = "pending" /\ sent[r] > 0
  <2> SUFFICES ASSUME NEW r \in Posted(f)
               PROVE  status[r] = "pending" /\ sent[r] > 0
      OBVIOUS
  <2>1. status[r] = "pending" /\ r \in Rows /\ sent[r] >= attempts[r] + 1
      BY ClaimedRow DEF Claimed
  <2>. QED BY <2>1 DEF IInv, TypeOK
<1>3. /\ undone' = [r \in Rows |-> IF r \in Posted(f) THEN undone[r] + 1 ELSE undone[r]]
      /\ UNCHANGED <<status, sent, received, unheard>>
    BY DEF Abort, committed
<1>4. Excuses' = [r \in Rows |-> IF r \in Posted(f) THEN Excuses[r] + 1 ELSE Excuses[r]]
    BY <1>3 DEF Excuses, IInv, TypeOK
<1>5. PICK S \in SUBSET Rows : S = Posted(f)
    BY <1>1
<1>6. Promise!Forget(S)
    BY <1>2, <1>3, <1>4, <1>5 DEF Promise!Forget, Excuses
<1>. QED BY <1>6 DEF Promise!Next

(* The outbox keeps what AtLeastOnce promises: sent until it settles, and  *)
(* a further copy only where an answer was lost or a flush rolled back.    *)
THEOREM OutboxImplementsPromise == Spec => ImplementsPromise
<1>1. Init => Promise!Init
    BY InitPromise
<1>2. IInv /\ [Next]_vars => [Promise!Next]_(Promise!vars)
  <2> SUFFICES ASSUME IInv, [Next]_vars
               PROVE  Promise!Next \/ UNCHANGED Promise!vars
      OBVIOUS
  <2>1. CASE UNCHANGED <<status, sent, received, unheard, undone>>
      BY <2>1 DEF Promise!vars
  <2>2. ASSUME NEW r \in Rows, Enqueue(r)
        PROVE  Promise!Next
    <3>1. Promise!Submit(r)
        BY <2>2 DEF Enqueue, Promise!Submit, history
    <3>. QED BY <3>1 DEF Promise!Next
  <2>3. ASSUME NEW r \in Rows, BackoffEnds(r)
        PROVE  UNCHANGED <<status, sent, received, unheard, undone>>
      BY <2>3 DEF BackoffEnds, history
  <2>4. ASSUME NEW f \in Flushers, ClaimDue(f)
        PROVE  UNCHANGED <<status, sent, received, unheard, undone>>
      BY <2>4 DEF ClaimDue, committed, history
  <2>5. ASSUME NEW f \in Flushers, Continue(f) \/ Abort(f)
        PROVE  Promise!Next
      BY <2>5, DeliverPromise, CommitPromise, AbortPromise DEF Continue
  <2>6. CASE UNCHANGED vars
      BY <2>1, <2>6 DEF vars, committed, history
  <2>. QED BY <2>1, <2>2, <2>3, <2>4, <2>5, <2>6 DEF Next
<1>. QED BY <1>1, <1>2, InductiveInvariant, PTL DEF Spec, ImplementsPromise, Promise!Spec

=============================================================================
