--------------------------- MODULE ImageGateProofs ---------------------------
(***************************************************************************)
(* What the image gate promises, for any number of jobs, workers and       *)
(* reference sets and any budget: nothing is past the gate without a pass  *)
(* that stands, and no score HeyGen was paid on is overwritten.            *)
(*                                                                         *)
(* The argument: a job's row lock is held from the numbering of an attempt *)
(* to its commit, so the number is still one beyond every row when the row *)
(* is written.  Which of the passing rows is the latest is of no account:  *)
(* it is asked for again whenever a job passes or a key is reserved.       *)
(***************************************************************************)
EXTENDS ImageGate, FiniteSetTheorems, TLAPS

Holding(w) == txn[w] # NoTxn /\ txn[w].at # "row"

(* One transaction holds a job's row, numbered one beyond the attempts     *)
(* counted, and a revision finds the job as it left it.                    *)
LockInv ==
    \A w \in Workers : Holding(w) =>
        /\ \A v \in Workers : Holding(v) /\ txn[v].job = txn[w].job => v = w
        /\ txn[w].attempt = imageAttempt[txn[w].job] + 1
        /\ txn[w].step = "revise" => status[txn[w].job] = "image_failed"

(* No row is numbered beyond the attempts counted.                         *)
RowsCounted ==
    \A j \in Jobs, n \in Attempts : scores[j][n] # NoScore => n <= imageAttempt[j]

IInv ==
    /\ TypeOK
    /\ LockInv
    /\ RowsCounted
    /\ GatePassed
    /\ ScoreStands

-----------------------------------------------------------------------------
(* Facts about the data                                                    *)

LEMMA TxnIsTyped ==
    ASSUME TypeOK, NEW w \in Workers, txn[w] # NoTxn
    PROVE  /\ txn[w] \in Txn
           /\ txn[w].job \in Jobs /\ txn[w].attempt \in {0} \cup Attempts
           /\ txn[w].pack \in Packs /\ txn[w].step \in Steps
    BY DEF TypeOK, Txn

LEMMA AttemptsAreNaturals ==
    /\ Cap \in Nat /\ Attempts \subseteq 1..3
    /\ \A n \in Attempts : n \in Nat
    BY ImageGateAssumption DEF Attempts

(* A score that passed is the row (pass, hash).                            *)
LEMMA PassIsScore ==
    ASSUME TypeOK, NEW j \in Jobs, NEW n \in Passes(j)
    PROVE  /\ n \in Attempts /\ scores[j][n] # NoScore
           /\ scores[j][n].hash \in Packs
           /\ scores[j][n] = [verdict |-> "pass", hash |-> scores[j][n].hash]
<1>1. n \in Attempts /\ scores[j][n].verdict = "pass"
    BY DEF Passes
<1>2. scores[j][n] \in Score \cup {NoScore}
    BY <1>1 DEF TypeOK
<1>3. scores[j][n] \in Score
    BY <1>1, <1>2 DEF NoScore
<1>. QED BY <1>1, <1>3 DEF Score, NoScore

(* The gate's verdict on a job depends on its scores, their order and its  *)
(* hash only.                                                              *)
LEMMA ImagePassKept ==
    ASSUME NEW j \in Jobs, ImagePass(j), scores'[j] = scores[j],
           refHash'[j] = refHash[j], lastPass'[j] = lastPass[j]
    PROVE  ImagePass(j)'
<1>1. Passes(j)' = Passes(j)
    BY DEF Passes
<1>. QED BY <1>1 DEF ImagePass

-----------------------------------------------------------------------------
(* Type correctness                                                        *)

LEMMA InitTyped == Init => TypeOK
    BY ImageGateAssumption
    DEF Init, TypeOK, CanonicalStatus, Keys, NoBinding, NoScore

(* A pass is committed, and some that wait are earlier than it.            *)
LEMMA RecordPassTyped ==
    ASSUME TypeOK, NEW w \in Workers, txn[w] # NoTxn, RecordPass(w)
    PROVE  /\ lastPass' \in [Jobs -> {0} \cup Attempts]
           /\ txn' \in [Workers -> Txn \cup {NoTxn}]
           /\ \A v \in Workers : txn'[v] = IF v = w THEN NoTxn
                 ELSE IF txn[v] # NoTxn /\ ~Holding(v) /\ txn'[v] # txn[v]
                 THEN [txn[v] EXCEPT !.late = TRUE] ELSE txn[v]
           /\ \A j \in Jobs : j # txn[w].job => lastPass'[j] = lastPass[j]
<1>1. txn[w].job \in Jobs /\ txn[w].attempt \in {0} \cup Attempts
    BY TxnIsTyped
<1>2. CASE txn[w].late
    BY <1>1, <1>2 DEF RecordPass, TypeOK
<1>3. CASE ~txn[w].late
  <2>1. lastPass' = [lastPass EXCEPT ![txn[w].job] = txn[w].attempt]
      BY <1>3 DEF RecordPass
  <2>2. PICK earlier \in SUBSET {v \in Workers : Waits(v, txn[w].job)} :
            txn' = [v \in Workers |->
               IF v = w THEN NoTxn
               ELSE IF v \in earlier THEN [txn[v] EXCEPT !.late = TRUE] ELSE txn[v]]
      BY <1>3 DEF RecordPass
  <2>3. \A v \in earlier : v \in Workers /\ txn[v] # NoTxn /\ ~Holding(v)
      BY DEF Waits, Holding
  <2>4. \A v \in earlier : [txn[v] EXCEPT !.late = TRUE] \in Txn
      BY <2>3, TxnIsTyped DEF Txn
  <2>. QED BY <1>1, <2>1, <2>2, <2>3, <2>4 DEF TypeOK
<1>. QED BY <1>2, <1>3

LEMMA StepTyped ==
    ASSUME TypeOK, [Next]_vars
    PROVE  TypeOK'
<1>0. ASSUME NEW w \in Workers, NEW j \in Jobs, NEW step \in Steps, Open(w, j, step)
      PROVE  TypeOK'
  <2>1. txn' \in [Workers -> Txn \cup {NoTxn}]
    BY <1>0 DEF Open, TypeOK, Txn
  <2>. QED BY <1>0, <2>1 DEF Open, TypeOK, job
<1>1. ASSUME NEW w \in Workers, NEW j \in Jobs, BeginScore(w, j)
      PROVE  TypeOK'
  <2>1. NextAttempt(j) \in Attempts
    BY <1>1, ImageGateAssumption DEF BeginScore, WithinCap, NextAttempt, Attempts, TypeOK
  <2>2. txn[w] \in Txn
    BY <1>1, TxnIsTyped DEF BeginScore, Waits
  <2>3. [txn[w] EXCEPT !.attempt = NextAttempt(j),
                       !.pack = IF txn[w].step = "revise" THEN active ELSE @,
                       !.at = "budget"] \in Txn
    BY <2>1, <2>2 DEF Txn, TypeOK
  <2>4. txn' \in [Workers -> Txn \cup {NoTxn}]
    BY <1>1, <2>3 DEF BeginScore, TypeOK
  <2>. QED BY <1>1, <2>4 DEF BeginScore, TypeOK, job
<1>2. ASSUME NEW w \in Workers, ConsumeScorerBudget(w)
      PROVE  TypeOK'
  <2>1. [txn[w] EXCEPT !.at = "scorer"] \in Txn
    BY <1>2, TxnIsTyped DEF ConsumeScorerBudget, Txn
  <2>2. txn' \in [Workers -> Txn \cup {NoTxn}]
    BY <1>2, <2>1 DEF ConsumeScorerBudget, TypeOK
  <2>. QED BY <1>2, <2>2 DEF ConsumeScorerBudget, TypeOK, job
<1>3. ASSUME NEW w \in Workers, NEW verdict \in Verdicts, Scored(w, verdict)
      PROVE  TypeOK'
  <2>. DEFINE t == txn[w]
  <2>1. t.job \in Jobs /\ t.attempt \in {0} \cup Attempts /\ t.pack \in Packs
    BY <1>3, TxnIsTyped DEF Scored
  <2>2. status' \in [Jobs -> CanonicalStatus]
    BY <1>3, <2>1 DEF Scored, TypeOK, Outcome, CanonicalStatus
  <2>3. imageAttempt' \in [Jobs -> Nat] /\ refHash' \in [Jobs -> Packs \cup {NoPack}]
    <3>0. {0} \cup Attempts \subseteq Nat
      BY AttemptsAreNaturals
    <3>1. t.attempt \in Nat
      BY <2>1, <3>0, Zenon
    <3>. QED BY <1>3, <2>1, <3>1 DEF Scored, TypeOK
  <2>4. [verdict |-> verdict, hash |-> t.pack] \in Score
    BY <2>1 DEF Score
  <2>5. scores' \in [Jobs -> [Attempts -> Score \cup {NoScore}]]
    BY <1>3, <2>1, <2>4 DEF Scored, TypeOK
  <2>6. used' \in Nat
    BY <1>3 DEF Scored, TypeOK
  <2>7. lastPass' \in [Jobs -> {0} \cup Attempts] /\ txn' \in [Workers -> Txn \cup {NoTxn}]
    BY <1>3, RecordPassTyped DEF Scored, TypeOK
  <2>. QED BY <1>3, <2>2, <2>3, <2>5, <2>6, <2>7 DEF Scored, TypeOK
<1>4. ASSUME NEW w \in Workers, Rollback(w)
      PROVE  TypeOK'
    BY <1>4 DEF Rollback, TypeOK, job
<1>5. ASSUME NEW j \in Jobs, NEW to \in CanonicalStatus, TransitionJob(j, to)
      PROVE  TypeOK'
  <2>. DEFINE more == IF attempt[j] < MaxAttempts THEN attempt[j] + 1 ELSE attempt[j]
  <2>0. attempt[j] \in 0..MaxAttempts /\ attempt \in [Jobs -> 0..MaxAttempts]
    BY DEF TypeOK
  <2>6. more \in 0..MaxAttempts
    BY <2>0, ImageGateAssumption
  <2>7. attempt' = [attempt EXCEPT ![j] = more] \/ attempt' = attempt
    BY <1>5 DEF TransitionJob
  <2>1. attempt' \in [Jobs -> 0..MaxAttempts]
    BY <2>0, <2>6, <2>7
  <2>2. "dead" \in CanonicalStatus
    BY DEF CanonicalStatus
  <2>3. status' \in [Jobs -> CanonicalStatus]
    BY <1>5, <2>2 DEF TransitionJob, TypeOK
  <2>4. (status[j] = "dead") \in BOOLEAN
    OBVIOUS
  <2>5. revived' \in [Jobs -> BOOLEAN]
    BY <1>5, <2>4 DEF TransitionJob, TypeOK
  <2>. QED BY <1>5, <2>1, <2>3, <2>5 DEF TransitionJob, TypeOK
<1>6. ASSUME NEW j \in Jobs, ClaimJob(j)
      PROVE  TypeOK'
  <2>1. \E to \in CanonicalStatus : status' = [status EXCEPT ![j] = to]
    <3>1. {"image_running", "tts_running", "render_running"} \subseteq CanonicalStatus
      BY DEF CanonicalStatus
    <3>. QED BY <1>6, <3>1 DEF ClaimJob
  <2>2. status' \in [Jobs -> CanonicalStatus]
    BY <2>1 DEF TypeOK
  <2>3. imageAttempt' \in [Jobs -> Nat]
    <3>1. imageAttempt' = imageAttempt \/ imageAttempt' = [imageAttempt EXCEPT ![j] = @ + 1]
      BY <1>6 DEF ClaimJob
    <3>. QED BY <3>1 DEF TypeOK
  <2>. QED BY <1>6, <2>2, <2>3 DEF ClaimJob, TypeOK
<1>7. ASSUME NEW j \in Jobs, NEW key \in Keys, Bind(j, key), ImagePass(j)
      PROVE  bound' \in [Jobs -> [Keys -> Binding \cup {NoBinding}]]
  <2>1. lastPass[j] \in Passes(j) /\ lastPass[j] \in Attempts
    BY <1>7 DEF ImagePass, Passes
  <2>2. [attempt |-> lastPass[j], hash |-> scores[j][lastPass[j]].hash] \in Binding
    BY <2>1, PassIsScore DEF Binding, TypeOK
  <2>. QED BY <1>7, <2>2 DEF Bind, TypeOK
<1>8. ASSUME NEW j \in Jobs, ReserveAvatar(j)
      PROVE  TypeOK'
  <2>1. bound' \in [Jobs -> [Keys -> Binding \cup {NoBinding}]]
    BY <1>7, <1>8 DEF ReserveAvatar, AssertImagePass, Keys
  <2>2. status' \in [Jobs -> CanonicalStatus]
    BY <1>8 DEF ReserveAvatar, TypeOK, CanonicalStatus
  <2>. QED BY <1>8, <2>1, <2>2 DEF ReserveAvatar, TypeOK
<1>9. ASSUME NEW j \in Jobs, ReserveHorizontal(j)
      PROVE  TypeOK'
  <2>1. bound' \in [Jobs -> [Keys -> Binding \cup {NoBinding}]]
    BY <1>7, <1>9 DEF ReserveHorizontal, AssertImagePass, Keys
  <2>. QED BY <1>9, <2>1 DEF ReserveHorizontal, TypeOK, job
<1>10. ASSUME NEW p \in Packs, ReplacePack(p)
       PROVE  TypeOK'
    BY <1>10 DEF ReplacePack, TypeOK, job
<1>11. CASE UNCHANGED vars
    BY <1>11 DEF vars, job, TypeOK
<1>. QED
    BY <1>0, <1>1, <1>2, <1>3, <1>4, <1>5, <1>6, <1>8, <1>9, <1>10, <1>11 DEF Next

(* Every column of the gate keeps its type: attempts of at most            *)
(* image_gate_max_attempts, and verdicts of scores that were committed.    *)
THEOREM GateTyped == Spec => []TypeOK
<1>1. Init => TypeOK
    BY InitTyped
<1>2. TypeOK /\ [Next]_vars => TypeOK'
    BY StepTyped
<1>. QED BY <1>1, <1>2, PTL DEF Spec

-----------------------------------------------------------------------------
(* The inductive invariant                                                 *)

(* Who does not write to a job's rows leaves its locks, counts and charges *)
(* as they are.                                                            *)
LEMMA RowsCountedKept ==
    ASSUME TypeOK, RowsCounted, scores' = scores,
           \A j \in Jobs : imageAttempt'[j] \in Nat /\ imageAttempt'[j] >= imageAttempt[j]
    PROVE  RowsCounted'
<1>1. ASSUME NEW j \in Jobs, NEW n \in Attempts, scores[j][n] # NoScore
      PROVE  n <= imageAttempt'[j]
    BY <1>1, AttemptsAreNaturals DEF RowsCounted, TypeOK
<1>. QED BY <1>1 DEF RowsCounted

LEMMA GatePassedKept ==
    ASSUME TypeOK, GatePassed, UNCHANGED <<scores, refHash, lastPass, revived>>,
           \A j \in Jobs : status'[j] \in Rendering => status[j] \in Rendering
    PROVE  GatePassed'
<1>1. ASSUME NEW j \in Jobs, status'[j] \in Rendering
      PROVE  (revived[j] \/ ImagePass(j))'
    BY <1>1, ImagePassKept DEF GatePassed
<1>. QED BY <1>1 DEF GatePassed

(* A transaction that nobody but its worker writes around.                 *)
LEMMA LocksKept ==
    ASSUME LockInv, TypeOK,
           \A w \in Workers : Holding(w)' =>
               /\ Holding(w)
               /\ txn'[w].job = txn[w].job
               /\ txn'[w].step = txn[w].step
               /\ txn'[w].attempt = txn[w].attempt
               /\ status'[txn[w].job] = status[txn[w].job]
               /\ imageAttempt'[txn[w].job] = imageAttempt[txn[w].job]
    PROVE  LockInv'
    BY DEF LockInv

LEMMA BeginScoreInductive ==
    ASSUME IInv, NEW w \in Workers, NEW j \in Jobs, BeginScore(w, j)
    PROVE  LockInv' /\ RowsCounted' /\ GatePassed' /\ ScoreStands'
<1>0. txn[w] \in Txn /\ txn[w].job = j
    BY TxnIsTyped DEF BeginScore, Waits, IInv
<1>1. /\ \A v \in Workers : v # w => txn'[v] = txn[v]
      /\ txn'[w].job = j /\ txn'[w].step = txn[w].step
      /\ txn'[w].attempt = imageAttempt[j] + 1
    BY <1>0 DEF BeginScore, IInv, TypeOK, NextAttempt, Txn
<1>2. \A v \in Workers : Holding(v) => txn[v].job # j
    BY DEF BeginScore, Unlocked, Holds, Holding
<1>3. txn[w].step = "revise" => status[j] = "image_failed"
    BY DEF BeginScore
<1>4. UNCHANGED job
    BY DEF BeginScore
<1>5. LockInv'
    BY <1>1, <1>2, <1>3, <1>4 DEF LockInv, Holding, IInv, job
<1>. QED
    BY <1>4, <1>5, RowsCountedKept, GatePassedKept
    DEF IInv, job, BeginScore, ScoreStands, TypeOK

(* The attempt that is scored is one of the cap's, and a new one.          *)
LEMMA NumberedAttempt ==
    ASSUME IInv, NEW w \in Workers, NEW verdict \in Verdicts, Scored(w, verdict)
    PROVE  /\ Holding(w) /\ txn[w].job \in Jobs /\ txn[w].attempt \in Attempts
           /\ txn[w].attempt = imageAttempt[txn[w].job] + 1
           /\ imageAttempt[txn[w].job] \in Nat
<1>1. Holding(w) /\ txn[w].job \in Jobs /\ txn[w].attempt \in {0} \cup Attempts
    BY TxnIsTyped DEF Scored, Holding, IInv
<1>2. txn[w].attempt = imageAttempt[txn[w].job] + 1 /\ imageAttempt[txn[w].job] \in Nat
    BY <1>1 DEF IInv, LockInv, TypeOK
<1>. QED BY <1>1, <1>2

LEMMA ScoredInductive ==
    ASSUME IInv, NEW w \in Workers, NEW verdict \in Verdicts, Scored(w, verdict)
    PROVE  LockInv' /\ RowsCounted' /\ GatePassed' /\ ScoreStands'
<1>. DEFINE i == txn[w].job
            m == txn[w].attempt
<1>1. /\ Holding(w) /\ i \in Jobs /\ m \in Attempts
      /\ m = imageAttempt[i] + 1
      /\ imageAttempt[i] \in Nat
    BY NumberedAttempt
<1>2. \A v \in Workers : Holding(v) /\ v # w => txn[v].job # i
    BY <1>1 DEF IInv, LockInv
<1>3. \A v \in Workers : txn'[v] = IF v = w THEN NoTxn
         ELSE IF txn[v] # NoTxn /\ ~Holding(v) /\ txn'[v] # txn[v]
         THEN [txn[v] EXCEPT !.late = TRUE] ELSE txn[v]
    BY RecordPassTyped DEF Scored, IInv, TypeOK
<1>4. \A j \in Jobs : j # i =>
         /\ status'[j] = status[j] /\ imageAttempt'[j] = imageAttempt[j]
         /\ refHash'[j] = refHash[j] /\ scores'[j] = scores[j]
         /\ lastPass'[j] = lastPass[j]
  <2>1. \A j \in Jobs : j # i => lastPass'[j] = lastPass[j]
    BY <1>1, RecordPassTyped DEF Scored, IInv
  <2>. QED BY <1>1, <2>1 DEF Scored, IInv, TypeOK
<1>5. /\ status'[i] = Outcome(verdict, m)
      /\ imageAttempt'[i] = m
      /\ \A n \in Attempts : n # m => scores'[i][n] = scores[i][n]
    BY <1>1 DEF Scored, IInv, TypeOK
(* The row is a new one.                                                   *)
<1>6. scores[i][m] = NoScore
    BY <1>1, AttemptsAreNaturals DEF IInv, RowsCounted
<1>7. LockInv'
  <2>0. \A v \in Workers : ~Holding(v) => ~Holding(v)'
    BY <1>3, TxnIsTyped DEF Holding, IInv, Txn
  <2>1. \A v \in Workers : Holding(v)' => Holding(v) /\ txn'[v] = txn[v] /\ txn[v].job # i
    BY <1>2, <1>3, <2>0 DEF Holding
  <2>2. \A v \in Workers : Holding(v) => txn[v].job \in Jobs
    BY TxnIsTyped DEF IInv, Holding
  <2>. QED BY <2>1, <2>2, <1>4, LocksKept DEF IInv
<1>8. RowsCounted'
  <2>1. ASSUME NEW j \in Jobs, NEW n \in Attempts, scores'[j][n] # NoScore
        PROVE  n <= imageAttempt'[j]
    <3>1. CASE j # i
      BY <2>1, <3>1, <1>4 DEF IInv, RowsCounted
    <3>2. CASE j = i /\ n = m
      BY <3>2, <1>5, AttemptsAreNaturals
    <3>3. CASE j = i /\ n # m
      BY <2>1, <3>3, <1>1, <1>5, AttemptsAreNaturals DEF IInv, RowsCounted
    <3>. QED BY <3>1, <3>2, <3>3
  <2>. QED BY <2>1 DEF RowsCounted
<1>9. GatePassed'
  <2>1. ASSUME NEW j \in Jobs, status'[j] \in Rendering
        PROVE  (revived[j] \/ ImagePass(j))'
    <3>1. j # i
      BY <2>1, <1>5 DEF Outcome, Rendering
    <3>2. revived[j] \/ ImagePass(j)
      BY <2>1, <3>1, <1>4 DEF IInv, GatePassed
    <3>3. revived' = revived
      BY DEF Scored
    <3>. QED BY <3>1, <3>2, <3>3, <1>4, ImagePassKept
  <2>. QED BY <2>1 DEF GatePassed
<1>10. ScoreStands'
  <2>1. ASSUME NEW j \in Jobs, NEW k \in Keys, bound[j][k] # NoBinding
        PROVE  scores'[j][bound[j][k].attempt] = scores[j][bound[j][k].attempt]
    <3>0. bound[j][k] \in Binding
      BY <2>1 DEF IInv, TypeOK
    <3>1. /\ scores[j][bound[j][k].attempt].verdict = "pass"
          /\ bound[j][k].attempt \in Attempts
      <4>1. scores[j][bound[j][k].attempt] = [verdict |-> "pass", hash |-> bound[j][k].hash]
        BY <2>1 DEF IInv, ScoreStands
      <4>2. bound[j][k].attempt \in Attempts
        BY <3>0 DEF Binding
      <4>. QED BY <4>1, <4>2
    <3>2. CASE j = i
      BY <3>1, <3>2, <1>5, <1>6 DEF NoScore
    <3>. QED BY <3>2, <1>4
  <2>2. bound' = bound
    BY DEF Scored
  <2>. QED BY <2>1, <2>2 DEF IInv, ScoreStands
<1>. QED BY <1>7, <1>8, <1>9, <1>10

LEMMA TransitionInductive ==
    ASSUME IInv, NEW j \in Jobs, NEW to \in CanonicalStatus, TransitionJob(j, to)
    PROVE  LockInv' /\ RowsCounted' /\ GatePassed' /\ ScoreStands'
<1>1. /\ UNCHANGED <<imageAttempt, refHash, scores, lastPass, txn, bound>>
      /\ \A i \in Jobs : i # j => status'[i] = status[i] /\ revived'[i] = revived[i]
      /\ status'[j] = to \/ to \notin Rendering \/ status'[j] = "dead" \/ to \in Failures
    BY DEF TransitionJob, IInv, TypeOK
<1>2. \A w \in Workers : Holding(w) => txn[w].job # j /\ txn[w].job \in Jobs
    BY TxnIsTyped DEF TransitionJob, Unlocked, Holds, Holding, IInv
<1>3. LockInv'
    BY <1>1, <1>2, LocksKept DEF IInv, Holding
<1>4. RowsCounted'
    BY <1>1, RowsCountedKept DEF IInv, TypeOK
<1>5. ASSUME status'[j] \in Rendering
      PROVE  revived'[j] \/ ImagePass(j)
  <2>1. status'[j] = to
    <3>1. "dead" \notin Rendering
      BY DEF Rendering
    <3>. QED BY <1>5, <3>1 DEF TransitionJob, IInv, TypeOK
  <2>2. to \in CanonicalTransitions[status[j]] /\ status[j] \in CanonicalStatus
    BY DEF TransitionJob, IInv, TypeOK
  <2>3. revived'[j] = IF to \in ToRendering /\ status[j] \in {"dead", "image_ready"}
                      THEN status[j] = "dead" ELSE revived[j]
    BY DEF TransitionJob, IInv, TypeOK
  <2>4. CASE status[j] \in Rendering
    <3>1. status[j] \notin {"dead", "image_ready"}
      BY <2>4 DEF Rendering
    <3>. QED BY <2>3, <2>4, <3>1 DEF IInv, GatePassed
  <2>5. CASE status[j] \notin Rendering
    <3>1. status[j] \in {"draft", "image_ready", "dead"} /\ to \in ToRendering
      BY <1>5, <2>1, <2>2, <2>5
      DEF CanonicalTransitions, CanonicalStatus, Rendering, ToRendering
    <3>2. ~ImageGateBlocks(j, to)
      BY DEF TransitionJob
    <3>3. CASE status[j] = "dead"
      BY <3>1, <3>3, <2>3
    <3>4. CASE status[j] # "dead"
      BY <3>1, <3>2, <3>4 DEF ImageGateBlocks
    <3>. QED BY <3>3, <3>4
  <2>. QED BY <2>4, <2>5
<1>6. GatePassed'
  <2>1. ASSUME NEW i \in Jobs, status'[i] \in Rendering
        PROVE  (revived[i] \/ ImagePass(i))'
    <3>1. revived'[i] \/ ImagePass(i)
      BY <2>1, <1>1, <1>5 DEF IInv, GatePassed
    <3>. QED BY <3>1, <1>1, ImagePassKept
  <2>. QED BY <2>1 DEF GatePassed
<1>7. ScoreStands'
    BY <1>1 DEF IInv, ScoreStands
<1>. QED BY <1>3, <1>4, <1>6, <1>7

LEMMA ClaimInductive ==
    ASSUME IInv, NEW j \in Jobs, ClaimJob(j)
    PROVE  LockInv' /\ RowsCounted' /\ GatePassed' /\ ScoreStands'
<1>1. /\ UNCHANGED <<refHash, scores, lastPass, txn, revived, bound>>
      /\ \A i \in Jobs : i # j =>
            status'[i] = status[i] /\ imageAttempt'[i] = imageAttempt[i]
  <2>1. UNCHANGED <<refHash, scores, lastPass, txn, revived, bound>>
    BY DEF ClaimJob
  <2>2. \A i \in Jobs : i # j => status'[i] = status[i]
    BY DEF ClaimJob, IInv, TypeOK
  <2>3. \A i \in Jobs : i # j => imageAttempt'[i] = imageAttempt[i]
    BY DEF ClaimJob, IInv, TypeOK
  <2>. QED BY <2>1, <2>2, <2>3
<1>4. \A i \in Jobs : imageAttempt'[i] \in Nat /\ imageAttempt'[i] >= imageAttempt[i]
  <2>1. imageAttempt \in [Jobs -> Nat]
    BY DEF IInv, TypeOK
  <2>2. imageAttempt' = imageAttempt \/ imageAttempt' = [imageAttempt EXCEPT ![j] = @ + 1]
    BY DEF ClaimJob
  <2>. QED BY <2>1, <2>2
<1>5. status'[j] \in Rendering => status[j] \in Rendering
  <2>1. \/ status'[j] = "image_running"
        \/ status[j] \in {"tts_queued", "render_queued"}
    BY DEF ClaimJob, IInv, TypeOK
  <2>. QED BY <2>1 DEF Rendering
<1>2. \A w \in Workers : Holding(w) => txn[w].job # j /\ txn[w].job \in Jobs
    BY TxnIsTyped DEF ClaimJob, Unlocked, Holds, Holding, IInv
<1>3. LockInv'
    BY <1>1, <1>2, LocksKept DEF IInv, Holding
<1>. QED
    BY <1>1, <1>3, <1>4, <1>5, RowsCountedKept, GatePassedKept DEF IInv, ScoreStands

(* The key is bound to the last pass, which is a row that passed.          *)
LEMMA BindStands ==
    ASSUME IInv, NEW j \in Jobs, NEW key \in Keys, Bind(j, key), ImagePass(j),
           scores' = scores
    PROVE  ScoreStands'
<1>1. lastPass[j] \in Passes(j)
    BY DEF ImagePass
<1>2. scores[j][lastPass[j]] = [verdict |-> "pass", hash |-> scores[j][lastPass[j]].hash]
    BY <1>1, PassIsScore DEF IInv
<1>3. ASSUME NEW i \in Jobs, NEW k \in Keys, bound'[i][k] # NoBinding
      PROVE  scores[i][bound'[i][k].attempt] = [verdict |-> "pass", hash |-> bound'[i][k].hash]
  <2>1. CASE i = j /\ k = key
    <3>1. bound'[j][key] = [attempt |-> lastPass[j],
                            hash |-> scores[j][lastPass[j]].hash]
      BY DEF Bind, IInv, TypeOK
    <3>. QED BY <2>1, <3>1, <1>2
  <2>2. CASE ~(i = j /\ k = key)
    <3>1. bound'[i][k] = bound[i][k]
      BY <2>2 DEF Bind, IInv, TypeOK
    <3>. QED BY <1>3, <3>1 DEF IInv, ScoreStands
  <2>. QED BY <2>1, <2>2
<1>. QED BY <1>3 DEF ScoreStands

LEMMA ReserveInductive ==
    ASSUME IInv, NEW j \in Jobs, ReserveAvatar(j) \/ ReserveHorizontal(j)
    PROVE  LockInv' /\ RowsCounted' /\ GatePassed' /\ ScoreStands'
<1>1. /\ UNCHANGED <<imageAttempt, refHash, scores, lastPass, txn, revived>>
      /\ \A i \in Jobs : i # j => status'[i] = status[i]
      /\ status'[j] \in Rendering => status[j] \in Rendering
      /\ ImagePass(j)
    BY DEF ReserveAvatar, ReserveHorizontal, AssertImagePass, job, IInv, TypeOK, Rendering
<1>2. \A w \in Workers : Holding(w) => txn[w].job # j /\ txn[w].job \in Jobs
    BY TxnIsTyped DEF ReserveAvatar, ReserveHorizontal, Unlocked, Holds, Holding, IInv
<1>3. LockInv'
    BY <1>1, <1>2, LocksKept DEF IInv, Holding
<1>4. ScoreStands'
    BY <1>1, BindStands DEF ReserveAvatar, ReserveHorizontal, Keys
<1>5. RowsCounted'
    BY <1>1, RowsCountedKept DEF IInv, TypeOK
<1>6. GatePassed'
    BY <1>1, GatePassedKept DEF IInv
<1>. QED BY <1>3, <1>4, <1>5, <1>6

LEMMA StepInductive ==
    ASSUME IInv, [Next]_vars
    PROVE  IInv'
<1>1. TypeOK'
    BY StepTyped DEF IInv
<1>2. LockInv' /\ RowsCounted' /\ GatePassed' /\ ScoreStands'
  <2>1. ASSUME NEW w \in Workers,
               \/ \E j \in Jobs, step \in Steps : Open(w, j, step)
               \/ ConsumeScorerBudget(w) \/ Rollback(w)
        PROVE  LockInv' /\ RowsCounted' /\ GatePassed' /\ ScoreStands'
    <3>1. UNCHANGED <<job, revived, bound>>
      BY <2>1 DEF Open, ConsumeScorerBudget, Rollback
    <3>2. \A v \in Workers : Holding(v)' =>
             /\ Holding(v) /\ txn'[v].job = txn[v].job
             /\ txn'[v].step = txn[v].step /\ txn'[v].attempt = txn[v].attempt
      <4>1. CASE \E j \in Jobs, step \in Steps : Open(w, j, step)
        BY <4>1 DEF Open, Holding, IInv, TypeOK
      <4>2. CASE ConsumeScorerBudget(w) \/ Rollback(w)
        <5>1. \A v \in Workers : v # w => txn'[v] = txn[v]
          BY <4>2 DEF ConsumeScorerBudget, Rollback, IInv, TypeOK
        <5>2. \/ txn'[w] = NoTxn
              \/ Holding(w) /\ txn'[w] = [txn[w] EXCEPT !.at = "scorer"]
          BY <4>2 DEF ConsumeScorerBudget, Rollback, Holding, IInv, TypeOK
        <5>3. txn[w] # NoTxn => txn[w] \in Txn
          BY TxnIsTyped DEF IInv
        <5>. QED BY <5>1, <5>2, <5>3 DEF Holding, Txn
      <4>. QED BY <2>1, <4>1, <4>2
    <3>. QED
      BY <3>1, <3>2, LocksKept, RowsCountedKept, GatePassedKept
      DEF job, IInv, ScoreStands, TypeOK
  <2>2. CASE UNCHANGED vars \/ \E p \in Packs : ReplacePack(p)
    <3>1. UNCHANGED <<job, txn, revived, bound>>
      BY <2>2 DEF vars, ReplacePack
    <3>. QED
      BY <3>1, LocksKept, RowsCountedKept, GatePassedKept
      DEF job, Holding, IInv, ScoreStands, TypeOK
  <2>. QED
    BY <2>1, <2>2, BeginScoreInductive, ScoredInductive, TransitionInductive,
       ClaimInductive, ReserveInductive
    DEF Next
<1>. QED BY <1>1, <1>2 DEF IInv

LEMMA InitInductive == Init => IInv
    BY InitTyped DEF Init, IInv, LockInv, Holding, RowsCounted, GatePassed, ScoreStands, Rendering

(* The gate's inductive invariant.                                         *)
THEOREM GateInvariant == Spec => []IInv
<1>1. IInv /\ [Next]_vars => IInv'
    BY StepInductive
<1>. QED BY <1>1, InitInductive, PTL DEF Spec

(* assert_image_pass_for_heygen and transition_job let no job into TTS or  *)
(* rendering without a pass for the set its hash names, and scoring again  *)
(* never takes it away, but for jobs raised from the dead.                 *)
THEOREM NothingSlipsThrough == Spec => []GatePassed
<1>1. IInv => GatePassed
    BY DEF IInv
<1>. QED BY <1>1, GateInvariant, PTL

(* ON CONFLICT DO UPDATE in record_score never overwrites a score that     *)
(* HeyGen was paid on.                                                     *)
THEOREM ChargesStand == Spec => []ScoreStands
<1>1. IInv => ScoreStands
    BY DEF IInv
<1>. QED BY <1>1, GateInvariant, PTL

-----------------------------------------------------------------------------
(* The daily budget                                                        *)

AtScorer(w) == txn[w] # NoTxn /\ txn[w].at = "scorer"

(* One worker at a time has consumed a unit that is not committed, and the *)
(* unit it consumed is there.                                              *)
BudgetInv ==
    /\ \A v, w \in Workers : AtScorer(v) /\ AtScorer(w) => v = w
    /\ \A w \in Workers : AtScorer(w) => used < Budget
    /\ IsFiniteSet(Rows)
    /\ BudgetTellsScores

LEMMA ConsumeKeepsBudget ==
    ASSUME IInv, BudgetInv, NEW w \in Workers, ConsumeScorerBudget(w)
    PROVE  BudgetInv'
<1>1. UNCHANGED <<scores, used>> /\ used < Budget /\ \A v \in Workers : ~AtScorer(v)
    BY DEF ConsumeScorerBudget, BudgetLeft, AtScorer, job
<1>2. \A v \in Workers \ {w} : txn'[v] = txn[v]
    BY DEF ConsumeScorerBudget, IInv, TypeOK
<1>3. Rows' = Rows
    BY <1>1 DEF Rows
<1> QED BY <1>1, <1>2, <1>3 DEF BudgetInv, BudgetTellsScores, AtScorer

(* The row that is written is a new one, and its unit was free.            *)
LEMMA ScoredKeepsBudget ==
    ASSUME IInv, BudgetInv, NEW w \in Workers, NEW verdict \in Verdicts, Scored(w, verdict)
    PROVE  BudgetInv'
<1> DEFINE i == txn[w].job
           m == txn[w].attempt
<1>1. /\ AtScorer(w) /\ i \in Jobs /\ m \in Attempts /\ m = imageAttempt[i] + 1
      /\ imageAttempt[i] \in Nat
    BY NumberedAttempt DEF Scored, AtScorer
<1>2. scores[i][m] = NoScore
    BY <1>1, AttemptsAreNaturals DEF IInv, RowsCounted
<1>3. scores'[i][m] # NoScore
  <2>1. scores'[i][m].verdict = verdict
      BY <1>1 DEF Scored, IInv, TypeOK
  <2>2. "none" \notin Verdicts /\ NoScore.verdict = "none"
      BY DEF Verdicts, NoScore
  <2> QED BY <2>1, <2>2
<1>4. \A j \in Jobs, n \in Attempts : <<j, n>> # <<i, m>> => scores'[j][n] = scores[j][n]
    BY <1>1 DEF Scored, IInv, TypeOK
<1>5. Rows' = Rows \cup {<<i, m>>} /\ <<i, m>> \notin Rows
    BY <1>1, <1>2, <1>3, <1>4 DEF Rows
<1>6. IsFiniteSet(Rows') /\ Cardinality(Rows') = Cardinality(Rows) + 1
    BY <1>5, FS_AddElement DEF BudgetInv
<1>7. used < Budget /\ used' = used + 1 /\ used \in Nat /\ Budget \in Nat
    BY <1>1, ImageGateAssumption DEF BudgetInv, Scored, IInv, TypeOK
<1>8. \A v \in Workers : ~AtScorer(v)'
  <2>1. \A v \in Workers : txn'[v] = IF v = w THEN NoTxn
           ELSE IF txn[v] # NoTxn /\ ~Holding(v) /\ txn'[v] # txn[v]
           THEN [txn[v] EXCEPT !.late = TRUE] ELSE txn[v]
      BY RecordPassTyped DEF Scored, IInv, TypeOK
  <2>2. \A v \in Workers : AtScorer(v)' => AtScorer(v) /\ v # w
      BY <2>1, TxnIsTyped DEF AtScorer, Holding, IInv, Txn
  <2> QED BY <1>1, <2>2 DEF BudgetInv
<1> QED BY <1>6, <1>7, <1>8 DEF BudgetInv, BudgetTellsScores

LEMMA OthersKeepBudget ==
    ASSUME IInv, BudgetInv, UNCHANGED <<scores, used>>,
           \A w \in Workers : AtScorer(w)' => AtScorer(w)
    PROVE  BudgetInv'
<1>1. Rows' = Rows
    BY DEF Rows
<1> QED BY <1>1 DEF BudgetInv, BudgetTellsScores

LEMMA StepKeepsBudget ==
    ASSUME IInv, BudgetInv, [Next]_vars
    PROVE  BudgetInv'
<1>0. ASSUME NEW w \in Workers, NEW j \in Jobs, NEW step \in Steps, Open(w, j, step)
      PROVE  BudgetInv'
  <2>1. (\A v \in Workers : v # w => txn'[v] = txn[v]) /\ txn'[w].at = "row"
      BY <1>0 DEF Open, IInv, TypeOK
  <2> QED BY <1>0, <2>1, OthersKeepBudget DEF Open, job, AtScorer
<1>1. ASSUME NEW w \in Workers, NEW j \in Jobs, BeginScore(w, j)
      PROVE  BudgetInv'
  <2>1. txn[w] \in Txn
      BY <1>1, TxnIsTyped DEF BeginScore, Waits, IInv
  <2>2. (\A v \in Workers : v # w => txn'[v] = txn[v]) /\ txn'[w].at = "budget"
      BY <1>1, <2>1 DEF BeginScore, IInv, TypeOK, Txn
  <2> QED BY <1>1, <2>2, OthersKeepBudget DEF BeginScore, job, AtScorer
<1>2. ASSUME NEW w \in Workers, Rollback(w)
      PROVE  BudgetInv'
  <2>1. \A v \in Workers : txn'[v] = IF v = w THEN NoTxn ELSE txn[v]
      BY <1>2 DEF Rollback, IInv, TypeOK
  <2> QED BY <1>2, <2>1, OthersKeepBudget DEF Rollback, job, AtScorer
<1>3. ASSUME UNCHANGED <<scores, used, txn>>
      PROVE  BudgetInv'
    BY <1>3, OthersKeepBudget DEF AtScorer
<1>4. ASSUME NEW j \in Jobs,
             (\E to \in CanonicalStatus : TransitionJob(j, to)) \/ ClaimJob(j)
                \/ ReserveAvatar(j) \/ ReserveHorizontal(j)
      PROVE  BudgetInv'
    BY <1>3, <1>4 DEF TransitionJob, ClaimJob, ReserveAvatar, ReserveHorizontal, job
<1>5. CASE UNCHANGED vars \/ \E p \in Packs : ReplacePack(p)
    BY <1>3, <1>5 DEF vars, job, ReplacePack
<1> QED
    BY <1>0, <1>1, <1>2, <1>4, <1>5, ConsumeKeepsBudget, ScoredKeepsBudget DEF Next

(* The day's counter is the number of scores on record and stays within    *)
(* the limit, for any workers that consume it at the same time.            *)
THEOREM BudgetCountsScores == Spec => []BudgetTellsScores
<1>1. Init => BudgetInv
  <2> SUFFICES ASSUME Init PROVE BudgetInv
      OBVIOUS
  <2>1. Rows = {}
      BY DEF Init, Rows
  <2>2. IsFiniteSet({}) /\ Cardinality({}) = 0
      BY FS_EmptySet
  <2>3. \A w \in Workers : ~AtScorer(w)
      BY DEF Init, AtScorer
  <2> QED BY <2>1, <2>2, <2>3, ImageGateAssumption DEF Init, BudgetInv, BudgetTellsScores
<1>2. IInv /\ BudgetInv /\ [Next]_vars => BudgetInv'
    BY StepKeepsBudget
<1>3. BudgetInv => BudgetTellsScores
    BY DEF BudgetInv
<1> QED BY <1>1, <1>2, <1>3, GateInvariant, PTL DEF Spec

=============================================================================
