------------------------------- MODULE Outbox -------------------------------
(***************************************************************************)
(* The webhook outbox (src/app/services/outbox.py): rows that are inserted *)
(* with the change they announce and POSTed later by any number of         *)
(* flushers (the worker's tick, the work step flush_outbox, the end of the *)
(* HeyGen webhook, the staging of a job, POST /admin/outbox/flush).        *)
(*                                                                         *)
(* flush_outbox claims its rows, POSTs them and marks them in ONE          *)
(* transaction: what it writes is private (todo, heard, failed) and the    *)
(* rows stay locked until it commits.  So no committed row is ever         *)
(* 'delivering', and reclaim_stale_delivering, which looks for such rows,  *)
(* has no step here.                                                       *)
(***************************************************************************)
EXTENDS Integers, FiniteSets

CONSTANTS
    Rows,         \* ids of webhook_outbox
    Flushers,     \* processes and requests that call flush_outbox
    Worker,       \* the one that calls it again and again
    Limit,        \* rows per flush
    MaxAttempts,  \* webhook_outbox.max_attempts
    MaxAborts     \* bound: flushes that are rolled back

ASSUME OutboxAssumption ==
    /\ Worker \in Flushers
    /\ Limit \in Nat \ {0}
    /\ MaxAttempts \in Nat \ {0}
    /\ MaxAborts \in Nat

VARIABLES
    status,    \* committed status, "absent" before the row is inserted
    attempts,  \* committed attempts: failures that were recorded
    due,       \* next_attempt_at has come
    todo,      \* rows each open flush has locked and not POSTed yet
    heard,     \* rows it has POSTed and marked delivered
    failed,    \* rows it has POSTed and marked as failures
    sent,      \* history: POSTs of a row
    received,  \* history: POSTs the receiver took
    unheard,   \* history: of these, the ones whose answer was lost
    undone,    \* history: POSTs of flushes that were rolled back
    aborts     \* history: rollbacks

committed == <<status, attempts, due>>
local == <<todo, heard, failed>>
history == <<sent, received, unheard, undone, aborts>>
vars == <<committed, local, history>>

TypeOK ==
    /\ status \in [Rows -> {"absent", "pending", "delivered", "dead"}]
    /\ attempts \in [Rows -> 0..MaxAttempts]
    /\ due \in [Rows -> BOOLEAN]
    /\ todo \in [Flushers -> SUBSET Rows]
    /\ heard \in [Flushers -> SUBSET Rows]
    /\ failed \in [Flushers -> SUBSET Rows]
    /\ sent \in [Rows -> Nat]
    /\ received \in [Rows -> Nat]
    /\ unheard \in [Rows -> Nat]
    /\ undone \in [Rows -> Nat]
    /\ aborts \in 0..MaxAborts

Init ==
    /\ status = [r \in Rows |-> "absent"]
    /\ attempts = [r \in Rows |-> 0]
    /\ due = [r \in Rows |-> FALSE]
    /\ todo = [f \in Flushers |-> {}]
    /\ heard = [f \in Flushers |-> {}]
    /\ failed = [f \in Flushers |-> {}]
    /\ sent = [r \in Rows |-> 0]
    /\ received = [r \in Rows |-> 0]
    /\ unheard = [r \in Rows |-> 0]
    /\ undone = [r \in Rows |-> 0]
    /\ aborts = 0

-----------------------------------------------------------------------------
Posted(f) == heard[f] \cup failed[f]
Claimed(f) == todo[f] \cup Posted(f)

(* Variant: no row is locked.                                              *)
NothingLocked == {}

(* The rows that FOR UPDATE SKIP LOCKED passes over.                       *)
Locked == UNION {Claimed(f) : f \in Flushers}

(* enqueue, in the transaction of the change it announces.                 *)
Enqueue(r) ==
    /\ status[r] = "absent"
    /\ status' = [status EXCEPT ![r] = "pending"]
    /\ due' = [due EXCEPT ![r] = TRUE]
    /\ UNCHANGED <<attempts, local, history>>

(* Variant: without its cap the delay of the last attempts never ends.     *)
BackoffUncapped(r) ==
    /\ status[r] = "pending" /\ ~due[r]
    /\ attempts[r] + 1 < MaxAttempts
    /\ due' = [due EXCEPT ![r] = TRUE]
    /\ UNCHANGED <<status, attempts, local, history>>

(* The delay of _backoff_seconds, an hour at most, has passed.             *)
BackoffEnds(r) ==
    /\ status[r] = "pending" /\ ~due[r]
    /\ due' = [due EXCEPT ![r] = TRUE]
    /\ UNCHANGED <<status, attempts, local, history>>

Claimable == {r \in Rows : status[r] = "pending" /\ due[r]} \ Locked

Smaller(m, n) == IF m < n THEN m ELSE n

(* claim_due.  Which of the due rows come first is left open.              *)
ClaimDue(f) ==
    /\ Claimed(f) = {}
    /\ Claimable # {}
    /\ \E S \in SUBSET Claimable :
          /\ Cardinality(S) = Smaller(Limit, Cardinality(Claimable))
          /\ todo' = [todo EXCEPT ![f] = S]
    /\ UNCHANGED <<committed, heard, failed, history>>

(* One turn of the loop of process_due: the POST, and mark_delivered or    *)
(* mark_failure.  A timeout or a broken connection is a failure whether or *)
(* not the receiver took the message.                                      *)
Deliver(f, r) ==
    /\ r \in todo[f]
    /\ todo' = [todo EXCEPT ![f] = @ \ {r}]
    /\ sent' = [sent EXCEPT ![r] = @ + 1]
    /\ \/ /\ heard' = [heard EXCEPT ![f] = @ \cup {r}]
          /\ received' = [received EXCEPT ![r] = @ + 1]
          /\ UNCHANGED <<failed, unheard>>
       \/ /\ failed' = [failed EXCEPT ![f] = @ \cup {r}]
          /\ received' = [received EXCEPT ![r] = @ + 1]
          /\ unheard' = [unheard EXCEPT ![r] = @ + 1]
          /\ UNCHANGED heard
       \/ /\ failed' = [failed EXCEPT ![f] = @ \cup {r}]
          /\ UNCHANGED <<heard, received, unheard>>
    /\ UNCHANGED <<committed, undone, aborts>>

(* Variant: a row is given up one attempt early.                           *)
DeadEarly(n) == n + 1 >= MaxAttempts

(* mark_failure                                                            *)
DeadAt(n) == n >= MaxAttempts

(* Variant: a failure is not counted.                                      *)
UncountedMarks(f) ==
    /\ status' = [r \in Rows |->
          IF r \in heard[f] THEN "delivered"
          ELSE IF r \in failed[f] /\ DeadAt(attempts[r] + 1) THEN "dead" ELSE status[r]]
    /\ attempts' = attempts
    /\ due' = [r \in Rows |-> due[r] /\ r \notin failed[f]]

(* What the marks of a flush amount to: a delivered row keeps its count, a *)
(* failed one waits for its next attempt or is dead.                       *)
Marks(f) ==
    /\ status' = [r \in Rows |->
          IF r \in heard[f] THEN "delivered"
          ELSE IF r \in failed[f] /\ DeadAt(attempts[r] + 1) THEN "dead" ELSE status[r]]
    /\ attempts' = [r \in Rows |-> IF r \in failed[f] THEN attempts[r] + 1 ELSE attempts[r]]
    /\ due' = [r \in Rows |-> due[r] /\ r \notin failed[f]]

Close(f) ==
    /\ todo' = [todo EXCEPT ![f] = {}]
    /\ heard' = [heard EXCEPT ![f] = {}]
    /\ failed' = [failed EXCEPT ![f] = {}]

Commit(f) ==
    /\ todo[f] = {}
    /\ Posted(f) # {}
    /\ Marks(f)
    /\ Close(f)
    /\ UNCHANGED history

(* The process is killed or loses its connection: the rows are what they   *)
(* were before the flush, and what it has POSTed is forgotten.             *)
Abort(f) ==
    /\ Claimed(f) # {}
    /\ aborts < MaxAborts
    /\ aborts' = aborts + 1
    /\ undone' = [r \in Rows |-> IF r \in Posted(f) THEN undone[r] + 1 ELSE undone[r]]
    /\ Close(f)
    /\ UNCHANGED <<committed, sent, received, unheard>>

Continue(f) == Commit(f) \/ \E r \in Rows : Deliver(f, r)

Next ==
    \/ \E r \in Rows : Enqueue(r) \/ BackoffEnds(r)
    \/ \E f \in Flushers : ClaimDue(f) \/ Continue(f) \/ Abort(f)

(* Time passes, a flush that has begun goes on until it commits or is      *)
(* killed, and the worker flushes at every turn of its loop.               *)
Fairness ==
    /\ \A r \in Rows : WF_vars(BackoffEnds(r))
    /\ \A f \in Flushers : WF_vars(Continue(f))
    /\ WF_vars(ClaimDue(Worker))

Spec == Init /\ [][Next]_vars
FairSpec == Spec /\ Fairness

-----------------------------------------------------------------------------
One(b) == IF b THEN 1 ELSE 0

(* Every POST of a row is a failure that was counted, the delivery, one    *)
(* that an open flush has made, or one whose flush was rolled back: the    *)
(* count that decides when a row is dead is short by nothing else.         *)
SentAccounted ==
    \A r \in Rows :
        sent[r] = attempts[r] + undone[r] + One(status[r] = "delivered")
                    + One(\E f \in Flushers : r \in Posted(f))

(* The receiver gets a message twice only if an answer was lost or a flush *)
(* was rolled back: never because two flushers POST the same row.          *)
DuplicatesExplained ==
    \A r \in Rows : received[r] <= 1 + unheard[r] + undone[r]

(* A row is delivered only after an answered POST, and given up only after *)
(* MaxAttempts POSTs that failed, the first of which may have arrived.     *)
SettledHonestly ==
    \A r \in Rows :
        /\ status[r] = "delivered" => received[r] > unheard[r]
        /\ status[r] = "dead" => sent[r] - undone[r] >= MaxAttempts

(* A delivered or dead row is never touched again, whichever flushers were *)
(* at work when it settled.                                                *)
SettledIsFinal ==
    [][\A r \in Rows : status[r] \in {"delivered", "dead"} =>
          /\ status'[r] = status[r]
          /\ attempts'[r] = attempts[r]
          /\ sent'[r] = sent[r]]_vars

(* Every row ends delivered or dead, whatever the receiver answers, as     *)
(* long as flushes are rolled back finitely often.                         *)
EveryRowSettles ==
    \A r \in Rows : status[r] = "pending" ~> status[r] \in {"delivered", "dead"}

-----------------------------------------------------------------------------
(* The outbox as its callers and the receiver see it: a lost answer and a  *)
(* rollback are excuses for one more copy each, and nothing else is.       *)
Promise == INSTANCE AtLeastOnce WITH
    Messages <- Rows, Patience <- MaxAttempts,
    state <- status, sent <- sent, copies <- received,
    excuses <- [r \in Rows |-> unheard[r] + undone[r]]

(* Any number of flushers with their locks, private marks and rollbacks    *)
(* keep what AtLeastOnce promises of each row (outbox.py 1).               *)
ImplementsPromise == Promise!Spec

=============================================================================
