---------------------------- MODULE WorkPromise ----------------------------
(***************************************************************************)
(* What the work queue promises of its rows, whatever its workers, their   *)
(* batches, reclaims, late marks and crashes do: a task has one open row   *)
(* at most, every try is a try of an open row, a row is done after a try   *)
(* and dead after Patience tries, and a verdict is changed or taken back   *)
(* only on a row that was tried more than once.  WorkQueue implements this *)
(* specification.                                                          *)
(***************************************************************************)
EXTENDS Naturals

CONSTANTS
    Tasks,
    Rows,
    Patience  \* tries before a row may be given up

VARIABLES
    of,     \* the task of each row
    state,  \* "absent" before it is submitted
    tries

vars == <<of, state, tries>>

Verdicts == {"done", "dead"}

Init ==
    /\ of \in [Rows -> Tasks]
    /\ state = [r \in Rows |-> "absent"]
    /\ tries = [r \in Rows |-> 0]

Free(t) == \A r \in Rows : ~(state[r] = "open" /\ of[r] = t)

Submit(r) ==
    /\ state[r] = "absent" /\ Free(of[r])
    /\ state' = [state EXCEPT ![r] = "open"]
    /\ UNCHANGED <<of, tries>>

Try(S) ==
    /\ \A r \in S : state[r] = "open"
    /\ tries' = [r \in Rows |-> IF r \in S THEN tries[r] + 1 ELSE tries[r]]
    /\ UNCHANGED <<of, state>>

Settle(r, verdict) ==
    /\ state[r] # "absent" /\ tries[r] > 0
    /\ verdict = "dead" => tries[r] >= Patience
    /\ state[r] \in Verdicts => tries[r] >= 2
    /\ state' = [state EXCEPT ![r] = verdict]
    /\ UNCHANGED <<of, tries>>

Reopen(r) ==
    /\ state[r] \in Verdicts /\ tries[r] >= 2
    /\ Free(of[r])
    /\ state' = [state EXCEPT ![r] = "open"]
    /\ UNCHANGED <<of, tries>>

Next ==
    \/ \E r \in Rows : Submit(r) \/ Reopen(r) \/ \E v \in Verdicts : Settle(r, v)
    \/ \E S \in SUBSET Rows : Try(S)

Spec == Init /\ [][Next]_vars

=============================================================================
