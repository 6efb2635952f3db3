---------------------------- MODULE AtLeastOnce ----------------------------
(***************************************************************************)
(* What the webhook outbox promises of a message, whatever its flushers,   *)
(* their transactions and crashes do: it is sent until it settles and      *)
(* never afterwards, it settles as delivered only when it has arrived and  *)
(* as dead only when it has been sent Patience times, and it is not sent   *)
(* again while a copy is out that the sender knows to have arrived.        *)
(* Outbox implements this specification.                                   *)
(***************************************************************************)
EXTENDS Naturals

CONSTANTS
    Messages,
    Patience  \* how often a message is sent before it may be given up

VARIABLES
    state,   \* "absent" before it is handed in
    sent,    \* how often it was sent
    copies,  \* copies that arrived
    excuses  \* times the sender could not know, or has forgotten, that it sent

vars == <<state, sent, copies, excuses>>

State == {"absent", "pending", "delivered", "dead"}

TypeOK ==
    /\ state \in [Messages -> State]
    /\ sent \in [Messages -> Nat]
    /\ copies \in [Messages -> Nat]
    /\ excuses \in [Messages -> Nat]

Init ==
    /\ state = [m \in Messages |-> "absent"]
    /\ sent = [m \in Messages |-> 0]
    /\ copies = [m \in Messages |-> 0]
    /\ excuses = [m \in Messages |-> 0]

Submit(m) ==
    /\ state[m] = "absent"
    /\ state' = [state EXCEPT ![m] = "pending"]
    /\ UNCHANGED <<sent, copies, excuses>>

Resend(m) ==
    /\ state[m] = "pending"
    /\ copies[m] <= excuses[m]
    /\ sent' = [sent EXCEPT ![m] = @ + 1]
    /\ UNCHANGED state

Arrives(m) == Resend(m) /\ copies' = [copies EXCEPT ![m] = @ + 1] /\ UNCHANGED excuses

(* It arrives, and the answer does not.                                    *)
ArrivesUnheard(m) ==
    /\ Resend(m)
    /\ copies' = [copies EXCEPT ![m] = @ + 1]
    /\ excuses' = [excuses EXCEPT ![m] = @ + 1]

IsLost(m) == Resend(m) /\ UNCHANGED <<copies, excuses>>

(* The sender forgets that it sent the messages S.                         *)
Forget(S) ==
    /\ \A m \in S : state[m] = "pending" /\ sent[m] > 0
    /\ excuses' = [m \in Messages |-> IF m \in S THEN excuses[m] + 1 ELSE excuses[m]]
    /\ UNCHANGED <<state, sent, copies>>

Settle(good, bad) ==
    /\ good \cap bad = {}
    /\ \A m \in good \cup bad : state[m] = "pending"
    /\ \A m \in good : copies[m] > 0
    /\ \A m \in bad : sent[m] >= Patience
    /\ state' = [m \in Messages |->
          IF m \in good THEN "delivered" ELSE IF m \in bad THEN "dead" ELSE state[m]]
    /\ UNCHANGED <<sent, copies, excuses>>

Next ==
    \/ \E m \in Messages : Submit(m) \/ Arrives(m) \/ ArrivesUnheard(m) \/ IsLost(m)
    \/ \E S \in SUBSET Messages : Forget(S)
    \/ \E good, bad \in SUBSET Messages : Settle(good, bad)

Spec == Init /\ [][Next]_vars

=============================================================================
