---------------------------- MODULE JobLifecycle ----------------------------
(***************************************************************************)
(* What the media state engine promises of a job, whatever its workers,    *)
(* webhooks, retries and crashes do: it holds one ticket for a render,     *)
(* taken when it enters rendering and spent at most once; it goes online   *)
(* only after a person has signed it; delivered and failed are final.      *)
(* Pipeline implements this specification.                                 *)
(***************************************************************************)

CONSTANT Jobs

VARIABLES
    stage,    \* how far the job is
    ticket,   \* the one render the job may buy
    signed,   \* a person has approved it
    online    \* a video of it exists on the platform

vars == <<stage, ticket, signed, online>>

Stage == {"none", "open", "rendering", "review", "approved", "delivered", "failed"}

TypeOK ==
    /\ stage \in [Jobs -> Stage]
    /\ ticket \in [Jobs -> {"unused", "issued", "spent"}]
    /\ signed \in [Jobs -> BOOLEAN]
    /\ online \in [Jobs -> BOOLEAN]

Init ==
    /\ stage = [j \in Jobs |-> "none"]
    /\ ticket = [j \in Jobs |-> "unused"]
    /\ signed = [j \in Jobs |-> FALSE]
    /\ online = [j \in Jobs |-> FALSE]

Move(j, from, to) ==
    /\ stage[j] = from
    /\ stage' = [stage EXCEPT ![j] = to]

Create(j) == Move(j, "none", "open") /\ UNCHANGED <<ticket, signed, online>>

StartRender(j) ==
    /\ Move(j, "open", "rendering")
    /\ ticket[j] = "unused"
    /\ ticket' = [ticket EXCEPT ![j] = "issued"]
    /\ UNCHANGED <<signed, online>>

(* The provider is called: also when the job has failed meanwhile.         *)
SpendTicket(j) ==
    /\ ticket[j] = "issued"
    /\ ticket' = [ticket EXCEPT ![j] = "spent"]
    /\ UNCHANGED <<stage, signed, online>>

FinishRender(j) == Move(j, "rendering", "review") /\ UNCHANGED <<ticket, signed, online>>

Sign(j) ==
    /\ Move(j, "review", "approved")
    /\ signed' = [signed EXCEPT ![j] = TRUE]
    /\ UNCHANGED <<ticket, online>>

(* The upload holds no lock: the job may be final by the time it ends.     *)
GoOnline(j) ==
    /\ signed[j]
    /\ stage[j] \in {"approved", "delivered", "failed"}
    /\ online' = [online EXCEPT ![j] = TRUE]
    /\ UNCHANGED <<stage, ticket, signed>>

Deliver(j) == Move(j, "approved", "delivered") /\ UNCHANGED <<ticket, signed, online>>

Fail(j) ==
    /\ stage[j] \in {"open", "rendering", "review", "approved"}
    /\ stage' = [stage EXCEPT ![j] = "failed"]
    /\ UNCHANGED <<ticket, signed, online>>

Next == \E j \in Jobs :
    \/ Create(j) \/ StartRender(j) \/ SpendTicket(j) \/ FinishRender(j)
    \/ Sign(j) \/ GoOnline(j) \/ Deliver(j) \/ Fail(j)

Spec == Init /\ [][Next]_vars

=============================================================================
