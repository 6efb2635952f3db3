------------------------------ MODULE DayPlan ------------------------------
(***************************************************************************)
(* What the scheduler promises of a day, whatever its ticks, their lock,   *)
(* their connections and crashes do: a slot is opened while the cadence,   *)
(* or what was forced beyond it, allows one more post; an open slot gets   *)
(* one job; it names the job only when the job, and the avatar work it was *)
(* opened with, are there.  Nothing is ever taken back.  Scheduler         *)
(* implements this specification.                                          *)
(***************************************************************************)
EXTENDS Naturals, FiniteSets

CONSTANTS
    Slots,
    Cadence  \* posts of a day

VARIABLES
    open,     \* slots of the day so far
    avatar,   \* those that were opened for a video with an avatar
    jobs,     \* jobs made for each slot
    filming,  \* slots whose job has its avatar work
    named,    \* slots that name their job
    extra     \* posts allowed beyond the cadence

vars == <<open, avatar, jobs, filming, named, extra>>

Init ==
    /\ open = {} /\ avatar = {} /\ filming = {} /\ named = {}
    /\ jobs = [s \in Slots |-> 0]
    /\ extra = 0

(* Somebody asks for posts beyond the cadence.                             *)
Allow ==
    /\ extra' \in Nat /\ extra' >= extra
    /\ UNCHANGED <<open, avatar, jobs, filming, named>>

Open(s) ==
    /\ s \notin open
    /\ Cardinality(open) < Cadence + extra
    /\ open' = open \cup {s}
    /\ avatar' \in {avatar, avatar \cup {s}}
    /\ UNCHANGED <<jobs, filming, named, extra>>

MakeJob(s) ==
    /\ s \in open /\ jobs[s] = 0
    /\ jobs' = [jobs EXCEPT ![s] = 1]
    /\ UNCHANGED <<open, avatar, filming, named, extra>>

Film(s) ==
    /\ jobs[s] = 1 /\ s \in avatar \ named
    /\ filming' = filming \cup {s}
    /\ UNCHANGED <<open, avatar, jobs, named, extra>>

Name(s) ==
    /\ jobs[s] = 1
    /\ s \in avatar => s \in filming
    /\ named' = named \cup {s}
    /\ UNCHANGED <<open, avatar, jobs, filming, extra>>

Next ==
    \/ Allow
    \/ \E s \in Slots : Open(s) \/ MakeJob(s) \/ Film(s) \/ Name(s)

Spec == Init /\ [][Next]_vars

=============================================================================
