----------------------------- MODULE Scheduler -----------------------------
(***************************************************************************)
(* The daily cadence (src/app/services/scheduler.py) on the connection     *)
(* pool of src/app/db.py: ticks of a cron command and of                   *)
(* POST /admin/scheduler/tick that fill the slots of one day with jobs.    *)
(*                                                                         *)
(* A tick keeps one connection of its process for the advisory lock of the *)
(* day and takes a second one for each of its transactions: a step that is *)
(* a transaction waits, without a timeout, until its process has a free    *)
(* connection.  Days do not interfere: lock and slots are per day.         *)
(***************************************************************************)
EXTENDS Integers, FiniteSets

CONSTANTS
    Ticks,        \* callers of tick, one call at a time each
    Cron,         \* the caller that ticks again and again, with the defaults
    Processes,    \* processes, each with its own pool
    ProcessOf,    \* the process of each caller
    PoolSize,     \* max_size of the pool
    PostsPerDay,  \* settings.schedule_posts_per_day
    Calls,        \* the arguments of the ticks that are not cron's
    MaxSlots,     \* bound: slots of the day
    MaxManual,    \* bound: ticks that are not cron's
    MaxFailures,  \* bound: crashes, errors and lost lock connections
    Nobody        \* holds the lock when nobody does

ASSUME SchedulerAssumption ==
    /\ IsFiniteSet(Ticks)
    /\ Cron \in Ticks
    /\ ProcessOf \in [Ticks -> Processes]
    /\ PoolSize \in Nat \ {0}
    /\ PostsPerDay \in 0..50
    /\ Calls \subseteq [count : Nat \cup {-1}, force : BOOLEAN, avatar : BOOLEAN]
    /\ MaxSlots \in Nat /\ MaxSlots >= PostsPerDay
    /\ MaxManual \in Nat
    /\ MaxFailures \in Nat
    /\ Nobody \notin Ticks

Slots == 1..MaxSlots

NoCount == -1

Defaults == [count |-> NoCount, force |-> FALSE, avatar |-> FALSE]

Args == Calls \cup {Defaults}

VARIABLES
    slots,     \* rows of schedule_runs for the day
    wants,     \* those whose tick enqueues the avatar step
    linked,    \* those whose job_id is set
    made,      \* jobs created for each slot
    queued,    \* slots whose job has its generate_avatar work
    dayLock,   \* the tick whose connection holds the advisory lock
    conn,      \* ticks that have taken their lock_conn
    pc,        \* what each tick does next
    arg,       \* its arguments
    slot,      \* the slot it is at
    left,      \* turns of its loop that are left
    forced,    \* history: posts that forced ticks were allowed
    cut,       \* history: ticks interrupted between a reservation and its job's id
    manual,    \* history: ticks that were not cron's
    failures   \* history

tables == <<slots, wants, linked, made, queued>>
local == <<pc, arg, slot, left>>
history == <<forced, cut, manual, failures>>
vars == <<tables, dayLock, conn, local, history>>

AtSlot == {"create", "avatar", "link"}
Transaction == {"told", "plan", "reserve", "count"} \cup AtSlot
Step == {"idle", "lock", "unlock"} \cup Transaction

TypeOK ==
    /\ slots \subseteq Slots /\ wants \subseteq Slots
    /\ linked \subseteq Slots /\ queued \subseteq Slots
    /\ made \in [Slots -> Nat]
    /\ dayLock \in Ticks \cup {Nobody}
    /\ conn \subseteq Ticks
    /\ pc \in [Ticks -> Step]
    /\ arg \in [Ticks -> Args]
    /\ slot \in [Ticks -> Nat]
    /\ left \in [Ticks -> Nat]
    /\ forced \in Nat /\ cut \in Nat
    /\ manual \in 0..MaxManual
    /\ failures \in 0..MaxFailures

Init ==
    /\ slots = {} /\ wants = {} /\ linked = {} /\ queued = {}
    /\ made = [s \in Slots |-> 0]
    /\ dayLock = Nobody
    /\ conn = {}
    /\ pc = [t \in Ticks |-> "idle"]
    /\ arg = [t \in Ticks |-> Defaults]
    /\ slot = [t \in Ticks |-> 0]
    /\ left = [t \in Ticks |-> 0]
    /\ forced = 0 /\ cut = 0 /\ manual = 0 /\ failures = 0

-----------------------------------------------------------------------------
(* The pool.                                                               *)

TicksOf(p) == {t \in Ticks : ProcessOf[t] = p}

(* pool.acquire succeeds at once.  A transaction is one step, so between   *)
(* steps only the lock connections are out.                                *)
Free(p) == Cardinality(conn \cap TicksOf(p)) < PoolSize

(* Every connection is the lock connection of a tick that waits for        *)
(* another one.                                                            *)
Starved(p) ==
    /\ ~Free(p)
    /\ \A t \in conn \cap TicksOf(p) : pc[t] \in Transaction

Transact(t, step, next) ==
    /\ pc[t] = step
    /\ Free(ProcessOf[t])
    /\ pc' = [pc EXCEPT ![t] = next]

-----------------------------------------------------------------------------
(* tick                                                                    *)

Begin(t, a) ==
    /\ pc[t] = "idle"
    /\ Free(ProcessOf[t])
    /\ pc' = [pc EXCEPT ![t] = "lock"]
    /\ arg' = [arg EXCEPT ![t] = a]
    /\ conn' = conn \cup {t}
    /\ UNCHANGED <<tables, dayLock, slot, left, forced, cut, failures>>

BeginCron == Begin(Cron, Defaults) /\ UNCHANGED manual

BeginManual(t) ==
    /\ t # Cron
    /\ manual < MaxManual
    /\ manual' = manual + 1
    /\ \E a \in Calls : Begin(t, a)

(* pg_try_advisory_lock                                                    *)
TryLock(t) ==
    /\ pc[t] = "lock"
    /\ \/ /\ dayLock = Nobody
          /\ dayLock' = t
          /\ pc' = [pc EXCEPT ![t] = "plan"]
       \/ /\ dayLock # Nobody
          /\ pc' = [pc EXCEPT ![t] = "told"]
          /\ UNCHANGED dayLock
    /\ UNCHANGED <<tables, conn, arg, slot, left, history>>

(* The count that a tick which did not get the lock reports.               *)
Told(t) ==
    /\ Transact(t, "told", "unlock")
    /\ UNCHANGED <<tables, dayLock, conn, arg, slot, left, history>>

Smaller(m, n) == IF m < n THEN m ELSE n
Larger(m, n) == IF m < n THEN n ELSE m

(* At most 50 posts are asked for.                                         *)
Target(a) == IF a.count = NoCount THEN PostsPerDay ELSE Smaller(a.count, 50)

(* Variant: the posts that are there already are not counted.              *)
RemainingUnmet(a) == Target(a)

Remaining(a) ==
    LET unmet == Larger(0, PostsPerDay - Cardinality(slots))
    IN IF a.force THEN Target(a)
       ELSE IF a.count = NoCount THEN unmet ELSE Smaller(unmet, Target(a))

LastSlot == IF slots = {} THEN 0 ELSE CHOOSE s \in slots : \A q \in slots : q <= s

Plan(t) ==
    /\ Transact(t, "plan", IF Remaining(arg[t]) = 0 THEN "unlock" ELSE "reserve")
    /\ slot' = [slot EXCEPT ![t] = LastSlot + 1]
    /\ left' = [left EXCEPT ![t] = Remaining(arg[t])]
    /\ forced' = IF arg[t].force THEN forced + Remaining(arg[t]) ELSE forced
    /\ UNCHANGED <<tables, dayLock, conn, arg, cut, manual, failures>>

NextTurn(t) ==
    /\ slot' = [slot EXCEPT ![t] = @ + 1]
    /\ left' = [left EXCEPT ![t] = @ - 1]

AfterTurn(t) == IF left[t] = 1 THEN "unlock" ELSE "reserve"

(* Variant: a job is created whether or not the slot was free.             *)
ReserveUnchecked(t) ==
    /\ slot[t] \in Slots
    /\ Transact(t, "reserve", "create")
    /\ slots' = slots \cup {slot[t]}
    /\ wants' = IF arg[t].avatar THEN wants \cup {slot[t]} ELSE wants
    /\ UNCHANGED <<linked, made, queued, dayLock, conn, arg, slot, left, history>>

(* INSERT .. ON CONFLICT (run_date, slot) DO NOTHING: a slot that is taken *)
(* costs a turn of the loop.                                               *)
Reserve(t) ==
    /\ slot[t] \in Slots
    /\ \/ /\ slot[t] \notin slots
          /\ Transact(t, "reserve", "create")
          /\ slots' = slots \cup {slot[t]}
          /\ wants' = IF arg[t].avatar THEN wants \cup {slot[t]} ELSE wants
          /\ UNCHANGED <<slot, left>>
       \/ /\ slot[t] \in slots
          /\ Transact(t, "reserve", AfterTurn(t))
          /\ NextTurn(t)
          /\ UNCHANGED <<slots, wants>>
    /\ UNCHANGED <<linked, made, queued, dayLock, conn, arg, history>>

(* Variant: the avatar work is forgotten.                                  *)
CreateOnly(t) ==
    /\ Transact(t, "create", "link")
    /\ made' = [made EXCEPT ![slot[t]] = @ + 1]
    /\ UNCHANGED <<slots, wants, linked, queued, dayLock, conn, arg, slot, left, history>>

(* create_job                                                              *)
Create(t) ==
    /\ Transact(t, "create", IF arg[t].avatar THEN "avatar" ELSE "link")
    /\ made' = [made EXCEPT ![slot[t]] = @ + 1]
    /\ UNCHANGED <<slots, wants, linked, queued, dayLock, conn, arg, slot, left, history>>

(* queue.enqueue_step(job_id, "generate_avatar")                           *)
Avatar(t) ==
    /\ Transact(t, "avatar", "link")
    /\ queued' = queued \cup {slot[t]}
    /\ UNCHANGED <<slots, wants, linked, made, dayLock, conn, arg, slot, left, history>>

(* Variant: the row that is updated is the last one of the day.            *)
LinkLast(t) ==
    /\ Transact(t, "link", "count")
    /\ linked' = linked \cup {LastSlot}
    /\ UNCHANGED <<slots, wants, made, queued, dayLock, conn, arg, slot, left, history>>

(* UPDATE schedule_runs SET job_id                                         *)
Link(t) ==
    /\ Transact(t, "link", "count")
    /\ linked' = linked \cup {slot[t]}
    /\ UNCHANGED <<slots, wants, made, queued, dayLock, conn, arg, slot, left, history>>

(* metrics.incr("jobs_created") and the end of the turn.                   *)
Count(t) ==
    /\ Transact(t, "count", AfterTurn(t))
    /\ NextTurn(t)
    /\ UNCHANGED <<slots, wants, linked, made, queued, dayLock, conn, arg, history>>

(* Variant: the connections are not given back.                            *)
ReturnKept(T) ==
    /\ conn' = conn
    /\ pc' = [t \in Ticks |-> IF t \in T THEN "idle" ELSE pc[t]]
    /\ arg' = [t \in Ticks |-> IF t \in T THEN Defaults ELSE arg[t]]
    /\ slot' = [t \in Ticks |-> IF t \in T THEN 0 ELSE slot[t]]
    /\ left' = [t \in Ticks |-> IF t \in T THEN 0 ELSE left[t]]

(* The calls T are over, their locals and their lock_conns gone.           *)
Return(T) ==
    /\ conn' = conn \ T
    /\ pc' = [t \in Ticks |-> IF t \in T THEN "idle" ELSE pc[t]]
    /\ arg' = [t \in Ticks |-> IF t \in T THEN Defaults ELSE arg[t]]
    /\ slot' = [t \in Ticks |-> IF t \in T THEN 0 ELSE slot[t]]
    /\ left' = [t \in Ticks |-> IF t \in T THEN 0 ELSE left[t]]

(* Variant: the lock is not released.                                      *)
UnlockNothing(t) ==
    /\ pc[t] = "unlock"
    /\ Return({t})
    /\ UNCHANGED <<tables, dayLock, history>>

(* The finally clause.                                                     *)
Unlock(t) ==
    /\ pc[t] = "unlock"
    /\ dayLock' = IF dayLock = t THEN Nobody ELSE dayLock
    /\ Return({t})
    /\ UNCHANGED <<tables, history>>

-----------------------------------------------------------------------------
(* What goes wrong.                                                        *)

Fail == failures < MaxFailures /\ failures' = failures + 1

(* A transaction raises and is rolled back, and the exception ends the     *)
(* loop: the tick goes to its finally clause.                              *)
Raise(t) ==
    /\ pc[t] \in Transaction
    /\ Fail
    /\ pc' = [pc EXCEPT ![t] = "unlock"]
    /\ cut' = IF pc[t] \in AtSlot THEN cut + 1 ELSE cut
    /\ UNCHANGED <<tables, dayLock, conn, arg, slot, left, forced, manual>>

(* The process is killed, and PostgreSQL ends its sessions.                *)
Crash(p) ==
    /\ conn \cap TicksOf(p) # {}
    /\ Fail
    /\ cut' = cut + Cardinality({t \in TicksOf(p) : pc[t] \in AtSlot})
    /\ Return(TicksOf(p))
    /\ dayLock' = IF dayLock \in TicksOf(p) THEN Nobody ELSE dayLock
    /\ UNCHANGED <<tables, forced, manual>>

(* The lock connection breaks: the lock is gone and the tick, which uses   *)
(* other connections, does not notice.                                     *)
LoseLock ==
    /\ dayLock # Nobody
    /\ Fail
    /\ dayLock' = Nobody
    /\ UNCHANGED <<tables, conn, local, forced, cut, manual>>

-----------------------------------------------------------------------------
Continue(t) ==
    \/ TryLock(t) \/ Told(t) \/ Plan(t) \/ Reserve(t) \/ Create(t)
    \/ Avatar(t) \/ Link(t) \/ Count(t) \/ Unlock(t)

Next ==
    \/ BeginCron
    \/ \E t \in Ticks : BeginManual(t) \/ Continue(t) \/ Raise(t)
    \/ \E p \in Processes : Crash(p)
    \/ LoseLock

(* Cron ticks again and again; a call that has begun goes on as long as it *)
(* gets its connections.                                                   *)
Fairness ==
    /\ WF_vars(BeginCron)
    /\ \A t \in Ticks : WF_vars(Continue(t))

Spec == Init /\ [][Next]_vars
FairSpec == Spec /\ Fairness

-----------------------------------------------------------------------------
(* The day has no more posts than its cadence and the forced ticks allow,  *)
(* also when ticks overlap because a lock connection broke.                *)
CadenceKept == Cardinality(slots) <= PostsPerDay + forced

(* A slot gets one job at most, and no job is made without a slot, however *)
(* ticks overlap: what "reserve before create" is for.                     *)
OneJobPerSlot ==
    \A s \in Slots : made[s] <= 1 /\ (made[s] = 1 => s \in slots)

(* A slot names its job only when the job is there and, if it was asked    *)
(* for, its avatar work too.                                               *)
LinkedIsComplete ==
    \A s \in linked : made[s] = 1 /\ (s \in wants => s \in queued)

(* A slot without its job's id (a post of the day that is lost, perhaps    *)
(* with a job nothing leads to) is one a tick is at, or one at which a     *)
(* tick was interrupted: one slot per interruption.                        *)
HolesExplained ==
    Cardinality(slots \ linked) = cut + Cardinality({t \in Ticks : pc[t] \in AtSlot})

(* A call of tick ends, unless its process runs out of connections.        *)
EveryTickEnds ==
    \A t \in Ticks : pc[t] # "idle" ~> pc[t] = "idle" \/ Starved(ProcessOf[t])

(* Cron fills the day, unless a process, its own or another, has run out   *)
(* of connections for ever: the tick that waits there may hold the lock.   *)
DayIsFilled ==
    (\A p \in Processes : []<>~Starved(p)) => <>(Cardinality(slots) >= PostsPerDay)

-----------------------------------------------------------------------------
(* The day as its readers see it, without ticks, lock and connections.     *)
Day == INSTANCE DayPlan WITH
    Cadence <- PostsPerDay,
    open <- slots, avatar <- wants, jobs <- made, filming <- queued,
    named <- linked, extra <- forced

(* Overlapping, interrupted and starved ticks change the day only as       *)
(* DayPlan allows.                                                         *)
ImplementsDayPlan == Day!Spec

=============================================================================
