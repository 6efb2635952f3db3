-------------------------- MODULE SchedulerProofs --------------------------
(***************************************************************************)
(* Proofs about Scheduler for any number of callers and processes, any     *)
(* cadence, any pool and any number of failures.                           *)
(*                                                                         *)
(* None of it rests on the advisory lock.  The slots of a day are 1..n,    *)
(* because a tick starts behind the last one and a turn of its loop leaves *)
(* a taken slot behind it; so no tick can go past the end it planned       *)
(* (Planned).  And a slot has one owner from its reservation to the moment *)
(* its job's id is set (Owned).                                            *)
(***************************************************************************)
EXTENDS Scheduler, FiniteSetTheorems, TLAPS

Loop == {"reserve", "count"} \cup AtSlot

Contiguous ==
    /\ IsFiniteSet(slots)
    /\ slots = 1..Cardinality(slots)

(* What is left of a tick's loop stays within the cadence.                 *)
Planned ==
    \A t \in Ticks : pc[t] \in Loop =>
        /\ left[t] >= 1
        /\ 1 <= slot[t] /\ slot[t] <= Cardinality(slots) + 1
        /\ slot[t] + left[t] <= PostsPerDay + forced + 1
        /\ pc[t] # "reserve" => slot[t] \in slots

(* What has been done for the slot a tick is at.                           *)
Owned ==
    /\ \A t \in Ticks : pc[t] \in AtSlot =>
          /\ slot[t] \notin linked
          /\ made[slot[t]] = IF pc[t] = "create" THEN 0 ELSE 1
          /\ slot[t] \in wants <=> arg[t].avatar
          /\ pc[t] = "avatar" => arg[t].avatar
          /\ pc[t] = "link" /\ arg[t].avatar => slot[t] \in queued
    /\ \A t, u \in Ticks : t # u /\ pc[t] \in AtSlot /\ pc[u] \in AtSlot => slot[t] # slot[u]
    /\ \A s \in Slots : s \notin slots => made[s] = 0
    /\ wants \subseteq slots /\ linked \subseteq slots

IInv ==
    TypeOK /\ Contiguous /\ Planned /\ Owned /\ CadenceKept /\ OneJobPerSlot /\ LinkedIsComplete

-----------------------------------------------------------------------------
LEMMA SlotsCardinality ==
    ASSUME Contiguous
    PROVE  Cardinality(slots) \in Nat
  BY FS_CardinalityType DEF Contiguous

LEMMA LastSlotIsCount ==
    ASSUME Contiguous
    PROVE  LastSlot = Cardinality(slots)
<1> DEFINE n == Cardinality(slots)
<1>1. n \in Nat /\ slots = 1..n
    BY SlotsCardinality DEF Contiguous
<1>2. CASE slots = {}
    BY <1>1, <1>2, FS_EmptySet DEF LastSlot
<1>3. CASE slots # {}
  <2>1. n \in slots /\ \A q \in slots : q <= n
    BY <1>1, <1>3
  <2>2. \A s \in slots : (\A q \in slots : q <= s) => s = n
    BY <1>1, <2>1
  <2> QED
    BY <1>3, <2>1, <2>2 DEF LastSlot
<1> QED
    BY <1>2, <1>3

(* Reserving the slot behind the last keeps the slots contiguous.          *)
LEMMA NextSlot ==
    ASSUME Contiguous, NEW s \in Nat, s \notin slots, 1 <= s, s <= Cardinality(slots) + 1,
           slots' = slots \cup {s}
    PROVE  /\ Contiguous'
           /\ s = Cardinality(slots) + 1
           /\ Cardinality(slots)' = Cardinality(slots) + 1
<1>1. Cardinality(slots) \in Nat /\ slots = 1..Cardinality(slots)
    BY SlotsCardinality DEF Contiguous
<1>2. s = Cardinality(slots) + 1
    BY <1>1
<1>3. IsFiniteSet(slots') /\ Cardinality(slots') = Cardinality(slots) + 1
    BY FS_AddElement DEF Contiguous
<1>4. slots' = 1..(Cardinality(slots) + 1)
    BY <1>1, <1>2
<1> QED
    BY <1>2, <1>3, <1>4 DEF Contiguous

(* How many posts a tick may ask for.                                      *)
LEMMA RemainingBound ==
    ASSUME NEW a \in Args, Cardinality(slots) \in Nat
    PROVE  /\ Remaining(a) \in Nat
           /\ ~a.force => Cardinality(slots) + Remaining(a) <= Larger(PostsPerDay, Cardinality(slots))
<1>1. a.count \in Nat \cup {-1} /\ a.force \in BOOLEAN
  <2>1. CASE a \in Calls
    BY <2>1, SchedulerAssumption
  <2>2. CASE a = Defaults
    BY <2>2 DEF Defaults, NoCount
  <2> QED
    BY <2>1, <2>2 DEF Args
<1>2. Target(a) \in Nat
    BY <1>1, SchedulerAssumption DEF Target, NoCount, Smaller
<1> QED
    BY <1>1, <1>2, SchedulerAssumption DEF Remaining, Smaller, Larger

-----------------------------------------------------------------------------
LEMMA InitIInv == Init => IInv
<1> SUFFICES ASSUME Init PROVE IInv
    OBVIOUS
<1> USE SchedulerAssumption DEF Init
<1>1. TypeOK
    BY DEF TypeOK, Step, Args, Slots
<1>2. Contiguous /\ Cardinality(slots) = 0
    BY FS_EmptySet DEF Contiguous
<1>3. Planned /\ Owned
    BY DEF Planned, Owned, Loop, AtSlot
<1>4. CadenceKept /\ OneJobPerSlot /\ LinkedIsComplete
    BY <1>2 DEF CadenceKept, OneJobPerSlot, LinkedIsComplete
<1> QED
    BY <1>1, <1>2, <1>3, <1>4 DEF IInv

(* A step that neither touches the tables nor the ticks at work keeps the  *)
(* invariant, whatever ticks begin or end with it.                         *)
LEMMA FrameIInv ==
    ASSUME IInv, TypeOK', UNCHANGED tables, forced' = forced,
           \A t \in Ticks : pc'[t] \in Loop =>
               UNCHANGED <<pc[t], arg[t], slot[t], left[t]>>
    PROVE  IInv'
<1> USE DEF IInv, tables
<1>1. Contiguous' /\ Cardinality(slots)' = Cardinality(slots)
    BY DEF Contiguous
<1>2. Planned'
    BY DEF Planned
<1>3. Owned'
    BY DEF Owned, Loop, Slots
<1>4. CadenceKept' /\ OneJobPerSlot' /\ LinkedIsComplete'
    BY DEF CadenceKept, OneJobPerSlot, LinkedIsComplete, Slots
<1> QED
    BY <1>1, <1>2, <1>3, <1>4

LEMMA BeginIInv ==
    ASSUME IInv, NEW t \in Ticks, NEW a \in Args, Begin(t, a), manual' \in 0..MaxManual
    PROVE  IInv'
<1>1. TypeOK'
    BY DEF IInv, TypeOK, Begin, tables, Step, AtSlot, Transaction
<1>2. \A u \in Ticks : pc'[u] \in Loop => UNCHANGED <<pc[u], arg[u], slot[u], left[u]>>
    BY DEF IInv, TypeOK, Begin, Loop, AtSlot
<1> QED
    BY <1>1, <1>2, FrameIInv DEF Begin

LEMMA LockIInv ==
    ASSUME IInv, NEW t \in Ticks, TryLock(t) \/ Told(t)
    PROVE  IInv'
<1>1. TypeOK'
    BY DEF IInv, TypeOK, TryLock, Told, Transact, tables, history, Step, AtSlot, Transaction
<1>2. \A u \in Ticks : pc'[u] \in Loop => UNCHANGED <<pc[u], arg[u], slot[u], left[u]>>
    BY DEF IInv, TypeOK, TryLock, Told, Transact, Loop, AtSlot
<1> QED
    BY <1>1, <1>2, FrameIInv DEF TryLock, Told, tables, history

LEMMA ReturnIInv ==
    ASSUME IInv, NEW T, Return(T), UNCHANGED <<tables, forced, manual>>,
           dayLock' \in Ticks \cup {Nobody}, cut' \in Nat, failures' \in 0..MaxFailures
    PROVE  IInv'
<1>1. TypeOK'
    BY SchedulerAssumption DEF IInv, TypeOK, Return, tables, Step, AtSlot, Transaction, Args
<1>2. \A u \in Ticks : pc'[u] \in Loop => UNCHANGED <<pc[u], arg[u], slot[u], left[u]>>
    BY DEF Return, Loop, AtSlot
<1> QED
    BY <1>1, <1>2, FrameIInv

LEMMA RaiseIInv ==
    ASSUME IInv, NEW t \in Ticks, Raise(t)
    PROVE  IInv'
<1>1. TypeOK'
    BY SchedulerAssumption DEF IInv, TypeOK, Raise, Fail, tables, Step, AtSlot, Transaction
<1>2. \A u \in Ticks : pc'[u] \in Loop => UNCHANGED <<pc[u], arg[u], slot[u], left[u]>>
    BY DEF IInv, TypeOK, Raise, Loop, AtSlot
<1> QED
    BY <1>1, <1>2, FrameIInv DEF Raise

LEMMA LoseLockIInv ==
    ASSUME IInv, LoseLock
    PROVE  IInv'
<1>1. TypeOK'
    BY SchedulerAssumption DEF IInv, TypeOK, LoseLock, Fail, tables, local
<1> QED
    BY <1>1, FrameIInv DEF LoseLock, local

(* The plan of an unforced tick ends at the cadence, and a forced one      *)
(* raises what is allowed by as much as it plans.                          *)
LEMMA PlanIInv ==
    ASSUME IInv, NEW t \in Ticks, Plan(t)
    PROVE  IInv'
<1> USE DEF IInv
<1> DEFINE n == Cardinality(slots)
           k == Remaining(arg[t])
<1>1. n \in Nat /\ arg[t] \in Args
    BY SlotsCardinality DEF TypeOK
<1>2. /\ k \in Nat
      /\ ~arg[t].force => n + k <= Larger(PostsPerDay, n)
    BY <1>1, RemainingBound
<1>3. /\ pc[t] = "plan"
      /\ pc' = [pc EXCEPT ![t] = IF k = 0 THEN "unlock" ELSE "reserve"]
      /\ slot' = [slot EXCEPT ![t] = n + 1]
      /\ left' = [left EXCEPT ![t] = k]
      /\ forced' = IF arg[t].force THEN forced + k ELSE forced
      /\ UNCHANGED <<tables, dayLock, conn, arg, cut, manual, failures>>
    BY LastSlotIsCount DEF Plan, Transact
<1>4. TypeOK'
    BY <1>1, <1>2, <1>3 DEF TypeOK, tables, Step, AtSlot, Transaction
<1>5. Contiguous' /\ Cardinality(slots)' = n
    BY <1>3 DEF Contiguous, tables
<1>6. n <= PostsPerDay + forced /\ forced \in Nat /\ forced' \in Nat /\ forced <= forced'
    BY <1>2, <1>3 DEF CadenceKept, TypeOK
<1>7. Planned'
  <2> SUFFICES ASSUME NEW u \in Ticks, pc'[u] \in Loop
               PROVE  /\ left'[u] >= 1
                      /\ 1 <= slot'[u] /\ slot'[u] <= n + 1
                      /\ slot'[u] + left'[u] <= PostsPerDay + forced' + 1
                      /\ pc'[u] # "reserve" => slot'[u] \in slots'
    BY <1>5 DEF Planned
  <2>1. CASE u = t
    <3>1. k # 0 /\ slot'[t] = n + 1 /\ left'[t] = k /\ pc'[t] = "reserve"
      BY <1>3, <2>1 DEF TypeOK, Loop, AtSlot
    <3>2. n + k <= PostsPerDay + forced'
      BY <1>1, <1>2, <1>3, <1>6, <3>1, SchedulerAssumption DEF Larger
    <3> QED
      BY <1>1, <1>2, <1>6, <2>1, <3>1, <3>2, SchedulerAssumption
  <2>2. CASE u # t
    <3>1. UNCHANGED <<pc[u], slot[u], left[u]>>
      BY <1>3, <2>2 DEF TypeOK
    <3>2. slot[u] \in Nat /\ left[u] \in Nat
      BY DEF TypeOK
    <3>3. /\ left[u] >= 1
          /\ 1 <= slot[u] /\ slot[u] <= n + 1
          /\ slot[u] + left[u] <= PostsPerDay + forced + 1
          /\ pc[u] # "reserve" => slot[u] \in slots
      BY <3>1 DEF Planned
    <3> QED
      BY <1>3, <1>6, <3>1, <3>2, <3>3, SchedulerAssumption DEF tables
  <2> QED
    BY <2>1, <2>2
<1>8. Owned'
  <2>1. \A u \in Ticks : pc'[u] \in AtSlot =>
          u # t /\ UNCHANGED <<pc[u], slot[u], arg[u]>>
    BY <1>3 DEF TypeOK, AtSlot
  <2> QED
    BY <1>3, <2>1 DEF Owned, tables, Slots
<1>9. CadenceKept' /\ OneJobPerSlot' /\ LinkedIsComplete'
    BY <1>1, <1>3, <1>5, <1>6, SchedulerAssumption
    DEF CadenceKept, OneJobPerSlot, LinkedIsComplete, tables, Slots
<1> QED
    BY <1>4, <1>5, <1>7, <1>8, <1>9

(* The end of a turn: the next slot is no further than one behind the      *)
(* last, because this one is taken.                                        *)
LEMMA TurnIInv ==
    ASSUME IInv, NEW t \in Ticks, pc[t] \in {"reserve", "count"}, slot[t] \in slots,
           pc' = [pc EXCEPT ![t] = AfterTurn(t)], NextTurn(t),
           UNCHANGED <<slots, wants, linked, made, queued, dayLock, conn, arg, history>>
    PROVE  IInv'
<1> USE DEF IInv
<1> DEFINE n == Cardinality(slots)
<1>1. n \in Nat /\ slots = 1..n
    BY SlotsCardinality DEF Contiguous
<1>2. /\ left[t] >= 1 /\ slot[t] + left[t] <= PostsPerDay + forced + 1
      /\ slot[t] \in 1..n /\ left[t] \in Nat /\ forced \in Nat
    BY <1>1 DEF Planned, Loop, TypeOK
<1>3. /\ slot'[t] = slot[t] + 1 /\ left'[t] = left[t] - 1
      /\ \A u \in Ticks \ {t} : UNCHANGED <<pc[u], slot[u], left[u]>>
    BY DEF NextTurn, TypeOK
<1>4. TypeOK'
  <2>1. left' \in [Ticks -> Nat] /\ slot' \in [Ticks -> Nat]
    BY <1>2 DEF NextTurn, TypeOK
  <2>2. pc' \in [Ticks -> Step]
    BY DEF AfterTurn, TypeOK, Step, Transaction, AtSlot
  <2> QED
    BY <2>1, <2>2 DEF TypeOK, history
<1>5. Contiguous' /\ Cardinality(slots)' = n
    BY DEF Contiguous
<1>6. Planned'
  <2>1. pc'[t] \in Loop => left[t] # 1 /\ pc'[t] = "reserve"
    BY DEF AfterTurn, Loop, AtSlot, TypeOK
  <2>2. \A u \in Ticks : pc'[u] \in Loop =>
        /\ left'[u] >= 1
        /\ 1 <= slot'[u] /\ slot'[u] <= n + 1
        /\ slot'[u] + left'[u] <= PostsPerDay + forced + 1
        /\ pc'[u] # "reserve" => slot'[u] \in slots
    <3> SUFFICES ASSUME NEW u \in Ticks, pc'[u] \in Loop
                 PROVE  /\ left'[u] >= 1
                        /\ 1 <= slot'[u] /\ slot'[u] <= n + 1
                        /\ slot'[u] + left'[u] <= PostsPerDay + forced + 1
                        /\ pc'[u] # "reserve" => slot'[u] \in slots
      OBVIOUS
    <3>1. CASE u = t
      BY <1>1, <1>2, <1>3, <2>1, <3>1, SchedulerAssumption
    <3>2. CASE u # t
      BY <1>3, <3>2 DEF Planned
    <3> QED
      BY <3>1, <3>2
  <2> QED
    BY <1>5, <2>2 DEF Planned, history
<1>7. Owned'
  <2>1. \A u \in Ticks : pc'[u] \in AtSlot => UNCHANGED <<pc[u], slot[u], arg[u]>>
    BY <1>3 DEF AfterTurn, AtSlot, TypeOK
  <2> QED
    BY <2>1 DEF Owned, Slots
<1>8. CadenceKept' /\ OneJobPerSlot' /\ LinkedIsComplete'
    BY <1>5 DEF CadenceKept, OneJobPerSlot, LinkedIsComplete, history, Slots
<1> QED
    BY <1>4, <1>5, <1>6, <1>7, <1>8

LEMMA CountIInv ==
    ASSUME IInv, NEW t \in Ticks, Count(t)
    PROVE  IInv'
<1>1. slot[t] \in slots /\ pc[t] = "count"
    BY DEF Count, Transact, IInv, Planned, Loop
<1> QED
    BY <1>1, TurnIInv DEF Count, Transact

(* A reservation makes its tick the owner of a slot that had none.         *)
LEMMA ReserveIInv ==
    ASSUME IInv, NEW t \in Ticks, Reserve(t)
    PROVE  IInv'
<1> USE DEF IInv
<1>1. CASE slot[t] \in slots
    BY <1>1, TurnIInv DEF Reserve, Transact, TypeOK
<1>2. CASE slot[t] \notin slots
  <2> DEFINE n == Cardinality(slots)
             s == slot[t]
  <2>1. /\ pc[t] = "reserve" /\ pc' = [pc EXCEPT ![t] = "create"]
        /\ slots' = slots \cup {s}
        /\ wants' = IF arg[t].avatar THEN wants \cup {s} ELSE wants
        /\ UNCHANGED <<linked, made, queued, dayLock, conn, arg, slot, left, history>>
        /\ s \in Slots
    BY <1>2 DEF Reserve, Transact
  <2>2. /\ left[t] >= 1 /\ 1 <= s /\ s <= n + 1
        /\ s + left[t] <= PostsPerDay + forced + 1
        /\ s \in Nat /\ left[t] \in Nat /\ forced \in Nat
    BY <2>1 DEF Planned, Loop, TypeOK
  <2>3. Contiguous' /\ s = n + 1 /\ Cardinality(slots)' = n + 1 /\ n \in Nat
    BY <1>2, <2>1, <2>2, NextSlot, SlotsCardinality
  <2>4. TypeOK'
    BY <2>1 DEF TypeOK, history, Step, Transaction, AtSlot
  <2>5. Planned'
    <3> SUFFICES ASSUME NEW u \in Ticks, pc'[u] \in Loop
                 PROVE  /\ left[u] >= 1
                        /\ 1 <= slot[u] /\ slot[u] <= n + 2
                        /\ slot[u] + left[u] <= PostsPerDay + forced + 1
                        /\ pc'[u] # "reserve" => slot[u] \in slots'
      BY <2>1, <2>3 DEF Planned, history
    <3>1. CASE u = t
      BY <2>1, <2>2, <2>3, <3>1
    <3>2. CASE u # t
      <4>1. pc'[u] = pc[u]
        BY <2>1, <3>2 DEF TypeOK
      <4>2. slot[u] \in Nat
        BY DEF TypeOK
      <4> QED
        BY <2>1, <2>3, <4>1, <4>2 DEF Planned
    <3> QED
      BY <3>1, <3>2
  <2>6. Owned'
    <3>1. made[s] = 0 /\ s \notin linked /\ s \notin wants
      BY <1>2, <2>1 DEF Owned
    <3>2. \A u \in Ticks \ {t} : pc'[u] = pc[u] /\ (pc[u] \in AtSlot => slot[u] # s)
      <4>1. \A u \in Ticks : pc[u] \in AtSlot => slot[u] \in slots
        BY DEF Planned, Loop, AtSlot
      <4> QED
        BY <1>2, <2>1, <4>1 DEF TypeOK
    <3>3. pc'[t] = "create"
      BY <2>1 DEF TypeOK
    <3>4. ASSUME NEW u \in Ticks, pc'[u] \in AtSlot
          PROVE  /\ slot[u] \notin linked
                 /\ made[slot[u]] = IF pc'[u] = "create" THEN 0 ELSE 1
                 /\ slot[u] \in wants' <=> arg[u].avatar
                 /\ pc'[u] = "avatar" => arg[u].avatar
                 /\ pc'[u] = "link" /\ arg[u].avatar => slot[u] \in queued
      <4>1. CASE u = t
        BY <2>1, <3>1, <3>3, <4>1
      <4>2. CASE u # t
        BY <2>1, <3>2, <3>4, <4>2 DEF Owned
      <4> QED
        BY <4>1, <4>2
    <3>5. \A u, v \in Ticks : u # v /\ pc'[u] \in AtSlot /\ pc'[v] \in AtSlot => slot[u] # slot[v]
      BY <3>2 DEF Owned
    <3>6. /\ \A q \in Slots : q \notin slots' => made[q] = 0
          /\ wants' \subseteq slots' /\ linked \subseteq slots'
      BY <2>1 DEF Owned
    <3> QED
      BY <2>1, <3>4, <3>5, <3>6 DEF Owned, Slots
  <2>7. CadenceKept'
    BY <2>1, <2>2, <2>3, SchedulerAssumption DEF CadenceKept, history
  <2>8. OneJobPerSlot'
    BY <2>1 DEF OneJobPerSlot, Slots
  <2>9. LinkedIsComplete'
    BY <1>2, <2>1 DEF LinkedIsComplete, Owned
  <2> QED
    BY <2>3, <2>4, <2>5, <2>6, <2>7, <2>8, <2>9
<1> QED
    BY <1>1, <1>2

(* What the owner of a slot does for it concerns no other tick.            *)
LEMMA CreateIInv ==
    ASSUME IInv, NEW t \in Ticks, Create(t)
    PROVE  IInv'
<1> USE DEF IInv
<1>1. /\ pc[t] = "create"
      /\ pc' = [pc EXCEPT ![t] = IF arg[t].avatar THEN "avatar" ELSE "link"]
      /\ made' = [made EXCEPT ![slot[t]] = @ + 1]
      /\ UNCHANGED <<slots, wants, linked, queued, dayLock, conn, arg, slot, left, history>>
    BY DEF Create, Transact
<1>2. slot[t] \in slots /\ made[slot[t]] = 0 /\ slot[t] \notin linked
    BY <1>1 DEF Planned, Owned, Loop, AtSlot
<1>3. /\ \A u \in Ticks \ {t} : pc'[u] = pc[u]
      /\ pc'[t] = IF arg[t].avatar THEN "avatar" ELSE "link"
      /\ \A q \in Slots : made'[q] = IF q = slot[t] THEN 1 ELSE made[q]
    BY <1>1, <1>2 DEF TypeOK
<1>4. TypeOK'
  <2>1. pc' \in [Ticks -> Step]
    BY <1>1 DEF TypeOK, Step, Transaction, AtSlot
  <2>2. made' \in [Slots -> Nat]
    BY <1>1, <1>2 DEF TypeOK
  <2> QED
    BY <1>1, <2>1, <2>2 DEF TypeOK, history
<1>5. Contiguous' /\ Cardinality(slots)' = Cardinality(slots)
    BY <1>1 DEF Contiguous
<1>6. Planned'
    BY <1>1, <1>3, <1>5 DEF Planned, Loop, AtSlot, history
<1>7. Owned'
  <2>1. \A u \in Ticks : pc[u] \in AtSlot => slot[u] \in Slots
    BY DEF Planned, Loop, AtSlot, TypeOK
  <2>2. \A u \in Ticks : pc'[u] \in AtSlot => pc[u] \in AtSlot
    BY <1>1, <1>3 DEF AtSlot
  <2>3. \A u \in Ticks \ {t} : pc[u] \in AtSlot => slot[u] # slot[t]
    BY <1>1 DEF Owned, AtSlot
  <2>4. ASSUME NEW u \in Ticks, pc'[u] \in AtSlot
        PROVE  /\ slot[u] \notin linked
               /\ made'[slot[u]] = IF pc'[u] = "create" THEN 0 ELSE 1
               /\ slot[u] \in wants <=> arg[u].avatar
               /\ pc'[u] = "avatar" => arg[u].avatar
               /\ pc'[u] = "link" /\ arg[u].avatar => slot[u] \in queued
    BY <1>1, <1>2, <1>3, <2>1, <2>2, <2>3, <2>4 DEF Owned
  <2>5. \A u, v \in Ticks : u # v /\ pc'[u] \in AtSlot /\ pc'[v] \in AtSlot => slot[u] # slot[v]
    BY <2>2 DEF Owned
  <2>6. \A q \in Slots : q \notin slots => made'[q] = 0
    BY <1>2, <1>3 DEF Owned
  <2>7. wants \subseteq slots /\ linked \subseteq slots
    BY DEF Owned
  <2> QED
    BY <1>1, <2>4, <2>5, <2>6, <2>7 DEF Owned, Slots
<1>8. CadenceKept' /\ OneJobPerSlot' /\ LinkedIsComplete'
    BY <1>1, <1>2, <1>3, <1>5 DEF CadenceKept, OneJobPerSlot, LinkedIsComplete, history, Slots, TypeOK
<1> QED
    BY <1>4, <1>5, <1>6, <1>7, <1>8

LEMMA AvatarIInv ==
    ASSUME IInv, NEW t \in Ticks, Avatar(t)
    PROVE  IInv'
<1> USE DEF IInv
<1>1. /\ pc[t] = "avatar" /\ pc' = [pc EXCEPT ![t] = "link"]
      /\ queued' = queued \cup {slot[t]}
      /\ UNCHANGED <<slots, wants, linked, made, dayLock, conn, arg, slot, left, history>>
    BY DEF Avatar, Transact
<1>2. pc'[t] = "link" /\ \A u \in Ticks \ {t} : pc'[u] = pc[u]
    BY <1>1 DEF TypeOK
<1>3. slot[t] \in slots
    BY <1>1 DEF Planned, Loop, AtSlot
<1>4. TypeOK'
    BY <1>1, <1>3 DEF TypeOK, Step, Transaction, AtSlot, history
<1>5. Contiguous' /\ Cardinality(slots)' = Cardinality(slots)
    BY <1>1 DEF Contiguous
<1>6. Planned'
    BY <1>1, <1>2, <1>5 DEF Planned, Loop, AtSlot, history
<1>7. Owned'
    BY <1>1, <1>2 DEF Owned, Slots, AtSlot
<1>8. CadenceKept' /\ OneJobPerSlot' /\ LinkedIsComplete'
    BY <1>1, <1>5 DEF CadenceKept, OneJobPerSlot, LinkedIsComplete, history, Slots
<1> QED
    BY <1>4, <1>5, <1>6, <1>7, <1>8

LEMMA LinkIInv ==
    ASSUME IInv, NEW t \in Ticks, Link(t)
    PROVE  IInv'
<1> USE DEF IInv
<1>1. /\ pc[t] = "link" /\ pc' = [pc EXCEPT ![t] = "count"]
      /\ linked' = linked \cup {slot[t]}
      /\ UNCHANGED <<slots, wants, made, queued, dayLock, conn, arg, slot, left, history>>
    BY DEF Link, Transact
<1>2. pc'[t] = "count" /\ \A u \in Ticks \ {t} : pc'[u] = pc[u]
    BY <1>1 DEF TypeOK
<1>3. /\ slot[t] \in slots /\ made[slot[t]] = 1
      /\ slot[t] \in wants => slot[t] \in queued
      /\ \A u \in Ticks \ {t} : pc[u] \in AtSlot => slot[u] # slot[t]
    BY <1>1 DEF Planned, Owned, Loop, AtSlot
<1>4. TypeOK'
    BY <1>1, <1>3 DEF TypeOK, Step, Transaction, AtSlot, history
<1>5. Contiguous' /\ Cardinality(slots)' = Cardinality(slots)
    BY <1>1 DEF Contiguous
<1>6. Planned'
    BY <1>1, <1>2, <1>3, <1>5 DEF Planned, Loop, AtSlot, history
<1>7. Owned'
    BY <1>1, <1>2, <1>3 DEF Owned, Slots, AtSlot
<1>8. CadenceKept' /\ OneJobPerSlot' /\ LinkedIsComplete'
    BY <1>1, <1>3, <1>5 DEF CadenceKept, OneJobPerSlot, LinkedIsComplete, history, Slots
<1> QED
    BY <1>4, <1>5, <1>6, <1>7, <1>8

-----------------------------------------------------------------------------
LEMMA CrashReturns ==
    ASSUME IInv, NEW p \in Processes, Crash(p)
    PROVE  IInv'
<1>1. IsFiniteSet({t \in TicksOf(p) : pc[t] \in AtSlot})
    BY FS_Subset, SchedulerAssumption DEF TicksOf
<1>2. Cardinality({t \in TicksOf(p) : pc[t] \in AtSlot}) \in Nat
    BY <1>1, FS_CardinalityType
<1>3. cut' \in Nat
    BY <1>2 DEF Crash, IInv, TypeOK
<1>4. dayLock' \in Ticks \cup {Nobody} /\ failures' \in 0..MaxFailures
    BY SchedulerAssumption DEF Crash, Fail, IInv, TypeOK
<1> QED
    BY <1>3, <1>4, ReturnIInv DEF Crash

LEMMA NextIInv ==
    ASSUME IInv, [Next]_vars
    PROVE  IInv'
<1>1. CASE UNCHANGED vars
  <2>1. TypeOK'
    BY <1>1 DEF IInv, TypeOK, vars, tables, local, history
  <2> QED
    BY <1>1, <2>1, FrameIInv DEF vars, local, history
<1>2. CASE BeginCron
    BY <1>2, BeginIInv, SchedulerAssumption DEF BeginCron, Args, IInv, TypeOK
<1>3. ASSUME NEW t \in Ticks, BeginManual(t) PROVE IInv'
  <2>1. manual' \in 0..MaxManual
    BY <1>3, SchedulerAssumption DEF BeginManual, IInv, TypeOK
  <2> QED
    BY <1>3, <2>1, BeginIInv DEF BeginManual, Args
<1>4. ASSUME NEW t \in Ticks, TryLock(t) \/ Told(t) PROVE IInv'
    BY <1>4, LockIInv
<1>5. ASSUME NEW t \in Ticks, Plan(t) \/ Reserve(t) PROVE IInv'
    BY <1>5, PlanIInv, ReserveIInv
<1>6. ASSUME NEW t \in Ticks, Create(t) \/ Avatar(t) \/ Link(t) \/ Count(t) PROVE IInv'
    BY <1>6, CreateIInv, AvatarIInv, LinkIInv, CountIInv
<1>7. ASSUME NEW t \in Ticks, Unlock(t) PROVE IInv'
    BY <1>7, ReturnIInv DEF Unlock, history, IInv, TypeOK
<1>8. ASSUME NEW t \in Ticks, Raise(t) PROVE IInv'
    BY <1>8, RaiseIInv
<1>9. ASSUME NEW p \in Processes, Crash(p) PROVE IInv'
    BY <1>9, CrashReturns
<1>10. CASE LoseLock
    BY <1>10, LoseLockIInv
<1> QED
    BY <1>1, <1>2, <1>3, <1>4, <1>5, <1>6, <1>7, <1>8, <1>9, <1>10 DEF Next, Continue

LEMMA InductiveInvariant == Spec => []IInv
<1>1. Init => IInv
    BY InitIInv
<1>2. IInv /\ [Next]_vars => IInv'
    BY NextIInv
<1> QED
    BY <1>1, <1>2, PTL DEF Spec

(* The variables have their types.                                         *)
THEOREM TypeCorrect == Spec => []TypeOK
<1>1. IInv => TypeOK
    BY DEF IInv
<1> QED
    BY <1>1, InductiveInvariant, PTL

(* tick never overshoots the daily cap, with the advisory lock or without. *)
THEOREM CadenceKeptHolds == Spec => []CadenceKept
<1>1. IInv => CadenceKept
    BY DEF IInv
<1> QED
    BY <1>1, InductiveInvariant, PTL

(* The unique (run_date, slot) and the order of tick give a slot one job.  *)
THEOREM OneJobPerSlotHolds == Spec => []OneJobPerSlot
<1>1. IInv => OneJobPerSlot
    BY DEF IInv
<1> QED
    BY <1>1, InductiveInvariant, PTL

-----------------------------------------------------------------------------
(* Which ticks are at a slot, and how the holes of the day follow them.    *)
Busy == {t \in Ticks : pc[t] \in AtSlot}

LEMMA FiniteSets ==
    ASSUME IInv
    PROVE  /\ IsFiniteSet(Busy) /\ Cardinality(Busy) \in Nat
           /\ IsFiniteSet(slots \ linked) /\ Cardinality(slots \ linked) \in Nat
<1>1. IsFiniteSet(Busy)
    BY FS_Subset, SchedulerAssumption DEF Busy
<1>2. IsFiniteSet(slots \ linked)
    BY FS_Subset DEF IInv, Contiguous
<1> QED
    BY <1>1, <1>2, FS_CardinalityType

LEMMA NextHoles ==
    ASSUME IInv, HolesExplained, [Next]_vars
    PROVE  HolesExplained'
<1> USE DEF IInv
<1>0. Cardinality(slots \ linked) = cut + Cardinality(Busy) /\ cut \in Nat
    BY DEF HolesExplained, Busy, TypeOK
<1>1. ASSUME slots' \ linked' = slots \ linked, cut' = cut, Busy' = Busy
      PROVE  HolesExplained'
    BY <1>0, <1>1 DEF HolesExplained, Busy
<1>2. CASE UNCHANGED vars
    BY <1>1, <1>2 DEF vars, tables, local, history, Busy
<1>3. ASSUME NEW t \in Ticks, NEW a, Begin(t, a) PROVE HolesExplained'
  <2>1. Busy' = Busy
    BY <1>3 DEF Begin, Busy, AtSlot, TypeOK
  <2> QED
    BY <1>1, <1>3, <2>1 DEF Begin, tables
<1>4. ASSUME NEW t \in Ticks, TryLock(t) \/ Told(t) \/ Plan(t) PROVE HolesExplained'
  <2>1. Busy' = Busy
    BY <1>4 DEF TryLock, Told, Plan, Transact, Busy, AtSlot, TypeOK
  <2> QED
    BY <1>1, <1>4, <2>1 DEF TryLock, Told, Plan, tables, history
<1>5. ASSUME NEW t \in Ticks, Create(t) \/ Avatar(t) \/ Count(t) PROVE HolesExplained'
  <2>1. Busy' = Busy
    BY <1>5 DEF Create, Avatar, Count, AfterTurn, Transact, Busy, AtSlot, TypeOK
  <2> QED
    BY <1>1, <1>5, <2>1 DEF Create, Avatar, Count, history
<1>6. ASSUME NEW t \in Ticks, Reserve(t) PROVE HolesExplained'
  <2>1. CASE slot[t] \in slots
    <3>1. Busy' = Busy
      BY <1>6, <2>1 DEF Reserve, AfterTurn, Transact, Busy, AtSlot, TypeOK
    <3> QED
      BY <1>1, <1>6, <2>1, <3>1 DEF Reserve, history
  <2>2. CASE slot[t] \notin slots
    <3>1. /\ t \notin Busy /\ Busy' = Busy \cup {t}
          /\ slots' = slots \cup {slot[t]} /\ linked' = linked /\ cut' = cut
      BY <1>6, <2>2 DEF Reserve, Transact, Busy, AtSlot, TypeOK, history
    <3>2. slot[t] \notin linked
      BY <2>2 DEF Owned
    <3>3. slots' \ linked' = (slots \ linked) \cup {slot[t]} /\ slot[t] \notin slots \ linked
      BY <2>2, <3>1, <3>2
    <3>4. /\ Cardinality(slots' \ linked') = Cardinality(slots \ linked) + 1
          /\ Cardinality(Busy') = Cardinality(Busy) + 1
      BY <3>1, <3>3, FiniteSets, FS_AddElement
    <3> QED
      BY <1>0, <3>1, <3>4, FiniteSets DEF HolesExplained, Busy
  <2> QED
    BY <2>1, <2>2
<1>7. ASSUME NEW t \in Ticks, Link(t) PROVE HolesExplained'
  <2>1. /\ t \in Busy /\ Busy' = Busy \ {t}
        /\ slots' = slots /\ linked' = linked \cup {slot[t]} /\ cut' = cut
    BY <1>7 DEF Link, Transact, Busy, AtSlot, TypeOK, history
  <2>2. slot[t] \in slots \ linked
    BY <2>1 DEF Busy, Owned, Planned, Loop, AtSlot
  <2>3. slots' \ linked' = (slots \ linked) \ {slot[t]}
    BY <2>1
  <2>4. /\ Cardinality(slots' \ linked') = Cardinality(slots \ linked) - 1
        /\ Cardinality(Busy') = Cardinality(Busy) - 1
    BY <2>1, <2>2, <2>3, FiniteSets, FS_RemoveElement
  <2> QED
    BY <1>0, <2>1, <2>4, FiniteSets DEF HolesExplained, Busy
<1>8. ASSUME NEW t \in Ticks, Unlock(t) PROVE HolesExplained'
  <2>1. Busy' = Busy
    BY <1>8 DEF Unlock, Return, Busy, AtSlot
  <2> QED
    BY <1>1, <1>8, <2>1 DEF Unlock, tables, history
<1>9. ASSUME NEW t \in Ticks, Raise(t) PROVE HolesExplained'
  <2>1. UNCHANGED <<slots, linked>>
    BY <1>9 DEF Raise, tables
  <2>2. CASE t \in Busy
    <3>1. Busy' = Busy \ {t} /\ cut' = cut + 1
      BY <1>9, <2>2 DEF Raise, Busy, AtSlot, TypeOK
    <3>2. Cardinality(Busy') = Cardinality(Busy) - 1
      BY <2>2, <3>1, FiniteSets, FS_RemoveElement
    <3> QED
      BY <1>0, <2>1, <3>1, <3>2, FiniteSets DEF HolesExplained, Busy
  <2>3. CASE t \notin Busy
    <3>1. Busy' = Busy /\ cut' = cut
      BY <1>9, <2>3 DEF Raise, Busy, AtSlot, TypeOK
    <3> QED
      BY <1>1, <2>1, <3>1
  <2> QED
    BY <2>2, <2>3
<1>10. ASSUME NEW p \in Processes, Crash(p) PROVE HolesExplained'
  <2> DEFINE Lost == {t \in TicksOf(p) : pc[t] \in AtSlot}
  <2>1. cut' = cut + Cardinality(Lost) /\ UNCHANGED <<slots, linked>>
    BY <1>10 DEF Crash, tables
  <2>2. Busy' = Busy \ Lost
    BY <1>10 DEF Crash, Return, Busy, TicksOf, AtSlot
  <2>3. Busy = Busy' \cup Lost /\ Busy' \cap Lost = {}
    BY <2>2 DEF Busy, TicksOf
  <2>4. IsFiniteSet(Busy') /\ IsFiniteSet(Lost)
    BY <2>3, FiniteSets, FS_Subset
  <2>5. Cardinality(Busy) = Cardinality(Busy') + Cardinality(Lost) - Cardinality({})
    BY <2>3, <2>4, FS_Union
  <2>6. Cardinality({}) = 0 /\ Cardinality(Busy') \in Nat /\ Cardinality(Lost) \in Nat
    BY <2>4, FS_EmptySet, FS_CardinalityType
  <2> QED
    BY <1>0, <2>1, <2>5, <2>6, FiniteSets DEF HolesExplained, Busy
<1>11. CASE LoseLock
  <2>1. Busy' = Busy
    BY <1>11 DEF LoseLock, local, Busy
  <2> QED
    BY <1>1, <1>11, <2>1 DEF LoseLock, tables
<1> QED
    BY <1>2, <1>3, <1>4, <1>5, <1>6, <1>7, <1>8, <1>9, <1>10, <1>11, SchedulerAssumption
    DEF Next, Continue, BeginCron, BeginManual

(* A post of the day is lost only by interrupting a tick at its slot.      *)
THEOREM HolesExplainedHolds == Spec => []HolesExplained
<1>1. Init => HolesExplained
  <2> SUFFICES ASSUME Init PROVE HolesExplained
    OBVIOUS
  <2>1. slots \ linked = {} /\ {t \in Ticks : pc[t] \in AtSlot} = {} /\ cut = 0
    BY DEF Init, AtSlot
  <2> QED
    BY <2>1, FS_EmptySet DEF HolesExplained
<1>2. IInv /\ HolesExplained /\ [Next]_vars => HolesExplained'
    BY NextHoles
<1> QED
    BY <1>1, <1>2, InductiveInvariant, PTL DEF Spec

(* schedule_runs.job_id is set when job and work are there.                *)
THEOREM LinkedIsCompleteHolds == Spec => []LinkedIsComplete
<1>1. IInv => LinkedIsComplete
    BY DEF IInv
<1> QED
    BY <1>1, InductiveInvariant, PTL

-----------------------------------------------------------------------------
(* How the steps of the ticks appear in DayPlan.                           *)
LEMMA InitDay == Init => Day!Init
  BY DEF Init, Day!Init

(* The tick that owns a slot has seen none of its work done by others.     *)
LEMMA OwnedSlot ==
    ASSUME IInv, NEW t \in Ticks, pc[t] \in AtSlot
    PROVE  /\ slot[t] \in slots /\ slot[t] \in Slots
           /\ slot[t] \notin linked
           /\ made[slot[t]] = IF pc[t] = "create" THEN 0 ELSE 1
           /\ slot[t] \in wants <=> arg[t].avatar
           /\ pc[t] = "avatar" => arg[t].avatar
           /\ pc[t] = "link" /\ arg[t].avatar => slot[t] \in queued
  BY DEF IInv, Planned, Owned, Loop, AtSlot, TypeOK

LEMMA ReserveDay ==
    ASSUME IInv, NEW t \in Ticks, Reserve(t)
    PROVE  Day!Next \/ UNCHANGED Day!vars
<1>1. CASE slot[t] \in slots
    BY <1>1 DEF Reserve, Day!vars, history
<1>2. CASE slot[t] \notin slots
  <2>1. slot[t] \in Slots /\ pc[t] = "reserve" /\ slots' = slots \cup {slot[t]}
    BY <1>2 DEF Reserve, Transact
  <2>2. /\ left[t] >= 1 /\ slot[t] <= Cardinality(slots) + 1
        /\ slot[t] + left[t] <= PostsPerDay + forced + 1
        /\ 1 <= slot[t] /\ slot[t] \in Nat /\ left[t] \in Nat /\ forced \in Nat
    BY <2>1 DEF IInv, Planned, Loop, TypeOK
  <2>3. slot[t] = Cardinality(slots) + 1 /\ Cardinality(slots) \in Nat
    BY <1>2, <2>1, <2>2, NextSlot, SlotsCardinality DEF IInv
  <2>4. Cardinality(slots) < PostsPerDay + forced
    BY <2>2, <2>3, SchedulerAssumption
  <2>5. PICK s \in Slots : s = slot[t]
    BY <2>1
  <2>6. /\ slots' = slots \cup {s}
        /\ wants' = wants \/ wants' = wants \cup {s}
        /\ UNCHANGED <<made, queued, linked, forced>>
    BY <1>2, <2>5 DEF Reserve, history
  <2>7. wants' \in {wants, wants \cup {s}}
    BY <2>6
  <2>8. Day!Open(s)
    BY <1>2, <2>4, <2>5, <2>6, <2>7 DEF Day!Open, Day!Cardinality, Cardinality
  <2> QED
    BY <2>8 DEF Day!Next
<1> QED
    BY <1>1, <1>2

LEMMA CreateDay ==
    ASSUME IInv, NEW t \in Ticks, Create(t)
    PROVE  Day!Next
<1>1. PICK s \in Slots : s = slot[t]
    BY OwnedSlot DEF Create, Transact, AtSlot
<1>2. s \in slots /\ made[s] = 0
    BY <1>1, OwnedSlot DEF Create, Transact, AtSlot
<1>3. made' = [made EXCEPT ![s] = 1]
    BY <1>1, <1>2 DEF Create, IInv, TypeOK
<1>4. Day!MakeJob(s)
    BY <1>2, <1>3 DEF Create, Day!MakeJob, history
<1> QED
    BY <1>4 DEF Day!Next

LEMMA AvatarDay ==
    ASSUME IInv, NEW t \in Ticks, Avatar(t)
    PROVE  Day!Next
<1>1. PICK s \in Slots : s = slot[t]
    BY OwnedSlot DEF Avatar, Transact, AtSlot
<1>2. made[s] = 1 /\ s \notin linked
    BY <1>1, OwnedSlot DEF Avatar, Transact, AtSlot
<1>3. s \in wants
    BY <1>1, OwnedSlot DEF Avatar, Transact, AtSlot
<1>4. Day!Film(s)
    BY <1>1, <1>2, <1>3 DEF Avatar, Day!Film, history
<1> QED
    BY <1>4 DEF Day!Next

LEMMA LinkDay ==
    ASSUME IInv, NEW t \in Ticks, Link(t)
    PROVE  Day!Next
<1>1. PICK s \in Slots : s = slot[t]
    BY OwnedSlot DEF Link, Transact, AtSlot
<1>2. made[s] = 1 /\ (s \in wants => s \in queued)
    BY <1>1, OwnedSlot DEF Link, Transact, AtSlot
<1>3. Day!Name(s)
    BY <1>1, <1>2 DEF Link, Day!Name, history
<1> QED
    BY <1>3 DEF Day!Next

LEMMA PlanDay ==
    ASSUME IInv, NEW t \in Ticks, Plan(t)
    PROVE  Day!Next
<1>1. Remaining(arg[t]) \in Nat
    BY RemainingBound, SlotsCardinality DEF IInv, TypeOK
<1>2. forced' \in Nat /\ forced' >= forced
    BY <1>1 DEF Plan, IInv, TypeOK
<1>3. Day!Allow
    BY <1>2 DEF Plan, Day!Allow, tables
<1> QED
    BY <1>3 DEF Day!Next

(* Ticks that overlap, break off or wait for a connection change the day   *)
(* in the steps of DayPlan only, with the advisory lock or without.        *)
THEOREM SchedulerImplementsDayPlan == Spec => ImplementsDayPlan
<1>1. Init => Day!Init
    BY InitDay
<1>2. IInv /\ [Next]_vars => [Day!Next]_(Day!vars)
  <2> SUFFICES ASSUME IInv, [Next]_vars
               PROVE  Day!Next \/ UNCHANGED Day!vars
    OBVIOUS
  <2>1. ASSUME UNCHANGED <<tables, forced>>
        PROVE  UNCHANGED Day!vars
    BY <2>1 DEF tables, Day!vars
  <2>2. ASSUME NEW t \in Ticks, Reserve(t) \/ Create(t) \/ Avatar(t) \/ Link(t) \/ Plan(t)
        PROVE  Day!Next \/ UNCHANGED Day!vars
    BY <2>2, ReserveDay, CreateDay, AvatarDay, LinkDay, PlanDay
  <2>3. ASSUME NEW t \in Ticks, TryLock(t) \/ Told(t) \/ Count(t) \/ Unlock(t) \/ Raise(t)
        PROVE  UNCHANGED <<tables, forced>>
    BY <2>3 DEF TryLock, Told, Count, Unlock, Raise, tables, history
  <2>4. ASSUME NEW t \in Ticks, BeginManual(t)
        PROVE  UNCHANGED <<tables, forced>>
    BY <2>4 DEF BeginManual, Begin
  <2>5. CASE BeginCron
    BY <2>1, <2>5 DEF BeginCron, Begin
  <2>6. ASSUME NEW p \in Processes, Crash(p)
        PROVE  UNCHANGED <<tables, forced>>
    BY <2>6 DEF Crash
  <2>7. CASE LoseLock
    BY <2>1, <2>7 DEF LoseLock
  <2>8. CASE UNCHANGED vars
    BY <2>1, <2>8 DEF vars, history
  <2> QED
    BY <2>1, <2>2, <2>3, <2>4, <2>5, <2>6, <2>7, <2>8 DEF Next, Continue
<1> QED
    BY <1>1, <1>2, InductiveInvariant, PTL DEF Spec, ImplementsDayPlan, Day!Spec

=============================================================================
