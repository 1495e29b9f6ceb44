---------------------------- MODULE KernelProofs ----------------------------
(***************************************************************************)
(* Proofs about Kernel, for every size of the task table and every set of  *)
(* objects and priorities.                                                 *)
(***************************************************************************)
EXTENDS Kernel, FiniteSetTheorems, TLAPS

(* Ids cannot wrap within the bound on the number of starts. *)
IdsFit == MaxStarts < IdSpan

-----------------------------------------------------------------------------
(* Arithmetic and cardinality *)

(* Arithmetic on uint8_t wraps, and is exact below 256. *)
LEMMA ByteWraps ==
    /\ \A n \in Int : Byte(n) \in 0..255
    /\ \A n \in 0..255 : Byte(n) = n
BY DEF Byte

(* The slots are the numbers below MAX_TASK_COUNT. *)
LEMMA SlotNumbers ==
    /\ Slots \subseteq Int
    /\ \A k \in Int : k \in Slots <=> 0 <= k /\ k < MAX_TASK_COUNT
<1>1. MAX_TASK_COUNT \in Int
    BY SlotsAssumption
<1> QED
    BY <1>1 DEF Slots

(* The number of slots in a set of slots is at most MAX_TASK_COUNT. *)
LEMMA SlotsCardinality ==
    ASSUME NEW T \in SUBSET Slots
    PROVE  /\ IsFiniteSet(T)
           /\ Cardinality(T) \in 0..MAX_TASK_COUNT
<1>1. MAX_TASK_COUNT \in Nat /\ MAX_TASK_COUNT > 0
    BY SlotsAssumption
<1>2. IsFiniteSet(Slots) /\ Cardinality(Slots) = MAX_TASK_COUNT
  <2>1. IsFiniteSet(0..(MAX_TASK_COUNT - 1))
        /\ Cardinality(0..(MAX_TASK_COUNT - 1)) =
             IF 0 > MAX_TASK_COUNT - 1 THEN 0 ELSE (MAX_TASK_COUNT - 1) - 0 + 1
      BY <1>1, FS_Interval
  <2> QED
      BY <1>1, <2>1 DEF Slots
<1>3. IsFiniteSet(T) /\ Cardinality(T) <= Cardinality(Slots)
    BY <1>2, FS_Subset
<1>4. Cardinality(T) \in Nat
    BY <1>3, FS_CardinalityType
<1> QED
    BY <1>1, <1>2, <1>3, <1>4

-----------------------------------------------------------------------------
(* Steps that leave the set of live slots alone *)

(* The table invariants survive a step that changes at most how live slots  *)
(* are live.                                                                *)
LEMMA SameTable ==
    ASSUME TableInv,
           UNCHANGED <<priority, jmp_list, task_id, task_obj, level_stash,
                       lstash_ptr, max_level, task_count>>,
           \A t \in Slots : state'[t] = IDLE <=> state[t] = IDLE
    PROVE  TableInv'
<1>1. \A t \in Slots : Live(t)' <=> Live(t)
    BY DEF Live
<1>2. LiveSlots' = LiveSlots
    BY <1>1 DEF LiveSlots, Slots
<1>3. Identity'
    BY <1>1 DEF TableInv, Identity
<1>4. RingIntact' /\ Linked' /\ TaskCountExact'
    BY <1>2 DEF TableInv, RingIntact, Linked, TaskCountExact, IsRing, HasLower, Slots
<1>5. MaxLevelExact'
    BY <1>1 DEF TableInv, MaxLevelExact
<1> QED
    BY <1>3, <1>4, <1>5 DEF TableInv

(* In thread mode a task runs that is live and is the scheduler's choice. *)
LEMMA Running ==
    ASSUME TypeOK, OneRunner, Live(next_task), ThreadMode
    PROVE  /\ normal_schedule
           /\ next_task = current_task
           /\ Live(current_task)
BY DEF OneRunner, ThreadMode, Live

(* A call entered or given up: only call changes. *)
LEMMA EnterPreserves ==
    ASSUME TypeOK, TableInv, OneRunner, Live(next_task), CallsAim,
           NEW c \in Calls, Enter(c),
           c.op = "kill" => current_task # 0 /\ c.slot # current_task,
           c.op = "pid" => current_task # 0 /\ c.id.index # current_task
    PROVE  TypeOK' /\ TableInv' /\ OneRunner' /\ Live(next_task)' /\ CallsAim'
<1> USE DEF Enter, slotVars, levelVars, countVars, switchVars
<1>1. TypeOK'
    BY DEF TypeOK
<1>2. TableInv'
    BY SameTable
<1>3. OneRunner' /\ Live(next_task)'
    BY DEF OneRunner, Live
<1>4. CallsAim'
    BY DEF CallsAim, TypeOK
<1> QED
    BY <1>1, <1>2, <1>3, <1>4

(* A fault, a tick and the context switch. *)
LEMMA SwitchPreserves ==
    ASSUME TypeOK, TableInv, OneRunner, Live(next_task), CallsAim,
           \/ \E kind \in Faults : Fail(kind)
           \/ Tick
           \/ pendsv_handler
           \/ UNCHANGED vars
    PROVE  TypeOK' /\ TableInv' /\ OneRunner' /\ Live(next_task)' /\ CallsAim'
<1> USE DEF Fail, Tick, pendsv_handler, vars, slotVars, levelVars, countVars, switchVars
<1>1. TypeOK'
  <2>1. /\ UNCHANGED <<state, priority, jmp_list, task_id, task_obj, level_stash,
                       lstash_ptr, max_level, alc, hlc, next_task, task_count,
                       total_task_count, first_start, normal_schedule, sched_on, call>>
        /\ current_task' \in {current_task, next_task}
        /\ systick' \in BOOLEAN /\ pendsv' \in BOOLEAN
        /\ fault' \in Faults \cup {"none"}
      BY DEF TypeOK
  <2> QED
      BY <2>1 DEF TypeOK
<1>2. TableInv'
    BY SameTable
<1>3. OneRunner' /\ Live(next_task)'
    BY DEF OneRunner, Live
<1>4. CallsAim'
    BY DEF CallsAim
<1> QED
    BY <1>1, <1>2, <1>3, <1>4

(* The running task gives the processor up: hibernate, hand over, and main  *)
(* starting the scheduler.                                                  *)
LEMMA GiveUpPreserves ==
    ASSUME TypeOK, TableInv, OneRunner, Live(next_task), CallsAim,
           \/ \E reverse \in BOOLEAN : svc_service_hibernate(reverse)
           \/ svc_service_hand_over
           \/ svc_service_start_scheduler
    PROVE  TypeOK' /\ TableInv' /\ OneRunner' /\ Live(next_task)' /\ CallsAim'
<1> USE DEF svc_service_hibernate, svc_service_hand_over, svc_service_start_scheduler,
            HandOver, levelVars, countVars
<1>1. ThreadMode
    OBVIOUS
<1>2. normal_schedule /\ next_task = current_task /\ Live(current_task)
    BY <1>1, Running
<1>3. \E z \in {SLEEP, HIBERNATE_G, HIBERNATE_L} :
        state' = [state EXCEPT ![current_task] = z]
    OBVIOUS
<1>4. /\ UNCHANGED <<priority, jmp_list, task_id, task_obj, level_stash, lstash_ptr,
                     max_level, task_count, total_task_count, current_task, next_task,
                     sched_on, pendsv, call, fault>>
      /\ ~normal_schedule' /\ systick' /\ ~pendsv
      /\ first_start' \in BOOLEAN /\ normal_schedule' \in BOOLEAN /\ systick' \in BOOLEAN
    BY <1>1 DEF TypeOK, ThreadMode
<1>5. alc' \in 0..255 /\ hlc' \in 0..255
  <2>1. alc \in 0..255 /\ hlc \in 0..255
      BY DEF TypeOK
  <2>2. Byte(alc - 1) \in 0..255 /\ Byte(hlc + 1) \in 0..255
      BY <2>1, ByteWraps
  <2>3. alc' \in {alc, Byte(alc - 1)} /\ hlc' \in {hlc, Byte(hlc + 1)}
      OBVIOUS
  <2> QED
      BY <2>1, <2>2, <2>3
<1> HIDE DEF svc_service_hibernate, svc_service_hand_over, svc_service_start_scheduler
<1>6. TypeOK'
    BY <1>3, <1>4, <1>5 DEF TypeOK, States
<1>7. \A t \in Slots : state'[t] = IDLE <=> state[t] = IDLE
    BY <1>2, <1>3 DEF TypeOK, Live, IDLE, SLEEP, HIBERNATE_G, HIBERNATE_L
<1>8. TableInv'
    BY <1>4, <1>7, SameTable
<1>9. OneRunner'
    BY <1>2, <1>3, <1>4 DEF OneRunner, TypeOK, ACTIVE, SLEEP, HIBERNATE_G, HIBERNATE_L
<1>10. Live(next_task)' /\ CallsAim'
    BY <1>4, <1>7 DEF Live, TypeOK, CallsAim
<1> QED
    BY <1>6, <1>8, <1>9, <1>10

(* scheduler() ends its search at a ready task. *)
LEMMA SelectedReady ==
    ASSUME NEW st, NEW n \in Selected(st)
    PROVE  st[n] = SLEEP
<1> DEFINE first == CHOOSE m \in 1..MaxWalk :
                      Stops(m, st) /\ \A k \in 1..(m - 1) : ~Stops(k, st)
<1>1. \A m : Stops(m, st) => st[Walk[m]] = SLEEP
    BY DEF Stops
<1>2. CASE \E m \in 1..MaxWalk : Stops(m, st)
  <2>1. n \in {t \in Slots : t = Walk[first] /\ Stops(first, st)}
      BY <1>2, Zenon DEF Selected
  <2> HIDE DEF first
  <2> QED
      BY <2>1, <1>1
<1>3. CASE ~ \E m \in 1..MaxWalk : Stops(m, st)
    BY <1>3, Zenon DEF Selected
<1> QED
    BY <1>2, <1>3

(* scheduler() switches from one live task to another. *)
LEMMA SchedulerPreserves ==
    ASSUME TypeOK, TableInv, OneRunner, Live(next_task), CallsAim, scheduler
    PROVE  TypeOK' /\ TableInv' /\ OneRunner' /\ Live(next_task)' /\ CallsAim'
<1>1. normal_schedule => next_task = current_task /\ Live(current_task)
    BY DEF scheduler, OneRunner
<1>2. /\ Suspended \in [Slots -> States]
      /\ \A t \in Slots : Suspended[t] # ACTIVE
      /\ \A t \in Slots : Suspended[t] = IDLE <=> state[t] = IDLE
    BY <1>1 DEF Suspended, TypeOK, States, OneRunner, Live, ACTIVE, SLEEP, IDLE
<1>3. PICK woken \in SUBSET Wakeable :
        LET st == Awake(Suspended, woken)
            tops == Cardinality({t \in woken : priority[t] = max_level})
        IN  /\ hlc' = Byte(hlc - tops)
            /\ alc' = Byte(alc + tops)
            /\ \E t \in Selected(st) : SwitchTo(t, st)
    BY DEF scheduler
<1> DEFINE st == Awake(Suspended, woken)
<1>4. /\ st \in [Slots -> States]
      /\ \A t \in Slots : st[t] # ACTIVE
      /\ \A t \in Slots : st[t] = IDLE <=> state[t] = IDLE
    BY <1>2 DEF Awake, Wakeable, Hibernating, States, ACTIVE, SLEEP, IDLE, HIBERNATE_G, HIBERNATE_L
<1>5. PICK n \in Selected(st) : SwitchTo(n, st)
    BY <1>3
<1>6. n \in Slots
    BY DEF Selected
<1> HIDE DEF st
<1>8. st[n] = SLEEP
    BY <1>5, SelectedReady
<1>9. /\ next_task' = n /\ state' = [st EXCEPT ![n] = ACTIVE]
      /\ pendsv' = TRUE /\ normal_schedule' = TRUE /\ systick' = FALSE
      /\ sched_on' \in BOOLEAN
      /\ UNCHANGED <<priority, jmp_list, task_id, task_obj, level_stash, lstash_ptr,
                     max_level, task_count, total_task_count, current_task,
                     first_start, call, fault>>
    BY <1>5 DEF SwitchTo, scheduler, TimerNeeded, countVars
<1>10. alc' \in 0..255 /\ hlc' \in 0..255
  <2>1. {t \in woken : priority[t] = max_level} \in SUBSET Slots
      BY DEF Wakeable
  <2>2. Cardinality({t \in woken : priority[t] = max_level}) \in Nat
      BY <2>1, SlotsCardinality, SlotsAssumption
  <2> DEFINE tops == Cardinality({t \in woken : priority[t] = max_level})
  <2>3. hlc' = Byte(hlc - tops) /\ alc' = Byte(alc + tops)
      BY <1>3
  <2>4. tops \in Nat /\ alc \in 0..255 /\ hlc \in 0..255
      BY <2>2 DEF TypeOK
  <2> HIDE DEF tops
  <2>5. hlc - tops \in Int /\ alc + tops \in Int
      BY <2>4
  <2> QED
      BY <2>3, <2>5, ByteWraps
<1>11. TypeOK'
    BY <1>4, <1>6, <1>9, <1>10 DEF TypeOK, States
<1>12. \A t \in Slots : state'[t] = IDLE <=> state[t] = IDLE
    BY <1>4, <1>6, <1>8, <1>9 DEF ACTIVE, SLEEP, IDLE
<1>13. TableInv'
    BY <1>9, <1>12, SameTable
<1>14. OneRunner'
    BY <1>4, <1>6, <1>9 DEF OneRunner
<1>15. Live(next_task)' /\ CallsAim'
    BY <1>4, <1>6, <1>9 DEF Live, CallsAim, ACTIVE, IDLE
<1> QED
    BY <1>11, <1>13, <1>14, <1>15

(* Who runs, without the tables: a promotion may have gone around those. *)
Runs ==
    /\ state \in [Slots -> States]
    /\ next_task \in Slots
    /\ OneRunner

(* The same slots are live, and the same tasks hold. *)
SameHolds ==
    \A t \in Slots : /\ state'[t] = IDLE <=> state[t] = IDLE
                     /\ state'[t] = HOLD <=> state[t] = HOLD

(* scheduler() runs a ready task and wakes hibernating ones, whatever the   *)
(* levels are.                                                              *)
LEMMA SchedulerRuns ==
    ASSUME Runs, current_task \in Slots, first_start, scheduler
    PROVE  Runs' /\ SameHolds /\ state'[next_task'] = ACTIVE
<1>1. normal_schedule => next_task = current_task /\ state[current_task] = ACTIVE
    BY DEF scheduler, OneRunner, Runs
<1>2. /\ Suspended \in [Slots -> States]
      /\ \A t \in Slots : Suspended[t] # ACTIVE
      /\ \A t \in Slots : Suspended[t] = IDLE <=> state[t] = IDLE
      /\ \A t \in Slots : Suspended[t] = HOLD <=> state[t] = HOLD
    BY <1>1 DEF Suspended, Runs, States, OneRunner, ACTIVE, SLEEP, IDLE, HOLD
<1>3. PICK woken \in SUBSET Wakeable :
        \E t \in Selected(Awake(Suspended, woken)) : SwitchTo(t, Awake(Suspended, woken))
    BY DEF scheduler
<1> DEFINE st == Awake(Suspended, woken)
<1>4. /\ st \in [Slots -> States]
      /\ \A t \in Slots : st[t] # ACTIVE
      /\ \A t \in Slots : st[t] = IDLE <=> state[t] = IDLE
      /\ \A t \in Slots : st[t] = HOLD <=> state[t] = HOLD
    BY <1>2 DEF Awake, Wakeable, Hibernating, States, ACTIVE, SLEEP, IDLE, HOLD,
                HIBERNATE_G, HIBERNATE_L
<1>5. PICK n \in Selected(st) : SwitchTo(n, st)
    BY <1>3
<1>6. n \in Slots
    BY DEF Selected
<1> HIDE DEF st
<1>7. st[n] = SLEEP
    BY <1>5, SelectedReady
<1>8. /\ next_task' = n /\ state' = [st EXCEPT ![n] = ACTIVE]
      /\ pendsv' = TRUE /\ normal_schedule' = TRUE /\ systick' = FALSE
    BY <1>5 DEF SwitchTo, scheduler
<1>9. Runs'
    BY <1>4, <1>6, <1>8 DEF Runs, OneRunner, States
<1> QED
    BY <1>4, <1>6, <1>7, <1>8, <1>9 DEF SameHolds, ACTIVE, SLEEP, IDLE, HOLD

-----------------------------------------------------------------------------
(* The ring *)

(* The int8_t cells of jmp_list are added to slot numbers as integers. *)
LEMMA JumpsAreIntegers ==
    ASSUME TypeOK
    PROVE  jmp_list \in [Slots -> Int]
<1>1. jmp_list \in [Slots -> -127..127]
    BY DEF TypeOK
<1>2. -127..127 \subseteq Int
    OBVIOUS
<1> QED
    BY <1>1, <1>2

(* Jumps of a ring are differences of slots and fit an int8_t. *)
LEMMA RingJumps ==
    ASSUME NEW A \in SUBSET Slots, NEW jl \in [Slots -> Int], IsRing(jl, A)
    PROVE  jl \in [Slots -> -127..127]
<1> SUFFICES ASSUME NEW t \in Slots
             PROVE  jl[t] \in -127..127
    OBVIOUS
<1>1. \A u \in Slots : u \in 0..126
    BY SlotsAssumption DEF Slots
<1>2. CASE t \in A
  <2>1. t + jl[t] \in A /\ jl[t] \in Int
      BY <1>2 DEF IsRing
  <2>2. t \in Slots /\ t + jl[t] \in Slots
      BY <2>1
  <2>3. t \in 0..126 /\ t + jl[t] \in 0..126
      BY <1>1, <2>2
  <2> QED
      BY <2>1, <2>3
<1>3. CASE t \notin A
    BY <1>3 DEF IsRing
<1> QED
    BY <1>2, <1>3

(* Slot i, the first free one, is spliced in between its left neighbour and *)
(* the slot that one jumped to.                                             *)
LEMMA RingInsert ==
    ASSUME NEW A \in SUBSET Slots, NEW jl \in [Slots -> Int],
           IsRing(jl, A), HasLower(jl, A),
           NEW i \in Slots \ A, i - 1 \in A,
           NEW new, new = [jl EXCEPT ![i] = jl[i - 1] - 1, ![i - 1] = 1]
    PROVE  /\ new \in [Slots -> Int]
           /\ IsRing(new, A \cup {i})
           /\ HasLower(new, A \cup {i})
<1>1. Slots \subseteq Nat /\ 0 \in A
    BY SlotsAssumption DEF Slots, IsRing
<1> DEFINE v == i - 1 + jl[i - 1]
<1>2. /\ v \in A /\ v # i
      /\ \/ v > i - 1 /\ \A k \in A : k <= i - 1 \/ v <= k
         \/ v = 0 /\ \A k \in A : k <= i - 1
    BY DEF IsRing
<1>3. i # 0 /\ i # i - 1 /\ i \in Nat /\ v \in Nat
    BY <1>1, <1>2
<1>4. /\ new \in [Slots -> Int]
      /\ i + new[i] = v
      /\ (i - 1) + new[i - 1] = i
      /\ \A t \in Slots \ {i, i - 1} : new[t] = jl[t]
    BY <1>1, <1>3
<1> HIDE DEF v
<1>5. ASSUME NEW t \in A \cup {i}
      PROVE  /\ t + new[t] \in A \cup {i}
             /\ \/ t + new[t] > t /\ \A k \in A \cup {i} : k <= t \/ t + new[t] <= k
                \/ t + new[t] = 0 /\ \A k \in A \cup {i} : k <= t
  <2>1. CASE t = i
      BY <2>1, <1>1, <1>2, <1>3, <1>4
  <2>2. CASE t = i - 1
      BY <2>2, <1>1, <1>3, <1>4
  <2>3. CASE t \in A \ {i, i - 1}
    <3>1. /\ t + jl[t] \in A /\ new[t] = jl[t]
          /\ \/ t + jl[t] > t /\ \A k \in A : k <= t \/ t + jl[t] <= k
             \/ t + jl[t] = 0 /\ \A k \in A : k <= t
        BY <2>3, <1>4 DEF IsRing
    <3>2. t \in Nat /\ t # i /\ t # i - 1 /\ t + jl[t] \in Nat /\ t + jl[t] # i
        BY <2>3, <3>1, <1>1
    <3>3. i - 1 <= t \/ t + jl[t] <= i - 1 => i <= t \/ t + jl[t] <= i
        BY <3>2, <1>3
    <3> QED
        BY <3>1, <3>2, <3>3, <1>1, <1>3
  <2> QED
      BY <2>1, <2>2, <2>3
<1>6. IsRing(new, A \cup {i})
  <2>1. \A t \in Slots \ (A \cup {i}) : new[t] = 0
      BY <1>4 DEF IsRing
  <2> QED
      BY <1>1, <1>5, <2>1 DEF IsRing
<1>7. HasLower(new, A \cup {i})
  <2> SUFFICES ASSUME NEW w \in (A \cup {i}) \ {0}
               PROVE  \E j \in A \cup {i} : j < w /\ j + new[j] = w
      BY DEF HasLower
  <2>1. CASE w = i
      BY <2>1, <1>3, <1>4
  <2>2. CASE w # i
    <3>1. PICK j \in A : j < w /\ j + jl[j] = w
        BY <2>2 DEF HasLower
    <3>2. CASE j = i - 1
        BY <3>1, <3>2, <1>1, <1>2, <1>3, <1>4, <2>2 DEF v
    <3>3. CASE j # i - 1
        BY <3>1, <3>3, <1>4
    <3> QED
        BY <3>2, <3>3
  <2> QED
      BY <2>1, <2>2
<1> QED
    BY <1>4, <1>6, <1>7

(* Slot j is below slot i and jumps to it. *)
Before(jl, j, i) == j < i /\ j + jl[j] = i

(* Slot i is taken out of the ring: j, before it, takes over its jump. *)
Unlink(jl, j, i) == [jl EXCEPT ![j] = jl[j] + jl[i], ![i] = 0]

(* The slot j that jumped to i takes over the jump of i. *)
LEMMA RingRemove ==
    ASSUME NEW A \in SUBSET Slots, NEW jl \in [Slots -> Int],
           IsRing(jl, A), HasLower(jl, A),
           NEW i \in A, i # 0, NEW j \in A, Before(jl, j, i),
           NEW new, new = Unlink(jl, j, i)
    PROVE  /\ new \in [Slots -> Int]
           /\ IsRing(new, A \ {i})
           /\ HasLower(new, A \ {i})
           /\ i + jl[i] \in A \ {i}
<1> USE DEF Before, Unlink
<1>1. Slots \subseteq Nat /\ 0 \in A
    BY SlotsAssumption DEF Slots, IsRing
<1> DEFINE v == i + jl[i]
<1>2. /\ v \in A /\ v # i
      /\ \/ v > i /\ \A k \in A : k <= i \/ v <= k
         \/ v = 0 /\ \A k \in A : k <= i
  <2>1. /\ v \in A
        /\ \/ v > i /\ \A k \in A : k <= i \/ v <= k
           \/ v = 0 /\ \A k \in A : k <= i
      BY DEF IsRing
  <2>2. i \in Nat /\ i # 0 /\ v \in Nat
      BY <1>1, <2>1
  <2> HIDE DEF v
  <2>3. v # i
      BY <2>1, <2>2
  <2> QED
      BY <2>1, <2>3
<1>3. \A k \in A : k <= j \/ i <= k
    BY <1>1 DEF IsRing
<1>4. /\ new \in [Slots -> Int]
      /\ j + new[j] = v
      /\ new[i] = 0
      /\ \A t \in Slots \ {i, j} : new[t] = jl[t]
    BY <1>1
<1> HIDE DEF v
<1>5. ASSUME NEW t \in A \ {i}
      PROVE  /\ t + new[t] \in A \ {i}
             /\ \/ t + new[t] > t /\ \A k \in A \ {i} : k <= t \/ t + new[t] <= k
                \/ t + new[t] = 0 /\ \A k \in A \ {i} : k <= t
  <2>1. CASE t = j
      BY <2>1, <1>1, <1>2, <1>3, <1>4
  <2>2. CASE t # j
    <3>1. /\ t + jl[t] \in A /\ new[t] = jl[t]
          /\ \/ t + jl[t] > t /\ \A k \in A : k <= t \/ t + jl[t] <= k
             \/ t + jl[t] = 0 /\ \A k \in A : k <= t
        BY <2>2, <1>4 DEF IsRing
    <3>2. t + jl[t] # i
        BY <3>1, <2>2, <1>1, <1>3
    <3> QED
        BY <3>1, <3>2
  <2> QED
      BY <2>1, <2>2
<1>6. IsRing(new, A \ {i})
    BY <1>1, <1>4, <1>5 DEF IsRing
<1>7. HasLower(new, A \ {i})
  <2> SUFFICES ASSUME NEW w \in (A \ {i}) \ {0}
               PROVE  \E k \in A \ {i} : k < w /\ k + new[k] = w
      BY DEF HasLower
  <2>1. PICK k \in A : k < w /\ k + jl[k] = w
      BY DEF HasLower
  <2>2. CASE k = i
      BY <2>1, <2>2, <1>1, <1>4 DEF v
  <2>3. CASE k # i
    <3>1. k # j
        BY <2>1
    <3> QED
        BY <2>1, <2>3, <3>1, <1>4
  <2> QED
      BY <2>2, <2>3
<1> QED
    BY <1>2, <1>4, <1>6, <1>7 DEF v

-----------------------------------------------------------------------------
(* Creation *)

(* level_stash stays an array of bytes when a level is entered, wherever    *)
(* the search has ended.                                                    *)
LEMMA EnteredTyped ==
    ASSUME TypeOK, NEW jl, NEW p \in 0..127, EnterLevel(jl, p)
    PROVE  level_stash' \in [Slots -> 0..255] /\ lstash_ptr' \in 0..255
<1>1. PICK s \in 0..lstash_ptr :
        \/ UNCHANGED <<level_stash, lstash_ptr>>
        \/ /\ lstash_ptr < MAX_TASK_COUNT
           /\ level_stash' = Insert(s, p)
           /\ lstash_ptr' = lstash_ptr + 1
    BY DEF EnterLevel
<1>2. /\ lstash_ptr \in 0..255 /\ level_stash \in [Slots -> 0..255]
      /\ MAX_TASK_COUNT \in 2..127
      /\ \A k \in Int : k \in Slots <=> 0 <= k /\ k < MAX_TASK_COUNT
      /\ Slots \subseteq Int
    BY SlotNumbers, SlotsAssumption DEF TypeOK
<1>3. CASE UNCHANGED <<level_stash, lstash_ptr>>
    BY <1>2, <1>3
<1>4. CASE /\ lstash_ptr < MAX_TASK_COUNT
           /\ level_stash' = Insert(s, p)
           /\ lstash_ptr' = lstash_ptr + 1
  <2>1. ASSUME NEW k \in Slots
        PROVE  level_stash'[k] \in 0..255
    <3>1. level_stash'[k] = IF k = s THEN p
                            ELSE IF s < k /\ k <= lstash_ptr THEN level_stash[k - 1]
                            ELSE level_stash[k]
        BY <1>4 DEF Insert
    <3>2. s < k => k - 1 \in Slots
        BY <1>2
    <3> QED
        BY <1>2, <3>1, <3>2
  <2>2. level_stash' = [k \in Slots |-> level_stash'[k]]
      BY <1>4 DEF Insert
  <2> QED
      BY <1>2, <1>4, <2>1, <2>2
<1> QED
    BY <1>1, <1>3, <1>4

(* A new task takes the first free slot and disturbs no other task. *)
LEMMA CreatePreserves ==
    ASSUME IdsFit,
           TypeOK, TableInv, OneRunner, Live(next_task), CallsAim,
           NEW o \in Objs, NEW p \in Priorities, svc_service_task_create(o, p)
    PROVE  TypeOK' /\ TableInv' /\ OneRunner' /\ Live(next_task)' /\ CallsAim'
<1>1. PICK i \in Slots : FirstIdle(i) /\ Occupy(i, o, p)
    BY DEF svc_service_task_create
<1>2. /\ ThreadMode /\ total_task_count < MaxStarts
      /\ call' = [call EXCEPT ![current_task] = NoCall]
      /\ UNCHANGED <<current_task, next_task, normal_schedule, systick, pendsv,
                     first_start, fault>>
    BY DEF svc_service_task_create, Caller
<1>3. p \in 0..127
    BY PrioritiesAssumption DEF svc_service_task_create, Rejected
<1>4. 0 \in LiveSlots /\ LiveSlots \subseteq Slots /\ i \notin LiveSlots
    BY <1>1 DEF TableInv, RingIntact, IsRing, FirstIdle, LiveSlots, Live
<1>5. i \in Nat /\ i # 0 /\ i - 1 \in LiveSlots
  <2>1. i \in Int /\ 0 <= i /\ i < MAX_TASK_COUNT /\ i # 0
      BY <1>4, SlotNumbers
  <2>2. i - 1 \in Slots /\ i - 1 \in 0..(i - 1)
      BY <2>1, SlotNumbers, SlotsAssumption
  <2> QED
      BY <1>1, <2>1, <2>2 DEF FirstIdle, LiveSlots
<1>6. /\ EnterLevel(Link(i), p)
      /\ jmp_list' = [jmp_list EXCEPT ![i] = jmp_list[i - 1] - 1, ![i - 1] = 1]
      /\ task_obj' = [task_obj EXCEPT ![i] = o]
      /\ task_id' = [task_id EXCEPT ![i] = NewId(i, total_task_count)]
      /\ state' = [state EXCEPT ![i] = SLEEP]
      /\ priority' = [priority EXCEPT ![i] = p]
      /\ total_task_count' = (total_task_count + 1) % IdSpan
      /\ task_count' = task_count + 1
      /\ RaiseLevel(p)
    BY <1>1, <1>5 DEF Occupy, Link
<1>7. /\ state'[i] = SLEEP /\ priority'[i] = p
      /\ \A t \in Slots \ {i} : state'[t] = state[t] /\ priority'[t] = priority[t]
    BY <1>6 DEF TypeOK
<1>8. /\ \A t \in Slots : Live(t)' <=> Live(t) \/ t = i
      /\ LiveSlots' = LiveSlots \cup {i}
  <2>1. \A t \in Slots : Live(t)' <=> Live(t) \/ t = i
      BY <1>7 DEF Live, SLEEP, IDLE
  <2> QED
      BY <2>1 DEF LiveSlots, Slots
<1>9. /\ jmp_list' \in [Slots -> -127..127]
      /\ RingIntact' /\ Linked'
  <2>1. jmp_list \in [Slots -> Int]
      BY JumpsAreIntegers
  <2>2. /\ jmp_list' \in [Slots -> Int]
        /\ IsRing(jmp_list', LiveSlots \cup {i})
        /\ HasLower(jmp_list', LiveSlots \cup {i})
      BY <1>4, <1>5, <1>6, <2>1, RingInsert DEF TableInv, RingIntact, Linked
  <2>3. jmp_list' \in [Slots -> -127..127]
      BY <1>4, <2>2, RingJumps
  <2> QED
      BY <1>8, <2>2, <2>3 DEF RingIntact, Linked, IsRing, HasLower, Slots
<1>10. TaskCountExact' /\ task_count' \in 0..MAX_TASK_COUNT
  <2>1. IsFiniteSet(LiveSlots) /\ IsFiniteSet(LiveSlots \cup {i})
        /\ Cardinality(LiveSlots \cup {i}) \in 0..MAX_TASK_COUNT
      BY <1>4, SlotsCardinality
  <2>2. Cardinality(LiveSlots \cup {i}) = Cardinality(LiveSlots) + 1
      BY <1>4, <2>1, FS_AddElement
  <2>3. task_count' = Cardinality(LiveSlots \cup {i})
      BY <1>6, <2>2 DEF TableInv, TaskCountExact
  <2> QED
      BY <1>8, <2>1, <2>3 DEF TaskCountExact
<1>11. total_task_count' \in Nat /\ NewId(i, total_task_count) = [index |-> i, serial |-> total_task_count + 1]
  <2>1. /\ total_task_count \in Nat /\ MaxStarts \in Nat
        /\ IdSpan \in Nat /\ IdSpan > 0 /\ MaxStarts < IdSpan
      BY StartsAssumption DEF TypeOK, IdsFit
  <2>2. total_task_count + 1 \in Nat /\ total_task_count + 1 < IdSpan
      BY <1>2, <2>1
  <2>3. (total_task_count + 1) % IdSpan \in Nat
      BY <2>1, <2>2
  <2> QED
      BY <1>6, <2>2, <2>3 DEF NewId
<1>12. Identity'
  <2>1. task_obj'[0] = BaseObj /\ priority'[0] = 0
      BY <1>4, <1>5, <1>6, <1>7 DEF TableInv, Identity, TypeOK
  <2>2. \A t \in Slots : Live(t)' <=> task_obj'[t] # NoObj
      BY <1>6, <1>8, ObjsAssumption DEF TableInv, Identity, TypeOK
  <2>3. \A t \in Slots : Live(t)' => task_id'[t].index = t
      BY <1>6, <1>8, <1>11 DEF TableInv, Identity, TypeOK
  <2>4. \A t \in Slots : ~Live(t)' => task_id'[t] = NoId
      BY <1>6, <1>8 DEF TableInv, Identity, TypeOK
  <2> QED
      BY <2>1, <2>2, <2>3, <2>4 DEF Identity
<1> DEFINE levels == {max_level} \cup {priority'[t] : t \in {k \in Slots : state'[k] # IDLE}}
<1>13. PICK m \in levels :
         /\ \A q \in levels : q <= m
         /\ LET raised == m # max_level
                a == IF raised THEN 0 ELSE alc
                h == IF raised THEN 0 ELSE hlc
                arrived == IF p = m THEN Byte(a + 1) ELSE a
            IN  /\ max_level' = m
                /\ alc' = arrived
                /\ hlc' = h
                /\ sched_on' = (sched_on \/ (first_start /\ (raised \/ arrived + h = 2)))
    BY <1>6 DEF RaiseLevel
<1>14. alc' \in 0..255 /\ hlc' \in 0..255 /\ sched_on' \in BOOLEAN
  <2>1. alc \in 0..255 /\ hlc \in 0..255
      BY DEF TypeOK
  <2>2. Byte(alc + 1) \in 0..255 /\ Byte(0 + 1) \in 0..255
      BY <2>1, ByteWraps
  <2>3. /\ alc' \in {0, alc, Byte(alc + 1), Byte(0 + 1)}
        /\ hlc' \in {0, hlc}
      BY <1>13
  <2>4. sched_on' \in BOOLEAN
      BY <1>13
  <2> QED
      BY <2>1, <2>2, <2>3, <2>4
<1>15. MaxLevelExact' /\ max_level' \in 0..255
  <2>1. \A t \in Slots : Live(t)' => priority'[t] <= m
      BY <1>13 DEF Live
  <2>2. \E t \in Slots : Live(t)' /\ priority'[t] = m
    <3>1. CASE m = max_level
      <4>1. PICK t \in Slots : Live(t) /\ priority[t] = max_level
          BY DEF TableInv, MaxLevelExact
      <4>2. t # i
          BY <1>1, <4>1 DEF FirstIdle, Live
      <4> QED
          BY <1>7, <1>8, <3>1, <4>1, <4>2
    <3>2. CASE m # max_level
        BY <1>13, <3>2 DEF Live
    <3> QED
        BY <3>1, <3>2
  <2>3. \A t \in Slots : priority'[t] \in 0..255
      BY <1>3, <1>7 DEF TypeOK
  <2> QED
      BY <1>13, <2>1, <2>2, <2>3 DEF MaxLevelExact
<1>16. level_stash' \in [Slots -> 0..255] /\ lstash_ptr' \in 0..255
    BY <1>3, <1>6, EnteredTyped
<1>17. TypeOK'
  <2>1. state' \in [Slots -> States] /\ priority' \in [Slots -> 0..255]
      BY <1>3, <1>6 DEF TypeOK, States
  <2>2. task_obj' \in [Slots -> Objs \cup {BaseObj, NoObj}]
      BY <1>6 DEF TypeOK
  <2>3. task_id' \in [Slots -> Ids]
    <3>1. i \in 0..127 /\ total_task_count + 1 \in Nat
        BY <1>5, SlotNumbers, SlotsAssumption DEF TypeOK
    <3>2. NewId(i, total_task_count) \in Ids
        BY <1>11, <3>1 DEF Ids
    <3> QED
        BY <1>6, <3>2 DEF TypeOK
  <2>4. call' \in [Slots -> Calls]
    <3>1. NoCall \in Calls
      <4>1. 0 \in Slots
          BY <1>4
      <4> QED
          BY <4>1 DEF NoCall, Calls, NoId, Ids
    <3> QED
        BY <1>2, <3>1 DEF TypeOK
  <2> QED
      BY <1>2, <1>9, <1>10, <1>11, <1>14, <1>15, <1>16, <2>1, <2>2, <2>3, <2>4
      DEF TypeOK
<1>18. TableInv'
    BY <1>9, <1>10, <1>12, <1>15, <1>16 DEF TableInv
<1>19. i # next_task
    BY <1>1 DEF FirstIdle, Live
<1>20. OneRunner'
    BY <1>2, <1>7, <1>19 DEF OneRunner, TypeOK, ACTIVE, SLEEP
<1>21. Live(next_task)'
    BY <1>2, <1>7, <1>19 DEF Live, TypeOK
<1>22. CallsAim'
    BY <1>2 DEF CallsAim, NoCall, TypeOK
<1> QED
    BY <1>17, <1>18, <1>20, <1>21, <1>22

-----------------------------------------------------------------------------
(* Removal *)

(* The byte behind level_stash is a byte. *)
LEMMA BehindIsByte ==
    ASSUME NEW jl \in [Slots -> Int], NEW g \in Behind(jl)
    PROVE  g \in 0..255
<1>1. 0 \in Slots
    BY SlotNumbers, SlotsAssumption
<1>2. Byte(jl[0]) \in 0..255
    BY <1>1, ByteWraps
<1> QED
    BY <1>2, StrayAssumption DEF Behind

(* level_stash stays an array of bytes when a level is removed. *)
LEMMA LeftTyped ==
    ASSUME TypeOK, NEW i \in Slots, LeaveLevel(i)
    PROVE  level_stash' \in [Slots -> 0..255] /\ lstash_ptr' \in 0..255
<1>1. /\ lstash_ptr \in 0..255 /\ level_stash \in [Slots -> 0..255]
      /\ MAX_TASK_COUNT \in 2..127
      /\ \A k \in Int : k \in Slots <=> 0 <= k /\ k < MAX_TASK_COUNT
      /\ Slots \subseteq Int
    BY SlotNumbers, SlotsAssumption DEF TypeOK
<1>2. CASE UNCHANGED <<level_stash, lstash_ptr>>
    BY <1>1, <1>2
<1>3. CASE Shift(i)
  <2> DEFINE Above(k) == \E f \in 0..k : level_stash[f] = priority[i]
  <2>1. PICK g \in Behind(jmp_list) :
          level_stash' = [k \in Slots |->
                IF k < lstash_ptr /\ Above(k) THEN WithStray(g)[k + 1] ELSE level_stash[k]]
      BY <1>3 DEF Shift
  <2>2. g \in 0..255
      BY JumpsAreIntegers, BehindIsByte
  <2>3. ASSUME NEW k \in Slots
        PROVE  level_stash'[k] \in 0..255
    <3>1. k + 1 \in 0..MAX_TASK_COUNT /\ (k + 1 < MAX_TASK_COUNT => k + 1 \in Slots)
        BY <1>1
    <3>2. WithStray(g)[k + 1] \in 0..255
        BY <1>1, <2>2, <3>1 DEF WithStray
    <3> QED
        BY <1>1, <2>1, <3>2
  <2>4. level_stash' = [k \in Slots |-> level_stash'[k]]
      BY <2>1
  <2>5. lstash_ptr' \in 0..255
    <3>1. lstash_ptr - 1 \in Int
        BY <1>1
    <3> QED
        BY <1>3, <3>1, ByteWraps DEF Shift
  <2> QED
      BY <2>3, <2>4, <2>5
<1> QED
    BY <1>2, <1>3 DEF LeaveLevel

(* Removing a live task other than BaseTask keeps every table consistent,   *)
(* and the processor goes to a live task.                                   *)
LEMMA RemovePreserves ==
    ASSUME TypeOK, TableInv, OneRunner, Live(next_task), CallsAim,
           ThreadMode,
           NEW i \in Slots \ {0}, Live(i),
           NEW self \in BOOLEAN, self <=> i = current_task,
           Remove(i, self)
    PROVE  TypeOK' /\ TableInv' /\ OneRunner' /\ Live(next_task)' /\ CallsAim'
<1>1. normal_schedule /\ next_task = current_task /\ Live(current_task) /\ ~pendsv
    BY Running DEF ThreadMode
<1>2. /\ LeaveLevel(i)
      /\ state' = [state EXCEPT ![i] = IDLE]
      /\ task_id' = [task_id EXCEPT ![i] = NoId]
      /\ task_obj' = [task_obj EXCEPT ![i] = NoObj]
      /\ task_count' = task_count - 1
      /\ RecountLevels
      /\ sched_on' = TRUE
      /\ IF self THEN HandOver ELSE UNCHANGED <<normal_schedule, systick>>
      /\ call' = [call EXCEPT ![i] = NoCall, ![current_task] = NoCall]
      /\ fault' \in {fault, "overrun"}
      /\ UNCHANGED <<priority, total_task_count, current_task, pendsv, first_start>>
    BY DEF Remove
<1>3. i \in LiveSlots \ {0} /\ 0 \in LiveSlots /\ LiveSlots \subseteq Slots
    BY DEF LiveSlots, TableInv, RingIntact, IsRing
<1>4. PICK j \in 0..i :
         /\ Predecessor(j, i)
         /\ LET linked == [jmp_list EXCEPT ![j] = @ + jmp_list[i]]
            IN  /\ jmp_list' = [linked EXCEPT ![i] = 0]
                /\ next_task' = IF self THEN next_task + linked[i] ELSE next_task
    BY DEF Remove
<1>5. j \in LiveSlots /\ j < i /\ j + jmp_list[j] = i
  <2>1. PICK lower \in LiveSlots : lower < i /\ lower + jmp_list[lower] = i
      BY <1>3 DEF TableInv, Linked, HasLower
  <2>2. i \in Int /\ lower \in Int /\ 0 <= lower /\ j \in Int /\ 0 <= j /\ j <= i
      BY <1>3, SlotNumbers
  <2>3. j # i
      BY <1>4, <2>1, <2>2 DEF Predecessor
  <2>4. j < i /\ j + jmp_list[j] = i /\ j \in Slots
      BY <1>4, <2>2, <2>3, SlotNumbers, SlotsAssumption DEF Predecessor
  <2>5. j \notin LiveSlots => jmp_list[j] = 0
      BY <2>4 DEF TableInv, RingIntact, IsRing
  <2> QED
      BY <2>2, <2>4, <2>5
<1>6. jmp_list \in [Slots -> Int]
    BY JumpsAreIntegers
<1>7. /\ jmp_list' = [jmp_list EXCEPT ![j] = jmp_list[j] + jmp_list[i], ![i] = 0]
      /\ next_task' = IF self THEN next_task + jmp_list[i] ELSE next_task
  <2>1. j \in Slots /\ j # i
      BY <1>3, <1>5, SlotNumbers
  <2> QED
      BY <1>4, <1>6, <2>1
<1>8. /\ jmp_list' \in [Slots -> Int]
      /\ IsRing(jmp_list', LiveSlots \ {i})
      /\ HasLower(jmp_list', LiveSlots \ {i})
      /\ i + jmp_list[i] \in LiveSlots \ {i}
  <2>1. IsRing(jmp_list, LiveSlots) /\ HasLower(jmp_list, LiveSlots)
      BY DEF TableInv, RingIntact, Linked
  <2>2. LiveSlots \in SUBSET Slots
      BY <1>3
  <2>3. jmp_list' = [jmp_list EXCEPT ![j] = jmp_list[j] + jmp_list[i], ![i] = 0]
      BY <1>7
  <2>4. i \in LiveSlots /\ i # 0
      BY <1>3
  <2>5. Before(jmp_list, j, i) /\ jmp_list' = Unlink(jmp_list, j, i)
      BY <1>5, <2>3 DEF Before, Unlink
  <2> QED
      BY <1>5, <1>6, <2>1, <2>2, <2>4, <2>5, RingRemove
<1>9. /\ state'[i] = IDLE
      /\ \A t \in Slots \ {i} : state'[t] = state[t]
      /\ \A t \in Slots : Live(t)' <=> Live(t) /\ t # i
      /\ LiveSlots' = LiveSlots \ {i}
  <2>1. state'[i] = IDLE /\ \A t \in Slots \ {i} : state'[t] = state[t]
      BY <1>2 DEF TypeOK
  <2>2. \A t \in Slots : Live(t)' <=> Live(t) /\ t # i
      BY <2>1 DEF Live
  <2> QED
      BY <2>1, <2>2 DEF LiveSlots, Slots
<1>10. jmp_list' \in [Slots -> -127..127] /\ RingIntact' /\ Linked'
  <2>1. jmp_list' \in [Slots -> -127..127]
      BY <1>3, <1>8, RingJumps
  <2> QED
      BY <1>8, <1>9, <2>1 DEF RingIntact, Linked, IsRing, HasLower, Slots
<1>11. next_task' \in LiveSlots \ {i}
  <2>1. CASE self
      BY <1>1, <1>7, <1>8, <2>1
  <2>2. CASE ~self
      BY <1>1, <1>7, <2>2 DEF LiveSlots, TypeOK
  <2> QED
      BY <2>1, <2>2
<1>12. TaskCountExact' /\ task_count' \in 0..MAX_TASK_COUNT
  <2>1. IsFiniteSet(LiveSlots) /\ IsFiniteSet(LiveSlots \ {i})
        /\ Cardinality(LiveSlots \ {i}) \in 0..MAX_TASK_COUNT
      BY <1>3, SlotsCardinality
  <2>2. Cardinality(LiveSlots \ {i}) = Cardinality(LiveSlots) - 1
      BY <1>3, <2>1, FS_RemoveElement
  <2>3. task_count' = Cardinality(LiveSlots \ {i})
      BY <1>2, <2>2 DEF TableInv, TaskCountExact
  <2> QED
      BY <1>9, <2>1, <2>3 DEF TaskCountExact
<1>13. Identity'
  <2>1. task_obj'[0] = BaseObj /\ priority'[0] = 0
      BY <1>2, <1>3 DEF TableInv, Identity, TypeOK
  <2>2. \A t \in Slots : Live(t)' <=> task_obj'[t] # NoObj
      BY <1>2, <1>9 DEF TableInv, Identity, TypeOK
  <2>3. \A t \in Slots : Live(t)' => task_id'[t].index = t
      BY <1>2, <1>9 DEF TableInv, Identity, TypeOK
  <2>4. \A t \in Slots : ~Live(t)' => task_id'[t] = NoId
      BY <1>2, <1>9 DEF TableInv, Identity, TypeOK
  <2> QED
      BY <2>1, <2>2, <2>3, <2>4 DEF Identity
<1> DEFINE levels == {0} \cup {priority[t] : t \in {k \in Slots : state'[k] # IDLE}}
<1>14. PICK m \in levels :
          /\ \A q \in levels : q <= m
          /\ max_level' = m
          /\ hlc' = Cardinality({t \in Slots : priority[t] = m /\ HasHibernateBit(state'[t])})
          /\ alc' = Cardinality({t \in Slots : priority[t] = m /\ ~HasHibernateBit(state'[t])})
    BY <1>2 DEF RecountLevels
<1>15. alc' \in 0..255 /\ hlc' \in 0..255
  <2>1. alc' \in 0..MAX_TASK_COUNT /\ hlc' \in 0..MAX_TASK_COUNT
      BY <1>14, SlotsCardinality
  <2> QED
      BY <2>1, SlotsAssumption
<1>16. MaxLevelExact' /\ max_level' \in 0..255
  <2>1. \A t \in Slots : Live(t)' => priority[t] <= m
      BY <1>14 DEF Live
  <2>2. \E t \in Slots : Live(t)' /\ priority[t] = m
    <3>1. CASE m = 0
        BY <1>3, <1>9, <3>1 DEF TableInv, Identity, LiveSlots
    <3>2. CASE m # 0
        BY <1>14, <3>2 DEF Live
    <3> QED
        BY <3>1, <3>2
  <2>3. \A t \in Slots : priority[t] \in 0..255
      BY DEF TypeOK
  <2> QED
      BY <1>2, <1>14, <2>1, <2>2, <2>3 DEF MaxLevelExact
<1>17. level_stash' \in [Slots -> 0..255] /\ lstash_ptr' \in 0..255
    BY <1>2, LeftTyped
<1>18. TypeOK'
  <2>1. /\ state' \in [Slots -> States]
        /\ task_obj' \in [Slots -> Objs \cup {BaseObj, NoObj}]
      BY <1>2 DEF TypeOK, States
  <2>2. task_id' \in [Slots -> Ids]
    <3>1. NoId \in Ids
        BY DEF NoId, Ids
    <3> QED
        BY <1>2, <3>1 DEF TypeOK
  <2>3. call' \in [Slots -> Calls]
    <3>1. NoCall \in Calls
      <4>1. 0 \in Slots
          BY <1>3
      <4> QED
          BY <4>1 DEF NoCall, Calls, NoId, Ids
    <3> QED
        BY <1>2, <3>1 DEF TypeOK
  <2>4. normal_schedule' \in BOOLEAN /\ systick' \in BOOLEAN /\ sched_on' \in BOOLEAN
      BY <1>2 DEF HandOver, TypeOK
  <2>5. next_task' \in Slots
      BY <1>3, <1>11
  <2>6. fault' \in Faults \cup {"none"}
      BY <1>2 DEF TypeOK, Faults
  <2> QED
      BY <1>2, <1>10, <1>12, <1>15, <1>16, <1>17, <2>1, <2>2, <2>3, <2>4, <2>5, <2>6
      DEF TypeOK
<1>19. TableInv'
    BY <1>10, <1>12, <1>13, <1>16, <1>17 DEF TableInv
<1>20. OneRunner'
  <2>1. CASE self
    <3>1. ~normal_schedule' /\ systick' /\ ~pendsv'
        BY <1>1, <1>2, <2>1 DEF HandOver
    <3>2. \A t \in Slots : state'[t] # ACTIVE
        BY <1>1, <1>9, <2>1 DEF OneRunner, ACTIVE, IDLE
    <3> QED
        BY <3>1, <3>2 DEF OneRunner
  <2>2. CASE ~self
    <3>1. UNCHANGED <<normal_schedule, systick, pendsv, first_start, current_task, next_task>>
        BY <1>2, <1>7, <2>2
    <3>2. next_task # i /\ next_task \in Slots
        BY <1>1, <2>2 DEF TypeOK
    <3> QED
        BY <1>9, <3>1, <3>2 DEF OneRunner, ACTIVE, IDLE
  <2> QED
      BY <2>1, <2>2
<1>21. Live(next_task)'
    BY <1>3, <1>9, <1>11 DEF LiveSlots, Live
<1>22. CallsAim'
    BY <1>2 DEF CallsAim, NoCall, TypeOK
<1> QED
    BY <1>18, <1>19, <1>20, <1>21, <1>22

-----------------------------------------------------------------------------
(* The kernel keeps its tables, whoever calls it *)

(* What the induction carries: who occupies which slot is known even after  *)
(* BaseTask died, when nothing else is.                                     *)
Occupants == task_obj \in [Slots -> Objs \cup {BaseObj, NoObj}]

KInv == Occupants /\ KernelInv

(* kernel_init establishes the invariant. *)
LEMMA InitKInv == Init => KInv
<1> SUFFICES ASSUME Init
             PROVE  KInv
    OBVIOUS
<1> USE DEF Init
<1>1. 0 \in Slots /\ \A t \in Slots : t \in Int /\ 0 <= t
  <2>1. 0 < MAX_TASK_COUNT
      BY SlotsAssumption
  <2> QED
      BY <2>1, SlotNumbers
<1>2. NewId(0, 0) = [index |-> 0, serial |-> 1] /\ NewId(0, 0) \in Ids /\ NoId \in Ids
    BY StartsAssumption DEF NewId, Ids, NoId
<1>3. NoCall \in Calls
    BY <1>1, <1>2 DEF NoCall, Calls
<1>4. TypeOK
  <2>1. 1 \in 0..MAX_TASK_COUNT
      BY SlotsAssumption
  <2>2. /\ state \in [Slots -> States] /\ priority \in [Slots -> 0..255]
        /\ task_obj \in [Slots -> Objs \cup {BaseObj, NoObj}]
      BY DEF States
  <2>3. /\ jmp_list \in [Slots -> -127..127] /\ level_stash \in [Slots -> 0..255]
        /\ task_id \in [Slots -> Ids] /\ call \in [Slots -> Calls]
    <3>1. 0 \in -127..127 /\ 0 \in 0..255
        OBVIOUS
    <3> QED
        BY <1>2, <1>3, <3>1
  <2>4. /\ first_start \in BOOLEAN /\ normal_schedule \in BOOLEAN
        /\ sched_on \in BOOLEAN /\ systick \in BOOLEAN /\ pendsv \in BOOLEAN
      OBVIOUS
  <2> QED
      BY <1>1, <2>1, <2>2, <2>3, <2>4 DEF TypeOK
<1>5. \A t \in Slots : Live(t) <=> t = 0
    BY DEF Live, SLEEP, IDLE
<1>6. LiveSlots = {0}
    BY <1>1, <1>5 DEF LiveSlots
<1>7. RingIntact /\ Linked
    BY <1>1, <1>6 DEF RingIntact, IsRing, Linked, HasLower
<1>8. TaskCountExact
    BY <1>6, FS_Singleton DEF TaskCountExact
<1>9. Identity
    BY <1>1, <1>2, <1>5, ObjsAssumption DEF Identity
<1>10. MaxLevelExact
    BY <1>1, <1>5 DEF MaxLevelExact
<1>11. OneRunner
    BY DEF OneRunner, ACTIVE, SLEEP, IDLE
<1>12. Live(next_task) /\ CallsAim
    BY <1>1, <1>5 DEF CallsAim, NoCall
<1> QED
    BY <1>4, <1>7, <1>8, <1>9, <1>10, <1>11, <1>12
    DEF KInv, Occupants, KernelInv, TypeOK, TableInv

(* Nothing puts BaseTask back into slot 0. *)
LEMMA OccupantsStep ==
    ASSUME Occupants, [Next]_vars
    PROVE  Occupants' /\ (task_obj'[0] = BaseObj => task_obj[0] = BaseObj)
<1>1. CASE UNCHANGED task_obj
    BY <1>1 DEF Occupants
<1>2. ASSUME NEW i, NEW o \in Objs \cup {NoObj}, task_obj' = [task_obj EXCEPT ![i] = o]
      PROVE  Occupants' /\ (task_obj'[0] = BaseObj => task_obj[0] = BaseObj)
  <2>1. o # BaseObj /\ 0 \in Slots
      BY ObjsAssumption, SlotNumbers, SlotsAssumption
  <2> QED
      BY <1>2, <2>1 DEF Occupants
<1>3. \/ UNCHANGED task_obj
      \/ \E i, o : o \in Objs \cup {NoObj} /\ task_obj' = [task_obj EXCEPT ![i] = o]
  <2>1. CASE \E o \in Objs, p \in Priorities : svc_service_task_create(o, p)
      BY <2>1 DEF svc_service_task_create, Occupy
  <2>2. CASE svc_service_task_kill \/ resolve_end
      BY <2>2 DEF svc_service_task_kill, resolve_end, Remove
  <2>3. CASE \/ \E o \in Objs : task_start(o) \/ task_kill(o)
             \/ task_kill_load
             \/ \E p \in Priorities : task_create_rejected(p) \/ task_create_overrun(p)
             \/ task_kill_memfault
             \/ scheduler_hangs
      BY <2>3 DEF task_start, task_kill, task_kill_load, task_create_rejected,
                  task_create_overrun, task_kill_memfault, scheduler_hangs, Enter, Fail,
                  slotVars
  <2>4. CASE \/ \E reverse \in BOOLEAN : svc_service_hibernate(reverse)
             \/ svc_service_hand_over
             \/ svc_service_start_scheduler
             \/ scheduler
             \/ pendsv_handler
             \/ Tick
             \/ Compute
             \/ UNCHANGED vars
      BY <2>4 DEF svc_service_hibernate, svc_service_hand_over,
                  svc_service_start_scheduler, scheduler, pendsv_handler, Tick, Compute,
                  vars, slotVars
  <2> QED
      BY <2>1, <2>2, <2>3, <2>4 DEF Next
<1> QED
    BY <1>1, <1>2, <1>3

(* Every step of the kernel preserves the invariant. *)
LEMMA NextKInv ==
    ASSUME IdsFit, KInv, [Next]_vars
    PROVE  KInv'
<1>1. Occupants' /\ (task_obj'[0] = BaseObj => task_obj[0] = BaseObj)
    BY OccupantsStep DEF KInv
<1> SUFFICES ASSUME task_obj'[0] = BaseObj
             PROVE  TypeOK' /\ TableInv' /\ OneRunner' /\ Live(next_task)' /\ CallsAim'
    BY <1>1 DEF KInv, KernelInv
<1>2. TypeOK /\ TableInv /\ OneRunner /\ Live(next_task) /\ CallsAim
    BY <1>1 DEF KInv, KernelInv
<1> DEFINE Kept == TypeOK' /\ TableInv' /\ OneRunner' /\ Live(next_task)' /\ CallsAim'
<1>3. 0 \in Slots /\ NoId \in Ids /\ NoCall \in Calls
  <2>1. 0 \in Slots
      BY SlotNumbers, SlotsAssumption
  <2> QED
      BY <2>1 DEF NoId, Ids, NoCall, Calls
<1>4. ASSUME NEW o \in Objs, task_start(o)
      PROVE  Kept
  <2>1. PICK c \in Calls : c = [NoCall EXCEPT !.op = "start", !.obj = o]
      BY <1>3 DEF NoCall, Calls
  <2>2. Enter(c) /\ c.op = "start"
      BY <1>4, <2>1 DEF task_start, NoCall
  <2> QED
      BY <1>2, <2>2, EnterPreserves
<1>5. ASSUME NEW o \in Objs, task_kill(o)
      PROVE  Kept
  <2>1. PICK t \in Slots : /\ task_obj[t] = o
                           /\ Enter([NoCall EXCEPT !.op = "kill", !.obj = o, !.slot = t])
      BY <1>5 DEF task_kill
  <2>2. PICK c \in Calls : c = [NoCall EXCEPT !.op = "kill", !.obj = o, !.slot = t]
      BY <1>3 DEF NoCall, Calls
  <2>3. Enter(c) /\ c.op = "kill" /\ c.slot = t
      BY <2>1, <2>2 DEF NoCall
  <2>4. current_task # 0 /\ t # current_task
      BY <1>5, <2>1 DEF task_kill, Caller
  <2> QED
      BY <1>2, <2>3, <2>4, EnterPreserves
<1>6. ASSUME task_kill_load
      PROVE  Kept
  <2>1. /\ call[current_task] \in Calls /\ call[current_task].op = "kill"
        /\ current_task \in Slots
      BY <1>2, <1>6 DEF TypeOK, task_kill_load
  <2>2. PICK t \in Slots : t = call[current_task].slot
      BY <2>1 DEF Calls
  <2>3. current_task # 0 /\ t # current_task /\ task_id[t] \in Ids
      BY <1>2, <2>1, <2>2 DEF CallsAim, TypeOK
  <2>4. PICK c \in Calls : c = [call[current_task] EXCEPT !.op = "pid", !.id = task_id[t], !.slot = 0]
      BY <1>3, <2>1, <2>3 DEF Calls
  <2>5. Enter(c) /\ c.op = "pid" /\ c.id = task_id[t]
      BY <1>6, <2>1, <2>2, <2>4 DEF task_kill_load, Calls
  <2>6. task_id[t].index # current_task
      BY <1>2, <2>3 DEF TableInv, Identity, NoId
  <2> QED
      BY <1>2, <2>3, <2>5, <2>6, EnterPreserves
<1>7. ASSUME NEW o \in Objs, NEW p \in Priorities, svc_service_task_create(o, p)
      PROVE  Kept
    BY <1>2, <1>7, CreatePreserves
<1>8. ASSUME NEW p \in Priorities, task_create_rejected(p)
      PROVE  Kept
  <2>1. Enter(NoCall) /\ NoCall.op = "none"
      BY <1>8 DEF task_create_rejected, NoCall
  <2> QED
      BY <1>2, <1>3, <2>1, EnterPreserves
<1>9. ASSUME svc_service_task_kill
      PROVE  Kept
  <2>1. PICK i \in Slots : i = call[current_task].id.index /\ task_obj[i] # NoObj
      BY <1>9 DEF svc_service_task_kill, Killable
  <2>2. ThreadMode /\ call[current_task].op = "pid" /\ Remove(i, FALSE)
      BY <1>9, <2>1 DEF svc_service_task_kill, Caller
  <2>3. i # current_task /\ Live(i)
      BY <1>2, <2>1, <2>2 DEF CallsAim, TypeOK, TableInv, Identity
  <2>4. i # 0
    <3>1. i = 0 => task_obj'[0] = NoObj
        BY <1>2, <1>3, <2>2 DEF Remove, TypeOK
    <3> QED
        BY <3>1, ObjsAssumption
  <2> QED
      BY <1>2, <2>1, <2>2, <2>3, <2>4, RemovePreserves
<1>10. ASSUME resolve_end
       PROVE  Kept
  <2>1. ThreadMode /\ current_task # 0 /\ current_task \in Slots
      BY <1>2, <1>10 DEF resolve_end, TypeOK
  <2>2. Live(current_task)
      BY <1>2, <2>1, Running
  <2>3. task_id[current_task].index = current_task
      BY <1>2, <2>1, <2>2 DEF TableInv, Identity
  <2>4. Remove(current_task, TRUE)
      BY <1>10, <2>3 DEF resolve_end
  <2> QED
      BY <1>2, <2>1, <2>2, <2>4, RemovePreserves
<1>11. ASSUME \/ \E p \in Priorities : task_create_overrun(p)
              \/ task_kill_memfault
              \/ scheduler_hangs
              \/ pendsv_handler
              \/ Tick
              \/ Compute
              \/ UNCHANGED vars
       PROVE  Kept
  <2>1. \/ \E kind \in Faults : Fail(kind)
        \/ Tick
        \/ pendsv_handler
        \/ UNCHANGED vars
      BY <1>11 DEF task_create_overrun, task_kill_memfault, scheduler_hangs, Compute, Faults
  <2> QED
      BY <1>2, <2>1, SwitchPreserves
<1>12. ASSUME \/ \E reverse \in BOOLEAN : svc_service_hibernate(reverse)
              \/ svc_service_hand_over
              \/ svc_service_start_scheduler
       PROVE  Kept
    BY <1>2, <1>12, GiveUpPreserves
<1>13. ASSUME scheduler
       PROVE  Kept
    BY <1>2, <1>13, SchedulerPreserves
<1> QED
    BY <1>4, <1>5, <1>6, <1>7, <1>8, <1>9, <1>10, <1>11, <1>12, <1>13 DEF Next

(* For every table, every set of objects and priorities, and whether or not *)
(* API calls race: as long as no kill has hit BaseTask, the type of every   *)
(* variable, the ring, the identities, max_level and the running task are   *)
(* as they should be, whatever level_stash has come to.  Ids must not have  *)
(* wrapped.                                                                 *)
THEOREM KernelSound ==
    ASSUME IdsFit
    PROVE  Spec => []KernelInv
<1>1. Init => KInv
    BY InitKInv
<1>2. KInv /\ [Next]_vars => KInv'
    BY NextKInv
<1>3. KInv => KernelInv
    BY DEF KInv
<1> QED
    BY <1>1, <1>2, <1>3, PTL DEF Spec

-----------------------------------------------------------------------------
(* A disciplined application *)

(* In a state of the invariant a slot holding an application object is live *)
(* and is not BaseTask's.                                                   *)
LEMMA HolderIsLive ==
    ASSUME TableInv, NEW t \in Slots, task_obj[t] \in Objs
    PROVE  t # 0 /\ Live(t) /\ task_id[t].index = t
BY ObjsAssumption DEF TableInv, Identity

(* A call in flight concerns an object of the application. *)
LEMMA CallObjects ==
    ASSUME TypeOK, CallsSound
    PROVE  \A s \in Slots : call[s] # NoCall => call[s].obj \in Objs /\ call[s].obj # NoObj
<1> SUFFICES ASSUME NEW s \in Slots, call[s] # NoCall
             PROVE  call[s].obj \in Objs
    BY ObjsAssumption
<1>1. call[s].op # "none" /\ call[s].op \in {"none", "start", "kill", "pid"}
    BY DEF CallsSound, TypeOK, Calls
<1> QED
    BY <1>1, ObjsAssumption DEF CallsSound

(* Only the running task's call changes, to one that concerns an object no  *)
(* other call concerns.                                                     *)
LEMMA EnterKeepsCalls ==
    ASSUME TypeOK, CallsSound, NEW c \in Calls, Enter(c),
           c = NoCall \/ (c # NoCall /\ \A s \in Slots \ {current_task} : call[s].obj # c.obj),
           c.op = "none" => c = NoCall,
           c.op = "start" => c.obj \in Objs /\ \A t \in Slots : task_obj[t] # c.obj,
           c.op = "kill" => c.obj \in Endless /\ task_obj[c.slot] = c.obj,
           c.op = "pid" => /\ c.obj \in Endless /\ c.id.index \in Slots
                           /\ task_obj[c.id.index] = c.obj
    PROVE  CallsSound'
<1>1. /\ call' = [call EXCEPT ![current_task] = c]
      /\ UNCHANGED task_obj
    BY DEF Enter, slotVars
<1>2. current_task \in Slots /\ call'[current_task] = c
      /\ \A s \in Slots \ {current_task} : call'[s] = call[s]
    BY <1>1 DEF TypeOK
<1>3. ObjectOnce'
    BY <1>1 DEF CallsSound, ObjectOnce
<1>4. ASSUME NEW s \in Slots, NEW u \in Slots \ {s}, call'[s] # NoCall
      PROVE  call'[s].obj # call'[u].obj
  <2>1. CASE s = current_task
      BY <1>2, <1>4, <2>1
  <2>2. CASE u = current_task
    <3>1. CASE c = NoCall
      <4>1. call[s].obj # NoObj
          BY <1>2, <1>4, <2>2, CallObjects
      <4> QED
          BY <1>2, <2>2, <3>1, <4>1 DEF NoCall
    <3>2. CASE c # NoCall
        BY <1>2, <2>2, <3>2
    <3> QED
        BY <3>1, <3>2
  <2>3. CASE s # current_task /\ u # current_task
      BY <1>2, <1>4, <2>3 DEF CallsSound
  <2> QED
      BY <2>1, <2>2, <2>3
<1>5. ASSUME NEW s \in Slots
      PROVE  /\ call'[s].op = "none" => call'[s] = NoCall
             /\ call'[s].op = "start" =>
                  call'[s].obj \in Objs /\ \A t \in Slots : task_obj'[t] # call'[s].obj
             /\ call'[s].op = "kill" =>
                  call'[s].obj \in Endless /\ task_obj'[call'[s].slot] = call'[s].obj
             /\ call'[s].op = "pid" =>
                  /\ call'[s].obj \in Endless
                  /\ call'[s].id.index \in Slots
                  /\ task_obj'[call'[s].id.index] = call'[s].obj
  <2>1. CASE s = current_task
      BY <1>1, <1>2, <2>1
  <2>2. CASE s # current_task
      BY <1>1, <1>2, <2>2 DEF CallsSound
  <2> QED
      BY <2>1, <2>2
<1> QED
    BY <1>1, <1>3, <1>4, <1>5 DEF CallsSound

(* The object created was in no slot and in no other call. *)
LEMMA CreateKeepsCalls ==
    ASSUME TypeOK, TableInv, CallsSound,
           NEW o \in Objs, NEW p \in Priorities, svc_service_task_create(o, p)
    PROVE  CallsSound'
<1>1. PICK i \in Slots : FirstIdle(i) /\ Occupy(i, o, p)
    BY DEF svc_service_task_create
<1>2. /\ task_obj' = [task_obj EXCEPT ![i] = o] /\ ~Live(i)
      /\ call' = [call EXCEPT ![current_task] = NoCall]
      /\ call[current_task].op = "start" /\ call[current_task].obj = o
      /\ current_task \in Slots
    BY <1>1 DEF svc_service_task_create, Occupy, FirstIdle, Live, TypeOK
<1>3. /\ task_obj'[i] = o /\ \A t \in Slots \ {i} : task_obj'[t] = task_obj[t]
      /\ call'[current_task] = NoCall
      /\ \A s \in Slots \ {current_task} : call'[s] = call[s]
    BY <1>2 DEF TypeOK
<1>4. \A t \in Slots : task_obj[t] # o
    BY <1>2 DEF CallsSound
<1>5. call[current_task] # NoCall
    BY <1>2 DEF NoCall
<1>6. \A s \in Slots \ {current_task} : call[s].obj # o
    BY <1>2, <1>5 DEF CallsSound
<1>7. 0 \in Slots /\ i # 0
  <2>1. 0 \in Slots
      BY SlotNumbers, SlotsAssumption
  <2>2. Live(0)
      BY <2>1, ObjsAssumption DEF TableInv, Identity
  <2> QED
      BY <1>2, <2>1, <2>2
<1>8. /\ task_obj'[0] = BaseObj
      /\ \A t \in Slots \ {0} : task_obj'[t] # BaseObj
      /\ ObjectOnce'
  <2>1. task_obj'[0] = BaseObj /\ \A t \in Slots \ {0} : task_obj'[t] # BaseObj
      BY <1>3, <1>7, ObjsAssumption DEF CallsSound
  <2>2. ObjectOnce'
      BY <1>3, <1>4 DEF CallsSound, ObjectOnce
  <2> QED
      BY <2>1, <2>2
<1>9. \A t \in Slots : task_obj[t] \in Objs => t # i
    BY <1>2, HolderIsLive
<1>10. ASSUME NEW s \in Slots \ {current_task}
       PROVE  /\ call[s].op = "start" =>
                   call[s].obj \in Objs /\ \A t \in Slots : task_obj'[t] # call[s].obj
              /\ call[s].op = "kill" =>
                   call[s].obj \in Endless /\ task_obj'[call[s].slot] = call[s].obj
              /\ call[s].op = "pid" =>
                   /\ call[s].obj \in Endless
                   /\ call[s].id.index \in Slots
                   /\ task_obj'[call[s].id.index] = call[s].obj
  <2>1. call[s].slot \in Slots
      BY DEF TypeOK, Calls
  <2> QED
      BY <1>3, <1>6, <1>9, <2>1, ObjsAssumption DEF CallsSound
<1>11. ASSUME NEW s \in Slots
       PROVE  /\ call'[s].op = "none" => call'[s] = NoCall
              /\ call'[s].op = "start" =>
                   call'[s].obj \in Objs /\ \A t \in Slots : task_obj'[t] # call'[s].obj
              /\ call'[s].op = "kill" =>
                   call'[s].obj \in Endless /\ task_obj'[call'[s].slot] = call'[s].obj
              /\ call'[s].op = "pid" =>
                   /\ call'[s].obj \in Endless
                   /\ call'[s].id.index \in Slots
                   /\ task_obj'[call'[s].id.index] = call'[s].obj
  <2>1. CASE s = current_task
      BY <1>3, <2>1 DEF NoCall
  <2>2. CASE s # current_task
      BY <1>3, <1>10, <2>2 DEF CallsSound
  <2> QED
      BY <2>1, <2>2
<1>12. \A s \in Slots : \A u \in Slots \ {s} : call'[s] # NoCall => call'[s].obj # call'[u].obj
    BY <1>3, CallObjects DEF CallsSound, NoCall
<1> QED
    BY <1>8, <1>11, <1>12 DEF CallsSound

(* No call in flight concerns the object removed, but the killer's own. *)
LEMMA RemoveKeepsCalls ==
    ASSUME TypeOK, TableInv, CallsSound,
           NEW i \in Slots, NEW self \in BOOLEAN, Remove(i, self), task_obj[i] \in Objs,
           \A s \in Slots \ {current_task} :
               call[s].op \in {"kill", "pid"} => call[s].obj # task_obj[i]
    PROVE  CallsSound'
<1>1. /\ task_obj' = [task_obj EXCEPT ![i] = NoObj]
      /\ call' = [call EXCEPT ![i] = NoCall, ![current_task] = NoCall]
    BY DEF Remove
<1>2. current_task \in Slots /\ i # 0 /\ 0 \in Slots
    BY HolderIsLive, SlotNumbers, SlotsAssumption DEF TypeOK
<1>3. /\ task_obj'[i] = NoObj /\ \A t \in Slots \ {i} : task_obj'[t] = task_obj[t]
      /\ call'[current_task] = NoCall /\ call'[i] = NoCall
      /\ \A s \in Slots \ {i, current_task} : call'[s] = call[s]
    BY <1>1, <1>2 DEF TypeOK
<1>4. /\ task_obj'[0] = BaseObj
      /\ \A t \in Slots \ {0} : task_obj'[t] # BaseObj
      /\ ObjectOnce'
  <2>1. task_obj'[0] = BaseObj /\ \A t \in Slots \ {0} : task_obj'[t] # BaseObj
      BY <1>2, <1>3, ObjsAssumption DEF CallsSound
  <2>2. ObjectOnce'
      BY <1>3, ObjsAssumption DEF CallsSound, ObjectOnce
  <2> QED
      BY <2>1, <2>2
<1>5. ASSUME NEW s \in Slots \ {i, current_task}
      PROVE  /\ call[s].op = "start" =>
                  call[s].obj \in Objs /\ \A t \in Slots : task_obj'[t] # call[s].obj
             /\ call[s].op = "kill" =>
                  call[s].obj \in Endless /\ task_obj'[call[s].slot] = call[s].obj
             /\ call[s].op = "pid" =>
                  /\ call[s].obj \in Endless
                  /\ call[s].id.index \in Slots
                  /\ task_obj'[call[s].id.index] = call[s].obj
  <2>1. call[s].slot \in Slots
      BY DEF TypeOK, Calls
  <2> QED
      BY <1>3, <2>1, ObjsAssumption DEF CallsSound
<1>6. ASSUME NEW s \in Slots
      PROVE  /\ call'[s].op = "none" => call'[s] = NoCall
             /\ call'[s].op = "start" =>
                  call'[s].obj \in Objs /\ \A t \in Slots : task_obj'[t] # call'[s].obj
             /\ call'[s].op = "kill" =>
                  call'[s].obj \in Endless /\ task_obj'[call'[s].slot] = call'[s].obj
             /\ call'[s].op = "pid" =>
                  /\ call'[s].obj \in Endless
                  /\ call'[s].id.index \in Slots
                  /\ task_obj'[call'[s].id.index] = call'[s].obj
  <2>1. CASE s \in {i, current_task}
      BY <1>3, <2>1 DEF NoCall
  <2>2. CASE s \notin {i, current_task}
      BY <1>3, <1>5, <2>2 DEF CallsSound
  <2> QED
      BY <2>1, <2>2
<1>7. \A s \in Slots : \A u \in Slots \ {s} : call'[s] # NoCall => call'[s].obj # call'[u].obj
    BY <1>3, CallObjects DEF CallsSound, NoCall
<1> QED
    BY <1>4, <1>6, <1>7 DEF CallsSound

(* The kill of a disciplined application hits the object it named. *)
LEMMA KillHits ==
    ASSUME TypeOK, TableInv, CallsSound, svc_service_task_kill
    PROVE  \E i \in Slots :
             /\ i = call[current_task].id.index
             /\ Remove(i, FALSE)
             /\ task_obj[i] = call[current_task].obj
             /\ task_obj[i] \in Endless
<1>1. call[current_task].op = "pid" /\ Remove(call[current_task].id.index, FALSE)
      /\ current_task \in Slots
    BY DEF svc_service_task_kill, TypeOK
<1> QED
    BY <1>1 DEF CallsSound

(* Every step preserves what a disciplined application adds. *)
LEMMA NextCallsSound ==
    ASSUME Disciplined, TypeOK, TableInv, OneRunner, Live(next_task), CallsSound,
           [Next]_vars
    PROVE  CallsSound'
<1>1. 0 \in Slots /\ NoId \in Ids /\ NoCall \in Calls /\ current_task \in Slots
  <2>1. 0 \in Slots /\ current_task \in Slots
      BY SlotNumbers, SlotsAssumption DEF TypeOK
  <2> QED
      BY <2>1 DEF NoId, Ids, NoCall, Calls
<1>2. ASSUME NEW o \in Objs, task_start(o)
      PROVE  CallsSound'
  <2>1. PICK c \in Calls : c = [NoCall EXCEPT !.op = "start", !.obj = o]
      BY <1>1 DEF NoCall, Calls
  <2>2. Enter(c) /\ c.op = "start" /\ c.obj = o /\ c # NoCall
      BY <1>2, <2>1 DEF task_start, NoCall
  <2>3. /\ \A s \in Slots : call[s].obj # o
        /\ \A t \in Slots : task_obj[t] # o
      BY <1>2 DEF task_start, Free
  <2> QED
      BY <2>2, <2>3, EnterKeepsCalls
<1>3. ASSUME NEW o \in Objs, task_kill(o)
      PROVE  CallsSound'
  <2>1. PICK t \in Slots : /\ task_obj[t] = o
                           /\ Enter([NoCall EXCEPT !.op = "kill", !.obj = o, !.slot = t])
      BY <1>3 DEF task_kill
  <2>2. PICK c \in Calls : c = [NoCall EXCEPT !.op = "kill", !.obj = o, !.slot = t]
      BY <1>1 DEF NoCall, Calls
  <2>3. Enter(c) /\ c.op = "kill" /\ c.slot = t /\ c.obj = o /\ c # NoCall
      BY <2>1, <2>2 DEF NoCall
  <2>4. o \in Endless /\ \A s \in Slots : call[s].obj # o
      BY <1>3 DEF task_kill, Free
  <2> QED
      BY <2>1, <2>3, <2>4, EnterKeepsCalls
<1>4. ASSUME task_kill_load
      PROVE  CallsSound'
  <2>1. call[current_task] \in Calls /\ call[current_task].op = "kill"
      BY <1>4 DEF TypeOK, task_kill_load
  <2>2. PICK t \in Slots : t = call[current_task].slot
      BY <2>1 DEF Calls
  <2>3. PICK o \in Endless : o = call[current_task].obj /\ task_obj[t] = o
      BY <1>1, <2>1, <2>2 DEF CallsSound
  <2>4. task_id[t].index = t /\ task_id[t] \in Ids
      BY <2>3, HolderIsLive, ObjsAssumption DEF TypeOK
  <2>5. PICK c \in Calls : c = [call[current_task] EXCEPT !.op = "pid", !.id = task_id[t], !.slot = 0]
      BY <1>1, <2>1, <2>4 DEF Calls
  <2>6. Enter(c) /\ c.op = "pid" /\ c.id.index = t /\ c.obj = o
      BY <1>4, <2>1, <2>2, <2>3, <2>4, <2>5 DEF task_kill_load, Calls
  <2>7. c # NoCall /\ call[current_task] # NoCall
      BY <2>1, <2>6 DEF NoCall
  <2>8. \A s \in Slots \ {current_task} : call[s].obj # o
      BY <1>1, <2>3, <2>7 DEF CallsSound
  <2> QED
      BY <2>3, <2>6, <2>7, <2>8, EnterKeepsCalls
<1>5. ASSUME NEW o \in Objs, NEW p \in Priorities, svc_service_task_create(o, p)
      PROVE  CallsSound'
    BY <1>5, CreateKeepsCalls
<1>6. ASSUME NEW p \in Priorities, task_create_rejected(p)
      PROVE  CallsSound'
  <2>1. Enter(NoCall) /\ NoCall.op = "none"
      BY <1>6 DEF task_create_rejected, NoCall
  <2> QED
      BY <1>1, <2>1, EnterKeepsCalls
<1>7. ASSUME svc_service_task_kill
      PROVE  CallsSound'
  <2>1. PICK i \in Slots : /\ Remove(i, FALSE)
                           /\ task_obj[i] = call[current_task].obj
                           /\ task_obj[i] \in Endless
      BY <1>7, KillHits
  <2>2. call[current_task] # NoCall
      BY <1>7 DEF svc_service_task_kill, NoCall
  <2>3. \A s \in Slots \ {current_task} : call[s].obj # task_obj[i]
      BY <1>1, <2>1, <2>2 DEF CallsSound
  <2> QED
      BY <2>1, <2>3, RemoveKeepsCalls, ObjsAssumption
<1>8. ASSUME resolve_end
      PROVE  CallsSound'
  <2>1. /\ ThreadMode /\ current_task # 0 /\ task_obj[current_task] \notin Endless
        /\ Remove(task_id[current_task].index, TRUE)
      BY <1>8 DEF resolve_end
  <2>2. Live(current_task)
      BY <2>1, Running
  <2>3. /\ task_id[current_task].index = current_task
        /\ task_obj[current_task] \in Objs
      BY <1>1, <2>1, <2>2 DEF TableInv, Identity, CallsSound, TypeOK
  <2>4. \A s \in Slots \ {current_task} :
            call[s].op \in {"kill", "pid"} => call[s].obj # task_obj[current_task]
      BY <2>1 DEF CallsSound
  <2> QED
      BY <1>1, <2>1, <2>3, <2>4, RemoveKeepsCalls
<1>9. ASSUME UNCHANGED <<task_obj, call>>
      PROVE  CallsSound'
    BY <1>9 DEF CallsSound, ObjectOnce
<1>10. CASE \/ \E p \in Priorities : task_create_overrun(p)
            \/ task_kill_memfault
            \/ scheduler_hangs
            \/ scheduler
            \/ pendsv_handler
            \/ Tick
            \/ Compute
            \/ UNCHANGED vars
  <2>1. UNCHANGED <<task_obj, call>>
      BY <1>10 DEF task_create_overrun, task_kill_memfault, scheduler_hangs, Fail,
                   scheduler, pendsv_handler, Tick, Compute, vars, slotVars
  <2> QED
      BY <1>9, <2>1
<1>11. CASE \/ \E reverse \in BOOLEAN : svc_service_hibernate(reverse)
            \/ svc_service_hand_over
            \/ svc_service_start_scheduler
  <2>1. UNCHANGED <<task_obj, call>>
      BY <1>11 DEF svc_service_hibernate, svc_service_hand_over, svc_service_start_scheduler
  <2> QED
      BY <1>9, <2>1
<1> QED
    BY <1>2, <1>3, <1>4, <1>5, <1>6, <1>7, <1>8, <1>10, <1>11 DEF Next

(* kernel_init leaves no call in flight. *)
LEMMA InitCallsSound == Init => CallsSound
BY SlotNumbers, SlotsAssumption, ObjsAssumption DEF Init, CallsSound, ObjectOnce, NoCall

(* With a disciplined application everything the kernel keeps true stays    *)
(* true for good: no call ever kills BaseTask or aims at the wrong slot.    *)
THEOREM DisciplineSuffices ==
    ASSUME IdsFit
    PROVE  Spec => []DisciplinedInv
<1> DEFINE DInv == KInv /\ DisciplinedInv
<1>1. Init => DInv
    BY InitKInv, InitCallsSound DEF KInv, DisciplinedInv
<1>2. ASSUME DInv, [Next]_vars
      PROVE  DInv'
  <2>1. KInv'
      BY <1>2, NextKInv
  <2>2. ASSUME Disciplined
        PROVE  CallsSound'
    <3>1. CallsSound /\ KernelInv /\ task_obj[0] = BaseObj
        BY <1>2, <2>2 DEF DisciplinedInv, CallsSound
    <3>2. TypeOK /\ TableInv /\ OneRunner /\ Live(next_task)
        BY <3>1 DEF KernelInv
    <3> QED
        BY <1>2, <2>2, <3>1, <3>2, NextCallsSound
  <2> QED
      BY <2>1, <2>2 DEF KInv, DisciplinedInv
<1>3. DInv => DisciplinedInv
    OBVIOUS
<1> QED
    BY <1>1, <1>2, <1>3, PTL DEF Spec

(* Under discipline every variable keeps its type, in particular the slots  *)
(* scheduler() and kill index the tables with.                              *)
THEOREM TypeCorrect ==
    ASSUME IdsFit, Disciplined
    PROVE  Spec => []TypeOK
<1>1. DisciplinedInv => TypeOK
    BY DEF DisciplinedInv, KernelInv, CallsSound
<1>2. Spec => []DisciplinedInv
    BY DisciplineSuffices
<1> QED
    BY <1>1, <1>2, PTL

(* Under discipline the walks of scheduler() and kill follow an intact ring. *)
THEOREM RingSafe ==
    ASSUME IdsFit, Disciplined
    PROVE  Spec => []RingIntact
<1>1. DisciplinedInv => RingIntact
    BY DEF DisciplinedInv, KernelInv, CallsSound, TableInv
<1>2. Spec => []DisciplinedInv
    BY DisciplineSuffices
<1> QED
    BY <1>1, <1>2, PTL

(* Under discipline there is one running task, through every hand over,     *)
(* hibernation, end and preemption.                                         *)
THEOREM OneRunnerAlways ==
    ASSUME IdsFit, Disciplined
    PROVE  Spec => []OneRunner
<1>1. DisciplinedInv => OneRunner
    BY DEF DisciplinedInv, KernelInv, CallsSound
<1>2. Spec => []DisciplinedInv
    BY DisciplineSuffices
<1> QED
    BY <1>1, <1>2, PTL

(* Under discipline max_level is the priority of the most urgent live task, *)
(* through every creation and every recount of a kill.                      *)
THEOREM TopLevelExact ==
    ASSUME IdsFit, Disciplined
    PROVE  Spec => []MaxLevelExact
<1>1. DisciplinedInv => MaxLevelExact
    BY DEF DisciplinedInv, KernelInv, CallsSound, TableInv
<1>2. Spec => []DisciplinedInv
    BY DisciplineSuffices
<1> QED
    BY <1>1, <1>2, PTL

-----------------------------------------------------------------------------
(* level_stash *)

(* The level of the new task is in level_stash afterwards, together with    *)
(* every level that was, although the cell it is entered at may be wrong,   *)
(* if level_stash was not full.                                             *)
LEMMA LevelEntered ==
    ASSUME TypeOK, UnusedCells, lstash_ptr < MAX_TASK_COUNT,
           NEW jl, NEW p \in 0..127, EnterLevel(jl, p),
           \E k \in Slots : k < lstash_ptr /\ level_stash[k] = 0
    PROVE  /\ UnusedCells'
           /\ \E k \in Slots : k < lstash_ptr' /\ level_stash'[k] = p
           /\ \A k \in Slots : k < lstash_ptr =>
                \E m \in Slots : m < lstash_ptr' /\ level_stash'[m] = level_stash[k]
<1>1. PICK g \in Behind(jl), s \in 0..lstash_ptr :
        \/ /\ WithStray(g)[s] = p
           /\ UNCHANGED <<level_stash, lstash_ptr>>
        \/ /\ WithStray(g)[s] # p
           /\ lstash_ptr < MAX_TASK_COUNT
           /\ level_stash' = Insert(s, p)
           /\ lstash_ptr' = lstash_ptr + 1
    BY DEF EnterLevel
<1>2. /\ lstash_ptr \in 0..255 /\ level_stash \in [Slots -> 0..255]
      /\ MAX_TASK_COUNT \in 2..127
      /\ \A k \in Int : k \in Slots <=> 0 <= k /\ k < MAX_TASK_COUNT
      /\ Slots \subseteq Int
    BY SlotNumbers, SlotsAssumption DEF TypeOK
<1>3. CASE WithStray(g)[s] = p /\ UNCHANGED <<level_stash, lstash_ptr>>
  <2>1. \E k \in Slots : k < lstash_ptr /\ level_stash[k] = p
    <3>1. CASE s < lstash_ptr
        BY <1>2, <1>3, <3>1 DEF WithStray
    <3>2. CASE s = lstash_ptr
      <4>1. p \notin 1..127
        <5>1. s \in Slots /\ s >= lstash_ptr /\ level_stash[s] = p
            BY <1>2, <1>3, <3>2 DEF WithStray
        <5> QED
            BY <5>1 DEF UnusedCells
      <4>2. p = 0
          BY <4>1
      <4> QED
          BY <4>2
    <3> QED
        BY <1>2, <3>1, <3>2
  <2> QED
      BY <1>2, <1>3, <2>1 DEF UnusedCells
<1>4. CASE /\ lstash_ptr < MAX_TASK_COUNT
           /\ level_stash' = Insert(s, p)
           /\ lstash_ptr' = lstash_ptr + 1
  <2>1. /\ s \in Slots /\ s <= lstash_ptr
        /\ \A k \in Slots : level_stash'[k] =
             IF k = s THEN p
             ELSE IF s < k /\ k <= lstash_ptr THEN level_stash[k - 1]
             ELSE level_stash[k]
      BY <1>2, <1>4 DEF Insert
  <2>3. UnusedCells'
    <3> SUFFICES ASSUME NEW k \in Slots, k >= lstash_ptr + 1
                 PROVE  level_stash'[k] \notin 1..127
        BY <1>4 DEF UnusedCells
    <3>1. k # s /\ ~(k <= lstash_ptr) /\ k >= lstash_ptr
        BY <1>2, <2>1
    <3> QED
        BY <2>1, <3>1 DEF UnusedCells
  <2>4. \E k \in Slots : k < lstash_ptr' /\ level_stash'[k] = p
      BY <1>2, <1>4, <2>1
  <2>5. ASSUME NEW k \in Slots, k < lstash_ptr
        PROVE  \E m \in Slots : m < lstash_ptr' /\ level_stash'[m] = level_stash[k]
    <3>1. CASE k < s
        BY <1>2, <1>4, <2>1, <2>5, <3>1
    <3>2. CASE s <= k
      <4>1. k + 1 \in Slots /\ k + 1 < lstash_ptr' /\ k + 1 - 1 = k
          BY <1>2, <1>4, <2>5
      <4>2. level_stash'[k + 1] = level_stash[k]
          BY <1>2, <2>1, <2>5, <3>2, <4>1
      <4> QED
          BY <4>1, <4>2
    <3> QED
        BY <1>2, <2>1, <3>1, <3>2
  <2> QED
      BY <2>3, <2>4, <2>5
<1> QED
    BY <1>1, <1>3, <1>4

(* When the level of slot i is removed, the cells above it move down and    *)
(* every other level stays in level_stash, if it was not full.              *)
LEMMA LevelLeft ==
    ASSUME TypeOK, UnusedCells, LevelCovered, lstash_ptr < MAX_TASK_COUNT,
           NEW i \in Slots, Live(i), LeaveLevel(i)
    PROVE  /\ UnusedCells'
           /\ \A t \in Slots \ {i} : Live(t) =>
                \E n \in Slots : n < lstash_ptr' /\ level_stash'[n] = priority[t]
<1>1. /\ lstash_ptr \in 0..255 /\ level_stash \in [Slots -> 0..255]
      /\ MAX_TASK_COUNT \in 2..127
      /\ \A k \in Int : k \in Slots <=> 0 <= k /\ k < MAX_TASK_COUNT
      /\ Slots \subseteq Int
    BY SlotNumbers, SlotsAssumption DEF TypeOK
<1>2. CASE \E j \in Slots \ {i} : priority[j] = priority[i]
  <2>1. UNCHANGED <<level_stash, lstash_ptr>>
      BY <1>2 DEF LeaveLevel, LevelShared, Shift
  <2> QED
      BY <1>1, <2>1 DEF UnusedCells, LevelCovered
<1>3. CASE ~ \E j \in Slots \ {i} : priority[j] = priority[i]
  <2> DEFINE Above(k) == \E f \in 0..k : level_stash[f] = priority[i]
  <2>1. PICK g \in Behind(jmp_list) :
          level_stash' = [k \in Slots |->
                IF k < lstash_ptr /\ Above(k) THEN WithStray(g)[k + 1] ELSE level_stash[k]]
      BY <1>3 DEF LeaveLevel, LevelShared, Shift
  <2>2. PICK home \in Slots : home < lstash_ptr /\ level_stash[home] = priority[i]
      BY DEF LevelCovered
  <2>3. lstash_ptr' = lstash_ptr - 1
    <3>1. lstash_ptr' = Byte(lstash_ptr - 1)
        BY <1>3 DEF LeaveLevel, LevelShared, Shift
    <3>2. lstash_ptr - 1 \in 0..126
        BY <1>1, <2>2
    <3> QED
        BY <1>1, <3>1, <3>2, ByteWraps
  <2>4. ASSUME NEW k \in Slots
        PROVE  /\ k + 1 < MAX_TASK_COUNT => k + 1 \in Slots /\ WithStray(g)[k + 1] = level_stash[k + 1]
    <3>1. k + 1 \in 0..MAX_TASK_COUNT
        BY <1>1
    <3> QED
        BY <1>1, <3>1 DEF WithStray
  <2>6. UnusedCells'
    <3> SUFFICES ASSUME NEW k \in Slots, k >= lstash_ptr - 1
                 PROVE  level_stash'[k] \notin 1..127
        BY <2>3 DEF UnusedCells
    <3>1. CASE k >= lstash_ptr
      <4>1. level_stash'[k] = level_stash[k]
          BY <1>1, <2>1, <3>1
      <4> QED
          BY <3>1, <4>1 DEF UnusedCells
    <3>2. CASE k = lstash_ptr - 1
      <4>1. Above(k) /\ k < lstash_ptr
          BY <1>1, <2>2, <3>2
      <4>2. level_stash'[k] = WithStray(g)[k + 1]
          BY <2>1, <4>1
      <4>3. k + 1 < MAX_TASK_COUNT /\ k + 1 \in Slots /\ k + 1 >= lstash_ptr
          BY <1>1, <3>2
      <4> QED
          BY <2>4, <4>2, <4>3 DEF UnusedCells
    <3> QED
        BY <1>1, <3>1, <3>2
  <2>7. ASSUME NEW t \in Slots \ {i}, Live(t)
        PROVE  \E n \in Slots : n < lstash_ptr' /\ level_stash'[n] = priority[t]
    <3>1. priority[t] # priority[i]
        BY <1>3
    <3>2. PICK k \in Slots : k < lstash_ptr /\ level_stash[k] = priority[t]
        BY <2>7 DEF LevelCovered
    <3>3. CASE Above(k)
      <4>1. PICK f \in 0..k : level_stash[f] = priority[i]
          BY <3>3
      <4>2. f # k
          BY <3>1, <3>2, <4>1
      <4>3. k - 1 \in Slots /\ k - 1 < lstash_ptr /\ f \in 0..(k - 1) /\ k - 1 + 1 = k
          BY <1>1, <3>2, <4>1, <4>2
      <4>4. level_stash'[k - 1] = WithStray(g)[k]
          BY <2>1, <4>1, <4>3
      <4>5. WithStray(g)[k] = level_stash[k]
          BY <1>1 DEF WithStray
      <4>6. k - 1 < lstash_ptr'
          BY <1>1, <2>3, <3>2, <4>3
      <4> QED
          BY <3>2, <4>3, <4>4, <4>5, <4>6
    <3>4. CASE ~Above(k)
      <4>1. level_stash'[k] = level_stash[k]
          BY <2>1, <3>4
      <4>2. ~(home <= k)
          BY <1>1, <2>2, <3>4
      <4>3. k < lstash_ptr'
          BY <1>1, <2>2, <2>3, <4>2
      <4> QED
          BY <3>2, <4>1, <4>3
    <3> QED
        BY <3>3, <3>4
  <2> QED
      BY <2>3, <2>6, <2>7
<1> QED
    BY <1>2, <1>3

(* A step that changes no priority, no state to or from IDLE and not        *)
(* level_stash leaves the levels covered.                                   *)
LEMMA SameLevels ==
    ASSUME LevelCovered, UnusedCells,
           UNCHANGED <<priority, level_stash, lstash_ptr>>,
           \A t \in Slots : state'[t] = IDLE <=> state[t] = IDLE
    PROVE  LevelCovered' /\ UnusedCells'
BY DEF LevelCovered, UnusedCells, Live

(* With a disciplined application the levels of level_stash cover the live  *)
(* tasks until a step finds it full, whatever byte lies behind it.          *)
THEOREM LevelsSafe ==
    ASSUME IdsFit, Disciplined
    PROVE  Spec => LevelsKeptUntilFull
<1> DEFINE Kept == lstash_ptr < MAX_TASK_COUNT /\ LevelCovered /\ UnusedCells
                     => LevelCovered' /\ UnusedCells'
<1>1. ASSUME DisciplinedInv, lstash_ptr < MAX_TASK_COUNT, LevelCovered, UnusedCells,
             [Next]_vars
      PROVE  LevelCovered' /\ UnusedCells'
  <2>1. TypeOK /\ TableInv /\ OneRunner /\ Live(next_task) /\ CallsAim /\ CallsSound
      BY <1>1 DEF DisciplinedInv, KernelInv, CallsSound
  <2>2. ASSUME NEW o \in Objs, NEW p \in Priorities, svc_service_task_create(o, p)
        PROVE  LevelCovered' /\ UnusedCells'
    <3>1. PICK i \in Slots : FirstIdle(i) /\ Occupy(i, o, p)
        BY <2>2 DEF svc_service_task_create
    <3>2. p \in 0..127
        BY <2>2, PrioritiesAssumption DEF svc_service_task_create, Rejected
    <3>3. /\ EnterLevel(Link(i), p)
          /\ \A t \in Slots \ {i} : state'[t] = state[t] /\ priority'[t] = priority[t]
          /\ priority'[i] = p
        BY <2>1, <3>1 DEF Occupy, TypeOK
    <3>4. \E k \in Slots : k < lstash_ptr /\ level_stash[k] = 0
        BY <1>1, <2>1 DEF TableInv, Identity, LevelCovered, LiveSlots, RingIntact, IsRing
    <3>5. /\ UnusedCells'
          /\ \E k \in Slots : k < lstash_ptr' /\ level_stash'[k] = p
          /\ \A k \in Slots : k < lstash_ptr =>
               \E n \in Slots : n < lstash_ptr' /\ level_stash'[n] = level_stash[k]
        BY <1>1, <2>1, <3>2, <3>3, <3>4, LevelEntered
    <3>6. ASSUME NEW t \in Slots, Live(t)'
          PROVE  \E n \in Slots : n < lstash_ptr' /\ level_stash'[n] = priority'[t]
      <4>1. CASE t = i
          BY <3>3, <3>5, <4>1
      <4>2. CASE t # i
        <5>1. priority'[t] = priority[t] /\ Live(t)
            BY <3>3, <3>6, <4>2 DEF Live
        <5>2. PICK k \in Slots : k < lstash_ptr /\ level_stash[k] = priority[t]
            BY <1>1, <5>1 DEF LevelCovered
        <5> QED
            BY <3>5, <5>1, <5>2
      <4> QED
          BY <4>1, <4>2
    <3> QED
        BY <3>5, <3>6 DEF LevelCovered
  <2>3. ASSUME svc_service_task_kill \/ resolve_end
        PROVE  LevelCovered' /\ UnusedCells'
    <3>1. PICK i \in Slots, self \in BOOLEAN : Live(i) /\ Remove(i, self)
        BY <2>1, <2>3 DEF svc_service_task_kill, resolve_end, Killable, TableInv, Identity
    <3>2. LeaveLevel(i) /\ state' = [state EXCEPT ![i] = IDLE] /\ UNCHANGED priority
        BY <3>1 DEF Remove
    <3>3. \A t \in Slots : Live(t)' => t # i /\ Live(t)
        BY <2>1, <3>2 DEF Live, TypeOK
    <3>4. /\ UnusedCells'
          /\ \A t \in Slots \ {i} : Live(t) =>
               \E n \in Slots : n < lstash_ptr' /\ level_stash'[n] = priority[t]
        BY <1>1, <2>1, <3>1, <3>2, LevelLeft
    <3> QED
        BY <3>2, <3>3, <3>4 DEF LevelCovered
  <2>4. ASSUME \/ \E o \in Objs : task_start(o) \/ task_kill(o)
               \/ task_kill_load
               \/ \E p \in Priorities : task_create_rejected(p) \/ task_create_overrun(p)
               \/ task_kill_memfault
               \/ scheduler_hangs
               \/ pendsv_handler
               \/ Tick
               \/ Compute
               \/ UNCHANGED vars
        PROVE  LevelCovered' /\ UnusedCells'
    <3>1. UNCHANGED <<state, priority, level_stash, lstash_ptr>>
        BY <2>4 DEF task_start, task_kill, task_kill_load, task_create_rejected,
                    task_create_overrun, task_kill_memfault, scheduler_hangs, pendsv_handler,
                    Tick, Compute, Enter, Fail, vars, slotVars, levelVars
    <3> QED
        BY <1>1, <3>1, SameLevels
  <2>5. ASSUME \/ \E reverse \in BOOLEAN : svc_service_hibernate(reverse)
               \/ svc_service_hand_over
               \/ svc_service_start_scheduler
               \/ scheduler
        PROVE  LevelCovered' /\ UnusedCells'
    <3>1. TableInv'
        BY <2>1, <2>5, GiveUpPreserves, SchedulerPreserves
    <3>2. UNCHANGED <<task_obj, priority, level_stash, lstash_ptr>>
        BY <2>5 DEF svc_service_hibernate, svc_service_hand_over,
                    svc_service_start_scheduler, scheduler, levelVars
    <3>3. \A t \in Slots : state'[t] = IDLE <=> state[t] = IDLE
        BY <2>1, <3>1, <3>2 DEF TableInv, Identity, Live
    <3> QED
        BY <1>1, <3>2, <3>3, SameLevels
  <2> QED
      BY <1>1, <2>2, <2>3, <2>4, <2>5 DEF Next
<1>2. DisciplinedInv /\ [Next]_vars => [Kept]_vars
    BY <1>1
<1>3. Spec => []DisciplinedInv
    BY DisciplineSuffices
<1> QED
    BY <1>2, <1>3, PTL DEF Spec, LevelsKeptUntilFull

=============================================================================
