---------------------------- MODULE LevelProofs ----------------------------
(***************************************************************************)
(* More proofs about Kernel: task ids, and the timer that is stopped while *)
(* one task has the highest level to itself.                               *)
(***************************************************************************)
EXTENDS KernelProofs

(* Serial numbers of live tasks are distinct and have all been given out. *)
SerialsGiven ==
    /\ total_task_count \in 1..MaxStarts
    /\ \A t \in Slots : Live(t) => task_id[t].serial \in 1..total_task_count
    /\ \A t, u \in Slots : Live(t) /\ Live(u) /\ t # u => task_id[t].serial # task_id[u].serial

(* The live tasks of the highest level. *)
TopTasks == {t \in Slots : Live(t) /\ priority[t] = max_level}

(* The bytes alc and hlc have come apart from the numbers of awake and      *)
(* hibernating tasks, but their sum, modulo 256, counts every task of the   *)
(* highest level, and too many by less than a table's worth.                *)
CountsCover ==
    \E d \in 0..126 : Byte(alc + hlc) = Cardinality(TopTasks) + d

(* The timer is stopped only while the counters say that the task switched  *)
(* to is alone, so that they reach 2 when another task of its level comes.  *)
TimerStopped ==
    first_start /\ ~sched_on /\ ~systick =>
        alc = 1 /\ hlc = 0 /\ priority[next_task] = max_level

LevelInv == task_obj[0] = BaseObj => SerialsGiven /\ CountsCover /\ TimerStopped

-----------------------------------------------------------------------------
(* Steps that neither create nor remove a task *)

(* What moves from one byte to the other leaves their sum alone. *)
LEMMA ByteSum ==
    ASSUME NEW a \in Int, NEW b \in Int, NEW k \in Int
    PROVE  Byte(Byte(a + k) + Byte(b - k)) = Byte(a + b)
BY DEF Byte

(* Nor does it matter where one is added. *)
LEMMA ByteNext ==
    ASSUME NEW a \in Int, NEW b \in Int
    PROVE  Byte(Byte(a + 1) + b) = Byte(Byte(a + b) + 1)
BY DEF Byte

(* Slots that are at least one are at most 127. *)
LEMMA SomeSlots ==
    ASSUME NEW T \in SUBSET Slots, T # {}
    PROVE  IsFiniteSet(T) /\ Cardinality(T) \in 1..127
<1>1. IsFiniteSet(T) /\ Cardinality(T) \in 0..MAX_TASK_COUNT
    BY SlotsCardinality
<1>2. Cardinality(T) # 0
    BY <1>1, FS_EmptySet
<1> QED
    BY <1>1, <1>2, SlotsAssumption

(* The tasks of the highest level are at most as many as there are slots. *)
LEMMA TopCardinality ==
    ASSUME TypeOK, TableInv
    PROVE  IsFiniteSet(TopTasks) /\ Cardinality(TopTasks) \in 1..127
<1>1. TopTasks \in SUBSET Slots /\ TopTasks # {}
    BY DEF TopTasks, TableInv, MaxLevelExact
<1> QED
    BY <1>1, SomeSlots

(* A step that keeps ids, priorities and the set of live slots, and leaves  *)
(* or moves what the counters count.                                        *)
LEMMA SameTasks ==
    ASSUME SerialsGiven, CountsCover,
           UNCHANGED <<priority, task_id, max_level, total_task_count>>,
           \A t \in Slots : state'[t] = IDLE <=> state[t] = IDLE,
           Byte(alc' + hlc') = Byte(alc + hlc)
    PROVE  SerialsGiven' /\ CountsCover'
<1>1. \A t \in Slots : Live(t)' <=> Live(t)
    BY DEF Live
<1>2. TopTasks' = TopTasks
    BY <1>1 DEF TopTasks, Slots
<1> QED
    BY <1>1, <1>2 DEF SerialsGiven, CountsCover

(* A hibernation, a hand over, and main starting the scheduler leave the    *)
(* scheduler pending.                                                       *)
LEMMA GiveUpLevels ==
    ASSUME TypeOK, TableInv, OneRunner, Live(next_task), SerialsGiven, CountsCover, TimerStopped,
           \/ \E reverse \in BOOLEAN : svc_service_hibernate(reverse)
           \/ svc_service_hand_over
           \/ svc_service_start_scheduler
    PROVE  SerialsGiven' /\ CountsCover' /\ TimerStopped'
<1> USE DEF svc_service_hibernate, svc_service_hand_over, svc_service_start_scheduler,
            HandOver, levelVars, countVars
<1>1. Live(current_task) /\ current_task \in Slots
    BY Running DEF TypeOK
<1>2. \E z \in {SLEEP, HIBERNATE_G, HIBERNATE_L} :
        state' = [state EXCEPT ![current_task] = z]
    OBVIOUS
<1>3. UNCHANGED <<priority, task_id, max_level, total_task_count>> /\ systick'
    OBVIOUS
<1>4. \/ UNCHANGED <<alc, hlc>>
      \/ hlc' = Byte(hlc + 1) /\ alc' = Byte(alc - 1)
    OBVIOUS
<1> HIDE DEF svc_service_hibernate, svc_service_hand_over, svc_service_start_scheduler
<1>5. Byte(alc' + hlc') = Byte(alc + hlc)
  <2>1. alc \in Int /\ hlc \in Int
      BY DEF TypeOK
  <2>2. Byte(Byte(hlc + 1) + Byte(alc - 1)) = Byte(hlc + alc)
      BY <2>1 DEF Byte
  <2>3. CASE hlc' = Byte(hlc + 1) /\ alc' = Byte(alc - 1)
    <3>1. Byte(hlc + 1) \in Int /\ Byte(alc - 1) \in Int
        BY <2>1, ByteWraps
    <3>2. alc' + hlc' = Byte(hlc + 1) + Byte(alc - 1) /\ alc + hlc = hlc + alc
        BY <2>1, <2>3, <3>1
    <3> QED
        BY <2>2, <3>2
  <2> QED
      BY <1>4, <2>3
<1>6. \A t \in Slots : state'[t] = IDLE <=> state[t] = IDLE
    BY <1>1, <1>2 DEF TypeOK, Live, IDLE, SLEEP, HIBERNATE_G, HIBERNATE_L
<1> QED
    BY <1>3, <1>5, <1>6, SameTasks DEF TimerStopped

(* scheduler() moves the tasks it wakes from hlc to alc, and stops the      *)
(* timer by what the counters say then.                                     *)
LEMMA SchedulerLevels ==
    ASSUME TypeOK, TableInv, OneRunner, Live(next_task), SerialsGiven, CountsCover, scheduler,
           \A t \in Slots : Live(t)' <=> Live(t)
    PROVE  SerialsGiven' /\ CountsCover' /\ TimerStopped'
<1>1. PICK woken \in SUBSET Wakeable :
        LET st == Awake(Suspended, woken)
            tops == Cardinality({t \in woken : priority[t] = max_level})
        IN  /\ hlc' = Byte(hlc - tops)
            /\ alc' = Byte(alc + tops)
            /\ \E t \in Selected(st) : SwitchTo(t, st)
    BY DEF scheduler
<1> DEFINE tops == Cardinality({t \in woken : priority[t] = max_level})
<1>2. tops \in Nat
  <2>1. {t \in woken : priority[t] = max_level} \in SUBSET Slots
      BY DEF Wakeable
  <2> QED
      BY <2>1, SlotsCardinality, SlotsAssumption
<1>3. hlc' = Byte(hlc - tops) /\ alc' = Byte(alc + tops)
    BY <1>1
<1>4. PICK t : SwitchTo(t, Awake(Suspended, woken))
    BY <1>1
<1>5. UNCHANGED <<priority, task_id, max_level, total_task_count, first_start>>
    BY DEF scheduler, countVars
<1> HIDE DEF tops
<1>6. Byte(alc' + hlc') = Byte(alc + hlc)
    BY <1>2, <1>3, ByteSum DEF TypeOK
<1>7. SerialsGiven' /\ CountsCover'
    BY <1>5, <1>6, SameTasks DEF Live
<1>8. ~sched_on' => alc' = 1 /\ hlc' = 0 /\ priority[next_task'] = max_level
    BY <1>4 DEF SwitchTo, TimerNeeded
<1> QED
    BY <1>5, <1>7, <1>8 DEF TimerStopped

-----------------------------------------------------------------------------
(* Creation and removal *)

(* A new task has a new serial number and is counted if it is of the        *)
(* highest level; if that level was one task's own, the timer is started.   *)
LEMMA CreateLevels ==
    ASSUME IdsFit, TypeOK, TableInv, OneRunner, Live(next_task),
           SerialsGiven, CountsCover, TimerStopped,
           NEW o \in Objs, NEW p \in Priorities, svc_service_task_create(o, p),
           TypeOK', TableInv'
    PROVE  SerialsGiven' /\ CountsCover' /\ TimerStopped'
<1>1. PICK i \in Slots : FirstIdle(i) /\ Occupy(i, o, p)
    BY DEF svc_service_task_create
<1>2. /\ state[i] = IDLE
      /\ task_id' = [task_id EXCEPT ![i] = NewId(i, total_task_count)]
      /\ state' = [state EXCEPT ![i] = SLEEP]
      /\ priority' = [priority EXCEPT ![i] = p]
      /\ total_task_count' = (total_task_count + 1) % IdSpan
      /\ RaiseLevel(p)
    BY <1>1 DEF FirstIdle, Occupy
<1>3. /\ total_task_count < MaxStarts
      /\ UNCHANGED <<next_task, systick, first_start>>
    BY DEF svc_service_task_create
<1>4. \A t \in Slots : Live(t)' <=> Live(t) \/ t = i
    BY <1>2 DEF TypeOK, Live, SLEEP, IDLE
<1>5. /\ priority'[i] = p /\ p \in Int
      /\ \A t \in Slots \ {i} : priority'[t] = priority[t]
    BY <1>2, PrioritiesAssumption DEF TypeOK
<1>a. \A t \in Slots : priority[t] \in Int
  <2>1. priority \in [Slots -> 0..255]
      BY DEF TypeOK
  <2> QED
      BY <2>1
<1>6. SerialsGiven'
  <2> DEFINE n == total_task_count
  <2>1. n \in Nat /\ n >= 1 /\ n + 1 <= MaxStarts /\ n + 1 < IdSpan /\ MaxStarts \in Nat /\ IdSpan \in Nat
      BY <1>3, StartsAssumption DEF SerialsGiven, IdsFit
  <2>2. total_task_count' = n + 1
      BY <1>2, <2>1
  <2>3. NewId(i, n) = [index |-> i, serial |-> n + 1]
      BY <2>1 DEF NewId
  <2> HIDE DEF n
  <2>4. /\ task_id'[i].serial = n + 1
        /\ \A t \in Slots \ {i} : task_id'[t] = task_id[t]
      BY <1>2, <2>3 DEF TypeOK, n
  <2>5. \A t \in Slots : Live(t) => task_id[t].serial \in 1..n
      BY DEF SerialsGiven, n
  <2>6. ~Live(i)
      BY <1>2 DEF Live
  <2>7. \A t \in Slots : Live(t)' => task_id'[t].serial \in 1..(n + 1)
      BY <1>4, <2>1, <2>4, <2>5
  <2>8. \A t, u \in Slots :
            Live(t)' /\ Live(u)' /\ t # u => task_id'[t].serial # task_id'[u].serial
    <3> SUFFICES ASSUME NEW t \in Slots, NEW u \in Slots, Live(t)', Live(u)', t # u
                 PROVE  task_id'[t].serial # task_id'[u].serial
        OBVIOUS
    <3>1. CASE t # i /\ u # i
        BY <1>4, <2>4, <3>1 DEF SerialsGiven
    <3>2. CASE t = i
        BY <1>4, <2>1, <2>4, <2>5, <3>2
    <3>3. CASE u = i
        BY <1>4, <2>1, <2>4, <2>5, <3>3
    <3> QED
        BY <3>1, <3>2, <3>3
  <2> QED
      BY <2>1, <2>2, <2>7, <2>8 DEF SerialsGiven
<1>7. /\ max_level' \in 0..255 /\ max_level \in 0..255
      /\ \A t \in Slots : Live(t)' => priority'[t] <= max_level'
      /\ \A t \in Slots : Live(t) => priority[t] <= max_level
    BY DEF TypeOK, TableInv, MaxLevelExact
<1>8. PICK m \in {max_level} \cup {priority'[t] : t \in {k \in Slots : state'[k] # IDLE}} :
        /\ \A q \in {max_level} \cup {priority'[t] : t \in {k \in Slots : state'[k] # IDLE}} : q <= m
        /\ LET raised == m # max_level
               a == IF raised THEN 0 ELSE alc
               h == IF raised THEN 0 ELSE hlc
               arrived == IF p = m THEN Byte(a + 1) ELSE a
           IN  /\ max_level' = m
               /\ alc' = arrived
               /\ hlc' = h
               /\ sched_on' = (sched_on \/ (first_start /\ (raised \/ arrived + h = 2)))
    BY <1>2 DEF RaiseLevel
<1>9. m = max_level' /\ m \in 0..255 /\ m >= max_level /\ p <= m
  <2>1. Live(i)'
      BY <1>4
  <2> QED
      BY <1>5, <1>7, <1>8, <2>1
<1>10. m # max_level => m = p
  <2> SUFFICES ASSUME m # max_level PROVE m = p
      OBVIOUS
  <2>1. PICK t \in Slots : state'[t] # IDLE /\ m = priority'[t]
      BY <1>8
  <2>2. CASE t = i
      BY <1>5, <2>1, <2>2
  <2>3. CASE t # i
    <3>1. Live(t)
        BY <1>4, <2>1, <2>3 DEF Live
    <3>2. priority[t] <= max_level
        BY <1>7, <3>1
    <3>3. m = priority[t] /\ priority[t] \in Int
        BY <1>5, <1>a, <2>1, <2>3
    <3> QED
        BY <1>7, <1>9, <3>2, <3>3
  <2> QED
      BY <2>2, <2>3
<1>11. alc \in 0..255 /\ hlc \in 0..255
    BY DEF TypeOK
<1>12. IsFiniteSet(TopTasks) /\ Cardinality(TopTasks) \in 1..127
    BY TopCardinality
<1>13. Cardinality(TopTasks') \in 1..127
  <2>1. TopTasks' \in SUBSET Slots /\ TopTasks' # {}
      BY DEF TopTasks, TableInv, MaxLevelExact
  <2> QED
      BY <2>1, SomeSlots
<1>14. CASE m # max_level
  <2>1. m = p /\ max_level' = p /\ max_level < p /\ alc' = Byte(0 + 1) /\ hlc' = 0
        /\ (first_start => sched_on')
    <3>1. m = p /\ max_level' = p /\ max_level < p
        BY <1>5, <1>7, <1>9, <1>10, <1>14
    <3>2. alc' = Byte(0 + 1) /\ hlc' = 0 /\ (first_start => sched_on')
        BY <1>8, <1>14, <3>1
    <3> QED
        BY <3>1, <3>2
  <2>2. TopTasks' = {i}
    <3>1. ASSUME NEW t \in Slots \ {i}, Live(t)
          PROVE  priority'[t] # p
      <4>1. priority'[t] = priority[t] /\ priority[t] \in Int
          BY <1>5, <1>a
      <4>2. priority[t] <= max_level
          BY <1>7, <3>1
      <4> QED
          BY <1>5, <1>7, <2>1, <4>1, <4>2
    <3> QED
        BY <1>4, <1>5, <2>1, <3>1 DEF TopTasks
  <2>3. Cardinality(TopTasks') = 1
      BY <2>2, FS_Singleton
  <2>4. Byte(alc' + hlc') = 1
      BY <2>1 DEF Byte
  <2>5. CountsCover'
      BY <2>3, <2>4 DEF CountsCover
  <2> QED
      BY <1>3, <1>6, <2>1, <2>5 DEF TimerStopped
<1>15. CASE m = max_level /\ p = m
  <2>1. /\ max_level' = max_level /\ alc' = Byte(alc + 1) /\ hlc' = hlc
        /\ sched_on' = (sched_on \/ (first_start /\ Byte(alc + 1) + hlc = 2))
      BY <1>8, <1>15
  <2>2. TopTasks' = TopTasks \cup {i} /\ i \notin TopTasks
      BY <1>2, <1>4, <1>5, <1>15, <2>1 DEF TopTasks, Live
  <2>3. Cardinality(TopTasks') = Cardinality(TopTasks) + 1
      BY <1>12, <2>2, FS_AddElement
  <2>4. PICK d \in 0..126 : Byte(alc + hlc) = Cardinality(TopTasks) + d
      BY DEF CountsCover
  <2> DEFINE K == Cardinality(TopTasks)
             K1 == Cardinality(TopTasks')
  <2>5. K \in 1..127 /\ K1 \in 1..127 /\ K1 = K + 1 /\ Byte(alc + hlc) = K + d
      BY <1>12, <1>13, <2>3, <2>4
  <2> HIDE DEF K, K1
  <2>6. Byte(Byte(alc + 1) + hlc) = K1 + d
    <3>1. Byte(Byte(alc + 1) + hlc) = Byte(K + d + 1)
      <4>1. alc \in Int /\ hlc \in Int
          BY <1>11
      <4>2. Byte(Byte(alc + 1) + hlc) = Byte(Byte(alc + hlc) + 1)
          BY <4>1, ByteNext
      <4> QED
          BY <2>5, <4>2
    <3> QED
        BY <2>5, <3>1, ByteWraps
  <2>7. CountsCover'
      BY <2>1, <2>6 DEF CountsCover, K1
  <2>8. first_start' /\ ~sched_on' => systick'
    <3>1. alc = 1 /\ hlc = 0 => Byte(alc + 1) + hlc = 2
        BY DEF Byte
    <3> QED
        BY <1>3, <2>1, <3>1 DEF TimerStopped
  <2> QED
      BY <1>6, <2>7, <2>8 DEF TimerStopped
<1>16. CASE m = max_level /\ p # m
  <2>1. /\ max_level' = max_level /\ alc' = alc /\ hlc' = hlc
        /\ sched_on' => sched_on \/ first_start
        /\ ~sched_on' => ~sched_on
      BY <1>8, <1>16
  <2>2. TopTasks' = TopTasks
      BY <1>2, <1>4, <1>5, <1>16, <2>1 DEF TopTasks, Live
  <2>3. CountsCover'
      BY <2>1, <2>2 DEF CountsCover
  <2>4. next_task # i /\ next_task \in Slots
      BY <1>2 DEF Live, TypeOK
  <2>5. priority'[next_task'] = priority[next_task]
      BY <1>3, <1>5, <2>4
  <2> QED
      BY <1>3, <1>6, <2>1, <2>3, <2>5 DEF TimerStopped
<1> QED
    BY <1>14, <1>15, <1>16

(* kill counts every slot that shows the highest priority, free ones too,   *)
(* and starts the timer.                                                    *)
LEMMA RemoveLevels ==
    ASSUME TypeOK, SerialsGiven,
           NEW i \in Slots, NEW self \in BOOLEAN, Remove(i, self),
           TypeOK', TableInv'
    PROVE  SerialsGiven' /\ CountsCover' /\ TimerStopped'
<1>1. /\ state' = [state EXCEPT ![i] = IDLE]
      /\ task_id' = [task_id EXCEPT ![i] = NoId]
      /\ RecountLevels
      /\ sched_on' = TRUE
      /\ UNCHANGED <<priority, total_task_count>>
    BY DEF Remove
<1>2. \A t \in Slots : Live(t)' => Live(t) /\ task_id'[t] = task_id[t]
    BY <1>1 DEF Live, TypeOK, IDLE
<1>3. SerialsGiven'
    BY <1>1, <1>2 DEF SerialsGiven
<1>4. \A t \in Slots : ~HasHibernateBit(state'[t])
  <2>1. ASSUME NEW z \in States PROVE ~HasHibernateBit(z)
      BY DEF States, HasHibernateBit, ACTIVE, SLEEP, IDLE, HOLD, HIBERNATE_G, HIBERNATE_L
  <2> QED
      BY <2>1 DEF TypeOK
<1>5. /\ hlc' = Cardinality({t \in Slots : priority[t] = max_level' /\ HasHibernateBit(state'[t])})
      /\ alc' = Cardinality({t \in Slots : priority[t] = max_level' /\ ~HasHibernateBit(state'[t])})
    BY <1>1 DEF RecountLevels
<1> DEFINE Shown == {t \in Slots : priority[t] = max_level'}
<1>6. /\ {t \in Slots : priority[t] = max_level' /\ HasHibernateBit(state'[t])} = {}
      /\ {t \in Slots : priority[t] = max_level' /\ ~HasHibernateBit(state'[t])} = Shown
    BY <1>4
<1>7. hlc' = 0 /\ alc' = Cardinality(Shown)
    BY <1>5, <1>6, FS_EmptySet
<1>8. TopTasks' \subseteq Shown /\ IsFiniteSet(Shown) /\ Cardinality(Shown) \in 0..MAX_TASK_COUNT
  <2>1. Shown \in SUBSET Slots
      OBVIOUS
  <2> QED
      BY <1>1, <2>1, SlotsCardinality DEF TopTasks
<1>9. Cardinality(TopTasks') <= Cardinality(Shown)
    BY <1>8, FS_Subset
<1>10. Cardinality(TopTasks') \in 1..127
  <2>1. TopTasks' \in SUBSET Slots /\ TopTasks' # {}
      BY DEF TopTasks, TableInv, MaxLevelExact
  <2> QED
      BY <2>1, SomeSlots
<1> DEFINE K == Cardinality(TopTasks')
           M == Cardinality(Shown)
<1>11. K \in 1..127 /\ M \in 0..127 /\ K <= M /\ alc' = M /\ hlc' = 0
    BY <1>7, <1>8, <1>9, <1>10, SlotsAssumption
<1> HIDE DEF K, M
<1>12. Byte(alc' + hlc') = K + (M - K) /\ M - K \in 0..126
    BY <1>11 DEF Byte
<1>13. CountsCover'
    BY <1>12 DEF CountsCover, K
<1> QED
    BY <1>1, <1>3, <1>13 DEF TimerStopped

-----------------------------------------------------------------------------
(* The theorems *)

(* kernel_init has counted BaseTask, and its serial number is the first. *)
LEMMA InitLevels == Init => LevelInv
<1> SUFFICES ASSUME Init PROVE SerialsGiven /\ CountsCover /\ TimerStopped
    BY DEF LevelInv
<1>1. 0 \in Slots /\ Slots \subseteq Int
    BY SlotNumbers, SlotsAssumption
<1>2. \A t \in Slots : Live(t) <=> t = 0
    BY <1>1 DEF Init, Live, SLEEP, IDLE
<1>3. total_task_count = 1 /\ task_id[0].serial = 1
  <2>1. NewId(0, 0) = [index |-> 0, serial |-> 1]
      BY StartsAssumption DEF NewId
  <2> QED
      BY <1>1, <2>1 DEF Init
<1>4. SerialsGiven
    BY <1>2, <1>3, StartsAssumption DEF SerialsGiven
<1>5. TopTasks = {0}
    BY <1>1, <1>2 DEF Init, TopTasks
<1>6. Cardinality(TopTasks) = 1 /\ Byte(alc + hlc) = 1
  <2>1. Cardinality(TopTasks) = 1
      BY <1>5, FS_Singleton
  <2>2. alc = 1 /\ hlc = 0
      BY DEF Init
  <2> QED
      BY <2>1, <2>2 DEF Byte
<1>7. CountsCover
    BY <1>6 DEF CountsCover
<1> QED
    BY <1>4, <1>7 DEF Init, TimerStopped

(* Every step keeps the serial numbers apart, the counters covering and the *)
(* timer on where it is needed.                                             *)
LEMMA NextLevels ==
    ASSUME IdsFit, KInv, LevelInv, [Next]_vars
    PROVE  LevelInv'
<1> SUFFICES ASSUME task_obj'[0] = BaseObj
             PROVE  SerialsGiven' /\ CountsCover' /\ TimerStopped'
    BY DEF LevelInv
<1>1. task_obj[0] = BaseObj /\ KInv'
    BY OccupantsStep, NextKInv DEF KInv
<1>2. TypeOK /\ TableInv /\ OneRunner /\ Live(next_task)
    BY <1>1 DEF KInv, KernelInv
<1>3. TypeOK' /\ TableInv'
    BY <1>1 DEF KInv, KernelInv
<1>4. SerialsGiven /\ CountsCover /\ TimerStopped
    BY <1>1 DEF LevelInv
<1> DEFINE Kept == SerialsGiven' /\ CountsCover' /\ TimerStopped'
<1>5. ASSUME UNCHANGED <<slotVars, levelVars, countVars, next_task, sched_on, first_start>>,
             systick' \in {systick, TRUE}
      PROVE  Kept
    BY <1>4, <1>5, SameTasks DEF slotVars, levelVars, countVars, TimerStopped
<1>6. ASSUME NEW c, Enter(c) PROVE Kept
    BY <1>5, <1>6 DEF Enter, switchVars
<1>7. ASSUME NEW kind, Fail(kind) PROVE Kept
    BY <1>5, <1>7 DEF Fail, switchVars
<1>8. CASE \E o \in Objs : task_start(o) \/ task_kill(o)
    BY <1>6, <1>8 DEF task_start, task_kill
<1>9. CASE task_kill_load \/ \E p \in Priorities : task_create_rejected(p)
    BY <1>6, <1>9 DEF task_kill_load, task_create_rejected
<1>10. CASE \/ \E p \in Priorities : task_create_overrun(p)
            \/ task_kill_memfault
            \/ scheduler_hangs
    BY <1>7, <1>10 DEF task_create_overrun, task_kill_memfault, scheduler_hangs
<1>11. CASE pendsv_handler \/ Tick \/ Compute \/ UNCHANGED vars
    BY <1>5, <1>11 DEF pendsv_handler, Tick, Compute, vars, switchVars
<1>12. ASSUME NEW o \in Objs, NEW p \in Priorities, svc_service_task_create(o, p)
       PROVE  Kept
    BY <1>2, <1>3, <1>4, <1>12, CreateLevels
<1>13. CASE svc_service_task_kill
    BY <1>2, <1>3, <1>4, <1>13, RemoveLevels DEF svc_service_task_kill, Killable
<1>14. CASE resolve_end
    BY <1>2, <1>3, <1>4, <1>14, RemoveLevels DEF resolve_end, Killable
<1>15. CASE \/ \E reverse \in BOOLEAN : svc_service_hibernate(reverse)
            \/ svc_service_hand_over
            \/ svc_service_start_scheduler
    BY <1>2, <1>4, <1>15, GiveUpLevels
<1>16. CASE scheduler
  <2>1. \A t \in Slots : Live(t)' <=> Live(t)
    <3>1. UNCHANGED task_obj
        BY <1>16 DEF scheduler
    <3> QED
        BY <1>2, <1>3, <3>1 DEF TableInv, Identity
  <2> QED
      BY <1>2, <1>4, <1>16, <2>1, SchedulerLevels
<1> QED
    BY <1>8, <1>9, <1>10, <1>11, <1>12, <1>13, <1>14, <1>15, <1>16 DEF Next

(* The invariant of this module, together with that of the tables. *)
LEMMA LevelsInvariant ==
    ASSUME IdsFit
    PROVE  Spec => [](KInv /\ LevelInv)
<1>1. Init => KInv /\ LevelInv
    BY InitKInv, InitLevels
<1>2. KInv /\ LevelInv /\ [Next]_vars => KInv' /\ LevelInv'
    BY NextKInv, NextLevels
<1> QED
    BY <1>1, <1>2, PTL DEF Spec

(* Under discipline a task id names one live task: its index is the slot,   *)
(* and serial numbers are not given twice while they have not wrapped.      *)
THEOREM IdsIdentifyTasks ==
    ASSUME IdsFit, Disciplined
    PROVE  Spec => []IdsIdentify
<1>1. KInv /\ LevelInv /\ DisciplinedInv => IdsIdentify
    BY DEF KInv, LevelInv, DisciplinedInv, CallsSound, KernelInv, TableInv, Identity,
           SerialsGiven, IdsIdentify
<1>2. Spec => []DisciplinedInv
    BY DisciplineSuffices
<1> QED
    BY <1>1, <1>2, LevelsInvariant, PTL

(* Under discipline the timer is stopped under a task only while that task  *)
(* is the only one of the highest level, although the counters that decide  *)
(* it wrap, count hibernating tasks as awake and count free slots.          *)
THEOREM TimerStopsOnlyAlone ==
    ASSUME IdsFit, Disciplined
    PROVE  Spec => []TimerOffAlone
<1>1. ASSUME KInv, LevelInv, DisciplinedInv, ThreadMode, first_start, ~sched_on
      PROVE  /\ priority[current_task] = max_level
             /\ \A t \in Slots \ {current_task} : Live(t) => priority[t] < max_level
  <2>1. /\ TypeOK /\ TableInv /\ OneRunner /\ Live(next_task)
        /\ CountsCover /\ TimerStopped
      BY <1>1 DEF DisciplinedInv, CallsSound, KernelInv, LevelInv
  <2>2. next_task = current_task /\ Live(current_task) /\ current_task \in Slots
      BY <1>1, <2>1, Running DEF TypeOK
  <2>3. alc = 1 /\ hlc = 0 /\ priority[current_task] = max_level
      BY <1>1, <2>1, <2>2 DEF ThreadMode, TimerStopped
  <2>4. IsFiniteSet(TopTasks) /\ Cardinality(TopTasks) \in 1..127
      BY <2>1, TopCardinality
  <2>5. PICK d \in 0..126 : 1 = Cardinality(TopTasks) + d
      BY <2>1, <2>3 DEF CountsCover, Byte
  <2>6. Cardinality(TopTasks) = 1
      BY <2>4, <2>5
  <2>7. PICK x : TopTasks = {x}
      BY <2>4, <2>6, FS_Singleton
  <2>8. TopTasks = {current_task}
      BY <2>2, <2>3, <2>7 DEF TopTasks
  <2>9. \A t \in Slots \ {current_task} : Live(t) => priority[t] # max_level
      BY <2>8 DEF TopTasks
  <2>10. \A t \in Slots : Live(t) => priority[t] <= max_level
      BY <2>1 DEF TableInv, MaxLevelExact
  <2>11. max_level \in Int /\ \A t \in Slots : priority[t] \in Int
    <3>1. priority \in [Slots -> 0..255] /\ max_level \in 0..255
        BY <2>1 DEF TypeOK
    <3> QED
        BY <3>1
  <2> QED
      BY <2>3, <2>9, <2>10, <2>11
<1>2. KInv /\ LevelInv /\ DisciplinedInv => TimerOffAlone
    BY <1>1 DEF TimerOffAlone
<1>3. Spec => []DisciplinedInv
    BY DisciplineSuffices
<1> QED
    BY <1>2, <1>3, LevelsInvariant, PTL

=============================================================================
