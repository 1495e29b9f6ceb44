--------------------------- MODULE SharingProofs ---------------------------
(***************************************************************************)
(* Proofs about Sharing: spin_lock and mutex_unlock exclude each other,    *)
(* wherever a tick falls and whoever is killed or promoted meanwhile; and  *)
(* promotions form a stack that answers every HOLD, until one is upset.    *)
(* Both for every number of tasks and mutexes.                             *)
(***************************************************************************)
EXTENDS Sharing, KernelProofs

(* No id has a low byte of zero, which mutex_lock takes for an open mutex.  *)
LockBytesFit == MaxStarts < LockByte

-----------------------------------------------------------------------------
(* The inductive invariant *)

(* What sharing needs of the kernel's types.  Promotions go around the      *)
(* tables, so the invariants of KernelProofs are not available here.        *)
KTypeOK ==
    /\ priority \in [Slots -> 0..255]
    /\ task_id \in [Slots -> Ids]
    /\ task_obj \in [Slots -> Objs \cup {BaseObj, NoObj}]
    /\ max_level \in 0..255 /\ alc \in 0..255 /\ hlc \in 0..255
    /\ current_task \in Slots
    /\ pendsv => next_task \in Slots
    /\ total_task_count \in Nat

(* The id of an application's task names its slot and has not wrapped. *)
IdsGood ==
    /\ \A t \in Slots : task_id[t].index \in {0, t}
    /\ \A t \in Slots : task_obj[t] \in Objs =>
           task_id[t].index = t /\ task_id[t].serial \in 1..MaxStarts

(* Who holds a mutex or is inside spin_lock or mutex_unlock is a task of    *)
(* the application.                                                         *)
InsideOK ==
    \A t \in Slots :
        /\ (lk[t].pc # "out" \/ held[t] # {}) => t # 0 /\ task_obj[t] \in Objs
        /\ lk[t].pc # "out" => lk[t].m \in Mutexes

(* The word of a held mutex is locked and names its holder. *)
HolderNamed ==
    \A t \in Slots : \A m \in held[t] : mutex[m].index = t /\ Locked(mutex[m])

(* A task about to store, its monitor still armed, stores into an open      *)
(* mutex.                                                                   *)
MonitorGuards ==
    monitor /\ lk[current_task].pc = "store" => ~Locked(mutex[lk[current_task].m])

SInv == KTypeOK /\ STypeOK /\ IdsGood /\ InsideOK /\ HolderNamed /\ MonitorGuards

-----------------------------------------------------------------------------
(* Mutex words *)

(* An id that has not wrapped locks a mutex. *)
LEMMA IdsLock ==
    ASSUME LockBytesFit, NEW w \in Ids, w.serial \in 1..MaxStarts
    PROVE  Locked(w)
<1>1. LockByte \in Nat /\ w.serial \in Nat /\ 0 < w.serial /\ w.serial < LockByte
    BY StartsAssumption, LockByteAssumption DEF LockBytesFit
<1>2. w.serial % LockByte = w.serial
    BY <1>1
<1> QED
    BY <1>1, <1>2 DEF Locked

(* An unlocked word is a word, with the index it had. *)
LEMMA ClearedWord ==
    ASSUME NEW w \in Ids
    PROVE  Cleared(w) \in Ids /\ Cleared(w).index = w.index
<1>1. LockByte \in Nat \ {0} /\ w.serial \in Nat /\ w.index \in 0..127
    BY LockByteAssumption DEF Ids
<1>2. w.serial % LockByte \in 0..w.serial
    BY <1>1
<1>3. w.serial - (w.serial % LockByte) \in Nat
    BY <1>1, <1>2
<1> QED
    BY <1>1, <1>3 DEF Cleared, Ids

(* No two tasks hold a mutex whose word names one holder. *)
LEMMA NamedOnce ==
    ASSUME HolderNamed
    PROVE  MutualExclusion
BY DEF HolderNamed, MutualExclusion

-----------------------------------------------------------------------------
(* What the kernel's steps do to the types and the ids *)

(* A step that gives no slot away and changes no priority. *)
LEMMA SameOwners ==
    ASSUME KTypeOK, IdsGood,
           UNCHANGED <<priority, task_id, task_obj, max_level, total_task_count>>,
           alc' \in 0..255, hlc' \in 0..255,
           current_task' \in Slots, pendsv' => next_task' \in Slots
    PROVE  KTypeOK' /\ IdsGood'
BY DEF KTypeOK, IdsGood

(* A call entered or left, a fault, a tick, and code outside the kernel. *)
LEMMA QuietOwners ==
    ASSUME KTypeOK, IdsGood,
           \/ \E c : Enter(c)
           \/ \E kind \in Faults : Fail(kind)
           \/ Tick
           \/ UNCHANGED vars
    PROVE  KTypeOK' /\ IdsGood' /\ UNCHANGED <<current_task, task_obj>>
<1>1. UNCHANGED <<priority, task_id, task_obj, max_level, total_task_count, alc, hlc,
                  current_task, next_task, pendsv>>
    BY DEF Enter, Fail, Tick, vars, slotVars, levelVars, countVars, switchVars
<1> QED
    BY <1>1, SameOwners DEF KTypeOK

(* The running task gives the processor up. *)
LEMMA GiveUpOwners ==
    ASSUME KTypeOK, IdsGood,
           \/ \E reverse \in BOOLEAN : svc_service_hibernate(reverse)
           \/ svc_service_hand_over
           \/ svc_service_start_scheduler
    PROVE  KTypeOK' /\ IdsGood' /\ UNCHANGED <<current_task, task_obj>>
<1>1. UNCHANGED <<priority, task_id, task_obj, max_level, total_task_count,
                  current_task, next_task, pendsv>>
    BY DEF svc_service_hibernate, svc_service_hand_over, svc_service_start_scheduler,
           levelVars, countVars
<1>2. alc' \in {alc, Byte(alc - 1)} /\ hlc' \in {hlc, Byte(hlc + 1)}
    BY DEF svc_service_hibernate, svc_service_hand_over, svc_service_start_scheduler, levelVars
<1>3. alc \in 0..255 /\ hlc \in 0..255
    BY DEF KTypeOK
<1>4. Byte(alc - 1) \in 0..255 /\ Byte(hlc + 1) \in 0..255
    BY <1>3, ByteWraps
<1>5. alc' \in 0..255 /\ hlc' \in 0..255
    BY <1>2, <1>3, <1>4
<1> QED
    BY <1>1, <1>5, SameOwners DEF KTypeOK

(* The context switch goes to a slot the scheduler has chosen. *)
LEMMA SwitchOwners ==
    ASSUME KTypeOK, IdsGood, pendsv_handler
    PROVE  KTypeOK' /\ IdsGood' /\ UNCHANGED task_obj
<1>1. /\ UNCHANGED <<priority, task_id, task_obj, max_level, total_task_count, alc, hlc>>
      /\ current_task' = next_task /\ next_task \in Slots /\ ~pendsv'
    BY DEF pendsv_handler, slotVars, levelVars, countVars, KTypeOK
<1> QED
    BY <1>1, SameOwners DEF KTypeOK

(* scheduler() chooses a slot of the table, whatever the levels are. *)
LEMMA ScheduleOwners ==
    ASSUME KTypeOK, IdsGood, scheduler
    PROVE  KTypeOK' /\ IdsGood' /\ UNCHANGED <<current_task, task_obj>>
<1>1. PICK woken \in SUBSET Wakeable :
        LET st == Awake(Suspended, woken)
            tops == Cardinality({t \in woken : priority[t] = max_level})
        IN  /\ hlc' = Byte(hlc - tops)
            /\ alc' = Byte(alc + tops)
            /\ \E t \in Selected(st) : SwitchTo(t, st)
    BY DEF scheduler
<1> DEFINE st == Awake(Suspended, woken)
           tops == Cardinality({t \in woken : priority[t] = max_level})
<1>2. PICK n \in Selected(st) : SwitchTo(n, st)
    BY <1>1
<1>3. n \in Slots
    BY <1>2 DEF Selected
<1>4. next_task' \in Slots
    BY <1>2, <1>3 DEF SwitchTo
<1>5. tops \in Nat
  <2>1. {t \in woken : priority[t] = max_level} \in SUBSET Slots
      BY DEF Wakeable
  <2> QED
      BY <2>1, SlotsCardinality, SlotsAssumption
<1>6. hlc' = Byte(hlc - tops) /\ alc' = Byte(alc + tops)
    BY <1>1
<1> HIDE DEF st, tops
<1>7. alc \in 0..255 /\ hlc \in 0..255
    BY DEF KTypeOK
<1>8. hlc - tops \in Int /\ alc + tops \in Int
    BY <1>5, <1>7
<1>9. alc' \in 0..255 /\ hlc' \in 0..255
    BY <1>6, <1>8, ByteWraps
<1>10. UNCHANGED <<priority, task_id, task_obj, max_level, total_task_count, current_task>>
    BY DEF scheduler, countVars
<1> QED
    BY <1>4, <1>9, <1>10, SameOwners DEF KTypeOK

(* A new task gets an id that names its slot and that has not wrapped. *)
LEMMA CreateOwners ==
    ASSUME IdsFit, KTypeOK, IdsGood,
           NEW o \in Objs, NEW p \in Priorities, svc_service_task_create(o, p)
    PROVE  /\ KTypeOK' /\ IdsGood' /\ UNCHANGED current_task
           /\ \A t \in Slots : task_obj[t] \in Objs => task_obj'[t] \in Objs
<1>1. PICK i \in Slots : FirstIdle(i) /\ Occupy(i, o, p)
    BY DEF svc_service_task_create
<1>2. /\ task_obj' = [task_obj EXCEPT ![i] = o]
      /\ task_id' = [task_id EXCEPT ![i] = NewId(i, total_task_count)]
      /\ priority' = [priority EXCEPT ![i] = p]
      /\ total_task_count' = (total_task_count + 1) % IdSpan
      /\ RaiseLevel(p)
    BY <1>1 DEF Occupy
<1>3. UNCHANGED <<current_task, next_task, pendsv>> /\ total_task_count < MaxStarts
    BY DEF svc_service_task_create
<1>4. total_task_count \in Nat /\ MaxStarts \in Nat /\ IdSpan \in Nat /\ MaxStarts < IdSpan
    BY StartsAssumption DEF KTypeOK, IdsFit
<1>5. NewId(i, total_task_count) = [index |-> i, serial |-> total_task_count + 1]
    BY <1>3, <1>4 DEF NewId
<1>6. i \in 0..127 /\ total_task_count + 1 \in 1..MaxStarts
    BY <1>3, <1>4, SlotsAssumption DEF Slots
<1>7. NewId(i, total_task_count) \in Ids
    BY <1>5, <1>6 DEF Ids
<1>8. total_task_count' \in Nat
  <2>1. total_task_count + 1 \in 0..(IdSpan - 1)
      BY <1>4, <1>6
  <2>2. (total_task_count + 1) % IdSpan = total_task_count + 1
      BY <1>4, <2>1
  <2> QED
      BY <1>2, <1>4, <2>2
<1>9. priority' \in [Slots -> 0..255]
  <2>1. p \in 0..255
      BY PrioritiesAssumption
  <2> QED
      BY <1>2, <2>1 DEF KTypeOK
<1>10. max_level' \in 0..255 /\ alc' \in 0..255 /\ hlc' \in 0..255
  <2> DEFINE levels == {max_level} \cup {priority'[t] : t \in {k \in Slots : state'[k] # IDLE}}
  <2>1. PICK m \in levels :
          LET raised == m # max_level
              a == IF raised THEN 0 ELSE alc
              h == IF raised THEN 0 ELSE hlc
              arrived == IF p = m THEN Byte(a + 1) ELSE a
          IN  max_level' = m /\ alc' = arrived /\ hlc' = h
      BY <1>2 DEF RaiseLevel
  <2>2. max_level \in 0..255 /\ alc \in 0..255 /\ hlc \in 0..255
      BY DEF KTypeOK
  <2>3. m \in 0..255
      BY <1>9, <2>2
  <2>4. Byte(0 + 1) \in 0..255 /\ Byte(alc + 1) \in 0..255
      BY <2>2, ByteWraps
  <2> HIDE DEF levels
  <2>5. /\ max_level' = m /\ hlc' \in {0, hlc}
        /\ alc' \in {0, alc, Byte(0 + 1), Byte(alc + 1)}
      BY <2>1
  <2> QED
      BY <2>2, <2>3, <2>4, <2>5
<1>11. KTypeOK'
  <2>1. task_obj' \in [Slots -> Objs \cup {BaseObj, NoObj}]
      BY <1>2 DEF KTypeOK
  <2>2. task_id' \in [Slots -> Ids]
      BY <1>2, <1>7 DEF KTypeOK
  <2> QED
      BY <1>3, <1>8, <1>9, <1>10, <2>1, <2>2 DEF KTypeOK
<1>12. /\ \A t \in Slots \ {i} : task_id'[t] = task_id[t] /\ task_obj'[t] = task_obj[t]
       /\ task_id'[i] = [index |-> i, serial |-> total_task_count + 1]
       /\ task_obj'[i] = o
    BY <1>2, <1>5 DEF KTypeOK
<1>13. IdsGood'
    BY <1>6, <1>12 DEF IdsGood
<1> QED
    BY <1>3, <1>11, <1>12, <1>13

(* A removed task takes its id and its object out of the table. *)
LEMMA RemoveOwners ==
    ASSUME KTypeOK, IdsGood, ~pendsv,
           NEW i \in Slots, NEW self \in BOOLEAN, Remove(i, self)
    PROVE  /\ KTypeOK' /\ IdsGood' /\ UNCHANGED current_task
           /\ \A t \in Slots \ {i} : task_obj'[t] = task_obj[t]
<1>1. /\ task_id' = [task_id EXCEPT ![i] = NoId]
      /\ task_obj' = [task_obj EXCEPT ![i] = NoObj]
      /\ UNCHANGED <<priority, total_task_count, current_task, pendsv>>
      /\ RecountLevels
    BY DEF Remove
<1>2. NoId \in Ids /\ NoId.index = 0
    BY DEF NoId, Ids
<1>3. max_level' \in 0..255 /\ alc' \in 0..255 /\ hlc' \in 0..255
  <2> DEFINE levels == {0} \cup {priority[t] : t \in {k \in Slots : state'[k] # IDLE}}
  <2>1. PICK m \in levels :
          /\ max_level' = m
          /\ hlc' = Cardinality({t \in Slots : priority[t] = m /\ HasHibernateBit(state'[t])})
          /\ alc' = Cardinality({t \in Slots : priority[t] = m /\ ~HasHibernateBit(state'[t])})
      BY <1>1 DEF RecountLevels
  <2>2. priority \in [Slots -> 0..255]
      BY DEF KTypeOK
  <2>3. m \in 0..255
      BY <2>2
  <2> HIDE DEF levels
  <2>4. \A T \in SUBSET Slots : Cardinality(T) \in 0..255
    <3>1. MAX_TASK_COUNT \in 2..127
        BY SlotsAssumption
    <3> QED
        BY <3>1, SlotsCardinality
  <2>5. /\ {t \in Slots : priority[t] = m /\ HasHibernateBit(state'[t])} \in SUBSET Slots
        /\ {t \in Slots : priority[t] = m /\ ~HasHibernateBit(state'[t])} \in SUBSET Slots
      OBVIOUS
  <2> QED
      BY <2>1, <2>3, <2>4, <2>5
<1>4. /\ task_obj' \in [Slots -> Objs \cup {BaseObj, NoObj}]
      /\ task_id' \in [Slots -> Ids]
    BY <1>1, <1>2 DEF KTypeOK
<1>5. KTypeOK'
    BY <1>1, <1>3, <1>4 DEF KTypeOK
<1>6. /\ \A t \in Slots \ {i} : task_id'[t] = task_id[t] /\ task_obj'[t] = task_obj[t]
      /\ task_id'[i] = NoId /\ task_obj'[i] = NoObj
    BY <1>1 DEF KTypeOK
<1>7. IdsGood'
    BY <1>2, <1>6, ObjsAssumption DEF IdsGood
<1> QED
    BY <1>1, <1>5, <1>6, <1>7

-----------------------------------------------------------------------------
(* Steps of the kernel *)

(* A kernel step outside the two functions clears the monitor. *)
LEMMA ApartKeeps ==
    ASSUME STypeOK, InsideOK, HolderNamed, Apart, disturbed' \in BOOLEAN,
           \A t \in Slots : task_obj[t] \in Objs => task_obj'[t] \in Objs
    PROVE  STypeOK' /\ InsideOK' /\ HolderNamed' /\ MonitorGuards'
<1>1. UNCHANGED <<mutex, mutex_stash, stashed, op1, maxp_level, alcp, hlcp, lk, held>>
      /\ monitor' = FALSE
    BY DEF Apart, stashVars
<1>2. STypeOK'
    BY <1>1 DEF STypeOK
<1>3. InsideOK'
    BY <1>1 DEF InsideOK
<1>4. HolderNamed' /\ MonitorGuards'
    BY <1>1 DEF HolderNamed, MonitorGuards, Locked
<1> QED
    BY <1>2, <1>3, <1>4

(* The same, of a step that upsets no promotion. *)
LEMMA ElsewhereKeeps ==
    ASSUME STypeOK, InsideOK, HolderNamed, Elsewhere,
           \A t \in Slots : task_obj[t] \in Objs => task_obj'[t] \in Objs
    PROVE  STypeOK' /\ InsideOK' /\ HolderNamed' /\ MonitorGuards'
<1>1. Apart /\ disturbed' = disturbed
    BY DEF Elsewhere
<1>2. disturbed' \in BOOLEAN
    BY <1>1, Zenon DEF STypeOK
<1> QED
    BY <1>1, <1>2, ApartKeeps

(* What a task outside of spin_lock and mutex_unlock shows. *)
LEMMA OutIsTyped ==
    /\ Out \in [pc : Pcs, m : Mutexes \cup {NoMutex}, loop : 0..(Retry - 1), index : 0..127]
    /\ Out.pc = "out"
<1>1. 0 \in 0..(Retry - 1) /\ 0 \in 0..127
    BY RetryAssumption
<1>2. "out" \in Pcs
    BY DEF Pcs
<1> QED
    BY <1>1, <1>2 DEF Out

(* The thread of slot i is gone, and with it at most the object of slot r,  *)
(* which is i or slot 0.                                                    *)
LEMMA GoneKeeps ==
    ASSUME STypeOK, InsideOK, HolderNamed,
           NEW i \in Slots, NEW r \in {0, i}, Gone(i),
           \A t \in Slots \ {r} : task_obj'[t] = task_obj[t]
    PROVE  STypeOK' /\ InsideOK' /\ HolderNamed' /\ MonitorGuards'
<1>1. /\ UNCHANGED <<mutex, mutex_stash, stashed, op1, maxp_level, alcp, hlcp>>
      /\ monitor' = FALSE
      /\ lk' = [lk EXCEPT ![i] = Out]
      /\ held' = [held EXCEPT ![i] = {}]
    BY DEF Gone, stashVars
<1>2. STypeOK'
  <2>1. disturbed' \in BOOLEAN
      BY Zenon DEF Gone, Upset, STypeOK
  <2> QED
      BY <1>1, <2>1, OutIsTyped DEF STypeOK
<1>3. /\ \A t \in Slots \ {i} : lk'[t] = lk[t] /\ held'[t] = held[t]
      /\ lk'[i] = Out /\ held'[i] = {}
    BY <1>1 DEF STypeOK
<1>4. InsideOK'
    BY <1>3, OutIsTyped DEF InsideOK
<1>5. HolderNamed' /\ MonitorGuards'
    BY <1>1, <1>3 DEF HolderNamed, MonitorGuards, Locked
<1> QED
    BY <1>2, <1>4, <1>5

(* Every step of the kernel that is not inside spin_lock or mutex_unlock. *)
LEMMA KernelSteps ==
    ASSUME IdsFit, SInv,
           \/ ShareStart
           \/ TaskService
           \/ \E reverse \in BOOLEAN : ShareHibernate(reverse)
           \/ ShareSchedule
           \/ scheduler_hangs /\ Elsewhere
           \/ ShareSwitch
           \/ ShareTick
           \/ Compute /\ UNCHANGED shareVars
    PROVE  SInv'
<1> USE DEF SInv
<1>1. CASE ShareStart
  <2>1. svc_service_start_scheduler
      BY <1>1 DEF ShareStart
  <2>2. KTypeOK' /\ IdsGood' /\ UNCHANGED <<current_task, task_obj>>
      BY <2>1, GiveUpOwners
  <2>3. /\ UNCHANGED <<mutex, mutex_stash, stashed, op1, alcp, hlcp, lk, held, disturbed>>
        /\ maxp_level' = 127 /\ monitor' = FALSE
      BY <1>1 DEF ShareStart
  <2>4. monitor' \in BOOLEAN /\ maxp_level' \in 0..255
    <3>1. monitor' \in BOOLEAN
        BY <2>3, Zenon
    <3>2. maxp_level' \in 0..255
        BY <2>3
    <3> QED
        BY <3>1, <3>2
  <2>5. STypeOK'
    <3>1. UNCHANGED <<mutex, mutex_stash, stashed, op1, alcp, hlcp, lk, held, disturbed>>
        BY <2>3
    <3> QED
        BY <2>4, <3>1 DEF STypeOK
  <2>6. InsideOK'
      BY <2>2, <2>3 DEF InsideOK
  <2>7. HolderNamed' /\ MonitorGuards'
      BY <2>3 DEF HolderNamed, MonitorGuards, Locked
  <2> QED
      BY <2>2, <2>5, <2>6, <2>7
<1>2. CASE /\ Elsewhere
           /\ \/ (\E o \in Objs : task_start(o) \/ task_kill(o))
              \/ (\E p \in Priorities : task_create_rejected(p) \/ task_create_overrun(p))
              \/ task_kill_load \/ task_kill_memfault \/ scheduler_hangs \/ Tick
  <2>1. (\E c : Enter(c)) \/ (\E kind \in Faults : Fail(kind)) \/ Tick
      BY <1>2 DEF task_start, task_kill, task_kill_load, task_kill_memfault, scheduler_hangs,
                  task_create_rejected, task_create_overrun, Faults
  <2>2. KTypeOK' /\ IdsGood' /\ UNCHANGED <<current_task, task_obj>>
      BY <2>1, QuietOwners
  <2> QED
      BY <1>2, <2>2, ElsewhereKeeps
<1>3. CASE \E o \in Objs, p \in Priorities : svc_service_task_create(o, p) /\ Apart /\ Upset
  <2>1. disturbed' \in BOOLEAN
      BY <1>3, Zenon DEF Upset, STypeOK
  <2> QED
      BY <1>3, <2>1, CreateOwners, ApartKeeps
<1>4. CASE svc_service_task_kill /\ Gone(call[current_task].id.index)
  <2> DEFINE i == call[current_task].id.index
  <2>1. ~pendsv /\ i \in Slots /\ Remove(i, FALSE) /\ Gone(i)
      BY <1>4 DEF svc_service_task_kill, Caller, ThreadMode, Killable
  <2> HIDE DEF i
  <2>2. KTypeOK' /\ IdsGood' /\ \A t \in Slots \ {i} : task_obj'[t] = task_obj[t]
      BY <2>1, RemoveOwners
  <2> QED
      BY <2>1, <2>2, GoneKeeps
<1>5. CASE resolve_end /\ Gone(current_task)
  <2> DEFINE r == task_id[current_task].index
  <2>1. ~pendsv /\ r \in Slots /\ Remove(r, TRUE)
      BY <1>5 DEF resolve_end, ThreadMode, Killable
  <2>2. current_task \in Slots /\ r \in {0, current_task}
      BY DEF KTypeOK, IdsGood
  <2> HIDE DEF r
  <2>3. KTypeOK' /\ IdsGood' /\ \A t \in Slots \ {r} : task_obj'[t] = task_obj[t]
      BY <2>1, RemoveOwners
  <2> QED
      BY <1>5, <2>2, <2>3, GoneKeeps
<1>6. CASE \E reverse \in BOOLEAN : ShareHibernate(reverse)
  <2>1. (\E reverse \in BOOLEAN : svc_service_hibernate(reverse)) /\ Elsewhere
      BY <1>6 DEF ShareHibernate
  <2> QED
      BY <2>1, GiveUpOwners, ElsewhereKeeps
<1>7. CASE ShareSchedule
    BY <1>7, ScheduleOwners, ElsewhereKeeps DEF ShareSchedule
<1>8. CASE ShareSwitch
    BY <1>8, SwitchOwners, ElsewhereKeeps DEF ShareSwitch
<1>9. CASE svc_service_hand_over /\ Elsewhere
    BY <1>9, GiveUpOwners, ElsewhereKeeps
<1>10. CASE UNCHANGED vars /\ UNCHANGED shareVars
  <2>1. KTypeOK' /\ IdsGood' /\ UNCHANGED <<current_task, task_obj>>
      BY <1>10, QuietOwners
  <2>2. UNCHANGED <<mutex, mutex_stash, stashed, op1, maxp_level, alcp, hlcp, monitor, lk, held,
                    disturbed>>
      BY <1>10 DEF shareVars, stashVars
  <2>3. STypeOK'
      BY <2>2 DEF STypeOK
  <2>4. InsideOK'
      BY <2>1, <2>2 DEF InsideOK
  <2>5. HolderNamed' /\ MonitorGuards'
      BY <2>1, <2>2 DEF HolderNamed, MonitorGuards, Locked
  <2> QED
      BY <2>1, <2>3, <2>4, <2>5
<1>11. CASE TaskService
    BY <1>2, <1>3, <1>4, <1>5, <1>9, <1>11, Zenon DEF TaskService
<1> QED
    BY <1>1, <1>2, <1>6, <1>7, <1>8, <1>10, <1>11, Zenon DEF ShareTick, Compute

-----------------------------------------------------------------------------
(* Steps inside spin_lock and mutex_unlock *)

(* The running task is inside one of them, on a mutex, with a good id. *)
LEMMA Inside ==
    ASSUME LockBytesFit, SInv, NEW pc \in Pcs \ {"out"}, At(pc)
    PROVE  /\ current_task \in Slots /\ current_task # 0
           /\ Aim \in Mutexes
           /\ task_obj[current_task] \in Objs
           /\ task_id[current_task] \in Ids
           /\ task_id[current_task].index = current_task
           /\ Locked(task_id[current_task])
           /\ mutex[Aim] \in Ids
           /\ ~pendsv
<1>1. current_task \in Slots /\ lk[current_task].pc = pc /\ pc # "out" /\ ~pendsv
    BY DEF SInv, KTypeOK, At, Pc, Task, ThreadMode
<1>2. task_obj[current_task] \in Objs /\ Aim \in Mutexes /\ current_task # 0
    BY <1>1 DEF SInv, InsideOK, Aim
<1>3. task_id[current_task] \in Ids /\ mutex[Aim] \in Ids
    BY <1>1, <1>2 DEF SInv, KTypeOK, STypeOK
<1>4. task_id[current_task].index = current_task /\ task_id[current_task].serial \in 1..MaxStarts
    BY <1>1, <1>2 DEF SInv, IdsGood
<1> QED
    BY <1>1, <1>2, <1>3, <1>4, IdsLock

(* A step that only moves the running task on. *)
LEMMA MovesOn ==
    ASSUME SInv, current_task # 0, task_obj[current_task] \in Objs,
           InThread, UNCHANGED <<mutex, held>>,
           NEW c \in [pc : Pcs, m : Mutexes \cup {NoMutex}, loop : 0..(Retry - 1), index : 0..127],
           lk' = [lk EXCEPT ![current_task] = c],
           c.pc # "out" => c.m \in Mutexes,
           monitor' \in BOOLEAN,
           monitor' /\ c.pc = "store" => ~Locked(mutex[c.m])
    PROVE  SInv'
<1> USE DEF SInv
<1>1. KTypeOK' /\ IdsGood' /\ UNCHANGED <<current_task, task_obj>>
    BY QuietOwners DEF InThread
<1>2. UNCHANGED <<mutex_stash, stashed, op1, maxp_level, alcp, hlcp, disturbed>>
    BY DEF InThread, stashVars
<1>3. current_task \in Slots
    BY DEF KTypeOK
<1>4. STypeOK'
    BY <1>2, <1>3 DEF STypeOK
<1>5. /\ \A t \in Slots \ {current_task} : lk'[t] = lk[t]
      /\ lk'[current_task] = c
    BY <1>3 DEF STypeOK
<1>6. InsideOK'
    BY <1>1, <1>3, <1>5 DEF InsideOK
<1>7. HolderNamed' /\ MonitorGuards'
    BY <1>1, <1>5 DEF HolderNamed, MonitorGuards, Locked
<1> QED
    BY <1>1, <1>4, <1>6, <1>7


(* spin_lock is entered, and everything in it that touches neither the      *)
(* mutex words nor the kernel.                                              *)
LEMMA LookSteps ==
    ASSUME LockBytesFit, SInv,
           \/ \E m \in Mutexes : spin_lock(m)
           \/ mutex_lock_load \/ spin_lock_index \/ spin_lock_compare \/ mutex_unlock_stash
    PROVE  SInv'
<1> DEFINE Places == [pc : Pcs, m : Mutexes \cup {NoMutex}, loop : 0..(Retry - 1), index : 0..127]
           here == lk[current_task]
<1>1. current_task \in Slots /\ here \in Places /\ monitor \in BOOLEAN
    BY DEF SInv, KTypeOK, STypeOK
<1>2. MonitorGuards
    BY DEF SInv
<1>3. ASSUME NEW m \in Mutexes, spin_lock(m)
      PROVE  SInv'
  <2>1. /\ InThread /\ UNCHANGED <<mutex, monitor, held>>
        /\ task_obj[current_task] \in Objs /\ current_task # 0
        /\ lk' = [lk EXCEPT ![current_task] = [Out EXCEPT !.pc = "try", !.m = m]]
      BY <1>3, UsesAssumption DEF spin_lock, At, Task
  <2>2. /\ [Out EXCEPT !.pc = "try", !.m = m] \in Places
        /\ [Out EXCEPT !.pc = "try", !.m = m].m = m
        /\ [Out EXCEPT !.pc = "try", !.m = m].pc = "try"
      BY OutIsTyped DEF Out, Pcs
  <2> QED
      BY <1>1, <2>1, <2>2, MovesOn
<1>4. ASSUME NEW pc \in Pcs \ {"out"}, NEW to \in Pcs, At(pc), Goto(to), InThread,
             UNCHANGED <<mutex, held>>, monitor' \in BOOLEAN,
             to = "store" => ~Locked(mutex[Aim])
      PROVE  SInv'
  <2>1. current_task # 0 /\ Aim \in Mutexes /\ task_obj[current_task] \in Objs
      BY <1>4, Inside
  <2>2. /\ [here EXCEPT !.pc = to] \in Places
        /\ [here EXCEPT !.pc = to].m = Aim
        /\ [here EXCEPT !.pc = to].pc = to
      BY <1>1 DEF Aim
  <2>3. lk' = [lk EXCEPT ![current_task] = [here EXCEPT !.pc = to]]
      BY <1>1, <1>4 DEF Goto
  <2> QED
      BY <1>4, <2>1, <2>2, <2>3, MovesOn
<1>5. CASE mutex_lock_load
  <2> DEFINE to == IF Locked(mutex[Aim]) THEN "index" ELSE "store"
  <2>1. /\ At("try") /\ Goto(to) /\ monitor' = TRUE /\ InThread
        /\ UNCHANGED <<mutex, held>>
      BY <1>5 DEF mutex_lock_load
  <2>2. to \in Pcs /\ "try" \in Pcs \ {"out"}
      BY DEF Pcs
  <2>3. to = "store" => ~Locked(mutex[Aim])
      OBVIOUS
  <2> HIDE DEF to
  <2> QED
      BY <2>1, <2>2, <2>3, <1>4
<1>6. CASE spin_lock_compare
  <2> DEFINE to == AfterCompare(lk[current_task].index)
  <2>1. /\ At("compare") /\ Goto(to) /\ UNCHANGED monitor /\ InThread
        /\ UNCHANGED <<mutex, held>>
      BY <1>6 DEF spin_lock_compare
  <2>2. to \in Pcs /\ "compare" \in Pcs \ {"out"} /\ to # "store"
      BY DEF Pcs, AfterCompare
  <2> HIDE DEF to
  <2> QED
      BY <1>1, <2>1, <2>2, <1>4
<1>7. CASE spin_lock_index
  <2> DEFINE c == [here EXCEPT !.pc = "compare", !.index = mutex[Aim].index]
  <2>1. /\ At("index") /\ UNCHANGED monitor /\ InThread
        /\ UNCHANGED <<mutex, held>>
        /\ lk' = [lk EXCEPT ![current_task] = c]
      BY <1>1, <1>7 DEF spin_lock_index
  <2>2. "index" \in Pcs \ {"out"}
      BY DEF Pcs
  <2>3. /\ current_task # 0 /\ Aim \in Mutexes /\ task_obj[current_task] \in Objs
        /\ mutex[Aim].index \in 0..127
      BY <2>1, <2>2, Inside DEF Ids
  <2>4. c \in Places /\ c.m = Aim /\ c.pc = "compare"
      BY <1>1, <2>3 DEF Aim, Pcs
  <2> HIDE DEF c
  <2> QED
      BY <1>1, <2>1, <2>3, <2>4, MovesOn
<1>8. CASE mutex_unlock_stash
  <2> DEFINE c == IF mutex_stash[current_task] = Aim THEN [here EXCEPT !.pc = "demote"] ELSE Out
  <2>1. /\ At("stash") /\ UNCHANGED monitor /\ InThread
        /\ UNCHANGED <<mutex, held>>
        /\ lk' = [lk EXCEPT ![current_task] = c]
      BY <1>1, <1>8 DEF mutex_unlock_stash
  <2>2. "stash" \in Pcs \ {"out"}
      BY DEF Pcs
  <2>3. current_task # 0 /\ Aim \in Mutexes /\ task_obj[current_task] \in Objs
      BY <2>1, <2>2, Inside
  <2>4. [here EXCEPT !.pc = "demote"] \in Places /\ [here EXCEPT !.pc = "demote"].m = Aim
        /\ [here EXCEPT !.pc = "demote"].pc = "demote"
      BY <1>1 DEF Aim, Pcs
  <2>5. c \in Places /\ (c.pc # "out" => c.m \in Mutexes) /\ c.pc # "store"
      BY <2>3, <2>4, OutIsTyped
  <2> HIDE DEF c
  <2> QED
      BY <1>1, <2>1, <2>3, <2>5, MovesOn
<1> QED
    BY <1>3, <1>5, <1>6, <1>7, <1>8

(* The exclusive store takes a mutex nobody holds. *)
LEMMA StoreStep ==
    ASSUME LockBytesFit, SInv, mutex_lock_store
    PROVE  SInv'
<1> DEFINE Places == [pc : Pcs, m : Mutexes \cup {NoMutex}, loop : 0..(Retry - 1), index : 0..127]
           here == lk[current_task]
<1>1. current_task \in Slots /\ here \in Places
    BY DEF SInv, KTypeOK, STypeOK
<1>2. At("store") /\ InThread /\ monitor' = FALSE
    BY DEF mutex_lock_store
<1>3. "store" \in Pcs \ {"out"} /\ "index" \in Pcs /\ "out" \in Pcs
    BY DEF Pcs
<1>4. /\ current_task # 0 /\ Aim \in Mutexes /\ task_obj[current_task] \in Objs
      /\ task_id[current_task] \in Ids
      /\ task_id[current_task].index = current_task
      /\ Locked(task_id[current_task])
    BY <1>2, <1>3, Inside
<1>5. CASE ~monitor
  <2>1. UNCHANGED <<mutex, held>> /\ Goto("index")
      BY <1>5 DEF mutex_lock_store
  <2>2. lk' = [lk EXCEPT ![current_task] = [here EXCEPT !.pc = "index"]]
      BY <1>1, <2>1 DEF Goto
  <2>3. /\ [here EXCEPT !.pc = "index"] \in Places
        /\ [here EXCEPT !.pc = "index"].m = Aim
      BY <1>1, <1>3 DEF Aim
  <2> QED
      BY <1>2, <1>4, <2>1, <2>2, <2>3, MovesOn
<1>6. CASE monitor
  <2>1. /\ mutex' = [mutex EXCEPT ![Aim] = task_id[current_task]]
        /\ held' = [held EXCEPT ![current_task] = @ \cup {Aim}]
        /\ Goto("out")
      BY <1>6 DEF mutex_lock_store
  <2>2. ~Locked(mutex[Aim])
      BY <1>2, <1>6 DEF SInv, MonitorGuards, At, Pc, Aim
  <2>3. \A t \in Slots : Aim \notin held[t]
      BY <2>2 DEF SInv, HolderNamed
  <2>4. KTypeOK' /\ IdsGood' /\ UNCHANGED <<current_task, task_obj>>
      BY <1>2, QuietOwners DEF InThread, SInv
  <2>5. UNCHANGED <<mutex_stash, stashed, op1, maxp_level, alcp, hlcp, disturbed>>
      BY <1>2 DEF InThread, stashVars
  <2>6. lk' = [lk EXCEPT ![current_task] = [here EXCEPT !.pc = "out"]]
        /\ [here EXCEPT !.pc = "out"] \in Places
        /\ [here EXCEPT !.pc = "out"].pc = "out"
      BY <1>1, <1>3, <2>1 DEF Goto
  <2>7. STypeOK'
    <3>1. mutex' \in [Mutexes -> Ids]
        BY <1>4, <2>1 DEF SInv, STypeOK
    <3>2. held' \in [Slots -> SUBSET Mutexes]
        BY <1>4, <2>1 DEF SInv, STypeOK
    <3>3. lk' \in [Slots -> Places]
        BY <2>6 DEF SInv, STypeOK
    <3> QED
        BY <1>2, <2>5, <3>1, <3>2, <3>3 DEF SInv, STypeOK
  <2>8. /\ \A t \in Slots \ {current_task} : lk'[t] = lk[t] /\ held'[t] = held[t]
        /\ lk'[current_task].pc = "out"
        /\ held'[current_task] = held[current_task] \cup {Aim}
        /\ mutex'[Aim] = task_id[current_task]
        /\ \A m \in Mutexes \ {Aim} : mutex'[m] = mutex[m]
        /\ \A t \in Slots : held[t] \subseteq Mutexes
      BY <1>1, <1>4, <2>1, <2>6 DEF SInv, STypeOK
  <2>9. InsideOK'
      BY <1>4, <2>4, <2>8 DEF SInv, InsideOK
  <2>10. HolderNamed'
    <3> SUFFICES ASSUME NEW t \in Slots, NEW m \in held'[t]
                 PROVE  mutex'[m].index = t /\ Locked(mutex'[m])
        BY DEF HolderNamed, Locked
    <3>1. CASE m = Aim
      <4>1. t = current_task
          BY <3>1, <2>3, <2>8
      <4> QED
          BY <3>1, <4>1, <1>4, <2>8
    <3>2. CASE m # Aim
      <4>1. m \in held[t] /\ m \in Mutexes
          BY <3>2, <2>8
      <4> QED
          BY <3>2, <4>1, <2>8 DEF SInv, HolderNamed
    <3> QED
        BY <3>1, <3>2
  <2>11. MonitorGuards'
      BY <1>2 DEF MonitorGuards
  <2> QED
      BY <2>4, <2>7, <2>9, <2>10, <2>11 DEF SInv
<1> QED
    BY <1>5, <1>6

(* mutex_unlock clears the word of a mutex only its caller held. *)
LEMMA UnlockStep ==
    ASSUME SInv, NEW m \in Mutexes, mutex_unlock(m)
    PROVE  SInv'
<1> DEFINE Places == [pc : Pcs, m : Mutexes \cup {NoMutex}, loop : 0..(Retry - 1), index : 0..127]
           c == [Out EXCEPT !.pc = "stash", !.m = m]
<1>1. /\ current_task \in Slots /\ current_task # 0 /\ InThread /\ UNCHANGED monitor
      /\ lk[current_task].pc = "out" /\ m \in held[current_task]
      /\ mutex' = [mutex EXCEPT ![m] = Cleared(mutex[m])]
      /\ held' = [held EXCEPT ![current_task] = @ \ {m}]
      /\ lk' = [lk EXCEPT ![current_task] = c]
    BY DEF mutex_unlock, At, Task, Pc, SInv, KTypeOK
<1>2. c \in Places /\ c.pc = "stash" /\ c.m = m
    BY OutIsTyped DEF Out, Pcs
<1> HIDE DEF c
<1>3. KTypeOK' /\ IdsGood' /\ UNCHANGED <<current_task, task_obj>>
    BY <1>1, QuietOwners DEF InThread, SInv
<1>4. UNCHANGED <<mutex_stash, stashed, op1, maxp_level, alcp, hlcp, disturbed>>
    BY <1>1 DEF InThread, stashVars
<1>5. mutex[m] \in Ids /\ mutex[m].index = current_task
    BY <1>1 DEF SInv, STypeOK, HolderNamed
<1>6. Cleared(mutex[m]) \in Ids
    BY <1>5, ClearedWord
<1>7. STypeOK'
  <2>1. mutex' \in [Mutexes -> Ids]
      BY <1>1, <1>6 DEF SInv, STypeOK
  <2>2. held' \in [Slots -> SUBSET Mutexes]
      BY <1>1 DEF SInv, STypeOK
  <2>3. lk' \in [Slots -> Places]
      BY <1>1, <1>2 DEF SInv, STypeOK
  <2> QED
      BY <1>1, <1>4, <2>1, <2>2, <2>3 DEF SInv, STypeOK
<1>8. /\ \A t \in Slots \ {current_task} : lk'[t] = lk[t] /\ held'[t] = held[t]
      /\ lk'[current_task] = c
      /\ held'[current_task] = held[current_task] \ {m}
      /\ \A a \in Mutexes \ {m} : mutex'[a] = mutex[a]
      /\ \A t \in Slots : held[t] \subseteq Mutexes
    BY <1>1 DEF SInv, STypeOK
<1>9. \A t \in Slots \ {current_task} : m \notin held[t]
    BY <1>5 DEF SInv, HolderNamed
<1>10. task_obj[current_task] \in Objs
    BY <1>1 DEF SInv, InsideOK
<1>11. InsideOK'
    BY <1>1, <1>2, <1>3, <1>8, <1>10 DEF SInv, InsideOK
<1>12. HolderNamed'
  <2> SUFFICES ASSUME NEW t \in Slots, NEW a \in held'[t]
               PROVE  mutex'[a].index = t /\ Locked(mutex'[a])
      BY DEF HolderNamed, Locked
  <2>1. a \in held[t] /\ a \in Mutexes /\ a # m
      BY <1>8, <1>9
  <2> QED
      BY <2>1, <1>8 DEF SInv, HolderNamed
<1>13. MonitorGuards'
    BY <1>2, <1>3, <1>8 DEF MonitorGuards
<1> QED
    BY <1>3, <1>7, <1>11, <1>12, <1>13 DEF SInv

(* The running task goes on or leaves, by way of an SVC that gives no slot  *)
(* away.                                                                    *)
LEMMA SvcMovesOn ==
    ASSUME SInv, KTypeOK', IdsGood', UNCHANGED <<current_task, task_obj, mutex, held>>,
           current_task # 0, task_obj[current_task] \in Objs,
           NEW c \in [pc : Pcs, m : Mutexes \cup {NoMutex}, loop : 0..(Retry - 1), index : 0..127],
           lk' = [lk EXCEPT ![current_task] = c],
           c.pc # "out" => c.m \in Mutexes,
           monitor' = FALSE, disturbed' \in BOOLEAN,
           mutex_stash' \in [Slots -> Mutexes \cup {NoMutex}],
           stashed' \in [Slots -> 0..255],
           op1' \in [Slots -> Mutexes \cup {NoMutex}],
           maxp_level' \in 0..255, alcp' \in 0..255, hlcp' \in 0..255
    PROVE  SInv'
<1> USE DEF SInv
<1>1. current_task \in Slots
    BY DEF KTypeOK
<1>2. STypeOK'
    BY <1>1 DEF STypeOK
<1>3. /\ \A t \in Slots \ {current_task} : lk'[t] = lk[t]
      /\ lk'[current_task] = c
    BY <1>1 DEF STypeOK
<1>4. InsideOK'
    BY <1>1, <1>3 DEF InsideOK
<1>5. HolderNamed' /\ MonitorGuards'
    BY DEF HolderNamed, MonitorGuards, Locked
<1> QED
    BY <1>2, <1>4, <1>5

(* The waiter gives the processor up, and the last of its tries. *)
LEMMA YieldStep ==
    ASSUME LockBytesFit, SInv, spin_lock_yield
    PROVE  SInv'
<1> DEFINE Places == [pc : Pcs, m : Mutexes \cup {NoMutex}, loop : 0..(Retry - 1), index : 0..127]
           here == lk[current_task]
           c == NextTry(here)
<1>1. current_task \in Slots /\ here \in Places
    BY DEF SInv, KTypeOK, STypeOK
<1>2. /\ At("yield") /\ svc_service_hand_over /\ monitor' = FALSE
      /\ UNCHANGED <<mutex, held, mutex_stash, stashed, op1, maxp_level, alcp, hlcp, disturbed>>
    BY DEF spin_lock_yield, stashVars
<1>5. lk' = [lk EXCEPT ![current_task] = c]
    BY <1>1 DEF spin_lock_yield
<1>3. "yield" \in Pcs \ {"out"}
    BY DEF Pcs
<1>4. current_task # 0 /\ Aim \in Mutexes /\ task_obj[current_task] \in Objs
    BY <1>2, <1>3, Inside
<1>6. c \in Places /\ (c.pc # "out" => c.m \in Mutexes)
  <2>1. CASE GivesUp(here.loop + 1)
      BY <2>1, OutIsTyped DEF NextTry
  <2>2. CASE ~GivesUp(here.loop + 1)
    <3>1. here.loop + 1 \in 0..(Retry - 1)
        BY <1>1, <2>2, RetryAssumption DEF GivesUp
    <3>2. c = [here EXCEPT !.pc = "try", !.loop = here.loop + 1]
        BY <2>2 DEF NextTry
    <3>3. here.m = Aim
        BY DEF Aim
    <3>4. "try" \in Pcs
        BY DEF Pcs
    <3> HIDE DEF here, c
    <3>5. c \in Places
        BY <1>1, <3>1, <3>2, <3>4
    <3>6. c.m = here.m
        BY <1>1, <3>2
    <3> QED
        BY <1>4, <3>3, <3>5, <3>6
  <2> QED
      BY <2>1, <2>2
<1>7. KTypeOK' /\ IdsGood' /\ UNCHANGED <<current_task, task_obj>>
    BY <1>2, GiveUpOwners DEF SInv
<1>8. /\ mutex_stash \in [Slots -> Mutexes \cup {NoMutex}] /\ stashed \in [Slots -> 0..255]
      /\ op1 \in [Slots -> Mutexes \cup {NoMutex}]
      /\ maxp_level \in 0..255 /\ alcp \in 0..255 /\ hlcp \in 0..255
    BY DEF SInv, STypeOK
<1>9. disturbed' \in BOOLEAN
    BY <1>2, Zenon DEF SInv, STypeOK
<1> HIDE DEF c
<1> QED
    BY <1>2, <1>4, <1>5, <1>6, <1>7, <1>8, <1>9, SvcMovesOn

(* A promotion, of whatever slot the mutex word names. *)
LEMMA PromoteStep ==
    ASSUME LockBytesFit, SInv, svc_service_priority_promote
    PROVE  SInv'
<1> DEFINE Places == [pc : Pcs, m : Mutexes \cup {NoMutex}, loop : 0..(Retry - 1), index : 0..127]
           here == lk[current_task]
           i == mutex[Aim].index
<1>1. current_task \in Slots /\ here \in Places
    BY DEF SInv, KTypeOK, STypeOK
<1>2. /\ At("promote") /\ Promote(Aim, i) /\ Goto("yield") /\ monitor' = FALSE
      /\ UNCHANGED <<mutex, held>>
    BY DEF svc_service_priority_promote
<1>3. "promote" \in Pcs \ {"out"} /\ "yield" \in Pcs
    BY DEF Pcs
<1>4. current_task # 0 /\ Aim \in Mutexes /\ task_obj[current_task] \in Objs /\ ~pendsv
    BY <1>2, <1>3, Inside
<1>5. /\ lk' = [lk EXCEPT ![current_task] = [here EXCEPT !.pc = "yield"]]
      /\ [here EXCEPT !.pc = "yield"] \in Places
      /\ [here EXCEPT !.pc = "yield"].m = Aim
    BY <1>1, <1>2, <1>3 DEF Goto, Aim
<1> HIDE DEF i
<1>6. /\ UNCHANGED <<task_id, task_obj, total_task_count, current_task, next_task, pendsv>>
      /\ mutex_stash' = [mutex_stash EXCEPT ![i] = Aim]
      /\ stashed' = [stashed EXCEPT ![i] = priority[i]]
      /\ priority' = [priority EXCEPT ![i] = max_level']
      /\ op1' = [op1 EXCEPT ![current_task] = Aim]
      /\ RaiseTop
    BY <1>2 DEF Promote, countVars
<1>7. /\ max_level \in 0..255 /\ alc \in 0..255 /\ hlc \in 0..255
      /\ maxp_level \in 0..255 /\ alcp \in 0..255 /\ hlcp \in 0..255
      /\ priority \in [Slots -> 0..255] /\ stashed \in [Slots -> 0..255]
      /\ mutex_stash \in [Slots -> Mutexes \cup {NoMutex}]
      /\ op1 \in [Slots -> Mutexes \cup {NoMutex}]
    BY DEF SInv, KTypeOK, STypeOK
<1>8. /\ max_level' \in 0..255 /\ alc' \in 0..255 /\ hlc' \in 0..255
      /\ maxp_level' \in 0..255 /\ alcp' \in 0..255 /\ hlcp' \in 0..255
  <2>1. Byte(127 + 1) \in 0..255 /\ Byte(max_level + 1) \in 0..255
      BY <1>7, ByteWraps
  <2>2. max_level' \in {Byte(127 + 1), Byte(max_level + 1)} /\ maxp_level' \in {max_level, maxp_level}
      BY <1>6 DEF RaiseTop
  <2>3. alc' \in {1, alc} /\ hlc' \in {0, hlc} /\ alcp' \in {alc, alcp} /\ hlcp' \in {hlc, hlcp}
      BY <1>6 DEF RaiseTop
  <2> QED
      BY <1>7, <2>1, <2>2, <2>3
<1>9. priority' \in [Slots -> 0..255] /\ stashed' \in [Slots -> 0..255]
  <2>1. max_level' \in 0..255 /\ priority \in [Slots -> 0..255] /\ stashed \in [Slots -> 0..255]
      BY <1>7, <1>8
  <2>2. priority' \in [Slots -> 0..255]
      BY <1>6, <2>1
  <2>3. i \in Slots => priority[i] \in 0..255
      BY <2>1
  <2>4. stashed' \in [Slots -> 0..255]
      BY <1>6, <2>1, <2>3
  <2> QED
      BY <2>2, <2>4
<1>10. /\ mutex_stash' \in [Slots -> Mutexes \cup {NoMutex}]
       /\ op1' \in [Slots -> Mutexes \cup {NoMutex}]
    BY <1>4, <1>6, <1>7
<1>11. KTypeOK' /\ IdsGood'
  <2>1. KTypeOK'
      BY <1>6, <1>8, <1>9 DEF SInv, KTypeOK
  <2>2. IdsGood'
      BY <1>6 DEF SInv, IdsGood
  <2> QED
      BY <2>1, <2>2
<1>12. disturbed' \in BOOLEAN
    BY Zenon DEF svc_service_priority_promote, SInv, STypeOK
<1> QED
    BY <1>2, <1>4, <1>5, <1>6, <1>8, <1>9, <1>10, <1>11, <1>12, SvcMovesOn

(* A demotion. *)
LEMMA DemoteStep ==
    ASSUME LockBytesFit, SInv, svc_service_priority_demote
    PROVE  SInv'
<1>1. /\ At("demote") /\ Demote /\ monitor' = FALSE /\ UNCHANGED <<mutex, held>>
      /\ lk' = [lk EXCEPT ![current_task] = Out]
    BY DEF svc_service_priority_demote
<1>2. "demote" \in Pcs \ {"out"}
    BY DEF Pcs
<1>3. current_task \in Slots /\ current_task # 0 /\ task_obj[current_task] \in Objs
    BY <1>1, <1>2, Inside
<1>4. /\ UNCHANGED <<task_id, task_obj, total_task_count, current_task, next_task, pendsv,
                     op1, alcp, hlcp>>
      /\ mutex_stash' = [mutex_stash EXCEPT ![current_task] = NoMutex]
      /\ stashed' = [stashed EXCEPT ![current_task] = 0]
      /\ priority' = [priority EXCEPT ![current_task] = stashed[current_task]]
      /\ LowerTop
    BY <1>1 DEF Demote, LowerTop, countVars
<1>5. /\ max_level \in 0..255 /\ alc \in 0..255 /\ hlc \in 0..255
      /\ maxp_level \in 0..255 /\ alcp \in 0..255 /\ hlcp \in 0..255
      /\ priority \in [Slots -> 0..255] /\ stashed \in [Slots -> 0..255]
      /\ mutex_stash \in [Slots -> Mutexes \cup {NoMutex}]
      /\ op1 \in [Slots -> Mutexes \cup {NoMutex}]
    BY DEF SInv, KTypeOK, STypeOK
<1>6. /\ max_level' \in 0..255 /\ alc' \in 0..255 /\ hlc' \in 0..255
      /\ maxp_level' \in 0..255
  <2>1. Byte(max_level - 1) \in 0..255
      BY <1>5, ByteWraps
  <2>2. max_level' \in {maxp_level, Byte(max_level - 1)} /\ maxp_level' \in {127, maxp_level}
      BY <1>4 DEF LowerTop
  <2>3. alc' \in {alc, alcp} /\ hlc' \in {hlc, hlcp}
      BY <1>4 DEF LowerTop
  <2> QED
      BY <1>5, <2>1, <2>2, <2>3
<1>7. /\ priority' \in [Slots -> 0..255] /\ stashed' \in [Slots -> 0..255]
      /\ mutex_stash' \in [Slots -> Mutexes \cup {NoMutex}]
    BY <1>3, <1>4, <1>5
<1>8. KTypeOK'
    BY <1>4, <1>6, <1>7 DEF SInv, KTypeOK
<1>9. IdsGood'
    BY <1>4 DEF SInv, IdsGood
<1>10. disturbed' \in BOOLEAN
    BY Zenon DEF svc_service_priority_demote, SInv, STypeOK
<1> QED
    BY <1>1, <1>3, <1>4, <1>5, <1>6, <1>7, <1>8, <1>9, <1>10, OutIsTyped, SvcMovesOn

-----------------------------------------------------------------------------
(* The theorems *)

(* The initial state satisfies the invariant. *)
LEMMA SharingStarts ==
    ASSUME IdsFit, SInit
    PROVE  SInv
<1>1. /\ mutex = [m \in Mutexes |-> NoId]
      /\ mutex_stash = [t \in Slots |-> NoMutex] /\ stashed = [t \in Slots |-> 0]
      /\ op1 = [t \in Slots |-> NoMutex]
      /\ maxp_level = 0 /\ alcp = 0 /\ hlcp = 0 /\ monitor = FALSE /\ disturbed = FALSE
      /\ lk = [t \in Slots |-> Out] /\ held = [t \in Slots |-> {}]
    BY DEF SInit
<1>2. NoId \in Ids /\ NoId.index = 0
    BY DEF NoId, Ids
<1>3. STypeOK
  <2>1. mutex \in [Mutexes -> Ids] /\ held \in [Slots -> SUBSET Mutexes]
      BY <1>1, <1>2
  <2>2. lk \in [Slots -> [pc : Pcs, m : Mutexes \cup {NoMutex}, loop : 0..(Retry - 1), index : 0..127]]
      BY <1>1, OutIsTyped
  <2>3. /\ mutex_stash \in [Slots -> Mutexes \cup {NoMutex}] /\ stashed \in [Slots -> 0..255]
        /\ op1 \in [Slots -> Mutexes \cup {NoMutex}]
        /\ maxp_level \in 0..255 /\ alcp \in 0..255 /\ hlcp \in 0..255
      BY <1>1
  <2>4. monitor \in BOOLEAN /\ disturbed \in BOOLEAN
      BY <1>1, Zenon
  <2> QED
      BY <2>1, <2>2, <2>3, <2>4 DEF STypeOK
<1>4. InsideOK /\ HolderNamed /\ MonitorGuards
    BY <1>1, OutIsTyped DEF InsideOK, HolderNamed, MonitorGuards
<1>5. NewId(0, 0) = [index |-> 0, serial |-> 1]
    BY StartsAssumption DEF NewId
<1>6. NewId(0, 0) \in Ids /\ NewId(0, 0).index = 0
    BY <1>5 DEF Ids
<1>7. /\ priority = [t \in Slots |-> 0]
      /\ task_id = [t \in Slots |-> IF t = 0 THEN NewId(0, 0) ELSE NoId]
      /\ task_obj = [t \in Slots |-> IF t = 0 THEN BaseObj ELSE NoObj]
      /\ max_level = 0 /\ alc = 1 /\ hlc = 0 /\ current_task = 0
      /\ pendsv = FALSE /\ total_task_count = 1
    BY DEF SInit, Init
<1>8. 0 \in Slots
    BY SlotsAssumption DEF Slots
<1>9. KTypeOK
    BY <1>2, <1>6, <1>7, <1>8 DEF KTypeOK
<1>10. IdsGood
    BY <1>2, <1>6, <1>7, ObjsAssumption DEF IdsGood
<1> QED
    BY <1>3, <1>4, <1>9, <1>10 DEF SInv

(* No step breaks the invariant. *)
LEMMA SharingStep ==
    ASSUME IdsFit, LockBytesFit, SInv, [SNext]_svars
    PROVE  SInv'
<1>1. CASE UNCHANGED svars
  <2>1. UNCHANGED vars /\ UNCHANGED shareVars
      BY <1>1 DEF svars
  <2>2. KTypeOK' /\ IdsGood' /\ UNCHANGED <<current_task, task_obj>>
      BY <2>1, QuietOwners DEF SInv
  <2>3. UNCHANGED <<mutex, mutex_stash, stashed, op1, maxp_level, alcp, hlcp, monitor, lk, held,
                    disturbed>>
      BY <2>1 DEF shareVars, stashVars
  <2>4. STypeOK'
      BY <2>3 DEF SInv, STypeOK
  <2>5. InsideOK'
      BY <2>2, <2>3 DEF SInv, InsideOK
  <2>6. HolderNamed' /\ MonitorGuards'
      BY <2>2, <2>3 DEF SInv, HolderNamed, MonitorGuards, Locked
  <2> QED
      BY <2>2, <2>4, <2>5, <2>6 DEF SInv
<1>2. CASE \E m \in Mutexes : mutex_unlock(m)
    BY <1>2, UnlockStep
<1>3. CASE \/ (\E m \in Mutexes : spin_lock(m))
           \/ mutex_lock_load \/ spin_lock_index \/ spin_lock_compare \/ mutex_unlock_stash
    BY <1>3, LookSteps
<1>4. CASE mutex_lock_store
    BY <1>4, StoreStep
<1>5. CASE spin_lock_yield
    BY <1>5, YieldStep
<1>6. CASE svc_service_priority_promote
    BY <1>6, PromoteStep
<1>7. CASE svc_service_priority_demote
    BY <1>7, DemoteStep
<1>8. CASE SNext /\ ~LockStep /\ ~(\E m \in Mutexes : spin_lock(m) \/ mutex_unlock(m))
    BY <1>8, KernelSteps, Zenon DEF SNext, ShareStep
<1> QED
    BY <1>1, <1>2, <1>3, <1>4, <1>5, <1>6, <1>7, <1>8 DEF LockStep

(* Every variable of spin_lock, mutex_unlock and the two services keeps its *)
(* range, though promotion takes the slot from the mutex word unchecked.    *)
THEOREM SharingTyped ==
    ASSUME IdsFit, LockBytesFit
    PROVE  SSpec => []STypeOK
<1>1. SInit => SInv
    BY SharingStarts
<1>2. SInv /\ [SNext]_svars => SInv'
    BY SharingStep
<1>3. SInv => STypeOK
    BY DEF SInv
<1> QED
    BY <1>1, <1>2, <1>3, PTL DEF SSpec

(* No two tasks hold one mutex, wherever a tick falls between the exclusive *)
(* load and the store, and whoever is killed, created or promoted           *)
(* meanwhile, as long as no serial fills the byte mutex_lock tests.         *)
THEOREM MutexesExclude ==
    ASSUME IdsFit, LockBytesFit
    PROVE  SSpec => []MutualExclusion
<1>1. SInit => SInv
    BY SharingStarts
<1>2. SInv /\ [SNext]_svars => SInv'
    BY SharingStep
<1>3. SInv => MutualExclusion
    BY NamedOnce DEF SInv
<1> QED
    BY <1>1, <1>2, <1>3, PTL DEF SSpec

-----------------------------------------------------------------------------
(* Promotions nest: the inductive invariant *)

(* The index in a mutex word is a slot of the table. *)
NamesSlots == \A m \in Mutexes : mutex[m].index \in Slots

(* The promoted tasks have a level each and leave none below max_level out. *)
LevelsStack ==
    /\ \A t \in Slots : priority[t] > 127 <=> mutex_stash[t] # NoMutex
    /\ \A t \in Slots : priority[t] > 127 => priority[t] <= max_level /\ stashed[t] <= 127
    /\ \A n \in 128..max_level : \E t \in Slots : priority[t] = n
    /\ \A t, u \in Slots : priority[t] > 127 /\ priority[t] = priority[u] => t = u
    /\ max_level > 127 => first_start /\ maxp_level < 127
    /\ first_start /\ ~(max_level > 127) => maxp_level = 127

(* The priority a task was created with, and the highest of them. *)
Own(t) == IF priority[t] > 127 THEN stashed[t] ELSE priority[t]
OwnTop == IF max_level > 127 THEN maxp_level ELSE max_level

TopKept ==
    /\ \E t \in Slots : Live(t) /\ Own(t) = OwnTop
    /\ \A t \in Slots : Live(t) => Own(t) <= OwnTop

(* A task in HOLD waits for the mutex some other task was promoted for, and *)
(* is the only one to; if it is promoted itself, and not the highest, it is *)
(* the task one level below.                                                *)
Waits ==
    \A w \in Slots : state[w] = HOLD =>
        /\ lk[w].pc = "yield" /\ op1[w] # NoMutex
        /\ \E u \in Slots \ {w} : mutex_stash[u] = op1[w]
        /\ \A v \in Slots \ {w} : state[v] = HOLD => op1[v] # op1[w]
        /\ \A u \in Slots :
             mutex_stash[u] = op1[w] /\ 127 < priority[w] /\ priority[w] < max_level
                 => priority[u] = priority[w] + 1

(* A promoted task still has its mutex to unlock, no other was promoted for *)
(* that mutex, and all but the highest hold.                                *)
Answers ==
    \A u \in Slots :
        /\ mutex_stash[u] # NoMutex =>
             /\ Unlocking(u, mutex_stash[u])
             /\ \A v \in Slots \ {u} : mutex_stash[v] # mutex_stash[u]
             /\ priority[u] < max_level => state[u] = HOLD
        /\ lk[u].pc = "demote" => mutex_stash[u] = lk[u].m

Stack == LevelsStack /\ TopKept /\ Waits /\ Answers

(* What holds until a promotion is upset: the kernel's invariant, and the   *)
(* stack of the promotions on top of it.                                    *)
NestInv ==
    /\ SInv /\ NamesSlots
    /\ KInv /\ CallsSound /\ Runs
    /\ Stack

-----------------------------------------------------------------------------
(* Who runs *)

(* The kernel is sound, BaseTask being there for good. *)
LEMMA NestSound ==
    ASSUME NestInv
    PROVE  TypeOK /\ TableInv /\ OneRunner /\ Live(next_task) /\ CallsAim
BY DEF NestInv, KInv, KernelInv, CallsSound

(* A step of the kernel keeps it sound. *)
LEMMA KernelGoesOn ==
    ASSUME IdsFit, Disciplined, NestInv, [Next]_vars
    PROVE  KInv' /\ CallsSound' /\ Runs'
<1>1. TypeOK /\ TableInv /\ OneRunner /\ Live(next_task)
    BY NestSound
<1>2. KInv' /\ CallsSound'
    BY <1>1, NextKInv, NextCallsSound DEF NestInv
<1>3. TypeOK' /\ OneRunner'
    BY <1>2 DEF KInv, KernelInv, CallsSound
<1> QED
    BY <1>2, <1>3 DEF Runs, TypeOK

(* A task that runs is ACTIVE, and so does not hold. *)
LEMMA RunnerActive ==
    ASSUME Runs, ThreadMode, first_start
    PROVE  normal_schedule /\ next_task = current_task /\ state[current_task] = ACTIVE
BY DEF Runs, OneRunner, ThreadMode

(* The running task leaves ACTIVE and hands over. *)
LEMMA HandOverRuns ==
    ASSUME Runs, ThreadMode, first_start, HandOver, UNCHANGED <<next_task, pendsv>>,
           state' \in [Slots -> States], \A t \in Slots : state'[t] # ACTIVE
    PROVE  Runs'
BY DEF Runs, OneRunner, ThreadMode, HandOver

(* hibernate and hand over. *)
LEMMA GiveUpRuns ==
    ASSUME Runs, first_start, current_task \in Slots,
           \/ \E reverse \in BOOLEAN : svc_service_hibernate(reverse)
           \/ svc_service_hand_over
    PROVE  Runs' /\ SameHolds
<1>1. /\ ThreadMode /\ HandOver /\ UNCHANGED <<next_task, pendsv>>
      /\ \E z \in {SLEEP, HIBERNATE_G, HIBERNATE_L} : state' = [state EXCEPT ![current_task] = z]
    BY DEF svc_service_hibernate, svc_service_hand_over
<1>2. /\ state[current_task] = ACTIVE /\ state \in [Slots -> States]
      /\ \A t \in Slots : state[t] = ACTIVE => t = current_task
    BY <1>1, RunnerActive DEF Runs, OneRunner
<1>3. state' \in [Slots -> States] /\ \A t \in Slots : state'[t] # ACTIVE
    BY <1>1, <1>2 DEF States, ACTIVE, SLEEP, HIBERNATE_G, HIBERNATE_L
<1>4. SameHolds
    BY <1>1, <1>2 DEF SameHolds, ACTIVE, SLEEP, IDLE, HOLD, HIBERNATE_G, HIBERNATE_L
<1> QED
    BY <1>1, <1>3, <1>4, HandOverRuns

(* A fault, a tick, the context switch and code outside the kernel. *)
LEMMA SwitchRuns ==
    ASSUME Runs,
           \/ \E kind \in Faults : Fail(kind)
           \/ Tick
           \/ pendsv_handler
           \/ UNCHANGED vars
    PROVE  Runs' /\ SameHolds /\ UNCHANGED first_start
<1>1. /\ UNCHANGED <<state, next_task, normal_schedule, first_start>>
      /\ \/ UNCHANGED <<current_task, systick, pendsv>>
         \/ UNCHANGED <<current_task, pendsv>> /\ systick'
         \/ current_task' = next_task /\ pendsv /\ ~pendsv' /\ UNCHANGED systick
    BY DEF Fail, Tick, pendsv_handler, vars, slotVars, levelVars, countVars, switchVars
<1>2. Runs'
    BY <1>1 DEF Runs, OneRunner
<1> QED
    BY <1>1, <1>2 DEF SameHolds

-----------------------------------------------------------------------------
(* Steps that promote and demote nobody *)

(* The levels stay as they are. *)
LEMMA LevelsKept ==
    ASSUME LevelsStack, TopKept, SameHolds,
           UNCHANGED <<first_start, priority, max_level, mutex_stash, stashed, maxp_level>>
    PROVE  LevelsStack' /\ TopKept'
<1>1. LevelsStack'
    BY DEF LevelsStack
<1>2. /\ \A t \in Slots : Live(t)' <=> Live(t)
      /\ \A t \in Slots : Own(t)' = Own(t)
      /\ OwnTop' = OwnTop
    BY DEF SameHolds, Live, Own, OwnTop
<1> QED
    BY <1>1, <1>2 DEF TopKept

(* Who holds stays where it was. *)
LEMMA WaitsKept ==
    ASSUME Waits, SameHolds, UNCHANGED <<priority, max_level, mutex_stash, op1>>,
           \A t \in Slots : state[t] = HOLD => lk'[t].pc = lk[t].pc
    PROVE  Waits'
BY DEF Waits, SameHolds

(* Who was promoted has its mutex still to unlock. *)
LEMMA AnswersKept ==
    ASSUME Answers, SameHolds, UNCHANGED <<priority, max_level, mutex_stash>>,
           \A u \in Slots : mutex_stash[u] # NoMutex => Unlocking(u, mutex_stash[u])',
           \A u \in Slots : lk'[u].pc = "demote" => mutex_stash[u] = lk'[u].m
    PROVE  Answers'
BY DEF Answers, SameHolds

(* A step of the kernel that changes no priority and no HOLD. *)
LEMMA KernelKeepsStack ==
    ASSUME NestInv, SameHolds,
           UNCHANGED <<priority, max_level, first_start, mutex_stash, stashed, op1,
                       maxp_level, lk, held>>
    PROVE  Stack'
<1>1. LevelsStack' /\ TopKept' /\ Waits'
    BY LevelsKept, WaitsKept DEF NestInv, Stack
<1>2. Answers'
  <2>1. \A u \in Slots : Unlocking(u, mutex_stash[u])' <=> Unlocking(u, mutex_stash[u])
      BY DEF Unlocking
  <2> QED
      BY <2>1, AnswersKept DEF NestInv, Stack, Answers
<1> QED
    BY <1>1, <1>2 DEF Stack

(* With nobody promoted there is nobody in HOLD and nothing to demote. *)
LEMMA NobodyPromoted ==
    ASSUME NestInv, ~(max_level > 127)
    PROVE  /\ \A t \in Slots : priority[t] \in 0..127
           /\ \A t \in Slots : mutex_stash[t] = NoMutex
           /\ \A t \in Slots : state[t] # HOLD
           /\ \A t \in Slots : lk[t].pc # "demote"
<1>1. max_level \in 0..255 /\ priority \in [Slots -> 0..255] /\ LevelsStack /\ Waits /\ Answers
    BY DEF NestInv, SInv, KTypeOK, Stack
<1>2. \A t \in Slots : ~(priority[t] > 127)
  <2> SUFFICES ASSUME NEW t \in Slots, priority[t] > 127
               PROVE  FALSE
      OBVIOUS
  <2>1. priority[t] <= max_level /\ priority[t] \in 0..255
      BY <1>1 DEF LevelsStack
  <2> QED
      BY <1>1, <2>1
<1>3. \A t \in Slots : priority[t] \in 0..127
    BY <1>1, <1>2
<1>4. \A t \in Slots : mutex_stash[t] = NoMutex
    BY <1>1, <1>2 DEF LevelsStack
<1>5. \A t \in Slots : state[t] # HOLD
    BY <1>1, <1>4 DEF Waits
<1>6. \A t \in Slots : lk[t].pc # "demote"
  <2> SUFFICES ASSUME NEW t \in Slots, lk[t].pc = "demote"
               PROVE  FALSE
      OBVIOUS
  <2>1. mutex_stash[t] = lk[t].m
      BY <1>1 DEF Answers
  <2>2. lk[t].m \in Mutexes
      BY DEF NestInv, SInv, InsideOK
  <2> QED
      BY <1>4, <2>1, <2>2, MutexAssumption
<1> QED
    BY <1>3, <1>4, <1>5, <1>6

(* Without promotions the stack is empty. *)
LEMMA EmptyStack ==
    ASSUME MaxLevelExact',
           \A t \in Slots : mutex_stash'[t] = NoMutex,
           \A t \in Slots : state'[t] # HOLD,
           \A t \in Slots : lk'[t].pc # "demote",
           \A t \in Slots : priority'[t] \in 0..127,
           first_start' => maxp_level' = 127
    PROVE  Stack'
<1>1. \A t \in Slots : ~(priority'[t] > 127)
    OBVIOUS
<1>2. ~(max_level' > 127) /\ \A n \in 128..max_level' : FALSE
  <2>1. max_level' \in 0..127
      BY DEF MaxLevelExact
  <2> QED
      BY <2>1
<1>3. LevelsStack'
    BY <1>1, <1>2 DEF LevelsStack
<1>4. OwnTop' = max_level' /\ \A t \in Slots : Own(t)' = priority'[t]
    BY <1>1, <1>2 DEF OwnTop, Own
<1>5. TopKept'
    BY <1>4 DEF TopKept, MaxLevelExact
<1>6. Waits'
    BY DEF Waits
<1>7. Answers'
    BY DEF Answers
<1> QED
    BY <1>3, <1>5, <1>6, <1>7 DEF Stack

(* No service of the kernel puts a task into HOLD or above level 127. *)
LEMMA NobodyHoldsNew ==
    ASSUME TypeOK, [Next]_vars,
           \A t \in Slots : state[t] # HOLD,
           \A t \in Slots : priority[t] \in 0..127
    PROVE  /\ \A t \in Slots : state'[t] # HOLD
           /\ \A t \in Slots : priority'[t] \in 0..127
<1>1. CASE UNCHANGED <<state, priority>>
    BY <1>1
<1>2. ASSUME NEW z \in States \ {HOLD}, NEW i, state' = [state EXCEPT ![i] = z], UNCHANGED priority
      PROVE  /\ \A t \in Slots : state'[t] # HOLD
             /\ \A t \in Slots : priority'[t] \in 0..127
    BY <1>2 DEF TypeOK
<1>3. {ACTIVE, SLEEP, IDLE, HIBERNATE_G, HIBERNATE_L} \subseteq States \ {HOLD}
    BY DEF States, ACTIVE, SLEEP, IDLE, HOLD, HIBERNATE_G, HIBERNATE_L
<1>4. CASE \E o \in Objs, p \in Priorities : svc_service_task_create(o, p)
  <2>1. PICK o \in Objs, p \in Priorities, i \in Slots : ~Rejected(p) /\ Occupy(i, o, p)
      BY <1>4 DEF svc_service_task_create
  <2>2. p \in 0..127
      BY <2>1, PrioritiesAssumption DEF Rejected
  <2>3. state' = [state EXCEPT ![i] = SLEEP] /\ priority' = [priority EXCEPT ![i] = p]
      BY <2>1 DEF Occupy
  <2> QED
      BY <2>2, <2>3 DEF TypeOK, SLEEP, HOLD
<1>5. CASE svc_service_task_kill \/ resolve_end
  <2>1. PICK i, self : Remove(i, self)
      BY <1>5 DEF svc_service_task_kill, resolve_end
  <2>2. state' = [state EXCEPT ![i] = IDLE] /\ UNCHANGED priority
      BY <2>1 DEF Remove
  <2> QED
      BY <1>2, <1>3, <2>2
<1>6. CASE \/ \E reverse \in BOOLEAN : svc_service_hibernate(reverse)
           \/ svc_service_hand_over
           \/ svc_service_start_scheduler
  <2>1. /\ UNCHANGED priority
        /\ \E z \in {SLEEP, HIBERNATE_G, HIBERNATE_L} : state' = [state EXCEPT ![current_task] = z]
      BY <1>6 DEF svc_service_hibernate, svc_service_hand_over, svc_service_start_scheduler
  <2> QED
      BY <1>2, <1>3, <2>1
<1>7. CASE scheduler
  <2>1. PICK woken \in SUBSET Wakeable :
          \E t \in Selected(Awake(Suspended, woken)) : SwitchTo(t, Awake(Suspended, woken))
      BY <1>7 DEF scheduler
  <2> DEFINE st == Awake(Suspended, woken)
  <2>2. \A t \in Slots : st[t] # HOLD
      BY DEF Awake, Suspended, TypeOK, SLEEP, HOLD
  <2>3. \E t : state' = [st EXCEPT ![t] = ACTIVE]
      BY <2>1 DEF SwitchTo
  <2>4. \A t \in Slots : state'[t] # HOLD
      BY <2>2, <2>3 DEF Awake, ACTIVE, HOLD
  <2> QED
      BY <1>7, <2>4 DEF scheduler
<1>8. CASE \/ \E o \in Objs : task_start(o) \/ task_kill(o)
           \/ task_kill_load
           \/ \E p \in Priorities : task_create_rejected(p) \/ task_create_overrun(p)
           \/ task_kill_memfault
           \/ scheduler_hangs
           \/ pendsv_handler
           \/ Tick
           \/ Compute
           \/ UNCHANGED vars
  <2>1. UNCHANGED <<state, priority>>
      BY <1>8 DEF task_start, task_kill, task_kill_load, task_create_rejected,
                  task_create_overrun, task_kill_memfault, scheduler_hangs, Enter, Fail,
                  pendsv_handler, Tick, Compute, vars, slotVars
  <2> QED
      BY <1>1, <2>1
<1> QED
    BY <1>4, <1>5, <1>6, <1>7, <1>8, Zenon DEF Next

(* With nobody promoted, every step of the kernel leaves it so. *)
LEMMA RestKept ==
    ASSUME IdsFit, Disciplined, NestInv, SInv', ~(max_level > 127), [Next]_vars,
           UNCHANGED <<mutex, mutex_stash>>,
           \A t \in Slots : lk'[t].pc = "demote" => lk[t].pc = "demote",
           first_start' => maxp_level' = 127
    PROVE  NestInv'
<1>1. /\ \A t \in Slots : priority[t] \in 0..127
      /\ \A t \in Slots : mutex_stash[t] = NoMutex
      /\ \A t \in Slots : state[t] # HOLD
      /\ \A t \in Slots : lk[t].pc # "demote"
    BY NobodyPromoted
<1>2. KInv' /\ CallsSound' /\ Runs'
    BY KernelGoesOn
<1>3. /\ \A t \in Slots : state'[t] # HOLD
      /\ \A t \in Slots : priority'[t] \in 0..127
    BY <1>1, NestSound, NobodyHoldsNew
<1>4. MaxLevelExact'
    BY <1>2 DEF KInv, KernelInv, CallsSound, TableInv
<1>5. Stack'
    BY <1>1, <1>3, <1>4, EmptyStack
<1> QED
    BY <1>2, <1>5 DEF NestInv, NamesSlots

(* With somebody promoted, a step that neither creates nor removes a task. *)
LEMMA PromotedKept ==
    ASSUME IdsFit, Disciplined, NestInv, SInv', max_level > 127,
           UNCHANGED <<mutex, mutex_stash, stashed, op1, maxp_level, lk, held>>,
           \/ \E c : Enter(c)
           \/ \E kind \in Faults : Fail(kind)
           \/ \E reverse \in BOOLEAN : svc_service_hibernate(reverse)
           \/ svc_service_hand_over
           \/ scheduler
           \/ pendsv_handler
           \/ Tick
           \/ UNCHANGED vars,
           [Next]_vars
    PROVE  NestInv'
<1>1. Runs /\ first_start /\ current_task \in Slots
    BY DEF NestInv, Stack, LevelsStack, SInv, KTypeOK
<1>2. KInv' /\ CallsSound' /\ Runs'
    BY KernelGoesOn
<1>3. SameHolds /\ UNCHANGED <<priority, max_level, first_start>>
  <2>1. CASE \E c : Enter(c)
      BY <2>1 DEF Enter, SameHolds, slotVars, levelVars
  <2>2. CASE (\E reverse \in BOOLEAN : svc_service_hibernate(reverse)) \/ svc_service_hand_over
    <3>1. SameHolds
        BY <1>1, <2>2, GiveUpRuns
    <3> QED
        BY <2>2, <3>1 DEF svc_service_hibernate, svc_service_hand_over, levelVars
  <2>3. CASE scheduler
      BY <1>1, <2>3, SchedulerRuns DEF scheduler
  <2>4. CASE (\E kind \in Faults : Fail(kind)) \/ Tick \/ pendsv_handler \/ UNCHANGED vars
    <3>1. SameHolds /\ UNCHANGED first_start
        BY <1>1, <2>4, SwitchRuns
    <3> QED
        BY <2>4, <3>1 DEF Fail, Tick, pendsv_handler, vars, slotVars, levelVars
  <2> QED
      BY <2>1, <2>2, <2>3, <2>4
<1>4. Stack'
    BY <1>3, KernelKeepsStack
<1> QED
    BY <1>2, <1>4 DEF NestInv, NamesSlots

(* A step outside of spin_lock and mutex_unlock that creates and removes no *)
(* task.                                                                    *)
LEMMA ElsewhereNests ==
    ASSUME IdsFit, Disciplined, NestInv, SInv', [Next]_vars, UNCHANGED first_start,
           UNCHANGED <<mutex, mutex_stash, stashed, op1, maxp_level, lk, held>>,
           \/ \E c : Enter(c)
           \/ \E kind \in Faults : Fail(kind)
           \/ \E reverse \in BOOLEAN : svc_service_hibernate(reverse)
           \/ svc_service_hand_over
           \/ scheduler
           \/ pendsv_handler
           \/ Tick
           \/ UNCHANGED vars
    PROVE  NestInv'
<1>1. CASE max_level > 127
    BY <1>1, PromotedKept
<1>2. CASE ~(max_level > 127)
  <2>1. first_start' => maxp_level' = 127
      BY <1>2 DEF NestInv, Stack, LevelsStack
  <2> QED
      BY <1>2, <2>1, RestKept
<1> QED
    BY <1>1, <1>2

(* The steps outside of spin_lock and mutex_unlock. *)
LEMMA KernelNests ==
    ASSUME IdsFit, Disciplined, NestInv, SInv', ~disturbed',
           \/ ShareStart
           \/ TaskService
           \/ \E reverse \in BOOLEAN : ShareHibernate(reverse)
           \/ ShareSchedule
           \/ scheduler_hangs /\ Elsewhere
           \/ ShareSwitch
           \/ ShareTick
           \/ Compute /\ UNCHANGED shareVars
           \/ UNCHANGED svars
    PROVE  NestInv'
<1>1. ASSUME Elsewhere, [Next]_vars, UNCHANGED first_start,
             \/ \E c : Enter(c)
             \/ \E kind \in Faults : Fail(kind)
             \/ \E reverse \in BOOLEAN : svc_service_hibernate(reverse)
             \/ svc_service_hand_over
             \/ scheduler
             \/ pendsv_handler
             \/ Tick
      PROVE  NestInv'
  <2>1. UNCHANGED <<mutex, mutex_stash, stashed, op1, maxp_level, lk, held>>
      BY <1>1 DEF Elsewhere, Apart, stashVars
  <2> QED
      BY <1>1, <2>1, ElsewhereNests
<1>2. CASE ShareStart
  <2>1. /\ svc_service_start_scheduler /\ ~first_start /\ maxp_level' = 127
        /\ UNCHANGED <<mutex, mutex_stash, lk>>
      BY <1>2 DEF ShareStart, svc_service_start_scheduler
  <2>2. ~(max_level > 127)
      BY <2>1 DEF NestInv, Stack, LevelsStack
  <2>3. Next
      BY <2>1 DEF Next
  <2> QED
      BY <2>1, <2>2, <2>3, RestKept
<1>3. ASSUME Next, Upset, UNCHANGED <<mutex, mutex_stash, maxp_level, first_start>>,
             \A t \in Slots : lk'[t].pc = "demote" => lk[t].pc = "demote"
      PROVE  NestInv'
  <2>1. ~(max_level > 127)
      BY <1>3, Zenon DEF Upset
  <2>2. first_start' => maxp_level' = 127
      BY <1>3, <2>1 DEF NestInv, Stack, LevelsStack
  <2> QED
      BY <1>3, <2>1, <2>2, RestKept
<1>4. CASE \E o \in Objs, p \in Priorities : svc_service_task_create(o, p) /\ Apart /\ Upset
  <2>1. Next /\ Upset /\ UNCHANGED <<mutex, mutex_stash, maxp_level, first_start, lk>>
      BY <1>4 DEF Next, Apart, stashVars, svc_service_task_create
  <2> QED
      BY <2>1, <1>3
<1>5. CASE \/ svc_service_task_kill /\ Gone(call[current_task].id.index)
           \/ resolve_end /\ Gone(current_task)
  <2>1. PICK i, self, k : Remove(k, self) /\ Gone(i)
      BY <1>5 DEF svc_service_task_kill, resolve_end
  <2>2. Next
      BY <1>5 DEF Next
  <2>3. UNCHANGED <<mutex, mutex_stash, maxp_level, first_start>> /\ Upset
      BY <2>1 DEF Gone, Remove, stashVars
  <2>4. lk' = [lk EXCEPT ![i] = Out]
      BY <2>1 DEF Gone
  <2>5. \A t \in Slots : lk'[t].pc = "demote" => lk[t].pc = "demote"
      BY <2>4, OutIsTyped DEF NestInv, SInv, STypeOK
  <2> QED
      BY <1>3, <2>2, <2>3, <2>5
<1>6. CASE /\ Elsewhere
           /\ \/ \E o \in Objs : task_start(o) \/ task_kill(o)
              \/ \E p \in Priorities : task_create_rejected(p) \/ task_create_overrun(p)
              \/ task_kill_load \/ task_kill_memfault \/ scheduler_hangs
  <2>1. (\E c : Enter(c)) \/ (\E kind \in Faults : Fail(kind))
      BY <1>6 DEF task_start, task_kill, task_kill_load, task_kill_memfault, scheduler_hangs,
                  task_create_rejected, task_create_overrun, Faults
  <2>2. Next
      BY <1>6 DEF Next
  <2>3. UNCHANGED first_start
      BY <2>1 DEF Enter, Fail
  <2> QED
      BY <1>1, <1>6, <2>1, <2>2, <2>3
<1>7. CASE Elsewhere /\ svc_service_hand_over
  <2>1. Next /\ UNCHANGED first_start
      BY <1>7 DEF Next, svc_service_hand_over
  <2> QED
      BY <1>1, <1>7, <2>1
<1>8. CASE TaskService
    BY <1>4, <1>5, <1>6, <1>7, <1>8, Zenon DEF TaskService
<1>9. CASE \E reverse \in BOOLEAN : ShareHibernate(reverse)
  <2>1. PICK reverse \in BOOLEAN : Elsewhere /\ svc_service_hibernate(reverse)
      BY <1>9 DEF ShareHibernate
  <2>2. Next /\ UNCHANGED first_start
      BY <2>1 DEF Next, svc_service_hibernate
  <2> QED
      BY <1>1, <2>1, <2>2
<1>10. CASE Elsewhere /\ (scheduler \/ pendsv_handler \/ Tick)
  <2>1. Next /\ UNCHANGED first_start
      BY <1>10 DEF Next, scheduler, pendsv_handler, Tick
  <2> QED
      BY <1>1, <1>10, <2>1
<1>11. CASE UNCHANGED vars /\ UNCHANGED shareVars
  <2>1. /\ UNCHANGED <<mutex, mutex_stash, stashed, op1, maxp_level, lk, held>>
        /\ UNCHANGED first_start
      BY <1>11 DEF shareVars, stashVars, vars
  <2> QED
      BY <1>11, <2>1, ElsewhereNests
<1>12. CASE scheduler_hangs /\ Elsewhere
    BY <1>6, <1>12, Zenon
<1>13. CASE ShareSchedule \/ ShareSwitch \/ ShareTick
    BY <1>10, <1>13, Zenon DEF ShareSchedule, ShareSwitch, ShareTick
<1>14. CASE (Compute /\ UNCHANGED shareVars) \/ UNCHANGED svars
    BY <1>11, <1>14 DEF Compute, svars
<1> QED
    BY <1>2, <1>8, <1>9, <1>12, <1>13, <1>14, Zenon

-----------------------------------------------------------------------------
(* Steps of spin_lock and mutex_unlock in thread mode *)

(* The running task is past the start, and where its lk says. *)
LEMMA AtRuns ==
    ASSUME NestInv, NEW pc, At(pc)
    PROVE  /\ current_task \in Slots /\ first_start /\ ThreadMode
           /\ lk[current_task].pc = pc
           /\ state[current_task] = ACTIVE /\ state[current_task] # HOLD
           /\ lk \in [Slots -> [pc : Pcs, m : Mutexes \cup {NoMutex},
                                loop : 0..(Retry - 1), index : 0..127]]
<1>1. ThreadMode /\ first_start /\ lk[current_task].pc = pc
    BY DEF At, Task, Pc
<1>2. Runs /\ current_task \in Slots
    BY DEF NestInv, SInv, KTypeOK
<1>3. state[current_task] = ACTIVE
    BY <1>1, <1>2, RunnerActive
<1>4. lk \in [Slots -> [pc : Pcs, m : Mutexes \cup {NoMutex}, loop : 0..(Retry - 1), index : 0..127]]
    BY DEF NestInv, SInv, STypeOK
<1> QED
    BY <1>1, <1>2, <1>3, <1>4 DEF ACTIVE, HOLD

(* A step of the running task between two of its SVCs: nobody is promoted,  *)
(* and what it was promoted for it still has to unlock.                     *)
LEMMA ThreadKeepsStack ==
    ASSUME IdsFit, Disciplined, NestInv, NEW pc, At(pc), InThread,
           NEW c, lk' = [lk EXCEPT ![current_task] = c],
           \A t \in Slots \ {current_task} : held'[t] = held[t],
           mutex_stash[current_task] # NoMutex =>
               \/ mutex_stash[current_task] \in held'[current_task]
               \/ c.pc \in {"stash", "demote"} /\ c.m = mutex_stash[current_task],
           c.pc = "demote" => mutex_stash[current_task] = c.m
    PROVE  KInv' /\ CallsSound' /\ Runs' /\ Stack'
<1>1. /\ current_task \in Slots /\ first_start /\ state[current_task] # HOLD
      /\ \A t \in Slots \ {current_task} : lk'[t] = lk[t]
      /\ lk'[current_task] = c
    BY AtRuns
<1>2. /\ UNCHANGED <<priority, max_level, first_start, mutex_stash, stashed, op1, maxp_level>>
      /\ UNCHANGED vars
    BY DEF InThread, vars, slotVars, levelVars, stashVars
<1>3. KInv' /\ CallsSound' /\ Runs' /\ SameHolds
    BY <1>2, KernelGoesOn, SwitchRuns DEF NestInv
<1>4. LevelsStack' /\ TopKept'
    BY <1>2, <1>3, LevelsKept DEF NestInv, Stack
<1>5. Waits'
    BY <1>1, <1>2, <1>3, WaitsKept DEF NestInv, Stack
<1>6. ASSUME NEW u \in Slots, mutex_stash[u] # NoMutex
      PROVE  Unlocking(u, mutex_stash[u])'
  <2>1. mutex_stash'[u] = mutex_stash[u]
      BY <1>2
  <2>2. Unlocking(u, mutex_stash[u])
      BY <1>6 DEF NestInv, Stack, Answers
  <2> QED
      BY <1>1, <1>6, <2>1, <2>2 DEF Unlocking
<1>7. \A u \in Slots : lk'[u].pc = "demote" => mutex_stash[u] = lk'[u].m
    BY <1>1 DEF NestInv, Stack, Answers
<1>8. Answers'
    BY <1>2, <1>3, <1>6, <1>7, AnswersKept DEF NestInv, Stack
<1> QED
    BY <1>1, <1>2, <1>3, <1>4, <1>5, <1>8 DEF Stack

(* Such a step, of a task whose mutexes and words stay as they are. *)
LEMMA LookKeepsNest ==
    ASSUME IdsFit, Disciplined, NestInv, SInv',
           NEW pc, At(pc), pc \notin {"stash", "demote"}, InThread,
           UNCHANGED <<mutex, held>>,
           NEW c, lk' = [lk EXCEPT ![current_task] = c], c.pc # "demote"
    PROVE  NestInv'
<1>1. current_task \in Slots /\ lk[current_task].pc = pc
    BY AtRuns
<1>2. mutex_stash[current_task] # NoMutex => mutex_stash[current_task] \in held'[current_task]
  <2>1. mutex_stash[current_task] # NoMutex => Unlocking(current_task, mutex_stash[current_task])
      BY <1>1 DEF NestInv, Stack, Answers
  <2> QED
      BY <1>1, <2>1 DEF Unlocking
<1>3. KInv' /\ CallsSound' /\ Runs' /\ Stack'
    BY <1>2, ThreadKeepsStack
<1> QED
    BY <1>3 DEF NestInv, NamesSlots

(* spin_lock is entered, and its loads, comparisons and failed stores. *)
LEMMA LookNests ==
    ASSUME IdsFit, Disciplined, NestInv, SInv',
           \/ \E m \in Mutexes : spin_lock(m)
           \/ mutex_lock_load \/ spin_lock_index \/ spin_lock_compare
           \/ mutex_lock_store /\ ~monitor
    PROVE  NestInv'
<1> DEFINE here == lk[current_task]
<1>1. ASSUME NEW m \in Mutexes, spin_lock(m)
      PROVE  NestInv'
  <2> DEFINE c == [Out EXCEPT !.pc = "try", !.m = m]
  <2>1. /\ At("out") /\ InThread /\ UNCHANGED <<mutex, held>>
        /\ lk' = [lk EXCEPT ![current_task] = c]
      BY <1>1, Zenon DEF spin_lock
  <2>2. c.pc = "try"
      BY DEF Out
  <2> HIDE DEF c
  <2> QED
      BY <2>1, <2>2, LookKeepsNest
<1>2. ASSUME NEW pc, NEW to, At(pc), Goto(to), pc \notin {"stash", "demote"}, to # "demote",
             InThread, UNCHANGED <<mutex, held>>
      PROVE  NestInv'
  <2> DEFINE c == [here EXCEPT !.pc = to]
  <2>1. lk' = [lk EXCEPT ![current_task] = c] /\ c.pc = to
      BY <1>2, AtRuns DEF Goto
  <2> HIDE DEF c
  <2> QED
      BY <1>2, <2>1, LookKeepsNest
<1>3. CASE mutex_lock_load
  <2> DEFINE to == IF Locked(mutex[Aim]) THEN "index" ELSE "store"
  <2>1. At("try") /\ Goto(to) /\ InThread /\ UNCHANGED <<mutex, held>> /\ to # "demote"
      BY <1>3 DEF mutex_lock_load
  <2> HIDE DEF to
  <2> QED
      BY <1>2, <2>1
<1>4. CASE spin_lock_compare
  <2> DEFINE to == AfterCompare(lk[current_task].index)
  <2>1. At("compare") /\ Goto(to) /\ InThread /\ UNCHANGED <<mutex, held>>
      BY <1>4 DEF spin_lock_compare
  <2>2. to # "demote"
      BY DEF AfterCompare
  <2> HIDE DEF to
  <2> QED
      BY <1>2, <2>1, <2>2
<1>5. CASE mutex_lock_store /\ ~monitor
  <2>1. At("store") /\ Goto("index") /\ InThread /\ UNCHANGED <<mutex, held>>
      BY <1>5 DEF mutex_lock_store
  <2> QED
      BY <1>2, <2>1
<1>6. CASE spin_lock_index
  <2> DEFINE c == [here EXCEPT !.pc = "compare", !.index = mutex[Aim].index]
  <2>1. At("index") /\ InThread /\ UNCHANGED <<mutex, held>>
      BY <1>6 DEF spin_lock_index
  <2>2. lk' = [lk EXCEPT ![current_task] = c]
      BY <1>6, <2>1, AtRuns DEF spin_lock_index
  <2>3. c.pc = "compare"
      BY <2>1, AtRuns
  <2> HIDE DEF c
  <2> QED
      BY <2>1, <2>2, <2>3, LookKeepsNest
<1> QED
    BY <1>1, <1>3, <1>4, <1>5, <1>6

(* The stash is compared with the mutex unlocked. *)
LEMMA StashNests ==
    ASSUME IdsFit, Disciplined, NestInv, SInv', mutex_unlock_stash
    PROVE  NestInv'
<1> DEFINE here == lk[current_task]
           c == IF mutex_stash[current_task] = Aim THEN [here EXCEPT !.pc = "demote"] ELSE Out
<1>1. /\ At("stash") /\ InThread /\ UNCHANGED <<mutex, held>>
      /\ lk' = [lk EXCEPT ![current_task] = c]
    BY AtRuns DEF mutex_unlock_stash
<1>2. /\ current_task \in Slots /\ here.pc = "stash" /\ here.m = Aim
      /\ \A t \in Slots \ {current_task} : lk'[t] = lk[t]
      /\ lk'[current_task] = c
    BY <1>1, AtRuns DEF Aim
<1>3. /\ mutex_stash[current_task] = Aim => c.pc = "demote" /\ c.m = Aim
      /\ mutex_stash[current_task] # Aim => c.pc = "out"
    BY <1>1, AtRuns, OutIsTyped DEF Aim
<1>4. mutex_stash[current_task] # NoMutex => Unlocking(current_task, mutex_stash[current_task])
    BY <1>2 DEF NestInv, Stack, Answers
<1> HIDE DEF c, here
<1>5. mutex_stash[current_task] # NoMutex =>
        \/ mutex_stash[current_task] \in held'[current_task]
        \/ c.pc \in {"stash", "demote"} /\ c.m = mutex_stash[current_task]
    BY <1>1, <1>2, <1>3, <1>4 DEF Unlocking, here
<1>6. KInv' /\ CallsSound' /\ Runs' /\ Stack'
    BY <1>1, <1>3, <1>5, ThreadKeepsStack
<1> QED
    BY <1>1, <1>6 DEF NestInv, NamesSlots

(* The exclusive store succeeds. *)
LEMMA StoreNests ==
    ASSUME IdsFit, LockBytesFit, Disciplined, NestInv, SInv', mutex_lock_store, monitor
    PROVE  NestInv'
<1> DEFINE here == lk[current_task]
           c == [here EXCEPT !.pc = "out"]
<1>1. At("store") /\ InThread
    BY DEF mutex_lock_store
<1>2. current_task \in Slots /\ here.pc = "store"
    BY <1>1, AtRuns
<1>3. /\ mutex' = [mutex EXCEPT ![Aim] = task_id[current_task]]
      /\ held' = [held EXCEPT ![current_task] = @ \cup {Aim}]
      /\ lk' = [lk EXCEPT ![current_task] = c]
    BY <1>1, <1>2, AtRuns DEF mutex_lock_store, Goto
<1>4. "store" \in Pcs \ {"out"}
    BY DEF Pcs
<1>5. Aim \in Mutexes /\ task_id[current_task].index = current_task /\ task_obj[current_task] \in Objs
    BY <1>1, <1>4, Inside DEF NestInv
<1>6. /\ c.pc = "out"
      /\ \A t \in Slots \ {current_task} : lk'[t] = lk[t] /\ held'[t] = held[t]
      /\ lk'[current_task] = c
      /\ held'[current_task] = held[current_task] \cup {Aim}
      /\ mutex'[Aim] = task_id[current_task]
      /\ \A m \in Mutexes \ {Aim} : mutex'[m] = mutex[m]
    BY <1>1, <1>2, <1>3, <1>5, AtRuns DEF NestInv, SInv, STypeOK
<1>7. mutex_stash[current_task] # NoMutex => mutex_stash[current_task] \in held'[current_task]
  <2>1. mutex_stash[current_task] # NoMutex => Unlocking(current_task, mutex_stash[current_task])
      BY <1>2 DEF NestInv, Stack, Answers
  <2> QED
      BY <1>2, <1>6, <2>1 DEF Unlocking
<1> HIDE DEF c, here
<1>8. KInv' /\ CallsSound' /\ Runs' /\ Stack'
    BY <1>1, <1>3, <1>6, <1>7, ThreadKeepsStack
<1>9. NamesSlots'
    BY <1>2, <1>5, <1>6 DEF NestInv, NamesSlots
<1> QED
    BY <1>8, <1>9 DEF NestInv

(* The word is cleared. *)
LEMMA UnlockNests ==
    ASSUME IdsFit, Disciplined, NestInv, SInv', NEW m \in Mutexes, mutex_unlock(m)
    PROVE  NestInv'
<1> DEFINE c == [Out EXCEPT !.pc = "stash", !.m = m]
<1>1. /\ At("out") /\ InThread /\ m \in held[current_task]
      /\ mutex' = [mutex EXCEPT ![m] = Cleared(mutex[m])]
      /\ held' = [held EXCEPT ![current_task] = @ \ {m}]
      /\ lk' = [lk EXCEPT ![current_task] = c]
    BY DEF mutex_unlock
<1>2. /\ current_task \in Slots /\ lk[current_task].pc = "out"
      /\ c.pc = "stash" /\ c.m = m
      /\ \A t \in Slots \ {current_task} : lk'[t] = lk[t] /\ held'[t] = held[t]
      /\ lk'[current_task] = c
      /\ held'[current_task] = held[current_task] \ {m}
      /\ mutex'[m] = Cleared(mutex[m])
      /\ \A a \in Mutexes \ {m} : mutex'[a] = mutex[a]
    BY <1>1, AtRuns DEF NestInv, SInv, STypeOK, Out
<1> HIDE DEF c
<1>3. mutex_stash[current_task] # NoMutex =>
        \/ mutex_stash[current_task] \in held'[current_task]
        \/ c.pc \in {"stash", "demote"} /\ c.m = mutex_stash[current_task]
  <2>1. mutex_stash[current_task] # NoMutex => Unlocking(current_task, mutex_stash[current_task])
      BY <1>2 DEF NestInv, Stack, Answers
  <2> QED
      BY <1>2, <2>1 DEF Unlocking
<1>4. KInv' /\ CallsSound' /\ Runs' /\ Stack'
    BY <1>1, <1>2, <1>3, ThreadKeepsStack
<1>5. NamesSlots'
  <2>1. mutex[m] \in Ids
      BY DEF NestInv, SInv, STypeOK
  <2>2. mutex'[m].index = mutex[m].index
      BY <1>2, <2>1, ClearedWord
  <2> QED
      BY <1>2, <2>2 DEF NestInv, NamesSlots
<1> QED
    BY <1>4, <1>5 DEF NestInv

-----------------------------------------------------------------------------
(* Promotion and demotion *)

(* There is one level above 127 for every promoted task, so that max_level  *)
(* stays within its byte.                                                   *)
LEMMA PromotedCount ==
    ASSUME LevelsStack, KTypeOK
    PROVE  /\ IsFiniteSet({t \in Slots : priority[t] > 127})
           /\ Cardinality({t \in Slots : priority[t] > 127}) =
                IF max_level > 127 THEN max_level - 127 ELSE 0
           /\ max_level <= 254
<1> DEFINE P == {t \in Slots : priority[t] > 127}
           f == [t \in P |-> priority[t]]
<1>1. max_level \in 0..255 /\ priority \in [Slots -> 0..255]
    BY DEF KTypeOK
<1>2. f \in [P -> 128..max_level]
  <2> SUFFICES ASSUME NEW t \in P
               PROVE  priority[t] \in 128..max_level
      OBVIOUS
  <2>1. priority[t] \in 0..255 /\ priority[t] > 127 /\ priority[t] <= max_level
      BY <1>1 DEF LevelsStack
  <2> QED
      BY <1>1, <2>1
<1>3. \A t, u \in P : f[t] = f[u] => t = u
    BY DEF LevelsStack
<1>4. \A n \in 128..max_level : \E t \in P : f[t] = n
  <2> SUFFICES ASSUME NEW n \in 128..max_level
               PROVE  \E t \in P : f[t] = n
      OBVIOUS
  <2>1. PICK t \in Slots : priority[t] = n
      BY DEF LevelsStack
  <2>2. n > 127
      BY <1>1
  <2> QED
      BY <2>1, <2>2
<1>5. P \in SUBSET Slots
    OBVIOUS
<1> HIDE DEF P, f
<1> DEFINE T == 128..max_level
<1>6. IsFiniteSet(P) /\ Cardinality(P) \in 0..MAX_TASK_COUNT
    BY <1>5, SlotsCardinality
<1>7. f \in Injection(P, T) /\ f \in Surjection(P, T)
  <2>1. f \in [P -> T] /\ \A n \in T : \E t \in P : f[t] = n
      BY <1>2, <1>4
  <2> HIDE DEF T
  <2> QED
      BY <1>3, <2>1 DEF Injection, Surjection, IsInjective
<1>8. /\ IsFiniteSet(128..max_level)
      /\ Cardinality(128..max_level) = IF 128 > max_level THEN 0 ELSE max_level - 128 + 1
    BY <1>1, FS_Interval
<1>9. Cardinality(P) = Cardinality(128..max_level)
    BY <1>7, <1>8, FS_Injection
<1>10. Cardinality(P) = IF max_level > 127 THEN max_level - 127 ELSE 0
    BY <1>1, <1>8, <1>9
<1>11. max_level <= 254
    BY <1>1, <1>6, <1>10, SlotsAssumption
<1> QED
    BY <1>6, <1>10, <1>11 DEF P

(* The waiter gives the processor up. *)
LEMMA YieldNests ==
    ASSUME IdsFit, Disciplined, NestInv, SInv', spin_lock_yield
    PROVE  NestInv'
<1> DEFINE here == lk[current_task]
           c == NextTry(here)
<1>1. /\ At("yield") /\ svc_service_hand_over
      /\ UNCHANGED <<mutex, held, mutex_stash, stashed, op1, maxp_level>>
      /\ lk' = [lk EXCEPT ![current_task] = c]
    BY AtRuns DEF spin_lock_yield, stashVars
<1>2. /\ current_task \in Slots /\ here.pc = "yield" /\ first_start /\ state[current_task] # HOLD
      /\ \A t \in Slots \ {current_task} : lk'[t] = lk[t]
      /\ lk'[current_task] = c
    BY <1>1, AtRuns
<1>3. c.pc \in {"out", "try"}
    BY <1>1, AtRuns, OutIsTyped DEF NextTry
<1>4. UNCHANGED <<priority, max_level, current_task, first_start>>
    BY <1>1 DEF svc_service_hand_over, levelVars
<1>5. SameHolds
    BY <1>1, <1>2, GiveUpRuns DEF NestInv
<1>6. KInv' /\ CallsSound' /\ Runs'
    BY <1>1, KernelGoesOn DEF Next
<1> HIDE DEF c
<1>7. LevelsStack' /\ TopKept'
    BY <1>1, <1>2, <1>4, <1>5, LevelsKept DEF NestInv, Stack
<1>8. Waits'
    BY <1>1, <1>2, <1>4, <1>5, WaitsKept DEF NestInv, Stack
<1>9. Answers'
  <2>1. ASSUME NEW u \in Slots, mutex_stash[u] # NoMutex
        PROVE  Unlocking(u, mutex_stash[u])'
    <3>1. Unlocking(u, mutex_stash[u]) /\ mutex_stash'[u] = mutex_stash[u] /\ held'[u] = held[u]
        BY <1>1, <2>1 DEF NestInv, Stack, Answers
    <3> QED
        BY <1>2, <3>1 DEF Unlocking
  <2>2. \A u \in Slots : lk'[u].pc = "demote" => mutex_stash[u] = lk'[u].m
      BY <1>2, <1>3 DEF NestInv, Stack, Answers
  <2> QED
      BY <1>1, <1>4, <1>5, <2>1, <2>2, AnswersKept DEF NestInv, Stack
<1> QED
    BY <1>1, <1>6, <1>7, <1>8, <1>9 DEF NestInv, NamesSlots, Stack

(* The two services go around the tables of the kernel, which stay sound    *)
(* all the same: the promoted tasks are live, so the highest level of the   *)
(* stack is the highest priority the task table shows.                      *)
LEMMA AroundKernel ==
    ASSUME NestInv, SInv', Stack', Runs', HandOver, priority'[0] = priority[0],
           UNCHANGED <<jmp_list, task_id, task_obj, level_stash, lstash_ptr, countVars,
                       current_task, next_task, sched_on, pendsv, first_start, call, fault>>,
           \A t \in Slots : state'[t] = IDLE <=> state[t] = IDLE
    PROVE  KInv' /\ CallsSound'
<1>1. TypeOK /\ TableInv /\ Live(next_task) /\ CallsAim /\ KInv /\ CallsSound
    BY NestSound DEF NestInv
<1>2. UNCHANGED <<task_count, total_task_count>>
    BY DEF countVars
<1>3. TypeOK'
  <2>1. /\ state' \in [Slots -> States] /\ priority' \in [Slots -> 0..255]
        /\ max_level' \in 0..255 /\ alc' \in 0..255 /\ hlc' \in 0..255
        /\ normal_schedule' = FALSE /\ systick' = TRUE
      BY DEF Runs, SInv, KTypeOK, HandOver
  <2> QED
      BY <1>1, <1>2, <2>1 DEF TypeOK
<1>4. (\A t \in Slots : Live(t)' <=> Live(t)) /\ LiveSlots' = LiveSlots
  <2>1. \A t \in Slots : Live(t)' <=> Live(t)
      BY DEF Live
  <2> QED
      BY <2>1 DEF LiveSlots, Slots
<1>5. Identity'
    BY <1>1, <1>4 DEF TableInv, Identity
<1>6. RingIntact' /\ Linked' /\ TaskCountExact'
    BY <1>1, <1>2, <1>4 DEF TableInv, RingIntact, Linked, TaskCountExact, IsRing, HasLower, Slots
<1>7. /\ max_level' \in 0..255 /\ \A t \in Slots : priority'[t] \in 0..255
      /\ LevelsStack' /\ TopKept' /\ Answers'
    BY DEF SInv, KTypeOK, Stack
<1>8. ASSUME NEW t \in Slots, priority'[t] > 127
      PROVE  Live(t)' /\ priority'[t] <= max_level' /\ max_level' > 127
  <2>1. mutex_stash'[t] # NoMutex /\ priority'[t] <= max_level'
      BY <1>7, <1>8 DEF LevelsStack
  <2>2. Unlocking(t, mutex_stash[t])'
      BY <1>7, <2>1 DEF Answers
  <2>3. lk'[t].pc # "out" \/ held'[t] # {}
      BY <2>2 DEF Unlocking
  <2>4. task_obj'[t] \in Objs
      BY <2>3 DEF SInv, InsideOK
  <2>5. Live(t)'
      BY <1>5, <2>4, ObjsAssumption DEF Identity
  <2>6. priority'[t] \in 0..255 /\ max_level' \in 0..255
      BY <1>7
  <2>7. max_level' > 127
    <3>1. \A p, m \in 0..255 : p > 127 /\ p <= m => m > 127
        OBVIOUS
    <3> QED
        BY <1>8, <2>1, <2>6, <3>1, Zenon
  <2> QED
      BY <2>1, <2>5, <2>7
<1>9. MaxLevelExact'
  <2>1. CASE max_level' > 127
    <3>1. max_level' \in 128..max_level'
        BY <1>7, <2>1
    <3>2. PICK t \in Slots : priority'[t] = max_level'
        BY <1>7, <3>1 DEF LevelsStack
    <3>3. Live(t)'
        BY <1>8, <2>1, <3>2
    <3>4. ASSUME NEW u \in Slots
          PROVE  priority'[u] <= max_level'
        BY <1>7, <1>8, <2>1
    <3> QED
        BY <3>2, <3>3, <3>4 DEF MaxLevelExact
  <2>2. CASE ~(max_level' > 127)
    <3>1. OwnTop' = max_level' /\ \A t \in Slots : Own(t)' = priority'[t]
        BY <1>8, <2>2 DEF OwnTop, Own
    <3> QED
        BY <1>7, <3>1 DEF TopKept, MaxLevelExact
  <2> QED
      BY <2>1, <2>2
<1>10. TableInv'
    BY <1>5, <1>6, <1>9 DEF TableInv
<1>11. OneRunner' /\ Live(next_task)' /\ CallsAim'
  <2>1. next_task' = next_task /\ next_task \in Slots
      BY <1>1 DEF TypeOK
  <2>2. Live(next_task)'
      BY <1>1, <2>1 DEF Live
  <2> QED
      BY <1>1, <2>2 DEF Runs, CallsAim
<1>12. CallsSound'
    BY <1>1 DEF CallsSound, ObjectOnce
<1>13. KInv'
    BY <1>3, <1>10, <1>11 DEF KInv, KernelInv, Occupants, TypeOK
<1> QED
    BY <1>12, <1>13

(* In a justified promotion, who promotes has the highest level, whom it promotes is not promoted     *)
(* yet, and nobody was promoted for the same mutex.                         *)
LEMMA PromoteAim ==
    ASSUME NestInv, At("promote"), Justified(mutex[Aim].index)
    PROVE  /\ Aim \in Mutexes
           /\ mutex[Aim].index \in Slots \ {current_task}
           /\ Aim \in held[mutex[Aim].index]
           /\ priority[current_task] = max_level
           /\ priority[mutex[Aim].index] < max_level
           /\ priority[mutex[Aim].index] <= 127 /\ max_level # 127
           /\ mutex_stash[mutex[Aim].index] = NoMutex
           /\ \A u \in Slots : mutex_stash[u] # Aim
<1> DEFINE i == mutex[Aim].index
<1>1. "promote" \in Pcs \ {"out"}
    BY DEF Pcs
<1>2. current_task \in Slots /\ lk[current_task].pc = "promote" /\ lk[current_task].m = Aim
    BY AtRuns DEF Aim
<1>3. Aim \in Mutexes
    BY <1>2 DEF NestInv, SInv, InsideOK
<1>4. i \in Slots /\ Aim \in held[i] /\ AfterCompare(i) = "promote" /\ max_level # 127
    BY <1>3 DEF Justified, NestInv, NamesSlots
<1> HIDE DEF i
<1>5. priority[i] \in 0..255 /\ max_level \in 0..255
    BY <1>4 DEF NestInv, SInv, KTypeOK
<1>6. priority[i] < max_level /\ priority[current_task] = max_level /\ ~(priority[i] > 127)
    BY <1>4 DEF AfterCompare
<1>7. i # current_task /\ mutex_stash[i] = NoMutex
    BY <1>4, <1>5, <1>6 DEF NestInv, Stack, LevelsStack
<1>8. ASSUME NEW u \in Slots, mutex_stash[u] = Aim
      PROVE  FALSE
  <2>1. Aim # NoMutex
      BY <1>3, MutexAssumption
  <2>2. Unlocking(u, Aim) /\ (priority[u] < max_level => state[u] = HOLD)
      BY <1>8, <2>1 DEF NestInv, Stack, Answers
  <2>3. Aim \notin held[u]
    <3>1. Aim \in held[u] => u = i
        BY <1>3 DEF NestInv, SInv, HolderNamed, i
    <3> QED
        BY <1>7, <1>8, <2>1, <3>1
  <2>4. lk[u].pc \in {"stash", "demote"}
      BY <2>2, <2>3 DEF Unlocking
  <2>5. state[u] # HOLD
      BY <2>4 DEF NestInv, Stack, Waits
  <2>6. priority[u] \in 0..255 /\ priority[u] > 127 /\ priority[u] <= max_level
      BY <1>8, <2>1 DEF NestInv, SInv, KTypeOK, Stack, LevelsStack
  <2>7. priority[u] = priority[current_task]
    <3>1. ~(priority[u] < max_level)
        BY <2>2, <2>5, Zenon
    <3>2. priority[u] = max_level
        BY <1>5, <2>6, <3>1
    <3> QED
        BY <1>6, <3>2
  <2>8. u = current_task
      BY <1>2, <2>6, <2>7 DEF NestInv, Stack, LevelsStack
  <2> QED
      BY <1>2, <2>4, <2>8
<1>9. priority[i] <= 127
    BY <1>5, <1>6
<1> QED
    BY <1>3, <1>4, <1>6, <1>7, <1>8, <1>9 DEF i

(* The level a promotion opens, and the one it puts aside. *)
LEMMA LevelRaised ==
    ASSUME NestInv, first_start, max_level # 127, RaiseTop
    PROVE  /\ max_level' \in 128..255 /\ max_level' > max_level
           /\ \A n \in 128..max_level' : n = max_level' \/ n \in 128..max_level
           /\ max_level > 127 => max_level' = max_level + 1
           /\ max_level < 127 => max_level' = 128
           /\ maxp_level' < 127
           /\ maxp_level' = IF max_level > 127 THEN maxp_level ELSE max_level
<1>1. /\ max_level \in 0..254 /\ maxp_level \in 0..255 /\ max_level # 127
      /\ max_level > 127 => maxp_level < 127
      /\ max_level < 127 => maxp_level = 127
  <2>1. max_level \in 0..255 /\ maxp_level \in 0..255 /\ max_level <= 254
      BY PromotedCount DEF NestInv, Stack, SInv, KTypeOK, STypeOK
  <2>2. max_level < 127 => ~(max_level > 127)
      BY <2>1
  <2> QED
      BY <2>1, <2>2 DEF NestInv, Stack, LevelsStack
<1>2. Byte(127 + 1) = 128 /\ Byte(max_level + 1) = max_level + 1
    BY <1>1, ByteWraps
<1>3. CASE max_level > 127
  <2>1. max_level' = max_level + 1 /\ maxp_level' = maxp_level
      BY <1>1, <1>2, <1>3 DEF RaiseTop
  <2> QED
      BY <1>1, <1>3, <2>1
<1>4. CASE max_level < 127
  <2>1. max_level' = 128 /\ maxp_level' = max_level
      BY <1>1, <1>2, <1>4 DEF RaiseTop
  <2> QED
      BY <1>1, <1>4, <2>1
<1> QED
    BY <1>1, <1>3, <1>4

(* What a promotion does, with the promoted slot and the mutex named. *)
Promotes(i, a) ==
    /\ current_task \in Slots /\ i \in Slots \ {current_task}
    /\ a \in Mutexes /\ a # NoMutex /\ a \in held[i]
    /\ i # 0 /\ max_level # 127
    /\ priority[current_task] = max_level /\ priority[i] <= 127
    /\ priority[i] < max_level
    /\ mutex_stash[i] = NoMutex /\ \A u \in Slots : mutex_stash[u] # a
    /\ first_start /\ state[current_task] = ACTIVE /\ lk[current_task].pc = "promote"
    /\ priority'[i] = max_level' /\ \A t \in Slots \ {i} : priority'[t] = priority[t]
    /\ mutex_stash'[i] = a /\ \A t \in Slots \ {i} : mutex_stash'[t] = mutex_stash[t]
    /\ stashed'[i] = priority[i] /\ \A t \in Slots \ {i} : stashed'[t] = stashed[t]
    /\ state'[current_task] = HOLD
    /\ \A t \in Slots \ {current_task} : state'[t] = state[t]
    /\ op1'[current_task] = a /\ \A t \in Slots \ {current_task} : op1'[t] = op1[t]
    /\ lk'[current_task].pc = "yield" /\ \A t \in Slots \ {current_task} : lk'[t] = lk[t]
    /\ UNCHANGED <<current_task, held, mutex, first_start>>
    /\ RaiseTop

(* The service does this to the owner of the mutex it aims at. *)
LEMMA PromoteEffect ==
    ASSUME NestInv, svc_service_priority_promote, Justified(mutex[Aim].index)
    PROVE  Promotes(mutex[Aim].index, Aim) /\ Runs'
<1> DEFINE i == mutex[Aim].index
           here == lk[current_task]
<1>1. At("promote") /\ Promote(Aim, i) /\ Goto("yield") /\ UNCHANGED <<mutex, held>>
    BY DEF svc_service_priority_promote
<1>2. /\ Aim \in Mutexes /\ i \in Slots \ {current_task} /\ Aim \in held[i]
      /\ priority[current_task] = max_level /\ priority[i] < max_level /\ priority[i] <= 127
      /\ max_level # 127
      /\ mutex_stash[i] = NoMutex /\ \A u \in Slots : mutex_stash[u] # Aim
    BY <1>1, PromoteAim
<1>3. /\ current_task \in Slots /\ first_start /\ ThreadMode
      /\ state[current_task] = ACTIVE /\ lk[current_task].pc = "promote"
    BY <1>1, AtRuns
<1>4. /\ lk'[current_task].pc = "yield"
      /\ \A t \in Slots \ {current_task} : lk'[t] = lk[t]
    BY <1>1, AtRuns DEF Goto
<1> HIDE DEF i
<1>5. /\ RaiseTop /\ HandOver
      /\ mutex_stash' = [mutex_stash EXCEPT ![i] = Aim]
      /\ stashed' = [stashed EXCEPT ![i] = priority[i]]
      /\ priority' = [priority EXCEPT ![i] = max_level']
      /\ state' = [state EXCEPT ![current_task] = HOLD]
      /\ op1' = [op1 EXCEPT ![current_task] = Aim]
      /\ UNCHANGED <<current_task, next_task, pendsv, first_start>>
    BY <1>1 DEF Promote
<1>6. /\ priority \in [Slots -> 0..255] /\ stashed \in [Slots -> 0..255]
      /\ mutex_stash \in [Slots -> Mutexes \cup {NoMutex}]
      /\ op1 \in [Slots -> Mutexes \cup {NoMutex}]
      /\ state \in [Slots -> States]
      /\ \A t \in Slots : state[t] = ACTIVE => t = current_task
    BY <1>3, RunnerActive DEF NestInv, SInv, KTypeOK, STypeOK, Runs, OneRunner
<1>7. Runs'
  <2>1. state' \in [Slots -> States] /\ \A t \in Slots : state'[t] # ACTIVE
      BY <1>3, <1>5, <1>6 DEF States, HOLD, ACTIVE
  <2> QED
      BY <1>3, <1>5, <2>1, HandOverRuns DEF NestInv
<1>8. /\ priority'[i] = max_level' /\ \A t \in Slots \ {i} : priority'[t] = priority[t]
      /\ mutex_stash'[i] = Aim /\ \A t \in Slots \ {i} : mutex_stash'[t] = mutex_stash[t]
      /\ stashed'[i] = priority[i] /\ \A t \in Slots \ {i} : stashed'[t] = stashed[t]
    BY <1>2, <1>5, <1>6
<1>9. /\ state'[current_task] = HOLD /\ \A t \in Slots \ {current_task} : state'[t] = state[t]
      /\ op1'[current_task] = Aim /\ \A t \in Slots \ {current_task} : op1'[t] = op1[t]
    BY <1>3, <1>5, <1>6
<1>10. Aim # NoMutex
    BY <1>2, MutexAssumption
<1>11. i # 0
    BY <1>2 DEF NestInv, SInv, InsideOK
<1>12. Promotes(i, Aim)
    BY <1>1, <1>2, <1>3, <1>4, <1>5, <1>8, <1>9, <1>10, <1>11 DEF Promotes
<1> QED
    BY <1>7, <1>12 DEF i

(* A promotion puts one level on top. *)
LEMMA PromoteStacks ==
    ASSUME NestInv, NEW i, NEW a, Promotes(i, a)
    PROVE  LevelsStack' /\ TopKept'
<1> DEFINE N == max_level'
<1>1. /\ i \in Slots /\ priority[i] <= 127 /\ first_start'
      /\ priority'[i] = N /\ \A t \in Slots \ {i} : priority'[t] = priority[t]
      /\ mutex_stash'[i] = a /\ a # NoMutex
      /\ \A t \in Slots \ {i} : mutex_stash'[t] = mutex_stash[t]
      /\ stashed'[i] = priority[i] /\ \A t \in Slots \ {i} : stashed'[t] = stashed[t]
    BY DEF Promotes
<1>2. /\ N \in 128..255 /\ N > max_level
      /\ \A n \in 128..N : n = N \/ n \in 128..max_level
      /\ maxp_level' < 127
      /\ maxp_level' = IF max_level > 127 THEN maxp_level ELSE max_level
    BY LevelRaised DEF Promotes
<1>3. /\ max_level \in 0..255 /\ \A t \in Slots : priority[t] \in 0..255
      /\ LevelsStack /\ TopKept
    BY DEF NestInv, SInv, KTypeOK, Stack
<1> HIDE DEF N
<1>4. \A t \in Slots : priority[t] > 127 => t # i /\ priority[t] < N
  <2> SUFFICES ASSUME NEW t \in Slots, priority[t] > 127
               PROVE  t # i /\ priority[t] < N
      OBVIOUS
  <2>1. priority[t] <= max_level /\ priority[t] \in 0..255 /\ priority[i] \in 0..255
      BY <1>1, <1>3 DEF LevelsStack
  <2> QED
      BY <1>1, <1>2, <1>3, <2>1
<1>5. \A t \in Slots : priority'[t] > 127 <=> t = i \/ priority[t] > 127
    BY <1>1, <1>2
<1>6. LevelsStack'
  <2>1. \A t \in Slots : priority'[t] > 127 <=> mutex_stash'[t] # NoMutex
      BY <1>1, <1>5, <1>3 DEF LevelsStack
  <2>2. \A t \in Slots : priority'[t] > 127 => priority'[t] <= N /\ stashed'[t] <= 127
    <3> SUFFICES ASSUME NEW t \in Slots, priority'[t] > 127
                 PROVE  priority'[t] <= N /\ stashed'[t] <= 127
        OBVIOUS
    <3>1. CASE t = i
        BY <1>1, <1>2, <3>1
    <3>2. CASE t # i
      <4>1. priority[t] > 127 /\ priority'[t] = priority[t] /\ stashed'[t] = stashed[t]
          BY <1>1, <1>5, <3>2
      <4>2. priority[t] < N /\ stashed[t] <= 127 /\ priority[t] \in 0..255
          BY <1>3, <1>4, <4>1 DEF LevelsStack
      <4>3. priority[t] <= N
          BY <1>2, <4>2
      <4> QED
          BY <4>1, <4>2, <4>3
    <3> QED
        BY <3>1, <3>2
  <2>3. ASSUME NEW n \in 128..N
        PROVE  \E t \in Slots : priority'[t] = n
    <3>1. CASE n = N
        BY <1>1, <3>1
    <3>2. CASE n \in 128..max_level
      <4>1. PICK t \in Slots : priority[t] = n
          BY <1>3, <3>2 DEF LevelsStack
      <4>2. n > 127 /\ priority[i] \in 0..255
          BY <1>1, <1>3, <3>2
      <4>3. t # i
          BY <1>1, <4>1, <4>2
      <4> QED
          BY <1>1, <4>1, <4>3
    <3> QED
        BY <1>2, <3>1, <3>2
  <2>4. ASSUME NEW t \in Slots, NEW u \in Slots, priority'[t] > 127, priority'[t] = priority'[u]
        PROVE  t = u
    <3>1. priority'[u] > 127
        BY <2>4
    <3>2. CASE t # i /\ u # i
        BY <1>1, <1>3, <1>5, <2>4, <3>2 DEF LevelsStack
    <3>3. CASE t = i /\ u # i
      <4>1. priority[u] > 127 /\ priority[u] = N
          BY <1>1, <1>5, <2>4, <3>1, <3>3
      <4> QED
          BY <1>2, <1>4, <4>1
    <3>4. CASE t # i /\ u = i
      <4>1. priority[t] > 127 /\ priority[t] = N
          BY <1>1, <1>5, <2>4, <3>4
      <4> QED
          BY <1>2, <1>4, <4>1
    <3> QED
        BY <3>2, <3>3, <3>4
  <2> QED
      BY <1>1, <1>2, <2>1, <2>2, <2>3, <2>4 DEF LevelsStack, N
<1>7. TopKept'
  <2>1. \A t \in Slots : Own(t)' = Own(t)
    <3> SUFFICES ASSUME NEW t \in Slots PROVE Own(t)' = Own(t)
        OBVIOUS
    <3>1. CASE t = i
      <4>1. Own(t) = priority[t]
          BY <1>1, <1>3, <3>1 DEF Own
      <4>2. Own(t)' = priority[t]
          BY <1>1, <1>5, <3>1 DEF Own
      <4> QED
          BY <4>1, <4>2
    <3>2. CASE t # i
        BY <1>1, <1>5, <3>2 DEF Own
    <3> QED
        BY <3>1, <3>2
  <2>2. OwnTop' = OwnTop
    <3>1. max_level' > 127
        BY <1>2 DEF N
    <3> QED
        BY <1>2, <3>1 DEF OwnTop
  <2>3. \A t \in Slots : Live(t)' <=> Live(t)
      BY DEF Promotes, Live, HOLD, ACTIVE, IDLE
  <2> QED
      BY <1>3, <2>1, <2>2, <2>3 DEF TopKept
<1> QED
    BY <1>6, <1>7

(* The caller of a promotion waits for the task it has promoted. *)
LEMMA PromoteWaits ==
    ASSUME NestInv, NEW i, NEW a, Promotes(i, a)
    PROVE  Waits' /\ Answers'
<1> DEFINE c == current_task
           N == max_level'
           L == max_level
<1>1. /\ c \in Slots /\ i \in Slots \ {c} /\ a # NoMutex /\ a \in held[i]
      /\ priority[c] = L /\ priority[i] <= 127 /\ L # 127
      /\ mutex_stash[i] = NoMutex /\ \A u \in Slots : mutex_stash[u] # a
      /\ state[c] = ACTIVE
      /\ priority'[i] = N /\ \A t \in Slots \ {i} : priority'[t] = priority[t]
      /\ mutex_stash'[i] = a /\ \A t \in Slots \ {i} : mutex_stash'[t] = mutex_stash[t]
      /\ state'[c] = HOLD /\ \A t \in Slots \ {c} : state'[t] = state[t]
      /\ op1'[c] = a /\ \A t \in Slots \ {c} : op1'[t] = op1[t]
      /\ lk'[c].pc = "yield" /\ \A t \in Slots \ {c} : lk'[t] = lk[t]
      /\ held' = held
    BY DEF Promotes
<1>2. /\ N \in 128..255 /\ N > L
      /\ L > 127 => N = L + 1
      /\ L < 127 => N = 128
    BY LevelRaised DEF Promotes
<1>3. /\ L \in 0..255 /\ \A t \in Slots : priority[t] \in 0..255
      /\ LevelsStack /\ Waits /\ Answers /\ InsideOK
    BY DEF NestInv, SInv, KTypeOK, Stack
<1>4. lk[c].pc = "promote" /\ state[c] # HOLD
    BY DEF Promotes, ACTIVE, HOLD
<1>5. ASSUME NEW w \in Slots, state[w] = HOLD
      PROVE  /\ w # c /\ state'[w] = HOLD /\ op1'[w] = op1[w] /\ op1[w] # a /\ op1[w] # NoMutex
             /\ lk'[w].pc = "yield"
             /\ \E u \in Slots \ {w} : u # i /\ mutex_stash[u] = op1[w]
  <2>1. w # c
      BY <1>4, <1>5
  <2>2. /\ op1[w] # NoMutex /\ lk[w].pc = "yield"
        /\ \E u \in Slots \ {w} : mutex_stash[u] = op1[w]
      BY <1>3, <1>5 DEF Waits
  <2> QED
      BY <1>1, <1>5, <2>1, <2>2
<1> HIDE DEF c, N, L
<1>6. ASSUME NEW w \in Slots, state'[w] = HOLD
      PROVE  w = c \/ state[w] = HOLD
    BY <1>1, <1>6
<1>7. ASSUME NEW w \in Slots, NEW u \in Slots, state'[w] = HOLD,
             mutex_stash'[u] = op1'[w], 127 < priority'[w], priority'[w] < N
      PROVE  priority'[u] = priority'[w] + 1
  <2>1. w # i
      BY <1>1, <1>2, <1>7
  <2>2. priority'[w] = priority[w] /\ 127 < priority[w]
      BY <1>1, <1>7, <2>1
  <2>3. CASE w = c
    <3>1. u = i
        BY <1>1, <1>7, <2>3
    <3>2. L > 127 /\ priority[w] = L
        BY <1>1, <1>3, <2>2, <2>3
    <3> QED
        BY <1>1, <1>2, <2>2, <3>1, <3>2
  <2>4. CASE w # c
    <3>1. state[w] = HOLD
        BY <1>6, <1>7, <2>4
    <3>2. op1'[w] = op1[w] /\ op1[w] # a
        BY <1>5, <3>1
    <3>3. u # i /\ mutex_stash[u] = op1[w] /\ priority'[u] = priority[u]
        BY <1>1, <1>7, <3>2
    <3>4. priority[w] # L
      <4> SUFFICES ASSUME priority[w] = L PROVE FALSE
          OBVIOUS
      <4>1. priority[w] > 127 /\ priority[w] = priority[c]
          BY <1>1, <2>2
      <4> QED
          BY <1>1, <1>3, <2>4, <4>1 DEF LevelsStack
    <3>5. priority[w] <= L
        BY <1>3, <2>2 DEF LevelsStack, L
    <3>6. priority[w] < L
        BY <1>3, <3>4, <3>5
    <3>7. priority[u] = priority[w] + 1
        BY <1>3, <2>2, <3>1, <3>3, <3>6 DEF Waits, L
    <3> QED
        BY <2>2, <3>3, <3>7
  <2> QED
      BY <2>3, <2>4
<1>8. Waits'
  <2> SUFFICES ASSUME NEW w \in Slots, state'[w] = HOLD
               PROVE  /\ lk'[w].pc = "yield" /\ op1'[w] # NoMutex
                      /\ \E u \in Slots \ {w} : mutex_stash'[u] = op1'[w]
                      /\ \A v \in Slots \ {w} : state'[v] = HOLD => op1'[v] # op1'[w]
      BY <1>7 DEF Waits, N
  <2>1. lk'[w].pc = "yield" /\ op1'[w] # NoMutex
      BY <1>1, <1>5, <1>6
  <2>2. \E u \in Slots \ {w} : mutex_stash'[u] = op1'[w]
    <3>1. CASE w = c
        BY <1>1, <3>1
    <3>2. CASE w # c
      <4>1. state[w] = HOLD /\ op1'[w] = op1[w]
          BY <1>5, <1>6, <3>2
      <4>2. PICK u \in Slots \ {w} : u # i /\ mutex_stash[u] = op1[w]
          BY <1>5, <4>1
      <4> QED
          BY <1>1, <4>1, <4>2
    <3> QED
        BY <3>1, <3>2
  <2>3. ASSUME NEW v \in Slots \ {w}, state'[v] = HOLD
        PROVE  op1'[v] # op1'[w]
    <3>1. CASE v # c /\ w # c
      <4>1. state[v] = HOLD /\ state[w] = HOLD
          BY <1>6, <2>3, <3>1
      <4>2. op1'[v] = op1[v] /\ op1'[w] = op1[w]
          BY <1>5, <4>1
      <4>3. op1[v] # op1[w]
          BY <1>3, <4>1 DEF Waits
      <4> QED
          BY <4>2, <4>3
    <3>2. CASE v = c
      <4>1. state[w] = HOLD
          BY <1>6, <2>3, <3>2
      <4> QED
          BY <1>1, <1>5, <3>2, <4>1
    <3>3. CASE w = c
      <4>1. state[v] = HOLD
          BY <1>6, <2>3, <3>3
      <4> QED
          BY <1>1, <1>5, <3>3, <4>1
    <3> QED
        BY <3>1, <3>2, <3>3
  <2> QED
      BY <2>1, <2>2, <2>3
<1>9. ASSUME NEW u \in Slots, mutex_stash'[u] # NoMutex
      PROVE  /\ Unlocking(u, mutex_stash[u])'
             /\ \A v \in Slots \ {u} : mutex_stash'[v] # mutex_stash'[u]
             /\ priority'[u] < N => state'[u] = HOLD
  <2>1. CASE u = i
    <3>1. Unlocking(u, mutex_stash[u])'
        BY <1>1, <2>1 DEF Unlocking
    <3>2. \A v \in Slots \ {u} : mutex_stash'[v] # mutex_stash'[u]
        BY <1>1, <2>1
    <3>3. ~(priority'[u] < N)
        BY <1>1, <1>2, <2>1
    <3> QED
        BY <3>1, <3>2, <3>3
  <2>2. CASE u # i
    <3>1. mutex_stash'[u] = mutex_stash[u] /\ mutex_stash[u] # NoMutex /\ priority'[u] = priority[u]
        BY <1>1, <1>9, <2>2
    <3>2. /\ Unlocking(u, mutex_stash[u])
          /\ \A v \in Slots \ {u} : mutex_stash[v] # mutex_stash[u]
          /\ priority[u] < L => state[u] = HOLD
        BY <1>3, <3>1 DEF Answers, L
    <3>3. Unlocking(u, mutex_stash[u])'
        BY <1>1, <1>4, <3>1, <3>2 DEF Unlocking
    <3>4. \A v \in Slots \ {u} : mutex_stash'[v] # mutex_stash'[u]
        BY <1>1, <3>1, <3>2
    <3>5. state'[u] = HOLD
      <4>1. CASE u = c
          BY <1>1, <4>1
      <4>2. CASE u # c
        <5>1. priority[u] > 127 /\ priority[u] <= L
            BY <1>3, <3>1 DEF LevelsStack, L
        <5>2. priority[u] # L
          <6> SUFFICES ASSUME priority[u] = L PROVE FALSE
              OBVIOUS
          <6>1. priority[u] = priority[c]
              BY <1>1
          <6> QED
              BY <1>1, <1>3, <4>2, <5>1, <6>1 DEF LevelsStack
        <5>3. priority[u] < L
            BY <1>3, <5>1, <5>2
        <5> QED
            BY <1>1, <3>2, <4>2, <5>3
      <4> QED
          BY <4>1, <4>2
    <3> QED
        BY <3>3, <3>4, <3>5
  <2> QED
      BY <2>1, <2>2
<1>10. ASSUME NEW u \in Slots, lk'[u].pc = "demote"
       PROVE  mutex_stash'[u] = lk'[u].m
  <2>1. u # c /\ lk'[u] = lk[u]
      BY <1>1, <1>10
  <2>2. mutex_stash[u] = lk[u].m
      BY <1>3, <1>10, <2>1 DEF Answers
  <2>3. u # i
    <3>1. lk[u].m \in Mutexes
        BY <1>3, <1>10, <2>1 DEF InsideOK
    <3> QED
        BY <1>1, <2>2, <3>1, MutexAssumption
  <2> QED
      BY <1>1, <2>1, <2>2, <2>3
<1>11. Answers'
    BY <1>9, <1>10 DEF Answers, N
<1> QED
    BY <1>8, <1>11

(* A promotion that is justified keeps the stack, and the kernel sound. *)
LEMMA PromoteNests ==
    ASSUME NestInv, SInv', svc_service_priority_promote, Justified(mutex[Aim].index)
    PROVE  NestInv'
<1> DEFINE i == mutex[Aim].index
<1>1. Promotes(i, Aim) /\ Runs'
    BY PromoteEffect
<1> HIDE DEF i
<1>2. Stack'
    BY <1>1, PromoteStacks, PromoteWaits DEF Stack
<1>3. /\ HandOver
      /\ UNCHANGED <<jmp_list, task_id, task_obj, level_stash, lstash_ptr, countVars,
                     current_task, next_task, sched_on, pendsv, first_start, call, fault>>
    BY DEF svc_service_priority_promote, Promote
<1>4. priority'[0] = priority[0]
  <2>1. 0 \in Slots
      BY SlotsAssumption DEF Slots
  <2> QED
      BY <1>1, <2>1 DEF Promotes
<1>5. \A t \in Slots : state'[t] = IDLE <=> state[t] = IDLE
    BY <1>1 DEF Promotes, HOLD, ACTIVE, IDLE
<1>6. KInv' /\ CallsSound'
    BY <1>1, <1>2, <1>3, <1>4, <1>5, AroundKernel
<1>7. UNCHANGED mutex
    BY <1>1 DEF Promotes
<1> QED
    BY <1>1, <1>2, <1>6, <1>7 DEF NestInv, NamesSlots

(* What a demotion does: the task with the highest level gets its priority  *)
(* back, and every task in HOLD for its mutex is woken.                     *)
Demotes(a) ==
    /\ current_task \in Slots /\ current_task # 0 /\ first_start /\ state[current_task] = ACTIVE
    /\ a # NoMutex /\ mutex_stash[current_task] = a
    /\ priority[current_task] = max_level /\ max_level > 127
    /\ priority'[current_task] = stashed[current_task]
    /\ \A t \in Slots \ {current_task} : priority'[t] = priority[t]
    /\ mutex_stash'[current_task] = NoMutex
    /\ \A t \in Slots \ {current_task} : mutex_stash'[t] = mutex_stash[t]
    /\ \A t \in Slots \ {current_task} : stashed'[t] = stashed[t]
    /\ state'[current_task] = SLEEP
    /\ \A t \in Slots \ {current_task} :
         state'[t] = IF state[t] = HOLD /\ op1[t] = a THEN SLEEP ELSE state[t]
    /\ lk'[current_task].pc = "out" /\ \A t \in Slots \ {current_task} : lk'[t] = lk[t]
    /\ UNCHANGED <<current_task, held, mutex, op1, first_start>>
    /\ LowerTop

(* The first task in HOLD for a mutex is the only one. *)
LEMMA FirstIsOnly ==
    ASSUME Waits, NEW a
    PROVE  \A t \in Slots : t \in FirstHolding(a) <=> state[t] = HOLD /\ op1[t] = a
<1> SUFFICES ASSUME NEW t \in Slots, state[t] = HOLD, op1[t] = a, NEW k \in 0..(t - 1)
             PROVE  ~(state[k] = HOLD /\ op1[k] = a)
    BY DEF FirstHolding
<1>1. k \in Slots /\ k # t
    BY SlotsAssumption DEF Slots
<1> QED
    BY <1>1 DEF Waits

(* The service does this to its caller. *)
LEMMA DemoteEffect ==
    ASSUME NestInv, svc_service_priority_demote
    PROVE  Demotes(Aim) /\ Runs'
<1>1. At("demote") /\ Demote /\ lk' = [lk EXCEPT ![current_task] = Out] /\ UNCHANGED <<mutex, held>>
    BY DEF svc_service_priority_demote
<1>2. /\ current_task \in Slots /\ first_start /\ ThreadMode
      /\ state[current_task] = ACTIVE /\ state[current_task] # HOLD
      /\ lk[current_task].pc = "demote" /\ lk[current_task].m = Aim
      /\ lk'[current_task].pc = "out" /\ \A t \in Slots \ {current_task} : lk'[t] = lk[t]
    BY <1>1, AtRuns, OutIsTyped DEF Aim
<1>3. /\ mutex_stash[current_task] = Aim /\ Aim \in Mutexes /\ Aim # NoMutex
      /\ current_task # 0
  <2>1. Aim \in Mutexes /\ current_task # 0
      BY <1>2 DEF NestInv, SInv, InsideOK
  <2> QED
      BY <1>2, <2>1, MutexAssumption DEF NestInv, Stack, Answers
<1>4. priority[current_task] = max_level /\ max_level > 127
  <2>1. priority[current_task] \in 0..255 /\ max_level \in 0..255
      BY <1>2 DEF NestInv, SInv, KTypeOK
  <2>2. priority[current_task] > 127 /\ priority[current_task] <= max_level
      BY <1>2, <1>3 DEF NestInv, Stack, LevelsStack
  <2>3. priority[current_task] < max_level => state[current_task] = HOLD
      BY <1>2, <1>3 DEF NestInv, Stack, Answers
  <2>4. ~(priority[current_task] < max_level)
      BY <1>2, <2>3, Zenon
  <2> QED
      BY <2>1, <2>2, <2>4
<1>5. /\ LowerTop /\ HandOver
      /\ priority' = [priority EXCEPT ![current_task] = stashed[current_task]]
      /\ stashed' = [stashed EXCEPT ![current_task] = 0]
      /\ mutex_stash' = [mutex_stash EXCEPT ![current_task] = NoMutex]
      /\ state' = [t \in Slots |->
                     IF t = current_task \/ t \in FirstHolding(Aim) THEN SLEEP ELSE state[t]]
      /\ UNCHANGED <<op1, current_task, next_task, pendsv, first_start>>
    BY <1>1, <1>3 DEF Demote
<1>6. /\ priority \in [Slots -> 0..255] /\ stashed \in [Slots -> 0..255]
      /\ mutex_stash \in [Slots -> Mutexes \cup {NoMutex}]
      /\ state \in [Slots -> States]
      /\ \A t \in Slots : state[t] = ACTIVE => t = current_task
    BY <1>2, RunnerActive DEF NestInv, SInv, KTypeOK, STypeOK, Runs, OneRunner
<1>7. /\ state'[current_task] = SLEEP
      /\ \A t \in Slots \ {current_task} :
           state'[t] = IF t \in FirstHolding(Aim) THEN SLEEP ELSE state[t]
    BY <1>2, <1>5
<1>8. \A t \in Slots : t \in FirstHolding(Aim) <=> state[t] = HOLD /\ op1[t] = Aim
    BY FirstIsOnly DEF NestInv, Stack
<1>9. Runs'
  <2>1. state' \in [Slots -> States]
      BY <1>5, <1>6 DEF States
  <2>2. \A t \in Slots : state'[t] # ACTIVE
      BY <1>6, <1>7 DEF SLEEP, ACTIVE
  <2> QED
      BY <1>2, <1>5, <2>1, <2>2, HandOverRuns DEF NestInv
<1>10. /\ priority'[current_task] = stashed[current_task]
       /\ \A t \in Slots \ {current_task} : priority'[t] = priority[t]
       /\ mutex_stash'[current_task] = NoMutex
       /\ \A t \in Slots \ {current_task} : mutex_stash'[t] = mutex_stash[t]
       /\ \A t \in Slots \ {current_task} : stashed'[t] = stashed[t]
    BY <1>2, <1>5, <1>6
<1>11. \A t \in Slots \ {current_task} :
         state'[t] = IF state[t] = HOLD /\ op1[t] = Aim THEN SLEEP ELSE state[t]
    BY <1>7, <1>8
<1>12. Demotes(Aim)
    BY <1>1, <1>2, <1>3, <1>4, <1>5, <1>7, <1>10, <1>11 DEF Demotes
<1> QED
    BY <1>9, <1>12

(* The level a demotion closes, and the one the last of them restores. *)
LEMMA LevelLowered ==
    ASSUME NestInv, max_level > 127, LowerTop
    PROVE  /\ max_level' \in 0..254
           /\ max_level = 128 => max_level' = maxp_level /\ max_level' < 127 /\ maxp_level' = 127
           /\ max_level > 128 => max_level' = max_level - 1 /\ max_level' > 127
                                 /\ maxp_level' = maxp_level
           /\ maxp_level < 127
           /\ \A n \in 128..max_level' : n \in 128..max_level /\ n # max_level
<1>1. max_level \in 128..254 /\ maxp_level \in 0..126
  <2>1. max_level \in 0..255 /\ maxp_level \in 0..255 /\ max_level <= 254
      BY PromotedCount DEF NestInv, Stack, SInv, KTypeOK, STypeOK
  <2>2. maxp_level < 127
      BY DEF NestInv, Stack, LevelsStack
  <2> QED
      BY <2>1, <2>2
<1>2. Byte(max_level - 1) = max_level - 1
    BY <1>1, ByteWraps
<1>3. CASE max_level = 128
  <2>1. max_level' = maxp_level /\ maxp_level' = 127
      BY <1>2, <1>3 DEF LowerTop
  <2> QED
      BY <1>1, <1>3, <2>1
<1>4. CASE max_level > 128
  <2>1. Byte(max_level - 1) # 127
      BY <1>1, <1>2, <1>4
  <2>2. max_level' = max_level - 1 /\ maxp_level' = maxp_level
      BY <1>2, <2>1 DEF LowerTop
  <2> QED
      BY <1>1, <1>4, <2>2
<1> QED
    BY <1>1, <1>3, <1>4

(* A demotion takes the highest level off. *)
LEMMA DemoteStacks ==
    ASSUME NestInv, NEW a, Demotes(a)
    PROVE  LevelsStack' /\ TopKept'
<1> DEFINE c == current_task
           N == max_level'
           L == max_level
<1>1. /\ c \in Slots /\ priority[c] = L /\ L > 127
      /\ priority'[c] = stashed[c] /\ \A t \in Slots \ {c} : priority'[t] = priority[t]
      /\ mutex_stash'[c] = NoMutex
      /\ \A t \in Slots \ {c} : mutex_stash'[t] = mutex_stash[t]
      /\ \A t \in Slots \ {c} : stashed'[t] = stashed[t]
    BY DEF Demotes
<1>2. /\ N \in 0..254
      /\ L = 128 => N = maxp_level /\ N < 127 /\ maxp_level' = 127
      /\ L > 128 => N = L - 1 /\ N > 127 /\ maxp_level' = maxp_level
      /\ maxp_level < 127
      /\ \A n \in 128..N : n \in 128..L /\ n # L
    BY LevelLowered DEF Demotes
<1>3. /\ L \in 128..255 /\ \A t \in Slots : priority[t] \in 0..255
      /\ LevelsStack /\ TopKept /\ stashed[c] <= 127 /\ stashed[c] \in 0..255
      /\ maxp_level \in 0..255
  <2>1. /\ L \in 0..255 /\ \A t \in Slots : priority[t] \in 0..255
        /\ LevelsStack /\ TopKept /\ stashed[c] \in 0..255 /\ maxp_level \in 0..255
      BY <1>1 DEF NestInv, SInv, KTypeOK, STypeOK, Stack
  <2>2. stashed[c] <= 127
      BY <1>1, <2>1 DEF LevelsStack
  <2> QED
      BY <1>1, <2>1, <2>2
<1> HIDE DEF N, L, c
<1>4. \A t \in Slots : priority'[t] > 127 <=> t # c /\ priority[t] > 127
    BY <1>1, <1>3
<1>5. ASSUME NEW t \in Slots, t # c, priority[t] > 127
      PROVE  priority[t] <= N /\ L > 128
  <2>1. priority[t] <= L /\ priority[t] # L
    <3>1. priority[t] <= L
        BY <1>3, <1>5 DEF LevelsStack, L
    <3>2. priority[t] = priority[c] => t = c
        BY <1>1, <1>3, <1>5 DEF LevelsStack
    <3> QED
        BY <1>1, <1>5, <3>1, <3>2
  <2>2. priority[t] \in 0..255
      BY <1>3
  <2>3. L > 128
      BY <1>3, <1>5, <2>1, <2>2
  <2> QED
      BY <1>2, <1>3, <2>1, <2>2, <2>3
<1>6. LevelsStack'
  <2>1. \A t \in Slots : priority'[t] > 127 <=> mutex_stash'[t] # NoMutex
      BY <1>1, <1>4, <1>3 DEF LevelsStack
  <2>2. \A t \in Slots : priority'[t] > 127 => priority'[t] <= N /\ stashed'[t] <= 127
      BY <1>1, <1>3, <1>4, <1>5 DEF LevelsStack
  <2>3. ASSUME NEW n \in 128..N
        PROVE  \E t \in Slots : priority'[t] = n
    <3>1. n \in 128..L /\ n # L
        BY <1>2
    <3>2. PICK t \in Slots : priority[t] = n
        BY <1>3, <3>1 DEF LevelsStack, L
    <3>3. t # c
        BY <1>1, <3>1, <3>2
    <3> QED
        BY <1>1, <3>2, <3>3
  <2>4. \A t, u \in Slots : priority'[t] > 127 /\ priority'[t] = priority'[u] => t = u
    <3> SUFFICES ASSUME NEW t \in Slots, NEW u \in Slots,
                        priority'[t] > 127, priority'[t] = priority'[u]
                 PROVE  t = u
        OBVIOUS
    <3>1. priority'[u] > 127
        OBVIOUS
    <3>2. t # c /\ u # c /\ priority[t] > 127 /\ priority[t] = priority[u]
        BY <1>1, <1>4, <3>1
    <3> QED
        BY <1>3, <3>2 DEF LevelsStack
  <2>5. (N > 127 => maxp_level' < 127) /\ (~(N > 127) => maxp_level' = 127)
      BY <1>2, <1>3
  <2>6. first_start'
      BY DEF Demotes
  <2> QED
      BY <2>1, <2>2, <2>3, <2>4, <2>5, <2>6 DEF LevelsStack, N
<1>7. TopKept'
  <2>1. \A t \in Slots : Own(t)' = Own(t)
    <3> SUFFICES ASSUME NEW t \in Slots PROVE Own(t)' = Own(t)
        OBVIOUS
    <3>1. CASE t = c
      <4>1. ~(priority'[t] > 127) /\ priority[t] > 127
          BY <1>1, <1>4, <3>1
      <4> QED
          BY <1>1, <3>1, <4>1 DEF Own
    <3>2. CASE t # c
        BY <1>1, <1>4, <3>2 DEF Own
    <3> QED
        BY <3>1, <3>2
  <2>2. OwnTop' = OwnTop
    <3>1. OwnTop = maxp_level
        BY <1>1 DEF OwnTop, L
    <3>2. OwnTop' = maxp_level
      <4>1. CASE L = 128
          BY <1>2, <4>1 DEF OwnTop, N
      <4>2. CASE L > 128
          BY <1>2, <4>2 DEF OwnTop, N
      <4> QED
          BY <1>3, <4>1, <4>2
    <3> QED
        BY <3>1, <3>2
  <2>3. \A t \in Slots : Live(t)' <=> Live(t)
      BY DEF Demotes, Live, HOLD, ACTIVE, SLEEP, IDLE
  <2> QED
      BY <1>3, <2>1, <2>2, <2>3 DEF TopKept
<1> QED
    BY <1>6, <1>7

(* Who still holds waits for another task, and all but the new highest hold. *)
LEMMA DemoteWaits ==
    ASSUME NestInv, NEW a, Demotes(a)
    PROVE  Waits' /\ Answers'
<1> DEFINE c == current_task
           N == max_level'
           L == max_level
<1>1. /\ c \in Slots /\ priority[c] = L /\ L > 127 /\ state[c] = ACTIVE
      /\ a # NoMutex /\ mutex_stash[c] = a
      /\ \A t \in Slots \ {c} : priority'[t] = priority[t]
      /\ mutex_stash'[c] = NoMutex
      /\ \A t \in Slots \ {c} : mutex_stash'[t] = mutex_stash[t]
      /\ state'[c] = SLEEP
      /\ \A t \in Slots \ {c} : state'[t] = IF state[t] = HOLD /\ op1[t] = a THEN SLEEP ELSE state[t]
      /\ lk'[c].pc = "out" /\ \A t \in Slots \ {c} : lk'[t] = lk[t]
      /\ UNCHANGED <<held, op1>>
    BY DEF Demotes
<1>2. /\ N \in 0..254
      /\ L = 128 => N < 127
      /\ L > 128 => N = L - 1
    BY LevelLowered DEF Demotes
<1>3. /\ L \in 128..255 /\ \A t \in Slots : priority[t] \in 0..255
      /\ LevelsStack /\ Waits /\ Answers
  <2>1. /\ L \in 0..255 /\ \A t \in Slots : priority[t] \in 0..255
        /\ LevelsStack /\ Waits /\ Answers
      BY DEF NestInv, SInv, KTypeOK, Stack
  <2> QED
      BY <1>1, <2>1
<1> HIDE DEF c, N, L
<1>4. \A w \in Slots : state'[w] = HOLD <=> w # c /\ state[w] = HOLD /\ op1[w] # a
    BY <1>1 DEF HOLD, SLEEP, ACTIVE
<1>5. N < L
    BY <1>2, <1>3
<1>6. ASSUME NEW w \in Slots, state'[w] = HOLD
      PROVE  /\ lk'[w].pc = "yield" /\ op1'[w] # NoMutex
             /\ \E u \in Slots \ {w} : mutex_stash'[u] = op1'[w]
             /\ \A v \in Slots \ {w} : state'[v] = HOLD => op1'[v] # op1'[w]
             /\ \A u \in Slots :
                  mutex_stash'[u] = op1'[w] /\ 127 < priority'[w] /\ priority'[w] < N
                      => priority'[u] = priority'[w] + 1
  <2>1. w # c /\ state[w] = HOLD /\ op1[w] # a /\ op1'[w] = op1[w] /\ lk'[w] = lk[w]
        /\ priority'[w] = priority[w]
      BY <1>1, <1>4, <1>6
  <2>2. /\ lk[w].pc = "yield" /\ op1[w] # NoMutex
        /\ \E u \in Slots \ {w} : mutex_stash[u] = op1[w]
        /\ \A v \in Slots \ {w} : state[v] = HOLD => op1[v] # op1[w]
        /\ \A u \in Slots :
             mutex_stash[u] = op1[w] /\ 127 < priority[w] /\ priority[w] < L
                 => priority[u] = priority[w] + 1
      BY <1>3, <2>1 DEF Waits, L
  <2>3. PICK u \in Slots \ {w} : mutex_stash[u] = op1[w]
      BY <2>2
  <2>4. u # c /\ mutex_stash'[u] = op1'[w]
      BY <1>1, <2>1, <2>3
  <2>5. \A v \in Slots \ {w} : state'[v] = HOLD => op1'[v] # op1'[w]
      BY <1>1, <1>4, <2>2
  <2>6. ASSUME NEW x \in Slots, mutex_stash'[x] = op1'[w], 127 < priority'[w], priority'[w] < N
        PROVE  priority'[x] = priority'[w] + 1
    <3>1. x # c /\ mutex_stash[x] = op1[w] /\ priority'[x] = priority[x]
        BY <1>1, <2>1, <2>2, <2>6
    <3>2. 127 < priority[w] /\ priority[w] < L
      <4>1. priority[w] \in 0..255 /\ 127 < priority[w] /\ priority[w] < N
          BY <1>3, <2>1, <2>6
      <4> QED
          BY <1>2, <1>3, <1>5, <4>1
    <3> QED
        BY <2>1, <2>2, <3>1, <3>2
  <2> QED
      BY <2>1, <2>2, <2>4, <2>5, <2>6
<1>7. Waits'
    BY <1>6 DEF Waits, N
<1>8. ASSUME NEW u \in Slots, mutex_stash'[u] # NoMutex
      PROVE  /\ Unlocking(u, mutex_stash[u])'
             /\ \A v \in Slots \ {u} : mutex_stash'[v] # mutex_stash'[u]
             /\ priority'[u] < N => state'[u] = HOLD
  <2>1. u # c /\ mutex_stash'[u] = mutex_stash[u] /\ priority'[u] = priority[u] /\ lk'[u] = lk[u]
      BY <1>1, <1>8
  <2>2. /\ Unlocking(u, mutex_stash[u])
        /\ \A v \in Slots \ {u} : mutex_stash[v] # mutex_stash[u]
        /\ priority[u] < L => state[u] = HOLD
        /\ priority[u] > 127
      BY <1>3, <1>8, <2>1 DEF Answers, LevelsStack, L
  <2>3. Unlocking(u, mutex_stash[u])'
      BY <1>1, <2>1, <2>2 DEF Unlocking
  <2>4. \A v \in Slots \ {u} : mutex_stash'[v] # mutex_stash'[u]
      BY <1>1, <1>8, <2>1, <2>2
  <2>5. ASSUME priority'[u] < N
        PROVE  state'[u] = HOLD
    <3>1. 127 < priority[u] /\ priority[u] < L /\ priority[u] + 1 # L
      <4>1. priority[u] \in 0..255 /\ 127 < priority[u] /\ priority[u] < N
          BY <1>3, <2>1, <2>2, <2>5
      <4>2. N = L - 1
          BY <1>2, <1>3, <4>1
      <4> QED
          BY <1>3, <4>1, <4>2
    <3>2. state[u] = HOLD
        BY <2>2, <3>1
    <3>3. op1[u] # a
      <4>1. op1[u] = a => priority[c] = priority[u] + 1
          BY <1>1, <1>3, <3>1, <3>2 DEF Waits, L
      <4> QED
          BY <1>1, <3>1, <4>1
    <3> QED
        BY <1>4, <2>1, <3>2, <3>3
  <2> QED
      BY <2>3, <2>4, <2>5
<1>9. \A u \in Slots : lk'[u].pc = "demote" => mutex_stash'[u] = lk'[u].m
    BY <1>1, <1>3 DEF Answers
<1>10. Answers'
    BY <1>8, <1>9 DEF Answers, N
<1> QED
    BY <1>7, <1>10

(* A demotion keeps the stack, and the kernel sound. *)
LEMMA DemoteNests ==
    ASSUME NestInv, SInv', svc_service_priority_demote
    PROVE  NestInv'
<1> DEFINE a == Aim
<1>1. Demotes(a) /\ Runs'
    BY DemoteEffect
<1> HIDE DEF a
<1>2. Stack'
    BY <1>1, DemoteStacks, DemoteWaits DEF Stack
<1>3. /\ HandOver
      /\ UNCHANGED <<jmp_list, task_id, task_obj, level_stash, lstash_ptr, countVars,
                     current_task, next_task, sched_on, pendsv, first_start, call, fault>>
    BY DEF svc_service_priority_demote, Demote
<1>4. priority'[0] = priority[0]
  <2>1. 0 \in Slots
      BY SlotsAssumption DEF Slots
  <2> QED
      BY <1>1, <2>1 DEF Demotes
<1>5. \A t \in Slots : state'[t] = IDLE <=> state[t] = IDLE
    BY <1>1 DEF Demotes, HOLD, ACTIVE, SLEEP, IDLE
<1>6. KInv' /\ CallsSound'
    BY <1>1, <1>2, <1>3, <1>4, <1>5, AroundKernel
<1>7. UNCHANGED mutex
    BY <1>1 DEF Demotes
<1> QED
    BY <1>1, <1>2, <1>6, <1>7 DEF NestInv, NamesSlots

-----------------------------------------------------------------------------
(* The theorems about promotions *)

(* The initial state satisfies the invariant. *)
LEMMA NestStarts ==
    ASSUME IdsFit, SInit
    PROVE  NestInv
<1>1. SInv
    BY SharingStarts
<1>2. Init /\ KInv
    BY InitKInv DEF SInit
<1>3. CallsSound
    BY <1>2, InitCallsSound
<1>4. /\ mutex = [m \in Mutexes |-> NoId] /\ mutex_stash = [t \in Slots |-> NoMutex]
      /\ lk = [t \in Slots |-> Out]
    BY DEF SInit
<1>5. 0 \in Slots
    BY SlotsAssumption DEF Slots
<1>6. NamesSlots
    BY <1>4, <1>5 DEF NamesSlots, NoId
<1>7. /\ \A t \in Slots : state[t] = IF t = 0 THEN SLEEP ELSE IDLE
      /\ \A t \in Slots : priority[t] = 0
      /\ max_level = 0 /\ ~first_start
    BY <1>2, <1>5 DEF Init
<1>8. Runs
    BY <1>2, <1>3 DEF KInv, KernelInv, CallsSound, Runs, TypeOK
<1>9. \A t \in Slots : lk[t].pc = "out"
    BY <1>4, OutIsTyped
<1>10. LevelsStack
  <2>1. \A t \in Slots : ~(priority[t] > 127)
      BY <1>7
  <2>2. ~(max_level > 127) /\ \A n \in 128..max_level : FALSE
      BY <1>7
  <2> QED
      BY <1>4, <1>7, <2>1, <2>2 DEF LevelsStack
<1>11. TopKept
    BY <1>5, <1>7 DEF TopKept, Own, OwnTop, Live, SLEEP, IDLE
<1>12. Waits /\ Answers
  <2>1. \A t \in Slots : state[t] # HOLD
      BY <1>7 DEF SLEEP, IDLE, HOLD
  <2> QED
      BY <1>4, <1>9, <2>1 DEF Waits, Answers
<1> QED
    BY <1>1, <1>2, <1>3, <1>6, <1>8, <1>10, <1>11, <1>12 DEF NestInv, Stack

(* A promotion that was upset stays so. *)
LEMMA UpsetForGood ==
    ASSUME [SNext]_svars, disturbed
    PROVE  disturbed'
<1>1. CASE UNCHANGED disturbed
    BY <1>1, Zenon
<1>2. CASE Upset \/ \E i : Gone(i)
    BY <1>2, Zenon DEF Gone, Upset
<1>3. CASE svc_service_priority_promote
    BY <1>3, Zenon DEF svc_service_priority_promote
<1>4. CASE UNCHANGED svars
  <2>1. UNCHANGED disturbed
      BY <1>4 DEF svars, shareVars
  <2> QED
      BY <1>1, <2>1
<1>5. CASE ShareStart
    BY <1>1, <1>5 DEF ShareStart
<1>6. CASE \E m \in Mutexes : spin_lock(m) \/ mutex_unlock(m)
    BY <1>1, <1>6 DEF spin_lock, mutex_unlock, InThread
<1>7. CASE LockStep
    BY <1>1, <1>3, <1>7 DEF LockStep, mutex_lock_load, mutex_lock_store, spin_lock_index,
       spin_lock_compare, spin_lock_yield, mutex_unlock_stash, svc_service_priority_demote, InThread
<1>8. CASE Elsewhere
    BY <1>1, <1>8 DEF Elsewhere
<1>9. CASE TaskService
    BY <1>2, <1>8, <1>9, Zenon DEF TaskService
<1>10. CASE \/ \E reverse \in BOOLEAN : ShareHibernate(reverse)
            \/ ShareSchedule \/ ShareSwitch \/ ShareTick
            \/ scheduler_hangs /\ Elsewhere
    BY <1>8, <1>10, Zenon DEF ShareHibernate, ShareSchedule, ShareSwitch, ShareTick
<1>11. CASE UNCHANGED shareVars
    BY <1>1, <1>11 DEF shareVars
<1> QED
    BY <1>4, <1>5, <1>6, <1>7, <1>9, <1>10, <1>11, Zenon DEF SNext, ShareStep

(* No step breaks the invariant without upsetting a promotion. *)
LEMMA NestStep ==
    ASSUME IdsFit, LockBytesFit, Disciplined, SInv, disturbed \/ NestInv, [SNext]_svars
    PROVE  SInv' /\ (disturbed' \/ NestInv')
<1>1. SInv'
    BY SharingStep
<1> SUFFICES ASSUME ~disturbed'
             PROVE  NestInv'
    BY <1>1
<1>2. NestInv
    BY UpsetForGood
<1>3. CASE \E m \in Mutexes : spin_lock(m)
    BY <1>1, <1>2, <1>3, LookNests
<1>4. CASE \E m \in Mutexes : mutex_unlock(m)
    BY <1>1, <1>2, <1>4, UnlockNests
<1>5. CASE mutex_lock_load \/ spin_lock_index \/ spin_lock_compare
    BY <1>1, <1>2, <1>5, LookNests
<1>6. CASE mutex_lock_store
    BY <1>1, <1>2, <1>6, LookNests, StoreNests
<1>7. CASE svc_service_priority_promote
  <2>1. Justified(mutex[Aim].index)
      BY <1>7, Zenon DEF svc_service_priority_promote
  <2> QED
      BY <1>1, <1>2, <1>7, <2>1, PromoteNests
<1>8. CASE spin_lock_yield \/ mutex_unlock_stash \/ svc_service_priority_demote
    BY <1>1, <1>2, <1>8, YieldNests, StashNests, DemoteNests
<1>9. CASE \/ ShareStart
           \/ TaskService
           \/ \E reverse \in BOOLEAN : ShareHibernate(reverse)
           \/ ShareSchedule
           \/ scheduler_hangs /\ Elsewhere
           \/ ShareSwitch
           \/ ShareTick
           \/ Compute /\ UNCHANGED shareVars
           \/ UNCHANGED svars
    BY <1>1, <1>2, <1>9, KernelNests
<1>10. CASE LockStep
    BY <1>5, <1>6, <1>7, <1>8, <1>10, Zenon DEF LockStep
<1> QED
    BY <1>3, <1>4, <1>9, <1>10, Zenon DEF SNext, ShareStep

(* The stack of waiters and promoted tasks answers every HOLD. *)
LEMMA StackAnswers ==
    ASSUME Waits, Answers
    PROVE  HoldIsAnswered
<1> SUFFICES ASSUME ~disturbed, NEW t \in Slots, state[t] = HOLD
             PROVE  /\ \E u \in Slots \ {t} : mutex_stash[u] = op1[t] /\ Unlocking(u, op1[t])
                    /\ \A u \in Slots \ {t} : state[u] = HOLD => op1[u] # op1[t]
    BY DEF HoldIsAnswered
<1>1. PICK u \in Slots \ {t} : mutex_stash[u] = op1[t] /\ op1[t] # NoMutex
    BY DEF Waits
<1>2. Unlocking(u, op1[t])
    BY <1>1 DEF Answers
<1> QED
    BY <1>1, <1>2 DEF Waits

(* The levels of the stack are the ones of the promoted tasks. *)
LEMMA StackNests ==
    ASSUME LevelsStack, TopKept, KTypeOK, STypeOK
    PROVE  PromotionsNest
<1> DEFINE P == {t \in Slots : priority[t] > 127}
           k == Cardinality(P)
<1> SUFFICES ASSUME first_start, ~disturbed
             PROVE  /\ \A t \in Slots : t \in P <=> mutex_stash[t] # NoMutex
                    /\ \A t \in P : stashed[t] <= 127
                    /\ {priority[t] : t \in P} = 128..(127 + k)
                    /\ P = {} => maxp_level = 127 /\ MaxLevelExact
                    /\ P # {} => max_level = 127 + k
    BY DEF PromotionsNest
<1>1. max_level \in 0..255 /\ \A t \in Slots : priority[t] \in 0..255
    BY DEF KTypeOK
<1>2. k = IF max_level > 127 THEN max_level - 127 ELSE 0
    BY PromotedCount
<1>3. P # {} => max_level > 127
    BY <1>1 DEF LevelsStack
<1>4. P = {} => ~(max_level > 127)
  <2> SUFFICES ASSUME P = {}, max_level > 127
               PROVE  FALSE
      OBVIOUS
  <2>1. PICK t \in Slots : priority[t] = max_level
      BY <1>1 DEF LevelsStack
  <2> QED
      BY <2>1
<1>6. \A t \in Slots : t \in P <=> mutex_stash[t] # NoMutex
    BY DEF LevelsStack
<1>7. \A t \in P : stashed[t] <= 127
    BY DEF LevelsStack
<1>8. {priority[t] : t \in P} = 128..(127 + k)
  <2>1. 128..(127 + k) = 128..max_level
      BY <1>1, <1>2
  <2>2. ASSUME NEW t \in P
        PROVE  priority[t] \in 128..max_level
    <3>1. priority[t] > 127 /\ priority[t] <= max_level
        BY DEF LevelsStack
    <3>2. priority[t] \in 0..255
        BY <1>1
    <3> QED
        BY <1>1, <3>1, <3>2
  <2>3. ASSUME NEW n \in 128..max_level
        PROVE  \E t \in P : priority[t] = n
    <3>1. PICK t \in Slots : priority[t] = n
        BY DEF LevelsStack
    <3>2. priority[t] > 127
        BY <1>1, <3>1
    <3> QED
        BY <3>1, <3>2
  <2>4. {priority[t] : t \in P} = 128..max_level
    <3> HIDE DEF P, k
    <3> QED
        BY <2>2, <2>3
  <2> QED
      BY <2>1, <2>4
<1>9. P = {} => maxp_level = 127 /\ MaxLevelExact
  <2> SUFFICES ASSUME P = {}
               PROVE  maxp_level = 127 /\ MaxLevelExact
      OBVIOUS
  <2>1. maxp_level = 127
      BY <1>4 DEF LevelsStack
  <2>2. OwnTop = max_level /\ \A t \in Slots : Own(t) = priority[t]
      BY <1>1, <1>4 DEF OwnTop, Own
  <2> QED
      BY <2>1, <2>2 DEF TopKept, MaxLevelExact
<1>10. P # {} => max_level = 127 + k
    BY <1>1, <1>2, <1>3
<1> QED
    BY <1>6, <1>7, <1>8, <1>9, <1>10

(* Until a promotion is upset, one promoted task that still has the mutex   *)
(* to unlock stands behind every task in HOLD, wherever the ticks fall and  *)
(* whatever order the tasks lock their mutexes in: the demotion, which      *)
(* wakes one waiter, never leaves another behind.                           *)
THEOREM HoldsAnswered ==
    ASSUME IdsFit, LockBytesFit, Disciplined
    PROVE  SSpec => []HoldIsAnswered
<1>1. SInit => SInv /\ (disturbed \/ NestInv)
    BY NestStarts DEF NestInv
<1>2. SInv /\ (disturbed \/ NestInv) /\ [SNext]_svars => SInv' /\ (disturbed' \/ NestInv')
    BY NestStep
<1>3. SInv /\ (disturbed \/ NestInv) => HoldIsAnswered
    BY StackAnswers, Zenon DEF NestInv, Stack, HoldIsAnswered
<1> QED
    BY <1>1, <1>2, <1>3, PTL DEF SSpec

(* Until one is upset, promotions and demotions nest to any depth, through  *)
(* every preemption and hibernation: the promoted tasks occupy the levels   *)
(* from 128 on without gaps, no byte overflows, and the last demotion       *)
(* restores the top level the task table shows.                             *)
THEOREM PromotionsStayNested ==
    ASSUME IdsFit, LockBytesFit, Disciplined
    PROVE  SSpec => []PromotionsNest
<1>1. SInit => SInv /\ (disturbed \/ NestInv)
    BY NestStarts DEF NestInv
<1>2. SInv /\ (disturbed \/ NestInv) /\ [SNext]_svars => SInv' /\ (disturbed' \/ NestInv')
    BY NestStep
<1>3. SInv /\ (disturbed \/ NestInv) => PromotionsNest
    BY StackNests, Zenon DEF NestInv, Stack, SInv, PromotionsNest
<1> QED
    BY <1>1, <1>2, <1>3, PTL DEF SSpec

=============================================================================
