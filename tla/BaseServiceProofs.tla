------------------------- MODULE BaseServiceProofs -------------------------
(***************************************************************************)
(* Proofs about BaseService, for tasks that share no mutex: every caller   *)
(* of the base service holds until BaseTask answers, and the answer is the *)
(* one it asked for.                                                       *)
(***************************************************************************)
EXTENDS BaseService, SchedulerProofs

(* The application's tasks lock no mutex, so that only BaseTask is promoted. *)
OnlyBase == Mutexes = {}

-----------------------------------------------------------------------------
(* The inductive invariant *)

BTypeOK ==
    /\ lk = [t \in Slots |-> Out]
    /\ mutex_stash \in [Slots -> {NoMutex, BaseMutex}]
    /\ op1 \in [Slots -> {NoMutex, BaseMutex}]
    /\ stashed \in [Slots -> 0..255]
    /\ maxp_level \in 0..255 /\ alcp \in 0..255 /\ hlcp \in 0..255
    /\ permissions \in [Slots -> Nat]
    /\ hib_value \in [Slots -> {ERROR_NONE, ERROR_UNKNOWN_PROCESS_ID}]
    /\ invocated_args \in Nat
    /\ base \in [pc : {"loop", "decide", "release"}, id : Ids, code : Nat,
                 error : {ERROR_NONE, ERROR_UNKNOWN_PROCESS_ID}]

(* The application's priorities stay below the promoted levels, and         *)
(* BaseTask is always ready or running.                                     *)
BaseReady ==
    /\ \A t \in Slots \ {0} : priority[t] <= 127
    /\ state[0] \in {SLEEP, ACTIVE}

(* Nobody is promoted: the kernel's own invariant holds. *)
Quiet ==
    /\ TypeOK /\ TableInv /\ OneRunner /\ Live(next_task) /\ CallsAim /\ CallsSound
    /\ BaseReady
    /\ first_start => maxp_level = 127
    /\ invocated_task = NoId
    /\ base.pc = "loop"
    /\ \A t \in Slots : state[t] # HOLD

(* A slot's priority once BaseTask is demoted. *)
Rest(t) == IF t = 0 THEN 0 ELSE priority[t]

(* While BaseTask is promoted: what demotion makes the kernel's invariant. *)
PromotedTable ==
    /\ \A t \in Slots : Live(t) <=> task_obj[t] # NoObj
    /\ \A t \in Slots : Live(t) => task_id[t].index = t
    /\ \A t \in Slots : ~Live(t) => task_id[t] = NoId
    /\ RingIntact /\ Linked /\ TaskCountExact
    /\ \E t \in Slots : Live(t) /\ Rest(t) = maxp_level
    /\ \A t \in Slots : Live(t) => Rest(t) <= maxp_level

(* The level BaseTask was given, and what the promotion put aside. *)
PromotedLevel ==
    /\ priority[0] = 128 /\ max_level = 128
    /\ alc = 1 /\ hlc = 0
    /\ stashed[0] = 0 /\ maxp_level <= 127
    /\ mutex_stash[0] = BaseMutex

(* The caller w, and nobody else, holds. *)
CallerHolds(w) ==
    /\ invocated_task = task_id[w]
    /\ state[w] = HOLD /\ op1[w] = BaseMutex
    /\ \A t \in Slots \ {w} : state[t] # HOLD

(* Until BaseTask has released itself only it and the scheduler run, and    *)
(* the timer is off.                                                        *)
BaseNext(w) ==
    \/ ~normal_schedule /\ current_task = w /\ next_task = w /\ base.pc = "loop"
    \/ normal_schedule /\ next_task = 0 /\ ~systick /\ ~sched_on /\ (pendsv => base.pc = "loop")

(* What BaseTask is about to do is what its caller asked for. *)
BaseServes(w) ==
    /\ base.pc # "loop" => base.id = invocated_task /\ base.code = invocated_args
    /\ base.pc = "release" => permissions[w] = base.code /\ base.error = ERROR_NONE

Promoted(w) ==
    /\ TypeOK /\ PromotedTable /\ OneRunner /\ Live(next_task) /\ CallsAim /\ CallsSound
    /\ BaseReady
    /\ first_start
    /\ PromotedLevel
    /\ CallerHolds(w)
    /\ BaseNext(w)
    /\ BaseServes(w)

Phases == Quiet \/ \E w \in Slots \ {0} : Promoted(w)

(* A reset or a fault freezes everything. *)
BInv == BTypeOK /\ InvocationHeld /\ (fault = "none" => Phases)

-----------------------------------------------------------------------------
(* What is left of Sharing without mutexes *)

(* Slot 0 is a slot, and not a task of the application. *)
LEMMA SlotZero == 0 \in Slots
BY SlotsAssumption DEF Slots

(* The steps of the kernel, for tasks that lock no mutex. *)
KernelStep ==
    \/ \E o \in Objs : task_start(o) \/ task_kill(o)
    \/ task_kill_load
    \/ \E o \in Objs, p \in Priorities : svc_service_task_create(o, p)
    \/ \E p \in Priorities : task_create_rejected(p) \/ task_create_overrun(p)
    \/ svc_service_task_kill
    \/ task_kill_memfault
    \/ resolve_end
    \/ \E reverse \in BOOLEAN : svc_service_hibernate(reverse)
    \/ svc_service_hand_over
    \/ scheduler
    \/ scheduler_hangs
    \/ pendsv_handler
    \/ ~pendsv /\ Tick
    \/ UNCHANGED vars

(* Without mutexes every step of Sharing is one of the kernel. *)
LEMMA OnlyKernelSteps ==
    ASSUME OnlyBase, BTypeOK, TypeOK, ShareStep
    PROVE  KernelStep /\ UNCHANGED <<lk, mutex_stash, stashed, op1, maxp_level, alcp, hlcp>>
<1>0. lk = [t \in Slots |-> Out]
    BY Zenon DEF BTypeOK
<1>1. lk[current_task].pc = "out"
  <2>1. current_task \in Slots
      BY DEF TypeOK
  <2>2. lk[current_task] = Out
      BY <1>0, <2>1
  <2> QED
      BY <2>2 DEF Out
<1>2. ~(\E m \in Mutexes : spin_lock(m) \/ mutex_unlock(m))
    BY DEF OnlyBase
<1>3. ~LockStep
    BY <1>1 DEF LockStep, mutex_lock_load, mutex_lock_store, spin_lock_index, spin_lock_compare,
                spin_lock_yield, svc_service_priority_promote, mutex_unlock_stash,
                svc_service_priority_demote, At, Pc
<1>4. ASSUME NEW i, Gone(i)
      PROVE  UNCHANGED <<lk, mutex_stash, stashed, op1, maxp_level, alcp, hlcp>>
  <2>1. lk' = [lk EXCEPT ![i] = Out]
      BY <1>4 DEF Gone
  <2>2. lk' = lk
      BY <1>0, <2>1
  <2> QED
      BY <1>4, <2>2 DEF Gone, stashVars
<1>5. ASSUME Apart
      PROVE  UNCHANGED <<lk, mutex_stash, stashed, op1, maxp_level, alcp, hlcp>>
    BY <1>5 DEF Apart, stashVars
<1>6. ASSUME UNCHANGED shareVars
      PROVE  UNCHANGED <<lk, mutex_stash, stashed, op1, maxp_level, alcp, hlcp>>
    BY <1>6 DEF shareVars, stashVars
<1>7. /\ \/ Apart
         \/ \E i : Gone(i)
         \/ UNCHANGED shareVars
      /\ KernelStep
  <2>1. CASE TaskService
      BY <2>1 DEF TaskService, Elsewhere, KernelStep
  <2>2. CASE \/ \E reverse \in BOOLEAN : ShareHibernate(reverse)
             \/ ShareSchedule \/ ShareSwitch \/ ShareTick
             \/ scheduler_hangs /\ Elsewhere
             \/ Compute /\ UNCHANGED shareVars
      BY <2>2 DEF KernelStep, ShareHibernate, ShareSchedule, ShareSwitch, ShareTick, Compute,
                  Elsewhere
  <2> QED
      BY <1>2, <1>3, <2>1, <2>2 DEF ShareStep
<1> QED
    BY <1>4, <1>5, <1>6, <1>7

(* A kernel step is a step of Kernel. *)
LEMMA KernelStepIsNext ==
    ASSUME KernelStep \/ svc_service_start_scheduler
    PROVE  [Next]_vars
BY DEF KernelStep, Next

(* After a fault nothing changes any more. *)
LEMMA FaultFreezes ==
    ASSUME fault # "none", [BNext]_bvars
    PROVE  UNCHANGED <<vars, lk, stashVars, invocation, permissions, hib_value, base>>
<1>1. ~ThreadMode
    BY DEF ThreadMode
<1>2. CASE UNCHANGED bvars
    BY <1>2 DEF bvars, svars, shareVars
<1>3. CASE ShareStep /\ NotBase
  <2>1. ~(\E m \in Mutexes : spin_lock(m) \/ mutex_unlock(m))
      BY <1>1 DEF spin_lock, mutex_unlock, At, Task
  <2>2. ~LockStep
      BY <1>1 DEF LockStep, mutex_lock_load, mutex_lock_store, spin_lock_index, spin_lock_compare,
                  spin_lock_yield, svc_service_priority_promote, mutex_unlock_stash,
                  svc_service_priority_demote, At, Task
  <2>3. ~(\E o \in Objs : task_start(o) \/ task_kill(o)) /\ ~task_kill_load
        /\ ~(\E o \in Objs, p \in Priorities : svc_service_task_create(o, p))
        /\ ~(\E p \in Priorities : task_create_rejected(p) \/ task_create_overrun(p))
        /\ ~svc_service_task_kill /\ ~task_kill_memfault /\ ~resolve_end
        /\ ~svc_service_hand_over
        /\ ~(\E reverse \in BOOLEAN : ShareHibernate(reverse))
      BY <1>1 DEF task_start, task_kill, task_kill_load, svc_service_task_create,
                  task_create_rejected, task_create_overrun, svc_service_task_kill,
                  task_kill_memfault, resolve_end, svc_service_hand_over, ShareHibernate,
                  svc_service_hibernate, Caller
  <2>4. ~ShareSchedule /\ ~scheduler_hangs /\ ~ShareSwitch /\ ~ShareTick
      BY DEF ShareSchedule, scheduler, scheduler_hangs, ShareSwitch, pendsv_handler, ShareTick, Tick
  <2>5. Compute /\ UNCHANGED shareVars
    <3>1. ~TaskService
        BY <2>3 DEF TaskService
    <3> QED
        BY <1>3, <2>1, <2>2, <2>3, <2>4, <3>1 DEF ShareStep
  <2> QED
      BY <1>3, <2>5 DEF Compute, shareVars, NotBase
<1>4. ~BaseStep /\ ~BaseStart /\ ~(\E code \in Codes : svc_service_invoke_base(code))
    BY <1>1 DEF BaseStep, get_invocation_args, device_reset, svc_service_grant_permission,
                svc_service_release_base, BaseAt, BaseStart, ShareStart,
                svc_service_start_scheduler, svc_service_invoke_base, At, Task
<1> QED
    BY <1>2, <1>3, <1>4 DEF BNext

-----------------------------------------------------------------------------
(* Nobody is promoted *)

(* What a kernel step makes of a slot's state and priority. *)
LEMMA StatesAfter ==
    ASSUME TypeOK, KernelStep \/ svc_service_start_scheduler, NEW t \in Slots
    PROVE  /\ \/ state'[t] \in {state[t], SLEEP, ACTIVE, IDLE}
              \/ t # 0 /\ state'[t] \in Hibernating
           /\ priority'[t] = priority[t] \/ priority'[t] <= 127
<1>1. current_task \in Slots /\ state \in [Slots -> States] /\ priority \in [Slots -> 0..255]
    BY DEF TypeOK
<1>2. ASSUME UNCHANGED <<state, priority>>
      PROVE  /\ \/ state'[t] \in {state[t], SLEEP, ACTIVE, IDLE}
                \/ t # 0 /\ state'[t] \in Hibernating
             /\ priority'[t] = priority[t] \/ priority'[t] <= 127
    BY <1>2
<1>3. CASE \/ (\E o \in Objs : task_start(o) \/ task_kill(o))
           \/ (\E p \in Priorities : task_create_rejected(p) \/ task_create_overrun(p))
           \/ task_kill_load \/ task_kill_memfault \/ scheduler_hangs \/ pendsv_handler
           \/ Tick \/ UNCHANGED vars
  <2>1. UNCHANGED <<state, priority>>
      BY <1>3 DEF task_start, task_kill, task_kill_load, task_create_rejected,
                  task_create_overrun, task_kill_memfault, Enter, scheduler_hangs, Fail,
                  pendsv_handler, Tick, vars, slotVars
  <2> QED
      BY <1>2, <2>1
<1>4. ASSUME NEW o \in Objs, NEW p \in Priorities, svc_service_task_create(o, p)
      PROVE  /\ state'[t] \in {state[t], SLEEP}
             /\ priority'[t] = priority[t] \/ priority'[t] <= 127
  <2>1. PICK i \in Slots : Occupy(i, o, p)
      BY <1>4 DEF svc_service_task_create
  <2>2. state' = [state EXCEPT ![i] = SLEEP] /\ priority' = [priority EXCEPT ![i] = p]
      BY <2>1 DEF Occupy
  <2>3. p <= 127
    <3>1. ~(p > 127) /\ p \in Int
        BY <1>4, PrioritiesAssumption DEF svc_service_task_create, Rejected
    <3> QED
        BY <3>1
  <2> QED
      BY <1>1, <2>2, <2>3
<1>5. ASSUME NEW i, NEW self, Remove(i, self)
      PROVE  state'[t] \in {state[t], IDLE} /\ priority'[t] = priority[t]
    BY <1>1, <1>5 DEF Remove
<1>6. ASSUME NEW reverse \in BOOLEAN, svc_service_hibernate(reverse)
      PROVE  /\ state'[t] = state[t] \/ (t # 0 /\ state'[t] \in Hibernating)
             /\ priority'[t] = priority[t]
    BY <1>1, <1>6 DEF svc_service_hibernate, Hibernating
<1>7. CASE svc_service_start_scheduler \/ svc_service_hand_over
    BY <1>1, <1>7 DEF svc_service_start_scheduler, svc_service_hand_over
<1>8. CASE scheduler
  <2>1. PICK woken \in SUBSET Wakeable :
          \E u \in Selected(Awake(Suspended, woken)) : SwitchTo(u, Awake(Suspended, woken))
      BY <1>8 DEF scheduler
  <2> DEFINE st == Awake(Suspended, woken)
  <2>2. PICK u : SwitchTo(u, st)
      BY <2>1
  <2>3. Suspended \in [Slots -> States] /\ Suspended[t] \in {state[t], SLEEP}
      BY <1>1 DEF Suspended, States
  <2>4. DOMAIN st = Slots /\ st[t] \in {state[t], SLEEP}
      BY <2>3 DEF Awake
  <2> HIDE DEF st
  <2>5. state' = [st EXCEPT ![u] = ACTIVE]
      BY <2>2 DEF SwitchTo
  <2>6. UNCHANGED priority
      BY <1>8 DEF scheduler
  <2> QED
      BY <2>4, <2>5, <2>6
<1> QED
    BY <1>3, <1>4, <1>5, <1>6, <1>7, <1>8
    DEF KernelStep, svc_service_task_kill, resolve_end

(* With nobody promoted the kernel keeps its own invariant. *)
LEMMA QuietKernel ==
    ASSUME IdsFit, Disciplined, Quiet,
           KernelStep \/ svc_service_start_scheduler,
           first_start' => maxp_level' = 127,
           UNCHANGED <<invocated_task, base>>
    PROVE  Quiet'
<1>1. KInv /\ task_obj[0] = BaseObj
    BY DEF Quiet, KInv, Occupants, KernelInv, TypeOK, CallsSound
<1>2. [Next]_vars
    BY KernelStepIsNext
<1>3. KInv'
    BY <1>1, <1>2, NextKInv
<1>4. CallsSound'
    BY <1>2, NextCallsSound DEF Quiet
<1>5. task_obj'[0] = BaseObj
    BY <1>4 DEF CallsSound
<1>6. TypeOK' /\ TableInv' /\ OneRunner' /\ Live(next_task)' /\ CallsAim'
    BY <1>3, <1>5 DEF KInv, KernelInv
<1>7. \A t \in Slots : /\ \/ state'[t] \in {state[t], SLEEP, ACTIVE, IDLE}
                          \/ t # 0 /\ state'[t] \in Hibernating
                       /\ priority'[t] = priority[t] \/ priority'[t] <= 127
    BY StatesAfter DEF Quiet
<1>8. state'[0] # IDLE
  <2>1. BaseObj # NoObj
      BY ObjsAssumption
  <2> QED
      BY <1>5, <1>6, <2>1, SlotZero DEF TableInv, Identity, Live
<1>9. BaseReady'
  <2>1. \A t \in Slots \ {0} : priority'[t] <= 127
      BY <1>7 DEF Quiet, BaseReady
  <2>2. state'[0] \in {SLEEP, ACTIVE}
      BY <1>7, <1>8, SlotZero DEF Quiet, BaseReady
  <2> QED
      BY <2>1, <2>2 DEF BaseReady
<1>10. \A t \in Slots : state'[t] # HOLD
    BY <1>7 DEF Quiet, Hibernating, HOLD, SLEEP, ACTIVE, IDLE, HIBERNATE_G, HIBERNATE_L
<1>11. invocated_task' = NoId /\ base'.pc = "loop"
    BY DEF Quiet
<1> QED
    BY <1>4, <1>6, <1>9, <1>10, <1>11 DEF Quiet

-----------------------------------------------------------------------------
(* A task invokes BaseTask *)

(* Where BaseTask's priority is 0 the two readings of the table agree. *)
LEMMA RestIsPriority ==
    ASSUME TableInv
    PROVE  \A t \in Slots : Rest(t) = priority[t]
BY DEF TableInv, Identity, Rest

(* INVOKE_BASE takes the quiet kernel to the promoted one. *)
LEMMA InvokeStep ==
    ASSUME BTypeOK, Quiet, NEW code \in Codes, svc_service_invoke_base(code)
    PROVE  \E w \in Slots \ {0} : Promoted(w)'
<1>1. PICK w \in Slots : w = current_task
    BY DEF Quiet, TypeOK
<1>2. /\ ThreadMode /\ first_start /\ w # 0 /\ w \in Slots /\ call[w] = NoCall
      /\ invocated_task' = task_id[w] /\ Promote(BaseMutex, 0) /\ UNCHANGED base
    BY <1>1 DEF svc_service_invoke_base, At, Task
<1>3. /\ normal_schedule /\ next_task = w /\ Live(w)
      /\ fault = "none" /\ ~systick /\ ~pendsv
    BY <1>1, <1>2, Running DEF Quiet, ThreadMode
<1>4. /\ UNCHANGED <<jmp_list, task_id, task_obj, level_stash, lstash_ptr, task_count,
                     total_task_count, current_task, next_task, sched_on, pendsv,
                     first_start, call, fault>>
      /\ normal_schedule' = FALSE /\ systick' = TRUE
      /\ RaiseTop
      /\ mutex_stash' = [mutex_stash EXCEPT ![0] = BaseMutex]
      /\ stashed' = [stashed EXCEPT ![0] = priority[0]]
      /\ priority' = [priority EXCEPT ![0] = max_level']
      /\ state' = [state EXCEPT ![w] = HOLD]
      /\ op1' = [op1 EXCEPT ![w] = BaseMutex]
    BY <1>1, <1>2 DEF Promote, HandOver, countVars
<1>5. priority[0] = 0 /\ maxp_level = 127
    BY <1>2 DEF Quiet, TableInv, Identity
<1>6. max_level' = 128 /\ maxp_level' = max_level /\ alc' = 1 /\ hlc' = 0
  <2>1. max_level' = Byte(127 + 1) /\ maxp_level' = max_level /\ alc' = 1 /\ hlc' = 0
      BY <1>4, <1>5 DEF RaiseTop
  <2> QED
      BY <2>1 DEF Byte
<1>7. /\ priority'[0] = 128 /\ \A t \in Slots \ {0} : priority'[t] = priority[t]
      /\ stashed'[0] = 0 /\ mutex_stash'[0] = BaseMutex /\ op1'[w] = BaseMutex
      /\ state'[w] = HOLD /\ \A t \in Slots \ {w} : state'[t] = state[t]
  <2>1. priority'[0] = 128 /\ \A t \in Slots \ {0} : priority'[t] = priority[t]
      BY <1>4, <1>6, SlotZero DEF Quiet, TypeOK
  <2>2. stashed'[0] = 0 /\ mutex_stash'[0] = BaseMutex /\ op1'[w] = BaseMutex
      BY <1>2, <1>4, <1>5, SlotZero DEF BTypeOK
  <2>3. state'[w] = HOLD /\ \A t \in Slots \ {w} : state'[t] = state[t]
      BY <1>2, <1>4 DEF Quiet, TypeOK
  <2> QED
      BY <2>1, <2>2, <2>3
<1>8. TypeOK'
  <2>1. state' \in [Slots -> States]
      BY <1>4 DEF Quiet, TypeOK, States
  <2>2. max_level' \in 0..255 /\ alc' \in 0..255 /\ hlc' \in 0..255
      BY <1>6
  <2>3. priority' \in [Slots -> 0..255]
      BY <1>4, <2>2 DEF Quiet, TypeOK
  <2>4. normal_schedule' \in BOOLEAN /\ systick' \in BOOLEAN
      BY <1>4, Zenon
  <2> QED
      BY <1>4, <2>1, <2>2, <2>3, <2>4 DEF Quiet, TypeOK
<1>9. \A t \in Slots : Live(t)' <=> Live(t)
    BY <1>3, <1>7 DEF Live, HOLD, IDLE
<1>10. LiveSlots' = LiveSlots
    BY <1>9 DEF LiveSlots
<1>11. PromotedTable'
  <2>1. \A t \in Slots : Rest(t)' = priority[t]
      BY <1>5, <1>7 DEF Rest
  <2>2. RingIntact' /\ Linked' /\ TaskCountExact'
      BY <1>4, <1>10 DEF Quiet, TableInv, RingIntact, Linked, TaskCountExact, IsRing, HasLower
  <2>3. /\ \A t \in Slots : Live(t)' <=> task_obj'[t] # NoObj
        /\ \A t \in Slots : Live(t)' => task_id'[t].index = t
        /\ \A t \in Slots : ~Live(t)' => task_id'[t] = NoId
      BY <1>4, <1>9 DEF Quiet, TableInv, Identity
  <2>4. /\ \E t \in Slots : Live(t)' /\ Rest(t)' = maxp_level'
        /\ \A t \in Slots : Live(t)' => Rest(t)' <= maxp_level'
      BY <1>6, <1>9, <2>1 DEF Quiet, TableInv, MaxLevelExact
  <2> QED
      BY <2>2, <2>3, <2>4 DEF PromotedTable
<1>12. OneRunner' /\ Live(next_task)'
  <2>1. \A t \in Slots : state'[t] # ACTIVE
      BY <1>3, <1>7 DEF Quiet, OneRunner, HOLD, ACTIVE
  <2>2. ~normal_schedule' /\ systick'
      BY <1>4
  <2>3. ~pendsv' /\ next_task' = w
      BY <1>3, <1>4
  <2>4. OneRunner'
      BY <2>1, <2>2, <2>3 DEF OneRunner
  <2> QED
      BY <1>3, <1>9, <2>3, <2>4, <1>2 DEF Live
<1>13. CallsAim' /\ CallsSound'
  <2>1. CallsAim'
      BY <1>4 DEF Quiet, CallsAim
  <2>2. CallsSound'
      BY <1>4 DEF Quiet, CallsSound, ObjectOnce
  <2> QED
      BY <2>1, <2>2
<1>14. BaseReady'
  <2>1. state'[0] \in {SLEEP, ACTIVE}
      BY <1>2, <1>7, SlotZero DEF Quiet, BaseReady
  <2> QED
      BY <1>7, <2>1 DEF Quiet, BaseReady
<1>15. PromotedLevel'
  <2>1. max_level <= 127
    <3>1. PICK t \in Slots : priority[t] = max_level
        BY DEF Quiet, TableInv, MaxLevelExact
    <3> QED
        BY <1>5, <3>1 DEF Quiet, BaseReady
  <2> QED
      BY <1>6, <1>7, <2>1 DEF PromotedLevel
<1>16. CallerHolds(w)'
    BY <1>2, <1>4, <1>7 DEF CallerHolds, Quiet
<1>17. BaseNext(w)' /\ BaseServes(w)'
    BY <1>1, <1>2, <1>3, <1>4 DEF BaseNext, BaseServes, Quiet
<1> QED
    BY <1>2, <1>4, <1>8, <1>11, <1>12, <1>13, <1>14, <1>15, <1>16, <1>17 DEF Promoted

-----------------------------------------------------------------------------
(* BaseTask is promoted *)

(* A step that leaves the table, the levels and the record alone. *)
LEMMA PromotedFrame ==
    ASSUME NEW w \in Slots \ {0}, BTypeOK, Promoted(w),
           UNCHANGED <<jmp_list, priority, task_id, task_obj, level_stash, lstash_ptr, max_level,
                       alc, hlc, task_count, first_start, call,
                       mutex_stash, stashed, op1, maxp_level, alcp, hlcp,
                       invocated_task, invocated_args>>,
           \A t \in Slots : state'[t] = IDLE <=> state[t] = IDLE,
           state'[0] \in {SLEEP, ACTIVE},
           \A t \in Slots : state'[t] = HOLD <=> state[t] = HOLD
    PROVE  /\ PromotedTable' /\ CallsAim' /\ CallsSound' /\ BaseReady'
           /\ first_start' /\ PromotedLevel' /\ CallerHolds(w)'
<1>1. \A t \in Slots : Live(t)' <=> Live(t)
    BY DEF Live
<1>2. LiveSlots' = LiveSlots
    BY <1>1 DEF LiveSlots
<1>3. PromotedTable'
  <2>1. \A t \in Slots : Rest(t)' = Rest(t)
      BY DEF Rest
  <2>2. RingIntact' /\ Linked' /\ TaskCountExact'
      BY <1>2 DEF Promoted, PromotedTable, RingIntact, Linked, TaskCountExact, IsRing, HasLower
  <2>3. /\ \A t \in Slots : Live(t)' <=> task_obj'[t] # NoObj
        /\ \A t \in Slots : Live(t)' => task_id'[t].index = t
        /\ \A t \in Slots : ~Live(t)' => task_id'[t] = NoId
      BY <1>1 DEF Promoted, PromotedTable
  <2>4. /\ \E t \in Slots : Live(t)' /\ Rest(t)' = maxp_level'
        /\ \A t \in Slots : Live(t)' => Rest(t)' <= maxp_level'
      BY <1>1, <2>1 DEF Promoted, PromotedTable
  <2> QED
      BY <2>2, <2>3, <2>4 DEF PromotedTable
<1>4. CallsAim' /\ CallsSound'
  <2>1. CallsAim'
      BY DEF Promoted, CallsAim
  <2>2. CallsSound'
      BY DEF Promoted, CallsSound, ObjectOnce
  <2> QED
      BY <2>1, <2>2
<1>5. BaseReady' /\ first_start' /\ PromotedLevel'
    BY DEF Promoted, BaseReady, PromotedLevel
<1>6. CallerHolds(w)'
    BY DEF Promoted, CallerHolds
<1> QED
    BY <1>3, <1>4, <1>5, <1>6

(* scheduler() takes BaseTask, the only task of the promoted level, and     *)
(* leaves the timer off.                                                    *)
LEMMA BaseIsChosen ==
    ASSUME NEW w \in Slots \ {0}, Promoted(w), scheduler
    PROVE  /\ next_task' = 0 /\ ~sched_on' /\ UNCHANGED <<alc, hlc>>
           /\ state'[0] = ACTIVE
           /\ \A t \in Slots \ {0} : \/ state'[t] = state[t]
                                     \/ state'[t] = SLEEP /\ state[t] \in Hibernating
           /\ state' \in [Slots -> States]
<1>1. PICK woken \in SUBSET Wakeable :
        LET st == Awake(Suspended, woken)
            tops == Cardinality({t \in woken : priority[t] = max_level})
        IN  /\ hlc' = Byte(hlc - tops)
            /\ alc' = Byte(alc + tops)
            /\ \E t \in Selected(st) : SwitchTo(t, st)
    BY DEF scheduler
<1> DEFINE st == Awake(Suspended, woken)
<1>2. PICK u \in Selected(st) : SwitchTo(u, st)
    BY <1>1
<1>3. /\ ~normal_schedule /\ current_task = w /\ next_task = w
      /\ TypeOK /\ RingIntact /\ Linked /\ Live(next_task)
      /\ \A t \in Slots : state[t] # ACTIVE
  <2>1. ~normal_schedule /\ current_task = w /\ next_task = w
      BY DEF Promoted, BaseNext, scheduler
  <2> QED
      BY <2>1 DEF Promoted, PromotedTable, OneRunner
<1>4. /\ state[0] = SLEEP /\ priority[0] = 128 /\ max_level = 128
      /\ \A t \in Slots \ {0} : priority[t] <= 127
    BY <1>3, SlotZero DEF Promoted, BaseReady, PromotedLevel
<1>5. Suspended = state /\ state \in [Slots -> States]
    BY <1>3 DEF Suspended, TypeOK
<1>6. woken \subseteq Slots /\ \A t \in woken : state[t] \in Hibernating
    BY <1>5 DEF Wakeable
<1>7. 0 \notin woken
    BY <1>4, <1>6 DEF Hibernating, SLEEP, HIBERNATE_G, HIBERNATE_L
<1>8. /\ st = [t \in Slots |-> IF t \in woken THEN SLEEP ELSE state[t]]
      /\ st \in [Slots -> States] /\ st[0] = SLEEP
    BY <1>4, <1>5, <1>7, SlotZero DEF Awake, States
<1>9. hlc' = hlc /\ alc' = alc
  <2>1. {t \in woken : priority[t] = max_level} = {}
    <3>1. \A t \in woken : t \in Slots \ {0}
        BY <1>6, <1>7
    <3>2. \A t \in woken : priority[t] # 128
        BY <1>4, <3>1
    <3> QED
        BY <1>4, <3>2
  <2>2. Cardinality({t \in woken : priority[t] = max_level}) = 0
      BY <2>1, FS_EmptySet
  <2>3. hlc' = Byte(hlc - 0) /\ alc' = Byte(alc + 0)
      BY <1>1, <2>2
  <2>4. hlc \in 0..255 /\ alc \in 0..255
      BY <1>3 DEF TypeOK
  <2>5. Byte(hlc) = hlc /\ Byte(alc) = alc
      BY <2>4, ByteWraps
  <2> QED
      BY <2>3, <2>4, <2>5
<1> HIDE DEF st
<1>10. u = 0
  <2>1. 0 \in LiveSlots \ {next_task}
      BY <1>3, <1>4, SlotZero DEF LiveSlots, Live, SLEEP, IDLE
  <2>2. PICK n \in 1..(MAX_TASK_COUNT - 1) :
            Walk[n] = 0 /\ \A m \in 1..n : Walk[m] # next_task
      BY <1>3, <2>1, WalkReaches
  <2>3. MaxWalk \in Nat /\ MAX_TASK_COUNT <= MaxWalk /\ MAX_TASK_COUNT \in Nat
      BY <1>3, WalkBound, SlotsAssumption
  <2>4. n \in 1..MaxWalk /\ n \in Nat
      BY <2>3
  <2>5. Stops(n, st)
    <3>1. {m \in 1..n : Walk[m] = current_task} = {}
        BY <1>3, <2>2
    <3>2. Met(n) = 0
        BY <3>1, FS_EmptySet DEF Met
    <3> QED
        BY <1>4, <1>8, <2>2, <3>2 DEF Stops, LevelRead, LevelAfter
  <2>6. PICK m \in 1..n : Stops(m, st) /\ u = Walk[m]
      BY <1>2, <1>3, <2>4, <2>5, SelectedFirst
  <2>7. \A k \in 1..m : Walk[k] # current_task
      BY <1>3, <2>2, <2>4
  <2>8. priority[u] = max_level
      BY <2>4, <2>6, <2>7, StopsAtTop
  <2>9. u \in Slots
      BY <1>2 DEF Selected
  <2> QED
      BY <1>4, <2>8, <2>9
<1>11. next_task' = 0 /\ state' = [st EXCEPT ![0] = ACTIVE] /\ sched_on' = TimerNeeded(priority[0])
    BY <1>2, <1>10 DEF SwitchTo
<1>12. ~sched_on'
  <2>1. alc' = 1 /\ hlc' = 0
      BY <1>9 DEF Promoted, PromotedLevel
  <2>2. sched_on' = (~(alc' = 1 /\ hlc' = 0) \/ priority[0] # max_level)
      BY <1>11 DEF TimerNeeded
  <2> QED
      BY <1>4, <2>1, <2>2
<1>13. /\ state'[0] = ACTIVE /\ state' \in [Slots -> States]
       /\ \A t \in Slots \ {0} : \/ state'[t] = state[t]
                                 \/ state'[t] = SLEEP /\ state[t] \in Hibernating
    BY <1>6, <1>8, <1>11, SlotZero DEF States
<1> QED
    BY <1>9, <1>11, <1>12, <1>13

(* The scheduler switches to BaseTask. *)
LEMMA PromotedSchedule ==
    ASSUME NEW w \in Slots \ {0}, BTypeOK, Promoted(w), scheduler,
           UNCHANGED <<mutex_stash, stashed, op1, maxp_level, alcp, hlcp>>, NotBase
    PROVE  Promoted(w)'
<1>1. /\ next_task' = 0 /\ ~sched_on' /\ UNCHANGED <<alc, hlc>>
      /\ state'[0] = ACTIVE
      /\ \A t \in Slots \ {0} : \/ state'[t] = state[t]
                                \/ state'[t] = SLEEP /\ state[t] \in Hibernating
      /\ state' \in [Slots -> States]
    BY BaseIsChosen
<1>2. /\ UNCHANGED <<jmp_list, priority, task_id, task_obj, level_stash, lstash_ptr, max_level,
                     task_count, total_task_count, current_task, first_start, call, fault>>
      /\ normal_schedule' = TRUE /\ systick' = FALSE
    BY DEF scheduler, countVars
<1>3. UNCHANGED <<invocated_task, invocated_args, permissions, base>>
    BY DEF NotBase, invocation
<1>4. pendsv' = TRUE /\ sched_on' \in BOOLEAN
  <2>1. PICK u, st : SwitchTo(u, st)
      BY DEF scheduler
  <2> QED
      BY <2>1 DEF SwitchTo, TimerNeeded
<1>5. /\ ~normal_schedule /\ base.pc = "loop" /\ state[0] = SLEEP
      /\ \A t \in Slots : state[t] # ACTIVE
  <2>1. ~normal_schedule /\ base.pc = "loop"
      BY DEF Promoted, BaseNext, scheduler
  <2>2. \A t \in Slots : state[t] # ACTIVE
      BY <2>1 DEF Promoted, OneRunner
  <2> QED
      BY <2>1, <2>2, SlotZero DEF Promoted, BaseReady
<1>6. \A t \in Slots : /\ state'[t] = IDLE <=> state[t] = IDLE
                       /\ state'[t] = HOLD <=> state[t] = HOLD
                       /\ state'[t] = ACTIVE => t = 0
    BY <1>1, <1>5 DEF Hibernating, IDLE, HOLD, ACTIVE, SLEEP, HIBERNATE_G, HIBERNATE_L
<1>7. /\ PromotedTable' /\ CallsAim' /\ CallsSound' /\ BaseReady'
      /\ first_start' /\ PromotedLevel' /\ CallerHolds(w)'
    BY <1>1, <1>2, <1>3, <1>6, PromotedFrame
<1>8. TypeOK'
  <2>1. normal_schedule' \in BOOLEAN /\ systick' \in BOOLEAN /\ pendsv' \in BOOLEAN
      BY <1>2, <1>4, Zenon
  <2> QED
      BY <1>1, <1>2, <1>4, <2>1, SlotZero DEF Promoted, TypeOK
<1>9. normal_schedule' /\ ~systick' /\ pendsv'
    BY <1>2, <1>4
<1>10. OneRunner'
    BY <1>1, <1>6, <1>9 DEF OneRunner
<1>11. Live(next_task)'
    BY <1>1 DEF Live, ACTIVE, IDLE
<1>12. BaseNext(w)' /\ BaseServes(w)'
    BY <1>1, <1>3, <1>5, <1>9 DEF BaseNext, BaseServes
<1> QED
    BY <1>7, <1>8, <1>10, <1>11, <1>12 DEF Promoted

(* BaseTask's context is restored. *)
LEMMA PromotedSwitch ==
    ASSUME NEW w \in Slots \ {0}, BTypeOK, Promoted(w), pendsv_handler,
           UNCHANGED <<mutex_stash, stashed, op1, maxp_level, alcp, hlcp>>, NotBase
    PROVE  Promoted(w)'
<1>1. /\ UNCHANGED <<state, priority, jmp_list, task_id, task_obj, level_stash, lstash_ptr,
                     max_level, alc, hlc, task_count, total_task_count, next_task,
                     normal_schedule, sched_on, systick, first_start, call, fault>>
      /\ current_task' = next_task /\ pendsv' = FALSE /\ pendsv
    BY DEF pendsv_handler, slotVars, levelVars, countVars
<1>2. UNCHANGED <<invocated_task, invocated_args, permissions, base>>
    BY DEF NotBase, invocation
<1>3. /\ PromotedTable' /\ CallsAim' /\ CallsSound' /\ BaseReady'
      /\ first_start' /\ PromotedLevel' /\ CallerHolds(w)'
  <2>1. state'[0] \in {SLEEP, ACTIVE}
      BY <1>1 DEF Promoted, BaseReady
  <2> QED
      BY <1>1, <1>2, <2>1, PromotedFrame
<1>4. normal_schedule /\ next_task = 0 /\ ~systick /\ ~sched_on /\ base.pc = "loop"
    BY <1>1 DEF Promoted, BaseNext, OneRunner
<1>5. TypeOK'
  <2>1. pendsv' \in BOOLEAN
      BY <1>1, Zenon
  <2> QED
      BY <1>1, <1>4, <2>1, SlotZero DEF Promoted, TypeOK
<1>6. OneRunner' /\ Live(next_task)'
    BY <1>1, <1>4 DEF Promoted, OneRunner, Live
<1>7. BaseNext(w)' /\ BaseServes(w)'
    BY <1>1, <1>2, <1>4 DEF BaseNext, BaseServes
<1> QED
    BY <1>3, <1>5, <1>6, <1>7 DEF Promoted

(* A step of BaseTask that only computes. *)
LEMMA PromotedComputes ==
    ASSUME NEW w \in Slots \ {0}, BTypeOK, Promoted(w), UNCHANGED vars,
           UNCHANGED <<mutex_stash, stashed, op1, maxp_level, alcp, hlcp,
                       invocated_task, invocated_args>>,
           base'.pc = "loop" \/ (~pendsv /\ normal_schedule),
           BaseServes(w)'
    PROVE  Promoted(w)'
<1>1. UNCHANGED <<state, priority, jmp_list, task_id, task_obj, level_stash, lstash_ptr,
                  max_level, alc, hlc, task_count, total_task_count, current_task, next_task,
                  normal_schedule, sched_on, systick, pendsv, first_start, call, fault>>
    BY DEF vars, slotVars, levelVars, countVars, switchVars
<1>2. /\ PromotedTable' /\ CallsAim' /\ CallsSound' /\ BaseReady'
      /\ first_start' /\ PromotedLevel' /\ CallerHolds(w)'
  <2>1. state'[0] \in {SLEEP, ACTIVE}
      BY <1>1 DEF Promoted, BaseReady
  <2> QED
      BY <1>1, <2>1, PromotedFrame
<1>3. TypeOK'
    BY <1>1 DEF Promoted, TypeOK
<1>4. OneRunner' /\ Live(next_task)'
    BY <1>1 DEF Promoted, OneRunner, Live
<1>5. BaseNext(w)'
    BY <1>1 DEF Promoted, BaseNext
<1> QED
    BY <1>2, <1>3, <1>4, <1>5 DEF Promoted

(* While BaseTask is promoted no task gets to call the kernel. *)
LEMMA PromotedRuns ==
    ASSUME NEW w \in Slots \ {0}, Promoted(w), KernelStep
    PROVE  scheduler \/ pendsv_handler \/ scheduler_hangs \/ UNCHANGED vars
<1>1. ThreadMode => current_task = 0 /\ ~systick /\ ~sched_on
  <2>1. ASSUME ThreadMode PROVE normal_schedule /\ ~pendsv /\ ~systick
      BY <2>1 DEF Promoted, OneRunner, ThreadMode
  <2> QED
      BY <2>1 DEF Promoted, OneRunner, BaseNext
<1>2. first_start
    BY DEF Promoted
<1>3. ~Caller /\ ~(ThreadMode /\ current_task # 0)
    BY <1>1, <1>2 DEF Caller
<1>4. ~(~pendsv /\ Tick)
  <2>1. Tick /\ ~pendsv => ThreadMode /\ sched_on
      BY DEF Tick, ThreadMode
  <2> QED
      BY <1>1, <2>1
<1> QED
    BY <1>3, <1>4 DEF KernelStep, task_start, task_kill, task_kill_load, svc_service_task_create,
                      task_create_rejected, task_create_overrun, svc_service_task_kill,
                      task_kill_memfault, resolve_end, svc_service_hibernate, svc_service_hand_over

(* While BaseTask is promoted the kernel only switches to it, or fails. *)
LEMMA PromotedKernel ==
    ASSUME NEW w \in Slots \ {0}, BTypeOK, Promoted(w), KernelStep,
           UNCHANGED <<mutex_stash, stashed, op1, maxp_level, alcp, hlcp>>, NotBase
    PROVE  Promoted(w)' \/ fault' # "none"
<1>1. CASE scheduler
    BY <1>1, PromotedSchedule
<1>2. CASE pendsv_handler
    BY <1>2, PromotedSwitch
<1>3. CASE scheduler_hangs
    BY <1>3 DEF scheduler_hangs, Fail
<1>4. CASE UNCHANGED vars
  <2>1. UNCHANGED <<invocated_task, invocated_args, permissions, base>>
      BY DEF NotBase, invocation
  <2>2. UNCHANGED task_id
      BY <1>4 DEF vars, slotVars
  <2>3. BaseServes(w)'
      BY <2>1 DEF Promoted, BaseServes
  <2>4. base'.pc = "loop" \/ (~pendsv /\ normal_schedule)
      BY <2>1 DEF Promoted, BaseNext
  <2> QED
      BY <1>4, <2>1, <2>3, <2>4, PromotedComputes
<1> QED
    BY <1>1, <1>2, <1>3, <1>4, PromotedRuns

(* The slot of the caller's id is found, and no other. *)
LEMMA CallerIsFound ==
    ASSUME NEW w \in Slots \ {0}, Promoted(w)
    PROVE  /\ SlotOf(invocated_task) = {w}
           /\ FirstHolding(mutex_stash[0]) = {w}
           /\ task_id[w] # NoId
<1>1. /\ Live(w) /\ task_id[w].index = w /\ invocated_task = task_id[w]
      /\ mutex_stash[0] = BaseMutex /\ state[w] = HOLD /\ op1[w] = BaseMutex
      /\ \A t \in Slots \ {w} : state[t] # HOLD
  <2>1. Live(w)
      BY DEF Promoted, CallerHolds, Live, HOLD, IDLE
  <2> QED
      BY <2>1 DEF Promoted, CallerHolds, PromotedTable, PromotedLevel
<1>2. NoId.index = 0
    BY DEF NoId
<1>3. \A t \in Slots \ {w} : task_id[t] # task_id[w]
    BY <1>1, <1>2 DEF Promoted, PromotedTable
<1>4. \A k \in 0..(w - 1) : k \in Slots \ {w}
    BY SlotNumbers, SlotsAssumption
<1> QED
    BY <1>1, <1>2, <1>3, <1>4 DEF SlotOf, FirstHolding

(* RELEASE_BASE demotes BaseTask: the kernel's invariant holds again. *)
LEMMA ReleaseStep ==
    ASSUME NEW w \in Slots \ {0}, BTypeOK, Promoted(w), svc_service_release_base
    PROVE  Quiet'
<1>1. /\ ThreadMode /\ current_task = 0 /\ base.pc = "release"
      /\ base' = [base EXCEPT !.pc = "loop"]
    BY DEF svc_service_release_base, BaseAt
<1>2. invocated_task' = NoId /\ Demote
    BY CallerIsFound DEF svc_service_release_base
<1>3. /\ UNCHANGED <<jmp_list, task_id, task_obj, level_stash, lstash_ptr, task_count,
                     total_task_count, current_task, next_task, sched_on, pendsv,
                     first_start, call, fault>>
      /\ normal_schedule' = FALSE /\ systick' = TRUE
      /\ LowerTop
      /\ priority' = [priority EXCEPT ![0] = stashed[0]]
      /\ state' = [t \in Slots |->
                     IF t = 0 \/ t \in FirstHolding(mutex_stash[0]) THEN SLEEP ELSE state[t]]
    BY <1>1, <1>2 DEF Demote, HandOver, countVars
<1>4. /\ normal_schedule /\ ~pendsv /\ next_task = 0
      /\ \A t \in Slots \ {0} : state[t] # ACTIVE
  <2>1. ~pendsv /\ ~systick
      BY <1>1 DEF ThreadMode
  <2>2. normal_schedule
      BY <2>1 DEF Promoted, OneRunner
  <2> QED
      BY <2>1, <2>2 DEF Promoted, OneRunner, BaseNext
<1>5. /\ max_level' = maxp_level /\ maxp_level' = 127
      /\ alc' = alcp /\ hlc' = hlcp
  <2>1. max_level = 128
      BY DEF Promoted, PromotedLevel
  <2>2. Byte(max_level - 1) = 127
      BY <2>1 DEF Byte
  <2> QED
      BY <1>3, <2>2 DEF LowerTop
<1>6. /\ state'[0] = SLEEP /\ state'[w] = SLEEP
      /\ \A t \in Slots \ {0, w} : state'[t] = state[t] /\ state[t] # HOLD
      /\ state[w] = HOLD /\ state[0] \in {SLEEP, ACTIVE}
    BY <1>3, CallerIsFound, SlotZero DEF Promoted, CallerHolds, BaseReady
<1>7. /\ priority'[0] = 0 /\ \A t \in Slots \ {0} : priority'[t] = priority[t]
      /\ \A t \in Slots : priority'[t] = Rest(t)
    BY <1>3, SlotZero DEF Promoted, TypeOK, PromotedLevel, Rest
<1>8. TypeOK'
  <2>1. state' \in [Slots -> States]
      BY <1>3 DEF Promoted, TypeOK, States
  <2>2. max_level' \in 0..255 /\ alc' \in 0..255 /\ hlc' \in 0..255
      BY <1>5 DEF BTypeOK
  <2>3. priority' \in [Slots -> 0..255]
      BY <1>3, SlotZero DEF BTypeOK, Promoted, TypeOK
  <2>4. normal_schedule' \in BOOLEAN /\ systick' \in BOOLEAN
      BY <1>3, Zenon
  <2> QED
      BY <1>3, <2>1, <2>2, <2>3, <2>4 DEF Promoted, TypeOK
<1>9. \A t \in Slots : Live(t)' <=> Live(t)
    BY <1>6 DEF Live, HOLD, IDLE, SLEEP, ACTIVE
<1>10. LiveSlots' = LiveSlots
    BY <1>9 DEF LiveSlots
<1>11. TableInv'
  <2>1. RingIntact' /\ Linked' /\ TaskCountExact'
      BY <1>3, <1>10 DEF Promoted, PromotedTable, RingIntact, Linked, TaskCountExact, IsRing, HasLower
  <2>2. Identity'
    <3>1. task_obj'[0] = BaseObj
        BY <1>3 DEF Promoted, CallsSound
    <3> QED
        BY <1>3, <1>7, <1>9, <3>1 DEF Promoted, PromotedTable, Identity
  <2>3. MaxLevelExact'
      BY <1>5, <1>7, <1>9 DEF Promoted, PromotedTable, MaxLevelExact
  <2> QED
      BY <2>1, <2>2, <2>3 DEF TableInv
<1>12. OneRunner' /\ Live(next_task)'
  <2>1. \A t \in Slots : state'[t] # ACTIVE
      BY <1>4, <1>6 DEF SLEEP, ACTIVE
  <2>2. ~normal_schedule' /\ systick'
      BY <1>3
  <2>3. ~pendsv' /\ next_task' = 0
      BY <1>3, <1>4
  <2>4. OneRunner'
      BY <2>1, <2>2, <2>3 DEF OneRunner
  <2> QED
      BY <1>6, <2>3, <2>4 DEF Live, SLEEP, IDLE
<1>13. CallsAim' /\ CallsSound'
  <2>1. CallsAim'
      BY <1>3 DEF Promoted, CallsAim
  <2>2. CallsSound'
      BY <1>3 DEF Promoted, CallsSound, ObjectOnce
  <2> QED
      BY <2>1, <2>2
<1>14. BaseReady'
    BY <1>6, <1>7 DEF Promoted, BaseReady
<1>15. base'.pc = "loop"
    BY <1>1 DEF BTypeOK
<1>16. \A t \in Slots : state'[t] # HOLD
    BY <1>6 DEF SLEEP, HOLD
<1> QED
    BY <1>2, <1>5, <1>8, <1>11, <1>12, <1>13, <1>14, <1>15, <1>16 DEF Quiet


(* BaseTask's own steps, while it is promoted. *)
LEMMA ServeStep ==
    ASSUME NEW w \in Slots \ {0}, BTypeOK, fault = "none", Promoted(w), BaseStep
    PROVE  Promoted(w)' \/ Quiet' \/ fault' # "none"
<1>1. CASE svc_service_release_base
    BY <1>1, ReleaseStep
<1>2. CASE device_reset
    BY <1>2 DEF device_reset, Fail
<1>3. ASSUME NEW pc, BaseAt(pc), BaseThread
      PROVE  /\ UNCHANGED vars /\ ~pendsv /\ normal_schedule
             /\ UNCHANGED <<mutex_stash, stashed, op1, maxp_level, alcp, hlcp,
                            invocated_task, invocated_args>>
  <2>1. ~pendsv /\ ~systick
      BY <1>3 DEF BaseAt, ThreadMode
  <2>2. normal_schedule
      BY <2>1 DEF Promoted, OneRunner
  <2> QED
      BY <1>3, <2>1, <2>2 DEF BaseThread, stashVars, invocation
<1>4. CASE get_invocation_args
  <2>1. /\ BaseAt("loop") /\ BaseThread /\ UNCHANGED permissions
        /\ base' = [base EXCEPT !.pc = "decide", !.id = invocated_task, !.code = invocated_args]
      BY <1>4 DEF get_invocation_args
  <2>2. base'.pc = "decide" /\ base'.id = invocated_task /\ base'.code = invocated_args
      BY <2>1 DEF BTypeOK
  <2>3. BaseServes(w)'
      BY <1>3, <2>1, <2>2 DEF BaseServes
  <2> QED
      BY <1>3, <2>1, <2>3, PromotedComputes
<1>5. CASE svc_service_grant_permission
  <2>1. /\ BaseAt("decide") /\ BaseThread
        /\ permissions' = [t \in Slots |-> IF t \in SlotOf(base.id) THEN base.code ELSE permissions[t]]
        /\ base' = [base EXCEPT !.pc = "release",
                      !.error = IF SlotOf(base.id) = {} THEN ERROR_UNKNOWN_PROCESS_ID ELSE ERROR_NONE]
      BY <1>5 DEF svc_service_grant_permission
  <2>2. base.id = invocated_task /\ base.code = invocated_args
      BY <2>1 DEF Promoted, BaseServes, BaseAt
  <2>3. SlotOf(base.id) = {w}
      BY <2>2, CallerIsFound
  <2>4. permissions'[w] = base.code
      BY <2>1, <2>3
  <2>5. base' = [base EXCEPT !.pc = "release", !.error = ERROR_NONE]
      BY <2>1, <2>3
  <2>6. /\ base'.pc = "release" /\ base'.id = base.id /\ base'.code = base.code
        /\ base'.error = ERROR_NONE
      BY <2>5 DEF BTypeOK
  <2>7. BaseServes(w)'
      BY <1>3, <2>1, <2>2, <2>4, <2>6 DEF BaseServes
  <2> QED
      BY <1>3, <2>1, <2>7, PromotedComputes
<1> QED
    BY <1>1, <1>2, <1>4, <1>5 DEF BaseStep

-----------------------------------------------------------------------------
(* The theorems *)

(* The variables of the base service keep their types. *)
LEMMA BTypeStep ==
    ASSUME OnlyBase, BTypeOK, fault = "none", Phases, [BNext]_bvars
    PROVE  BTypeOK'
<1>1. TypeOK /\ task_id \in [Slots -> Ids] /\ current_task \in Slots
      /\ max_level \in 0..255 /\ alc \in 0..255 /\ hlc \in 0..255
      /\ priority \in [Slots -> 0..255]
    BY DEF Phases, Quiet, Promoted, TypeOK
<1>2. invocated_task \in Ids
  <2>1. NoId \in Ids
      BY DEF NoId, Ids
  <2> QED
      BY <1>1, <2>1 DEF Phases, Quiet, Promoted, CallerHolds
<1>3. ASSUME UNCHANGED <<lk, mutex_stash, op1, stashed, alcp, hlcp, hib_value, invocated_args, base>>,
             maxp_level' \in 0..255,
             permissions' \in [Slots -> Nat]
      PROVE  BTypeOK'
    BY <1>3 DEF BTypeOK
<1>4. CASE UNCHANGED bvars
    BY <1>4, <1>3 DEF bvars, svars, shareVars, stashVars, invocation, BTypeOK
<1>5. CASE ShareStep /\ NotBase
  <2>1. UNCHANGED <<lk, mutex_stash, stashed, op1, maxp_level, alcp, hlcp>>
      BY <1>1, <1>5, OnlyKernelSteps
  <2> QED
      BY <1>5, <2>1, <1>3 DEF NotBase, invocation, BTypeOK
<1>6. CASE BaseStart
  <2>1. UNCHANGED <<lk, mutex_stash, op1, stashed, alcp, hlcp, hib_value, invocated_args, base>>
        /\ maxp_level' = 127
      BY <1>6 DEF BaseStart, ShareStart, invocation
  <2>2. permissions' = [t \in Slots |-> IF t = 0 THEN ALL_PERMISSIONS ELSE 0]
      BY <1>6 DEF BaseStart
  <2>3. ALL_PERMISSIONS \in Nat
      BY SMT DEF ALL_PERMISSIONS
  <2>4. permissions' \in [Slots -> Nat]
      BY <2>2, <2>3
  <2> QED
      BY <2>1, <2>4, <1>3
<1>7. CASE device_reset
    BY <1>7, <1>3 DEF device_reset, Fail, shareVars, stashVars, NotBase, invocation, BTypeOK
<1>8. CASE get_invocation_args
  <2>1. /\ UNCHANGED <<lk, mutex_stash, op1, stashed, maxp_level, alcp, hlcp, hib_value,
                       invocated_args, permissions>>
        /\ base' = [base EXCEPT !.pc = "decide", !.id = invocated_task, !.code = invocated_args]
      BY <1>8 DEF get_invocation_args, BaseThread, stashVars, invocation
  <2>2. base' \in [pc : {"loop", "decide", "release"}, id : Ids, code : Nat,
                   error : {ERROR_NONE, ERROR_UNKNOWN_PROCESS_ID}]
      BY <1>2, <2>1 DEF BTypeOK
  <2> QED
      BY <2>1, <2>2 DEF BTypeOK
<1>9. CASE svc_service_grant_permission
  <2>1. /\ UNCHANGED <<lk, mutex_stash, op1, stashed, maxp_level, alcp, hlcp, hib_value,
                       invocated_args>>
        /\ permissions' = [t \in Slots |-> IF t \in SlotOf(base.id) THEN base.code ELSE permissions[t]]
        /\ \E e \in {ERROR_NONE, ERROR_UNKNOWN_PROCESS_ID} :
             base' = [base EXCEPT !.pc = "release", !.error = e]
      BY <1>9 DEF svc_service_grant_permission, BaseThread, stashVars, invocation
  <2>2. base' \in [pc : {"loop", "decide", "release"}, id : Ids, code : Nat,
                   error : {ERROR_NONE, ERROR_UNKNOWN_PROCESS_ID}]
    <3>1. base \in [pc : {"loop", "decide", "release"}, id : Ids, code : Nat,
                    error : {ERROR_NONE, ERROR_UNKNOWN_PROCESS_ID}]
        BY DEF BTypeOK
    <3>2. PICK e \in {ERROR_NONE, ERROR_UNKNOWN_PROCESS_ID} :
            base' = [base EXCEPT !.pc = "release", !.error = e]
        BY <2>1
    <3> QED
        BY <3>1, <3>2
  <2>3. permissions' \in [Slots -> Nat]
      BY <2>1 DEF BTypeOK
  <2> QED
      BY <2>1, <2>2, <2>3 DEF BTypeOK
<1>10. CASE svc_service_release_base
  <2>1. UNCHANGED <<lk, permissions>> /\ base' = [base EXCEPT !.pc = "loop"]
      BY <1>10 DEF svc_service_release_base
  <2>2. base' \in [pc : {"loop", "decide", "release"}, id : Ids, code : Nat,
                   error : {ERROR_NONE, ERROR_UNKNOWN_PROCESS_ID}]
      BY <2>1 DEF BTypeOK
  <2>3. CASE UNCHANGED <<vars, stashVars, invocation, hib_value>>
      BY <2>1, <2>2, <2>3 DEF stashVars, invocation, BTypeOK
  <2>4. CASE /\ hib_value' = [t \in Slots |->
                    IF t \in SlotOf(invocated_task) THEN base.error ELSE hib_value[t]]
             /\ invocated_args' = 0
             /\ Demote
    <3>1. /\ mutex_stash' = [mutex_stash EXCEPT ![current_task] = NoMutex]
          /\ stashed' = [stashed EXCEPT ![current_task] = 0]
          /\ UNCHANGED <<op1, alcp, hlcp>> /\ maxp_level' \in {127, maxp_level}
        BY <2>4 DEF Demote, LowerTop
    <3>2. mutex_stash' \in [Slots -> {NoMutex, BaseMutex}] /\ stashed' \in [Slots -> 0..255]
      <4>1. mutex_stash' \in [Slots -> {NoMutex, BaseMutex}]
          BY <3>1 DEF BTypeOK
      <4>2. stashed' \in [Slots -> 0..255]
        <5>1. stashed \in [Slots -> 0..255] /\ 0 \in 0..255
            BY DEF BTypeOK
        <5> QED
            BY <3>1, <5>1
      <4> QED
          BY <4>1, <4>2
    <3>3. hib_value' \in [Slots -> {ERROR_NONE, ERROR_UNKNOWN_PROCESS_ID}]
        BY <2>4 DEF BTypeOK
    <3>4. maxp_level' \in 0..255 /\ invocated_args' \in Nat
        BY <2>4, <3>1 DEF BTypeOK
    <3> QED
        BY <2>1, <2>2, <3>1, <3>2, <3>3, <3>4 DEF BTypeOK
  <2> QED
      BY <1>10, <2>3, <2>4 DEF svc_service_release_base
<1>11. ASSUME NEW code \in Codes, svc_service_invoke_base(code)
       PROVE  BTypeOK'
  <2>1. /\ UNCHANGED <<lk, permissions, hib_value, base>>
        /\ invocated_args' = code /\ RaiseTop
        /\ mutex_stash' = [mutex_stash EXCEPT ![0] = BaseMutex]
        /\ stashed' = [stashed EXCEPT ![0] = priority[0]]
        /\ op1' = [op1 EXCEPT ![current_task] = BaseMutex]
      BY <1>11 DEF svc_service_invoke_base, Promote
  <2>2. code \in Nat
    <3>1. code \in 0..ALL_PERMISSIONS
        BY <1>11, CodesAssumption
    <3> QED
        BY <3>1
  <2>3. /\ mutex_stash' \in [Slots -> {NoMutex, BaseMutex}] /\ stashed' \in [Slots -> 0..255]
        /\ op1' \in [Slots -> {NoMutex, BaseMutex}]
    <3>1. mutex_stash' \in [Slots -> {NoMutex, BaseMutex}]
        BY <2>1 DEF BTypeOK
    <3>2. op1' \in [Slots -> {NoMutex, BaseMutex}]
        BY <2>1 DEF BTypeOK
    <3>3. stashed \in [Slots -> 0..255] /\ priority[0] \in 0..255
        BY <1>1, SlotZero DEF BTypeOK
    <3>4. stashed' \in [Slots -> 0..255]
        BY <2>1, <3>3
    <3> QED
        BY <3>1, <3>2, <3>4
  <2>4. maxp_level' \in {maxp_level, max_level} /\ alcp' \in {alc, alcp} /\ hlcp' \in {hlc, hlcp}
      BY <2>1 DEF RaiseTop
  <2>5. maxp_level' \in 0..255 /\ alcp' \in 0..255 /\ hlcp' \in 0..255
      BY <1>1, <2>4 DEF BTypeOK
  <2> QED
      BY <2>1, <2>2, <2>3, <2>5 DEF BTypeOK
<1> QED
    BY <1>4, <1>5, <1>6, <1>7, <1>8, <1>9, <1>10, <1>11 DEF BNext, BaseStep

(* Every step leads from one phase to another, or stops the machine. *)
LEMMA PhaseStep ==
    ASSUME IdsFit, Disciplined, OnlyBase,
           BTypeOK, fault = "none", Phases, [BNext]_bvars
    PROVE  Phases' \/ (fault' # "none" /\ \E w \in Slots \ {0} : Promoted(w))
<1>1. TypeOK
    BY DEF Phases, Quiet, Promoted
<1>2. CASE Quiet
  <2>1. base.pc = "loop" /\ invocated_task = NoId
      BY <1>2 DEF Quiet
  <2>2. ~BaseStep
      BY <2>1 DEF BaseStep, get_invocation_args, device_reset, svc_service_grant_permission,
                  svc_service_release_base, BaseAt
  <2>3. CASE UNCHANGED bvars
    <3>1. KernelStep /\ UNCHANGED <<invocated_task, base, first_start, maxp_level>>
        BY <2>3 DEF bvars, svars, shareVars, stashVars, invocation, KernelStep, vars
    <3> QED
        BY <1>2, <3>1, QuietKernel DEF Phases, Quiet
  <2>4. CASE ShareStep /\ NotBase
    <3>1. KernelStep /\ UNCHANGED <<invocated_task, base, maxp_level>>
        BY <1>1, <2>4, OnlyKernelSteps DEF NotBase, invocation
    <3>2. UNCHANGED first_start
        BY <3>1 DEF KernelStep, task_start, task_kill, task_kill_load, Enter,
                    svc_service_task_create, task_create_rejected, task_create_overrun,
                    svc_service_task_kill, task_kill_memfault, resolve_end, Remove,
                    svc_service_hibernate, svc_service_hand_over, scheduler, scheduler_hangs,
                    Fail, pendsv_handler, Tick, vars
    <3> QED
        BY <1>2, <3>1, <3>2, QuietKernel DEF Phases, Quiet
  <2>5. CASE BaseStart
    <3>1. /\ svc_service_start_scheduler /\ maxp_level' = 127
          /\ UNCHANGED <<invocated_task, base>>
        BY <2>5 DEF BaseStart, ShareStart, invocation
    <3> QED
        BY <1>2, <3>1, QuietKernel DEF Phases
  <2>6. ASSUME NEW code \in Codes, svc_service_invoke_base(code)
        PROVE  Phases'
      BY <1>2, <2>6, InvokeStep DEF Phases
  <2> QED
      BY <2>2, <2>3, <2>4, <2>5, <2>6 DEF BNext
<1>3. ASSUME NEW w \in Slots \ {0}, Promoted(w)
      PROVE  Phases' \/ fault' # "none"
  <2>1. ThreadMode => current_task = 0
    <3>1. ASSUME ThreadMode PROVE normal_schedule /\ ~pendsv
        BY <1>3, <3>1 DEF Promoted, OneRunner, ThreadMode
    <3> QED
        BY <1>3, <3>1 DEF Promoted, OneRunner, BaseNext
  <2>2. ~BaseStart /\ ~(\E code \in Codes : svc_service_invoke_base(code))
      BY <1>3, <2>1 DEF BaseStart, ShareStart, svc_service_start_scheduler,
                        svc_service_invoke_base, At, Task, Promoted
  <2>3. CASE UNCHANGED bvars
    <3>1. /\ KernelStep /\ NotBase
          /\ UNCHANGED <<mutex_stash, stashed, op1, maxp_level, alcp, hlcp>>
        BY <2>3 DEF bvars, svars, shareVars, stashVars, NotBase, KernelStep
    <3> QED
        BY <1>3, <3>1, PromotedKernel DEF Phases
  <2>4. CASE ShareStep /\ NotBase
      BY <1>1, <1>3, <2>4, OnlyKernelSteps, PromotedKernel DEF Phases
  <2>5. CASE BaseStep
      BY <1>3, <2>5, ServeStep DEF Phases
  <2> QED
      BY <2>2, <2>3, <2>4, <2>5 DEF BNext
<1> QED
    BY <1>2, <1>3 DEF Phases


(* An invocation on record in either phase is one whose caller holds. *)
LEMMA PhasesHold == Phases => InvocationHeld
<1>1. CASE Quiet
    BY <1>1 DEF Quiet, InvocationHeld
<1>2. ASSUME NEW w \in Slots \ {0}, Promoted(w)
      PROVE  InvocationHeld
    BY <1>2 DEF Promoted, PromotedLevel, CallerHolds, InvocationHeld
<1> QED
    BY <1>1, <1>2 DEF Phases

(* Before the scheduler starts nobody is promoted. *)
LEMMA BaseStarts == BInit => BInv
<1> SUFFICES ASSUME BInit
             PROVE  BInv
    OBVIOUS
<1>1. Init
    BY DEF BInit, SInit
<1>2. TypeOK /\ TableInv /\ OneRunner /\ Live(next_task) /\ CallsAim /\ CallsSound
  <2>1. KInv /\ CallsSound
      BY <1>1, InitKInv, InitCallsSound
  <2>2. task_obj[0] = BaseObj
      BY <2>1 DEF CallsSound
  <2> QED
      BY <2>1, <2>2 DEF KInv, KernelInv
<1>3. /\ lk = [t \in Slots |-> Out] /\ mutex_stash = [t \in Slots |-> NoMutex]
      /\ stashed = [t \in Slots |-> 0] /\ op1 = [t \in Slots |-> NoMutex]
      /\ maxp_level = 0 /\ alcp = 0 /\ hlcp = 0
    BY DEF BInit, SInit
<1>4. /\ invocated_task = NoId /\ invocated_args = 0
      /\ permissions = [t \in Slots |-> IF t = 0 THEN ALL_PERMISSIONS ELSE 0]
      /\ hib_value = [t \in Slots |-> ERROR_NONE]
      /\ base = [pc |-> "loop", id |-> NoId, code |-> 0, error |-> ERROR_NONE]
    BY DEF BInit
<1>5. BTypeOK
  <2>1. ALL_PERMISSIONS \in Nat
      BY SMT DEF ALL_PERMISSIONS
  <2>2. permissions \in [Slots -> Nat]
      BY <1>4, <2>1
  <2>3. base \in [pc : {"loop", "decide", "release"}, id : Ids, code : Nat,
                  error : {ERROR_NONE, ERROR_UNKNOWN_PROCESS_ID}]
      BY <1>4 DEF NoId, Ids
  <2>4. hib_value \in [Slots -> {ERROR_NONE, ERROR_UNKNOWN_PROCESS_ID}] /\ invocated_args \in Nat
      BY <1>4
  <2>5. /\ mutex_stash \in [Slots -> {NoMutex, BaseMutex}] /\ op1 \in [Slots -> {NoMutex, BaseMutex}]
        /\ stashed \in [Slots -> 0..255]
        /\ maxp_level \in 0..255 /\ alcp \in 0..255 /\ hlcp \in 0..255
      BY <1>3
  <2> QED
      BY <1>3, <2>2, <2>3, <2>4, <2>5 DEF BTypeOK
<1>6. /\ state = [t \in Slots |-> IF t = 0 THEN SLEEP ELSE IDLE]
      /\ priority = [t \in Slots |-> 0] /\ ~first_start
    BY <1>1 DEF Init
<1>7. BaseReady /\ \A t \in Slots : state[t] # HOLD
    BY <1>6, SlotZero DEF BaseReady, SLEEP, IDLE, HOLD
<1>8. Quiet
    BY <1>2, <1>4, <1>6, <1>7 DEF Quiet
<1> QED
    BY <1>5, <1>8, PhasesHold DEF BInv, Phases

(* A step that stops the machine while BaseTask is promoted leaves the     *)
(* callers and their tasks alone.                                          *)
LEMMA FailuresKeep ==
    ASSUME OnlyBase, BTypeOK, NEW w \in Slots \ {0}, Promoted(w),
           fault = "none", fault' # "none", [BNext]_bvars
    PROVE  UNCHANGED <<state, task_id, op1, mutex_stash, invocated_task>>
<1>1. ~(UNCHANGED bvars)
    BY DEF bvars, svars, vars
<1>2. ~(\E code \in Codes : svc_service_invoke_base(code))
    BY DEF svc_service_invoke_base, Promote
<1>3. ~BaseStart
    BY DEF BaseStart, ShareStart, svc_service_start_scheduler
<1>4. ~get_invocation_args /\ ~svc_service_grant_permission
    BY DEF get_invocation_args, svc_service_grant_permission, BaseThread, vars
<1>5. ~svc_service_release_base
    BY DEF svc_service_release_base, Demote, vars
<1>6. CASE device_reset
    BY <1>6 DEF device_reset, Fail, slotVars, shareVars, stashVars, NotBase, invocation
<1>7. CASE ShareStep /\ NotBase
  <2>1. KernelStep /\ UNCHANGED <<op1, mutex_stash, invocated_task>>
      BY <1>7, OnlyKernelSteps DEF NotBase, invocation, Promoted
  <2>2. scheduler_hangs
      BY <2>1, PromotedRuns DEF scheduler, pendsv_handler, vars
  <2> QED
      BY <2>1, <2>2 DEF scheduler_hangs, Fail, slotVars
<1> QED
    BY <1>1, <1>2, <1>3, <1>4, <1>5, <1>6, <1>7 DEF BNext, BaseStep

(* No step breaks the invariant. *)
LEMMA BaseStepKeeps ==
    ASSUME IdsFit, Disciplined, OnlyBase, BInv, [BNext]_bvars
    PROVE  BInv'
<1>1. CASE fault = "none"
  <2>1. BTypeOK'
      BY <1>1, BTypeStep DEF BInv
  <2>2. Phases' \/ (fault' # "none" /\ \E w \in Slots \ {0} : Promoted(w))
      BY <1>1, PhaseStep DEF BInv
  <2>3. Phases' => InvocationHeld'
      BY PhasesHold, PTL
  <2>4. ASSUME fault' # "none", NEW w \in Slots \ {0}, Promoted(w)
        PROVE  InvocationHeld'
    <3>1. UNCHANGED <<state, task_id, op1, mutex_stash, invocated_task>>
        BY <1>1, <2>4, FailuresKeep DEF BInv
    <3> QED
        BY <3>1 DEF BInv, InvocationHeld
  <2> QED
      BY <2>1, <2>2, <2>3, <2>4 DEF BInv
<1>2. CASE fault # "none"
  <2>1. UNCHANGED <<vars, lk, stashVars, invocation, permissions, hib_value, base>>
      BY <1>2, FaultFreezes
  <2>2. UNCHANGED <<state, task_id, fault, lk, mutex_stash, stashed, op1, maxp_level, alcp, hlcp,
                    invocated_task, invocated_args, permissions, hib_value, base>>
      BY <2>1 DEF vars, slotVars, stashVars, invocation
  <2>3. BTypeOK'
      BY <2>2 DEF BInv, BTypeOK
  <2>4. InvocationHeld'
      BY <2>2 DEF BInv, InvocationHeld
  <2> QED
      BY <1>2, <2>2, <2>3, <2>4 DEF BInv
<1> QED
    BY <1>1, <1>2

(* INVOKE_BASE, RELEASE_BASE and the context switches between them: while   *)
(* an invocation is on record its caller is alive and holds, nobody else    *)
(* holds for base_mutex, and BaseTask is promoted for it.                   *)
THEOREM InvocationsHeld ==
    ASSUME IdsFit, Disciplined, OnlyBase
    PROVE  BSpec => []InvocationHeld
<1>1. BInv /\ [BNext]_bvars => BInv'
    BY BaseStepKeeps
<1>2. BInv => InvocationHeld
    BY DEF BInv
<1> QED
    BY BaseStarts, <1>1, <1>2, PTL DEF BSpec

(* RELEASE_BASE wakes only the caller, whose permission is by then the code *)
(* on record, and tells it so.                                              *)
LEMMA ReleaseAnswers ==
    ASSUME BInv, svc_service_release_base, NEW t \in Slots, state[t] = HOLD, state'[t] # HOLD
    PROVE  permissions[t] = invocated_args /\ hib_value'[t] = ERROR_NONE
<1>1. fault = "none" /\ current_task = 0 /\ base.pc = "release"
    BY DEF svc_service_release_base, BaseAt, ThreadMode
<1>2. PICK w \in Slots \ {0} : Promoted(w)
    BY <1>1 DEF BInv, Phases, Quiet
<1>3. t = w
    BY <1>2 DEF Promoted, CallerHolds
<1>4. permissions[w] = base.code /\ base.code = invocated_args /\ base.error = ERROR_NONE
    BY <1>1, <1>2 DEF Promoted, BaseServes
<1>5. SlotOf(invocated_task) = {w}
    BY <1>2, CallerIsFound
<1>6. hib_value' = [u \in Slots |->
                     IF u \in SlotOf(invocated_task) THEN base.error ELSE hib_value[u]]
    BY <1>5 DEF svc_service_release_base
<1> QED
    BY <1>3, <1>4, <1>5, <1>6

(* Only START_SCHEDULER and GRANT_PERMISSION write a permission, the latter *)
(* that of the task on record.                                              *)
LEMMA GrantsAreAsked ==
    ASSUME BInv, [BNext]_bvars, NEW t \in Slots \ {0}, permissions'[t] \notin {permissions[t], 0}
    PROVE  task_id[t] = invocated_task /\ permissions'[t] = invocated_args
<1>1. CASE svc_service_grant_permission
  <2>1. fault = "none" /\ base.pc = "decide"
      BY <1>1 DEF svc_service_grant_permission, BaseAt, ThreadMode
  <2>2. PICK w \in Slots \ {0} : Promoted(w)
      BY <2>1 DEF BInv, Phases, Quiet
  <2>3. base.id = invocated_task /\ base.code = invocated_args
      BY <2>1, <2>2 DEF Promoted, BaseServes
  <2>4. permissions'[t] = IF t \in SlotOf(base.id) THEN base.code ELSE permissions[t]
      BY <1>1 DEF svc_service_grant_permission
  <2>5. t \in SlotOf(base.id) /\ permissions'[t] = base.code
      BY <2>4
  <2> QED
      BY <2>3, <2>5 DEF SlotOf
<1>2. ~BaseStart
  <2>1. ASSUME BaseStart PROVE permissions'[t] = 0
    <3>1. permissions' = [u \in Slots |-> IF u = 0 THEN ALL_PERMISSIONS ELSE 0]
        BY <2>1 DEF BaseStart
    <3> QED
        BY <3>1
  <2> QED
      BY <2>1
<1>3. permissions' # permissions
    OBVIOUS
<1>4. ~(UNCHANGED bvars) /\ ~NotBase
    BY <1>3 DEF bvars, NotBase
<1>5. /\ ~(\E code \in Codes : svc_service_invoke_base(code))
      /\ ~get_invocation_args /\ ~device_reset /\ ~svc_service_release_base
    BY <1>3, <1>4 DEF svc_service_invoke_base, get_invocation_args, device_reset,
                      svc_service_release_base
<1> QED
    BY <1>1, <1>2, <1>4, <1>5 DEF BNext, BaseStep

(* RELEASE_BASE and GRANT_PERMISSION: whom BaseTask answers got the         *)
(* permission it asked for, and no other slot's permission is raised.       *)
THEOREM AnswersFit ==
    ASSUME IdsFit, Disciplined, OnlyBase
    PROVE  BSpec => AnswerFits
<1>1. BInv /\ [BNext]_bvars => BInv'
    BY BaseStepKeeps
<1>2. BInv /\ [BNext]_bvars =>
        [/\ svc_service_release_base =>
              \A t \in Slots : state[t] = HOLD /\ state'[t] # HOLD =>
                  permissions[t] = invocated_args /\ hib_value'[t] = ERROR_NONE
         /\ \A t \in Slots \ {0} : permissions'[t] \notin {permissions[t], 0} =>
                  task_id[t] = invocated_task /\ permissions'[t] = invocated_args]_bvars
    BY ReleaseAnswers, GrantsAreAsked
<1> QED
    BY BaseStarts, <1>1, <1>2, PTL DEF BSpec, AnswerFits

=============================================================================
