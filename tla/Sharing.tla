------------------------------ MODULE Sharing ------------------------------
(***************************************************************************)
(* spin_lock and mutex_unlock (share.c, arch/arm-m3m4/mutex.S) with the    *)
(* priority promotion and demotion services (service/svr_task.c), composed *)
(* with the kernel.                                                        *)
(*                                                                         *)
(* A mutex is a word: zero, or the id of the task that locked it.          *)
(* mutex_lock tests its low byte and mutex_unlock clears only that byte,   *)
(* so the owner's index stays in an unlocked word.  Each load, exclusive   *)
(* load and store, and SVC of the two functions is a step of its own; a    *)
(* tick can fall between any two of them.                                  *)
(*                                                                         *)
(* ENABLE_SAFE_LOCK is 0.  HOLD waiters, promoted priorities and           *)
(* max_level > 127 go through the kernel's own actions unchanged.          *)
(***************************************************************************)
EXTENDS Kernel

CONSTANTS
    Mutexes,        \* addresses of the application's mutex words
    Uses,           \* <<o, m>>: the task of object o locks mutex m
    NoMutex,        \* the null address
    Retry,          \* the retry argument of spin_lock
    LockByte,       \* 256, the values of the byte mutex_lock tests
    Sleepers,       \* objects whose tasks hibernate
    MaxDrift        \* bound: hlc up to which tasks go on hibernating

ASSUME MutexAssumption == NoMutex \notin Mutexes
ASSUME SleepersAssumption == Sleepers \subseteq Objs
ASSUME DriftAssumption == MaxDrift \in Nat
ASSUME UsesAssumption == Uses \subseteq Objs \X Mutexes
ASSUME RetryAssumption == Retry \in Nat \ {0}
ASSUME LockByteAssumption == LockByte \in Nat \ {0, 1}

VARIABLES
    mutex,          \* the mutex words
    mutex_stash,    \* per slot: the mutex whose waiter promoted this task
    stashed,        \* per slot: priority_Array[..][TASK_PRIO_STASHED]
    op1,            \* per slot: the mutex a task in HOLD waits for
    maxp_level, alcp, hlcp,     \* the levels as they were before the promotion
    monitor,        \* the exclusive monitor is armed by the running thread
    lk,             \* per slot: where its task is inside spin_lock or mutex_unlock
    held,           \* per slot: the mutexes its task has locked and not unlocked
    disturbed       \* history: the promotions were upset by one of the two
                    \* events the kernel does not guard against, see Upset

stashVars == <<mutex_stash, stashed, op1, maxp_level, alcp, hlcp>>
shareVars == <<mutex, stashVars, monitor, lk, held, disturbed>>
svars == <<vars, shareVars>>

-----------------------------------------------------------------------------
(* Vocabulary *)

(* LDREXB, CMP #0. *)
Locked(w) == w.serial % LockByte # 0

(* STRB of zero: the index and the upper byte of the serial stay. *)
Cleared(w) == [w EXCEPT !.serial = @ - (@ % LockByte)]

Out == [pc |-> "out", m |-> NoMutex, loop |-> 0, index |-> 0]

Pc == lk[current_task].pc
Aim == lk[current_task].m

(* The running task is past its boot and not inside another kernel call. *)
Task == ThreadMode /\ first_start /\ current_task # 0 /\ call[current_task] = NoCall

At(pc) == Task /\ Pc = pc

Goto(pc) == lk' = [lk EXCEPT ![current_task] = [@ EXCEPT !.pc = pc]]

(* A step of spin_lock or mutex_unlock in thread mode. *)
InThread == UNCHANGED <<vars, stashVars, disturbed>>

SInit ==
    /\ Init
    /\ mutex = [m \in Mutexes |-> NoId]
    /\ mutex_stash = [t \in Slots |-> NoMutex]
    /\ stashed = [t \in Slots |-> 0]
    /\ op1 = [t \in Slots |-> NoMutex]
    /\ maxp_level = 0
    /\ alcp = 0
    /\ hlcp = 0
    /\ monitor = FALSE
    /\ lk = [t \in Slots |-> Out]
    /\ held = [t \in Slots |-> {}]
    /\ disturbed = FALSE

-----------------------------------------------------------------------------
(* spin_lock *)

spin_lock(m) ==
    /\ At("out")
    /\ m \notin held[current_task]
    /\ <<task_obj[current_task], m>> \in Uses
    /\ lk' = [lk EXCEPT ![current_task] = [Out EXCEPT !.pc = "try", !.m = m]]
    /\ InThread
    /\ UNCHANGED <<mutex, monitor, held>>

(* mutex_lock: the exclusive load of the low byte. *)
mutex_lock_load ==
    /\ At("try")
    /\ Goto(IF Locked(mutex[Aim]) THEN "index" ELSE "store")
    /\ monitor' = TRUE
    /\ InThread
    /\ UNCHANGED <<mutex, held>>

(* Mutant: the store is not exclusive. *)
mutex_lock_plain_store ==
    /\ At("store")
    /\ Goto("out")
    /\ mutex' = [mutex EXCEPT ![Aim] = task_id[current_task]]
    /\ held' = [held EXCEPT ![current_task] = @ \cup {Aim}]
    /\ monitor' = FALSE
    /\ InThread

(* mutex_lock: the exclusive store of the caller's id, which fails once an  *)
(* exception was taken since the load.                                      *)
mutex_lock_store ==
    /\ At("store")
    /\ IF monitor
       THEN /\ mutex' = [mutex EXCEPT ![Aim] = task_id[current_task]]
            /\ held' = [held EXCEPT ![current_task] = @ \cup {Aim}]
            /\ Goto("out")
       ELSE /\ Goto("index")
            /\ UNCHANGED <<mutex, held>>
    /\ monitor' = FALSE
    /\ InThread

(* The upper half of the mutex word is read as the index of its owner. *)
spin_lock_index ==
    /\ At("index")
    /\ lk' = [lk EXCEPT ![current_task] =
                [@ EXCEPT !.pc = "compare", !.index = mutex[Aim].index]]
    /\ InThread
    /\ UNCHANGED <<mutex, monitor, held>>

(* Where the comparison of the priorities leads; `continue` does not count  *)
(* as a try.                                                                *)
AfterCompare(i) ==
    IF priority[i] < max_level /\ priority[current_task] = max_level
    THEN IF priority[i] > 127 THEN "try" ELSE "promote"
    ELSE "yield"

spin_lock_compare ==
    /\ At("compare")
    /\ Goto(AfterCompare(lk[current_task].index))
    /\ InThread
    /\ UNCHANGED <<mutex, monitor, held>>

(* Mutant: one try too many. *)
GivesUpLate(n) == n > Retry

(* The loop of spin_lock has used up its tries. *)
GivesUp(n) == n >= Retry

(* loop++: the last try gives up with ERROR_RESOURCE_LOCKED_INDEFINETLY. *)
NextTry(l) ==
    IF GivesUp(l.loop + 1) THEN Out ELSE [l EXCEPT !.pc = "try", !.loop = l.loop + 1]

(* svc(HAND_OVER), and the next turn of the loop. *)
spin_lock_yield ==
    /\ At("yield")
    /\ svc_service_hand_over
    /\ lk' = [lk EXCEPT ![current_task] = NextTry(@)]
    /\ monitor' = FALSE
    /\ UNCHANGED <<mutex, stashVars, held, disturbed>>

-----------------------------------------------------------------------------
(* PRIORITY_PROMOTE and PRIORITY_DEMOTE *)

(* The first promotion puts max_level, alc and hlc aside and opens the      *)
(* levels above 127; each promotion adds one.                               *)
RaiseTop ==
    LET first == maxp_level = 127 IN
    /\ max_level' = Byte((IF first THEN 127 ELSE max_level) + 1)
    /\ maxp_level' = IF first THEN max_level ELSE maxp_level
    /\ IF first
       THEN alcp' = alc /\ hlcp' = hlc /\ alc' = 1 /\ hlc' = 0
       ELSE UNCHANGED <<alcp, hlcp, alc, hlc>>

(* The task of slot i, taken to own the mutex at address a, is promoted;    *)
(* the caller holds until the mutex is unlocked.                            *)
Promote(a, i) ==
    /\ RaiseTop
    /\ mutex_stash' = [mutex_stash EXCEPT ![i] = a]
    /\ stashed' = [stashed EXCEPT ![i] = priority[i]]
    /\ priority' = [priority EXCEPT ![i] = max_level']
    /\ state' = [state EXCEPT ![current_task] = HOLD]
    /\ op1' = [op1 EXCEPT ![current_task] = a]
    /\ HandOver
    /\ UNCHANGED <<jmp_list, task_id, task_obj, level_stash, lstash_ptr, countVars,
                   current_task, next_task, sched_on, pendsv, first_start, call, fault>>

(* The task of the index read has the mutex, a lower priority, and the      *)
(* promotion can be told from the first one by maxp_level # 127.  The code  *)
(* checked the priorities some instructions ago, and the rest not at all.   *)
Justified(i) == Aim \in held[i] /\ AfterCompare(i) = "promote" /\ max_level # 127

svc_service_priority_promote ==
    /\ At("promote")
    /\ Promote(Aim, mutex[Aim].index)
    /\ disturbed' = (disturbed \/ ~Justified(mutex[Aim].index))
    /\ Goto("yield")
    /\ monitor' = FALSE
    /\ UNCHANGED <<mutex, held>>

(* Mutant: every demotion takes itself for the last. *)
LowerAtOnce ==
    /\ max_level' = maxp_level
    /\ maxp_level' = 127
    /\ alc' = alcp /\ hlc' = hlcp
    /\ UNCHANGED <<alcp, hlcp>>

(* The last demotion restores what the first promotion put aside. *)
LowerTop ==
    LET last == Byte(max_level - 1) = 127 IN
    /\ max_level' = IF last THEN maxp_level ELSE Byte(max_level - 1)
    /\ maxp_level' = IF last THEN 127 ELSE maxp_level
    /\ IF last THEN alc' = alcp /\ hlc' = hlcp ELSE UNCHANGED <<alc, hlc>>
    /\ UNCHANGED <<alcp, hlcp>>

(* Mutant: nobody is woken. *)
NobodyHolds(a) == {}

(* The first task in HOLD for the mutex at address a. *)
FirstHolding(a) ==
    {t \in Slots : /\ state[t] = HOLD /\ op1[t] = a
                   /\ \A k \in 0..(t - 1) : ~(state[k] = HOLD /\ op1[k] = a)}

(* The running task gets its priority back, wakes one waiter and hands over. *)
Demote ==
    /\ priority' = [priority EXCEPT ![current_task] = stashed[current_task]]
    /\ stashed' = [stashed EXCEPT ![current_task] = 0]
    /\ LowerTop
    /\ state' = [t \in Slots |->
                   IF t = current_task \/ t \in FirstHolding(mutex_stash[current_task])
                   THEN SLEEP ELSE state[t]]
    /\ mutex_stash' = [mutex_stash EXCEPT ![current_task] = NoMutex]
    /\ HandOver
    /\ UNCHANGED <<op1, jmp_list, task_id, task_obj, level_stash, lstash_ptr, countVars,
                   current_task, next_task, sched_on, pendsv, first_start, call, fault>>

-----------------------------------------------------------------------------
(* mutex_unlock *)

mutex_unlock(m) ==
    /\ At("out")
    /\ m \in held[current_task]
    /\ mutex' = [mutex EXCEPT ![m] = Cleared(@)]
    /\ held' = [held EXCEPT ![current_task] = @ \ {m}]
    /\ lk' = [lk EXCEPT ![current_task] = [Out EXCEPT !.pc = "stash", !.m = m]]
    /\ InThread
    /\ UNCHANGED monitor

(* The stash of the caller is compared with the mutex unlocked. *)
mutex_unlock_stash ==
    /\ At("stash")
    /\ lk' = [lk EXCEPT ![current_task] =
                IF mutex_stash[current_task] = Aim THEN [@ EXCEPT !.pc = "demote"] ELSE Out]
    /\ InThread
    /\ UNCHANGED <<mutex, monitor, held>>

svc_service_priority_demote ==
    /\ At("demote")
    /\ Demote
    /\ lk' = [lk EXCEPT ![current_task] = Out]
    /\ monitor' = FALSE
    /\ UNCHANGED <<mutex, held, disturbed>>

-----------------------------------------------------------------------------
(* Composition with the kernel *)

(* An exception, or a step outside spin_lock: the monitor is cleared. *)
Apart == monitor' = FALSE /\ UNCHANGED <<mutex, stashVars, lk, held>>

Elsewhere == Apart /\ UNCHANGED disturbed

(* A creation, kill or end during a promotion: the levels are computed from *)
(* a table that shows the promoted priorities.                              *)
Upset == disturbed' = (disturbed \/ max_level > 127)

(* The thread of slot i is gone; the kernel clears nothing else of it. *)
Gone(i) ==
    /\ lk' = [lk EXCEPT ![i] = Out]
    /\ held' = [held EXCEPT ![i] = {}]
    /\ monitor' = FALSE
    /\ Upset
    /\ UNCHANGED <<mutex, stashVars>>

(* The task services of a task outside spin_lock and mutex_unlock. *)
TaskService ==
    \/ \E o \in Objs :
         \/ (task_start(o) \/ task_kill(o)) /\ Elsewhere
         \/ \E p \in Priorities : svc_service_task_create(o, p) /\ Apart /\ Upset
    \/ (task_kill_load \/ task_kill_memfault) /\ Elsewhere
    \/ \E p \in Priorities : (task_create_rejected(p) \/ task_create_overrun(p)) /\ Elsewhere
    \/ svc_service_task_kill /\ Gone(call[current_task].id.index)
    \/ resolve_end /\ Gone(current_task)
    \/ svc_service_hand_over /\ Elsewhere

(* Wake-ups during a promotion are not counted, so alc and hlc drift apart  *)
(* with every promotion; MaxDrift bounds how far.                           *)
ShareHibernate(reverse) ==
    /\ Pc = "out"
    /\ hlc < MaxDrift
    /\ task_obj[current_task] \in Sleepers
    /\ svc_service_hibernate(reverse)
    /\ Elsewhere

ShareStart ==
    /\ svc_service_start_scheduler
    /\ maxp_level' = 127
    /\ monitor' = FALSE
    /\ UNCHANGED <<mutex, mutex_stash, stashed, op1, alcp, hlcp, lk, held, disturbed>>

(* scheduler() resets the counter and PendSV follows it at once, so no tick *)
(* comes before the context switch.                                         *)
ShareTick ==
    /\ ~pendsv
    /\ Tick
    /\ Elsewhere

ShareSchedule == scheduler /\ Elsewhere

ShareSwitch == pendsv_handler /\ Elsewhere

(* The code inside spin_lock and mutex_unlock. *)
LockStep ==
    \/ mutex_lock_load \/ mutex_lock_store
    \/ spin_lock_index \/ spin_lock_compare \/ spin_lock_yield
    \/ svc_service_priority_promote
    \/ mutex_unlock_stash
    \/ svc_service_priority_demote

(* Everything but the start of the scheduler. *)
ShareStep ==
    \/ \E m \in Mutexes : spin_lock(m) \/ mutex_unlock(m)
    \/ LockStep
    \/ Pc = "out" /\ TaskService
    \/ \E reverse \in BOOLEAN : ShareHibernate(reverse)
    \/ ShareSchedule
    \/ scheduler_hangs /\ Elsewhere
    \/ ShareSwitch
    \/ ShareTick
    \/ Compute /\ UNCHANGED shareVars

SNext == ShareStart \/ ShareStep

SSpec == SInit /\ [][SNext]_svars

(* The kernel's fairness.  A task that is given the processor again and     *)
(* again gets on inside the two functions and inside a call of the kernel,  *)
(* a tick being far longer than an instruction, and one that can unlock     *)
(* again and again does so in the end.                                      *)
SFairness ==
    /\ WF_svars(ShareTick) /\ WF_svars(ShareSchedule) /\ WF_svars(ShareSwitch)
    /\ \A t \in Slots \ {0} :
         /\ SF_svars(current_task = t /\ LockStep)
         /\ SF_svars(current_task = t /\ call[t] # NoCall /\ TaskService)
         /\ \A m \in Mutexes : SF_svars(current_task = t /\ mutex_unlock(m))

SFairSpec == SSpec /\ SFairness

-----------------------------------------------------------------------------
(* Properties *)

Pcs == {"out", "try", "store", "index", "compare", "promote", "yield", "stash", "demote"}

(* The mutex words are ids, the stashes addresses, the levels bytes. *)
STypeOK ==
    /\ mutex \in [Mutexes -> Ids]
    /\ mutex_stash \in [Slots -> Mutexes \cup {NoMutex}]
    /\ stashed \in [Slots -> 0..255]
    /\ op1 \in [Slots -> Mutexes \cup {NoMutex}]
    /\ maxp_level \in 0..255 /\ alcp \in 0..255 /\ hlcp \in 0..255
    /\ monitor \in BOOLEAN
    /\ lk \in [Slots -> [pc : Pcs, m : Mutexes \cup {NoMutex}, loop : 0..(Retry - 1), index : 0..127]]
    /\ held \in [Slots -> SUBSET Mutexes]
    /\ disturbed \in BOOLEAN

(* No two tasks hold one mutex, wherever the ticks fall between the         *)
(* exclusive load and store and whoever is killed or promoted meanwhile.    *)
MutualExclusion ==
    \A t, u \in Slots : t # u => held[t] \cap held[u] = {}

(* The task of slot u has m, or is still inside mutex_unlock(m). *)
Unlocking(u, m) ==
    \/ m \in held[u]
    \/ lk[u].pc \in {"stash", "demote"} /\ lk[u].m = m

(* Behind a task in HOLD stands a promoted task that still has the mutex to *)
(* unlock, and no other task holds for that mutex: demotion, which wakes    *)
(* only the first one, wakes every waiter.  This is so, wherever the ticks  *)
(* fall, until a promotion is upset.                                        *)
HoldIsAnswered ==
    ~disturbed =>
        \A t \in Slots : state[t] = HOLD =>
            /\ \E u \in Slots \ {t} : mutex_stash[u] = op1[t] /\ Unlocking(u, op1[t])
            /\ \A u \in Slots \ {t} : state[u] = HOLD => op1[u] # op1[t]

(* The promoted tasks occupy the levels 128..max_level, one each, and keep  *)
(* the priority they had: with nobody promoted the top level is again the   *)
(* one the task table shows.  This too is so until a promotion is upset.    *)
PromotionsNest ==
    first_start /\ ~disturbed =>
        LET promoted == {t \in Slots : priority[t] > 127} IN
        /\ \A t \in Slots : t \in promoted <=> mutex_stash[t] # NoMutex
        /\ \A t \in promoted : stashed[t] <= 127
        /\ {priority[t] : t \in promoted} = 128..(127 + Cardinality(promoted))
        /\ promoted = {} => maxp_level = 127 /\ MaxLevelExact
        /\ promoted # {} => max_level = 127 + Cardinality(promoted)

(* A task waits to be created that the bound MaxStarts keeps out. *)
Exhausted == total_task_count = MaxStarts /\ \E u \in Slots : call[u].op = "start"

(* A task in HOLD is woken, unless the task that has its mutex hibernates,  *)
(* a promotion is upset or the bound of the instance is reached.            *)
HoldEnds ==
    \A t \in Slots \ {0} :
        state[t] = HOLD ~>
            \/ state[t] # HOLD
            \/ \E u \in Slots : op1[t] \in held[u] /\ state[u] \in Hibernating
            \/ disturbed
            \/ Exhausted

=============================================================================
