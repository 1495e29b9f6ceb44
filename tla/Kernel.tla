------------------------------- MODULE Kernel -------------------------------
(***************************************************************************)
(* The task table, the scheduler and the task services of skibios on the   *)
(* ARM Cortex-M port (kernel.c, service/svr_task.c, task.c, kvar.c and     *)
(* arch/arm-m3m4/pendsv_handler.S).                                        *)
(*                                                                         *)
(* The code runs in three modes and the model interleaves them as the      *)
(* exception priorities do.  A task (thread mode) runs only while neither  *)
(* the SysTick nor the PendSV exception is pending; an SVC runs to its end *)
(* in one step; a pending PendSV is taken before a pending SysTick.  The   *)
(* API functions of task.c scan the task table in thread mode and can be   *)
(* preempted before they issue their SVC, so each is a sequence of steps.  *)
(*                                                                         *)
(* An access outside an array whose effect the source does not determine,  *)
(* a null dereference and a loop that cannot end all put the machine into  *)
(* the absorbing fault; nothing is claimed of what follows one.            *)
(***************************************************************************)
EXTENDS Integers, FiniteSets

CONSTANTS
    MAX_TASK_COUNT, \* slots of the task table
    Objs,           \* the application's task_t objects
    BaseObj,        \* kernel.c's base_task
    NoObj,          \* the null task_t pointer
    Priorities,     \* priorities the application asks for
    Endless,        \* objects whose task function never returns
    MaxStarts,      \* bound: tasks started in one behaviour, base_task included
    IdSpan,         \* 65536, the values of the 16 bit total_task_count
    Stray,          \* what padding between two arrays may hold
    Disciplined     \* are concurrent API calls on one object ruled out?

(* jmp_list holds int8_t differences of slot numbers. *)
ASSUME SlotsAssumption == MAX_TASK_COUNT \in 2..127

ASSUME ObjsAssumption ==
    /\ Endless \subseteq Objs
    /\ BaseObj \notin Objs
    /\ NoObj \notin Objs
    /\ NoObj # BaseObj

ASSUME PrioritiesAssumption == Priorities \subseteq 0..255

ASSUME StartsAssumption == MaxStarts \in Nat \ {0} /\ IdSpan \in Nat \ {0, 1}

ASSUME StrayAssumption == Stray # {} /\ Stray \subseteq 0..255

ASSUME DisciplinedAssumption == Disciplined \in BOOLEAN

VARIABLES
    state, priority, jmp_list, task_id, task_obj,   \* per slot
    level_stash, lstash_ptr, max_level, alc, hlc,   \* level bookkeeping
    current_task, next_task,
    task_count, total_task_count,
    first_start, normal_schedule,
    sched_on,       \* SysTick counts and raises its interrupt
    systick,        \* the SysTick exception (scheduler) is pending
    pendsv,         \* the PendSV exception (context switch) is pending
    call,           \* per slot: the API call its task is inside of
    fault           \* "none", or how the machine went wrong

levelVars == <<level_stash, lstash_ptr, max_level, alc, hlc>>
slotVars == <<state, priority, jmp_list, task_id, task_obj>>
countVars == <<task_count, total_task_count>>
switchVars == <<current_task, next_task, normal_schedule, sched_on, systick, pendsv>>
vars == <<slotVars, levelVars, countVars, switchVars, first_start, call, fault>>

-----------------------------------------------------------------------------
(* Vocabulary *)

Slots == 0..(MAX_TASK_COUNT - 1)

(* defines.h *)
ACTIVE == 40
SLEEP == 41
IDLE == 42
HOLD == 43
HIBERNATE_G == 80
HIBERNATE_L == 81

(* Mutant: the counters are wider than a byte. *)
Wide(n) == n

(* Arithmetic on uint8_t. *)
Byte(n) == n % 256

Hibernating == {HIBERNATE_G, HIBERNATE_L}

(* (state & HIBERNATE_STATE_MASK) == HIBERNATE_STATE_MASK, the mask being 0x80. *)
HasHibernateBit(s) == (s \div 128) % 2 = 1

Live(t) == state[t] # IDLE

(* The machine word (index << 16) | serial. *)
NoId == [index |-> 0, serial |-> 0]

(* Mutant: the serial is taken from the number of live tasks. *)
NewIdFromTaskCount(i, total) == [index |-> i, serial |-> task_count + 1]

(* Adding 1 to a total of IdSpan - 1 carries into the lowest index bit. *)
NewId(i, total) ==
    IF total + 1 < IdSpan
    THEN [index |-> i, serial |-> total + 1]
    ELSE [index |-> IF i % 2 = 0 THEN i + 1 ELSE i, serial |-> 0]

NoCall == [op |-> "none", obj |-> NoObj, slot |-> 0, id |-> NoId]

Faults == {"hung", "overrun", "memfault"}

-----------------------------------------------------------------------------
(* kernel_init has run: BaseTask occupies slot 0, the timer is off and main *)
(* continues as the thread whose current_task is 0.                         *)
Init ==
    /\ state = [t \in Slots |-> IF t = 0 THEN SLEEP ELSE IDLE]
    /\ priority = [t \in Slots |-> 0]
    /\ jmp_list = [t \in Slots |-> 0]
    /\ task_count = 1
    /\ total_task_count = 1
    /\ task_id = [t \in Slots |-> IF t = 0 THEN NewId(0, 0) ELSE NoId]
    /\ task_obj = [t \in Slots |-> IF t = 0 THEN BaseObj ELSE NoObj]
    /\ level_stash = [k \in Slots |-> 0]
    /\ lstash_ptr = 1
    /\ max_level = 0
    /\ alc = 1
    /\ hlc = 0
    /\ current_task = 0
    /\ next_task = 0
    /\ first_start = FALSE
    /\ normal_schedule = TRUE
    /\ sched_on = FALSE
    /\ systick = FALSE
    /\ pendsv = FALSE
    /\ call = [t \in Slots |-> NoCall]
    /\ fault = "none"

Fail(kind) ==
    /\ fault' = kind
    /\ UNCHANGED <<slotVars, levelVars, countVars, switchVars, first_start, call>>

(* The running task executes its next instruction. *)
ThreadMode == fault = "none" /\ ~systick /\ ~pendsv

(* BaseTask itself calls no task service; before the scheduler starts the  *)
(* thread of slot 0 is main, which does.                                   *)
Caller == ThreadMode /\ (current_task # 0 \/ ~first_start)

(* Discipline: no other task is inside a call that concerns object o. *)
Free(o) == Disciplined => \A s \in Slots : call[s].obj # o

Enter(c) ==
    /\ call' = [call EXCEPT ![current_task] = c]
    /\ UNCHANGED <<slotVars, levelVars, countVars, switchVars, first_start, fault>>

-----------------------------------------------------------------------------
(* task.c: the thread-mode part of the API *)

(* task_start, task_start_arg: the scan for a slot already holding the object. *)
task_start(o) ==
    /\ Caller
    /\ call[current_task] = NoCall
    /\ Free(o)
    /\ \A t \in Slots : task_obj[t] # o
    /\ Enter([NoCall EXCEPT !.op = "start", !.obj = o])

(* task_kill: the scan for the slot holding the object, never the caller's  *)
(* own.  A disciplined application kills only tasks that cannot end         *)
(* meanwhile by themselves.                                                 *)
task_kill(o) ==
    /\ Caller
    /\ first_start
    /\ call[current_task] = NoCall
    /\ Free(o)
    /\ o # task_obj[current_task]
    /\ Disciplined => o \in Endless
    /\ \E t \in Slots :
         /\ task_obj[t] = o
         /\ \A k \in 0..(t - 1) : task_obj[k] # o
         /\ Enter([NoCall EXCEPT !.op = "kill", !.obj = o, !.slot = t])

(* Mutant: the id of the caller is loaded, as resolve_end does. *)
LoadOwnId ==
    /\ Caller
    /\ call[current_task].op = "kill"
    /\ Enter([call[current_task] EXCEPT
                !.op = "pid", !.id = task_id[current_task], !.slot = 0])

(* task_kill: task_id[i] is loaded into the argument register of the SVC. *)
task_kill_load ==
    /\ Caller
    /\ call[current_task].op = "kill"
    /\ Enter([call[current_task] EXCEPT
                !.op = "pid", !.id = task_id[call[current_task].slot], !.slot = 0])

-----------------------------------------------------------------------------
(* The services of svr_task.c *)

(* Mutant: the scheduler is not told that the caller gave up. *)
HandOverAsTick ==
    /\ systick' = TRUE
    /\ UNCHANGED normal_schedule

(* svc_service_hand_over after the caller's state has been settled: *)
(* normal_schedule = false; TRIGGER_SCHEDULER().                    *)
HandOver ==
    /\ normal_schedule' = FALSE
    /\ systick' = TRUE

(* The byte behind level_stash: kvar.c declares jmp_list next, so it is the *)
(* jump of slot 0, or padding where MAX_TASK_COUNT leaves room for some.    *)
Behind(jl) == Stray \cup {Byte(jl[0])}

(* level_stash as the code indexes it, one cell beyond the array included. *)
WithStray(g) == [k \in 0..MAX_TASK_COUNT |->
                    IF k = MAX_TASK_COUNT THEN g ELSE level_stash[k]]

(* The cell svc_service_task_create's binary search for priority p probes  *)
(* last; -1 when the upper pointer wraps below cell 0.                     *)
LastProbe(ls, p) ==
    LET probe[lo \in 0..MAX_TASK_COUNT, hi \in 0..MAX_TASK_COUNT] ==
          LET s == lo + ((hi - lo) \div 2) IN
          CASE ls[s] = p                -> s
            [] ls[s] < p /\ s + 1 <= hi -> probe[s + 1, hi]
            [] ls[s] < p /\ s + 1 > hi  -> s
            [] ls[s] > p /\ s = 0       -> -1
            [] ls[s] > p /\ 0 < s /\ lo <= s - 1 -> probe[lo, s - 1]
            [] ls[s] > p /\ 0 < s /\ lo > s - 1  -> s
    IN  probe[0, lstash_ptr]

Insert(s, p) == [k \in Slots |->
                   IF k = s THEN p
                   ELSE IF s < k /\ k <= lstash_ptr THEN level_stash[k - 1]
                   ELSE level_stash[k]]

(* lstash_ptr has not wrapped below 0, which it does when the tasks of      *)
(* levels that were lost end.                                               *)
StashInBounds == lstash_ptr <= MAX_TASK_COUNT

(* The priority of the new task is already a level, or becomes one at the   *)
(* cell s probed last; jl are the jumps, with the new task linked in.       *)
EnterLevel(jl, p) ==
    /\ StashInBounds
    /\ \E g \in Behind(jl), s \in 0..lstash_ptr :
         /\ s = LastProbe(WithStray(g), p)
         /\ \/ /\ WithStray(g)[s] = p
               /\ UNCHANGED <<level_stash, lstash_ptr>>
            \/ /\ WithStray(g)[s] # p
               /\ lstash_ptr < MAX_TASK_COUNT
               /\ level_stash' = Insert(s, p)
               /\ lstash_ptr' = lstash_ptr + 1

(* The search leaves level_stash, or the insertion would. *)
StashOverrun(jl, p) ==
    StashInBounds =>
        \E g \in Behind(jl), s \in -1..lstash_ptr :
            /\ s = LastProbe(WithStray(g), p)
            /\ s # -1 => WithStray(g)[s] # p /\ lstash_ptr >= MAX_TASK_COUNT

FirstIdle(i) == state[i] = IDLE /\ \A k \in 0..(i - 1) : Live(k)

(* Mutant: the left neighbour's jump is not redirected. *)
LinkForward(i) ==
    IF i = 0 THEN [jmp_list EXCEPT ![0] = 0]
    ELSE [jmp_list EXCEPT ![i] = jmp_list[i - 1] - 1]

(* Slot i joins the ring behind its left neighbour. *)
Link(i) ==
    IF i = 0 THEN [jmp_list EXCEPT ![0] = 0]
    ELSE [jmp_list EXCEPT ![i] = jmp_list[i - 1] - 1, ![i - 1] = 1]

(* Mutant: a second task of the top level does not start the timer. *)
RaiseLevelTimerOff(p) ==
    LET levels == {max_level} \cup {priority'[t] : t \in {k \in Slots : state'[k] # IDLE}}
    IN  \E m \in levels :
          /\ \A q \in levels : q <= m
          /\ max_level' = m
          /\ alc' = (IF m # max_level THEN 0 ELSE alc) + (IF p = m THEN 1 ELSE 0)
          /\ hlc' = IF m # max_level THEN 0 ELSE hlc
          /\ sched_on' = (sched_on \/ (first_start /\ m # max_level))

(* max_level, alc, hlc and the timer after a task of priority p arrived. *)
RaiseLevel(p) ==
    LET levels == {max_level} \cup {priority'[t] : t \in {k \in Slots : state'[k] # IDLE}}
    IN  \E m \in levels :
          /\ \A q \in levels : q <= m
          /\ LET raised == m # max_level
                 a == IF raised THEN 0 ELSE alc
                 h == IF raised THEN 0 ELSE hlc
                 arrived == IF p = m THEN Byte(a + 1) ELSE a
             IN  /\ max_level' = m
                 /\ alc' = arrived
                 /\ hlc' = h
                 /\ sched_on' = (sched_on \/ (first_start /\ (raised \/ arrived + h = 2)))

(* A free slot, its ring entry, identity, state, priority and level. *)
Occupy(i, o, p) ==
    /\ EnterLevel(Link(i), p)
    /\ jmp_list' = Link(i)
    /\ task_obj' = [task_obj EXCEPT ![i] = o]
    /\ task_id' = [task_id EXCEPT ![i] = NewId(i, total_task_count)]
    /\ state' = [state EXCEPT ![i] = SLEEP]
    /\ priority' = [priority EXCEPT ![i] = p]
    /\ total_task_count' = (total_task_count + 1) % IdSpan
    /\ task_count' = task_count + 1
    /\ RaiseLevel(p)

Rejected(p) ==
    \/ task_count >= MAX_TASK_COUNT
    \/ p > 127
    \/ p = 0 /\ first_start

svc_service_task_create(o, p) ==
    /\ Caller
    /\ call[current_task].op = "start"
    /\ call[current_task].obj = o
    /\ ~Rejected(p)
    /\ total_task_count < MaxStarts
    /\ \E i \in Slots : FirstIdle(i) /\ Occupy(i, o, p)
    /\ call' = [call EXCEPT ![current_task] = NoCall]
    /\ UNCHANGED <<current_task, next_task, normal_schedule, systick, pendsv,
                   first_start, fault>>

task_create_rejected(p) ==
    /\ Caller
    /\ call[current_task].op = "start"
    /\ Rejected(p)
    /\ Enter(NoCall)

task_create_overrun(p) ==
    /\ Caller
    /\ call[current_task].op = "start"
    /\ ~Rejected(p)
    /\ total_task_count < MaxStarts
    /\ \E i \in Slots : FirstIdle(i) /\ StashOverrun(Link(i), p)
    /\ Fail("overrun")

(* Another slot, free or not, still shows the priority of slot i. *)
LevelShared(i) == \E j \in Slots \ {i} : priority[j] = priority[i]

(* The cells from the level of slot i on move down by one. *)
Shift(i) ==
    /\ lstash_ptr' = Byte(lstash_ptr - 1)
    /\ \E g \in Behind(jmp_list) :
         level_stash' = [k \in Slots |->
           IF k < lstash_ptr /\ \E f \in 0..k : level_stash[f] = priority[i]
           THEN WithStray(g)[k + 1]
           ELSE level_stash[k]]

(* Mutant: a level is removed although other tasks share it. *)
LeaveSharedLevel(i) == Shift(i)

(* The level of slot i is removed from level_stash unless it is shared. *)
LeaveLevel(i) ==
    IF LevelShared(i) THEN UNCHANGED <<level_stash, lstash_ptr>> ELSE Shift(i)

(* Mutant: the left neighbour is taken to be the predecessor. *)
LeftNeighbour(j, i) == j = IF i = 0 THEN 0 ELSE i - 1

(* The first slot below i that jumps to i; i itself if there is none. *)
Predecessor(j, i) ==
    /\ j = i \/ j + jmp_list[j] = i
    /\ \A k \in 0..(j - 1) : k + jmp_list[k] # i

(* Mutant: the priorities of free slots count. *)
RecountAllSlots ==
    \E m \in {priority[t] : t \in Slots} :
        /\ \A t \in Slots : priority[t] <= m
        /\ max_level' = m
        /\ hlc' = 0
        /\ alc' = Cardinality({t \in Slots : priority[t] = m})

(* max_level, alc and hlc computed afresh from the task table. *)
RecountLevels ==
    LET levels == {0} \cup {priority[t] : t \in {k \in Slots : state'[k] # IDLE}}
    IN  \E m \in levels :
          /\ \A q \in levels : q <= m
          /\ max_level' = m
          /\ hlc' = Cardinality({t \in Slots : priority[t] = m /\ HasHibernateBit(state'[t])})
          /\ alc' = Cardinality({t \in Slots : priority[t] = m /\ ~HasHibernateBit(state'[t])})

(* svc_service_task_kill for slot i, with its tail call of HAND_OVER when a *)
(* task ends itself (self_kill spans the two services and is clear again).  *)
(* The loop that removes a level runs on behind level_stash if lstash_ptr   *)
(* has wrapped.                                                             *)
Remove(i, self) ==
    /\ LeaveLevel(i)
    /\ state' = [state EXCEPT ![i] = IDLE]
    /\ task_id' = [task_id EXCEPT ![i] = NoId]
    /\ task_obj' = [task_obj EXCEPT ![i] = NoObj]
    /\ task_count' = task_count - 1
    /\ \E j \in 0..i :
         /\ Predecessor(j, i)
         /\ LET linked == [jmp_list EXCEPT ![j] = @ + jmp_list[i]]
            IN  /\ jmp_list' = [linked EXCEPT ![i] = 0]
                /\ next_task' = IF self THEN next_task + linked[i] ELSE next_task
    /\ RecountLevels
    /\ sched_on' = TRUE
    /\ IF self THEN HandOver ELSE UNCHANGED <<normal_schedule, systick>>
    /\ call' = [call EXCEPT ![i] = NoCall, ![current_task] = NoCall]
    /\ fault' = IF LevelShared(i) \/ StashInBounds THEN fault ELSE "overrun"
    /\ UNCHANGED <<priority, total_task_count, current_task, pendsv, first_start>>

(* Mutant: a pid is good if it names a slot, occupied or not. *)
KillableSlot(id) == id.index \in Slots

(* The pid's slot exists and holds a task object to be cleared. *)
Killable(id) == id.index \in Slots /\ task_obj[id.index] # NoObj

svc_service_task_kill ==
    /\ Caller
    /\ call[current_task].op = "pid"
    /\ Killable(call[current_task].id)
    /\ Remove(call[current_task].id.index, FALSE)

(* The function of a task returned: the task kills itself, by its id. *)
resolve_end ==
    /\ ThreadMode
    /\ current_task # 0
    /\ call[current_task] = NoCall
    /\ task_obj[current_task] \notin Endless
    /\ Killable(task_id[current_task])
    /\ Remove(task_id[current_task].index, TRUE)

(* task_obj[i]->task_id = 0 through a null or out-of-bounds pointer. *)
task_kill_memfault ==
    /\ Caller
    /\ call[current_task].op = "pid"
    /\ ~Killable(call[current_task].id)
    /\ Fail("memfault")

(* hibernate() busy-waits instead when its caller is the only task. *)
WorthHibernating == task_count # 1

svc_service_hibernate(reverse) ==
    /\ ThreadMode
    /\ current_task # 0
    /\ call[current_task] = NoCall
    /\ WorthHibernating
    /\ state' = [state EXCEPT ![current_task] = IF reverse THEN HIBERNATE_L ELSE HIBERNATE_G]
    /\ IF priority[current_task] = max_level
       THEN hlc' = Byte(hlc + 1) /\ alc' = Byte(alc - 1)
       ELSE UNCHANGED <<hlc, alc>>
    /\ HandOver
    /\ UNCHANGED <<priority, jmp_list, task_id, task_obj, level_stash, lstash_ptr,
                   max_level, countVars, current_task, next_task, sched_on, pendsv,
                   first_start, call, fault>>

(* SVC HAND_OVER, issued by the waiting loops of share.c. *)
svc_service_hand_over ==
    /\ ThreadMode
    /\ current_task # 0
    /\ call[current_task] = NoCall
    /\ state' = [state EXCEPT ![current_task] = SLEEP]
    /\ HandOver
    /\ UNCHANGED <<priority, jmp_list, task_id, task_obj, levelVars, countVars,
                   current_task, next_task, sched_on, pendsv, first_start, call, fault>>

(* START_SCHEDULER chained to HAND_OVER: main becomes BaseTask's context. *)
svc_service_start_scheduler ==
    /\ ThreadMode
    /\ ~first_start
    /\ call[current_task] = NoCall
    /\ first_start' = TRUE
    /\ state' = [state EXCEPT ![current_task] = SLEEP]
    /\ HandOver
    /\ UNCHANGED <<priority, jmp_list, task_id, task_obj, levelVars, countVars,
                   current_task, next_task, sched_on, pendsv, call, fault>>

-----------------------------------------------------------------------------
(* scheduler(), the SysTick handler, and the PendSV handler *)

(* Steps after which the scheduler's walk can meet nothing new: one turn of *)
(* the ring for every level of level_stash, and one for max_level.          *)
MaxWalk == MAX_TASK_COUNT * (lstash_ptr + 1)

(* The walk next_task = next_task + jmp_list[next_task]: the slot reached   *)
(* after n steps.                                                           *)
Successor == [t \in Slots |-> t + jmp_list[t]]

Walk ==
    LET walk[n \in 0..MaxWalk] == IF n = 0 THEN next_task ELSE Successor[walk[n - 1]]
    IN  walk

Ring == {Walk[n] : n \in 0..MAX_TASK_COUNT}

(* The do-while over the ring comes back to where it started. *)
RingCloses ==
    /\ next_task \in Slots
    /\ \E n \in 1..MAX_TASK_COUNT : Walk[n] = next_task

(* How often the first n steps of the walk met current_task. *)
Met(n) == Cardinality({m \in 1..n : Walk[m] = current_task})

(* Mutant: the search starts from the last entry of level_stash. *)
LevelFromStash(c) == level_stash[lstash_ptr - 1 - c]

(* The level looked for once current_task has been met c times; level_stash *)
(* has no cell for it when LevelRead(c) is FALSE (lptr wrapped below 0, or  *)
(* lstash_ptr did).                                                         *)
LevelRead(c) == c = 0 \/ (c < lstash_ptr /\ StashInBounds)
LevelAfter(c) == IF c = 0 THEN max_level ELSE level_stash[lstash_ptr - 1 - c]

(* Step n of the walk ends the search, at a ready task of the level looked  *)
(* for, given the task states st.                                           *)
Stops(n, st) ==
    /\ st[Walk[n]] = SLEEP
    /\ LevelRead(Met(n))
    /\ priority[Walk[n]] = LevelAfter(Met(n))

(* The slots the search can end at, given the task states st.  Once lptr    *)
(* has left level_stash any byte of memory may be read as the level, and so *)
(* any ready task of the ring may be taken.                                 *)
Selected(st) ==
    IF \E n \in 1..MaxWalk : Stops(n, st)
    THEN LET first == CHOOSE n \in 1..MaxWalk :
                        Stops(n, st) /\ \A m \in 1..(n - 1) : ~Stops(m, st)
         IN  {t \in Slots : t = Walk[first] /\ Stops(first, st)}
    ELSE {t \in Slots : ~LevelRead(Met(MaxWalk)) /\ t \in Ring /\ st[t] = SLEEP}

(* The hibernating tasks in woken meet their condition and become ready. *)
Awake(st, woken) == [t \in Slots |-> IF t \in woken THEN SLEEP ELSE st[t]]

(* Mutant: a task that gave up is put to sleep like a preempted one. *)
SuspendedAlways == [state EXCEPT ![current_task] = SLEEP]

(* A preempted task is ready again; one that gave up has settled its state. *)
Suspended == IF normal_schedule THEN [state EXCEPT ![current_task] = SLEEP] ELSE state

Wakeable == {t \in Slots : t \in Ring /\ Suspended[t] \in Hibernating}

(* Mutant: the timer's need does not depend on the level switched to. *)
TimerForTopLevel(level) == ~(alc' = 1 /\ hlc' = 0)

(* The timer is left off only while the task switched to has no company. *)
TimerNeeded(level) == ~(alc' = 1 /\ hlc' = 0) \/ level # max_level

SwitchTo(t, st) ==
    /\ next_task' = t
    /\ state' = [st EXCEPT ![t] = ACTIVE]
    /\ sched_on' = TimerNeeded(priority[t])
    /\ pendsv' = TRUE

scheduler ==
    /\ fault = "none" /\ systick /\ ~pendsv
    /\ RingCloses
    /\ \E woken \in SUBSET Wakeable :
         LET st == Awake(Suspended, woken)
             tops == Cardinality({t \in woken : priority[t] = max_level})
         IN  /\ hlc' = Byte(hlc - tops)
             /\ alc' = Byte(alc + tops)
             /\ \E t \in Selected(st) : SwitchTo(t, st)
    /\ normal_schedule' = TRUE
    /\ systick' = FALSE
    /\ UNCHANGED <<priority, jmp_list, task_id, task_obj, level_stash, lstash_ptr,
                   max_level, countVars, current_task, first_start, call, fault>>

(* The wake-up scan or the search for the next task never ends. *)
scheduler_hangs ==
    /\ fault = "none" /\ systick /\ ~pendsv
    /\ \/ ~RingCloses
       \/ RingCloses /\ \E woken \in SUBSET Wakeable : Selected(Awake(Suspended, woken)) = {}
    /\ Fail("hung")

pendsv_handler ==
    /\ fault = "none" /\ pendsv
    /\ current_task' = next_task
    /\ pendsv' = FALSE
    /\ UNCHANGED <<slotVars, levelVars, countVars, next_task, normal_schedule,
                   sched_on, systick, first_start, call, fault>>

(* The SysTick counter reaches zero. *)
Tick ==
    /\ fault = "none" /\ sched_on /\ ~systick
    /\ systick' = TRUE
    /\ UNCHANGED <<slotVars, levelVars, countVars, current_task, next_task,
                   normal_schedule, sched_on, pendsv, first_start, call, fault>>

(* A task computes without calling the kernel, or a fault is never left. *)
Compute == (ThreadMode \/ fault # "none") /\ UNCHANGED vars

-----------------------------------------------------------------------------
Next ==
    \/ \E o \in Objs : task_start(o) \/ task_kill(o)
    \/ task_kill_load
    \/ \E o \in Objs, p \in Priorities : svc_service_task_create(o, p)
    \/ \E p \in Priorities : task_create_rejected(p) \/ task_create_overrun(p)
    \/ svc_service_task_kill
    \/ task_kill_memfault
    \/ resolve_end
    \/ \E reverse \in BOOLEAN : svc_service_hibernate(reverse)
    \/ svc_service_hand_over
    \/ svc_service_start_scheduler
    \/ scheduler
    \/ scheduler_hangs
    \/ pendsv_handler
    \/ Tick
    \/ Compute

Spec == Init /\ [][Next]_vars

(* The timer keeps counting and a pending exception is taken. *)
Fairness == WF_vars(Tick) /\ WF_vars(scheduler) /\ WF_vars(pendsv_handler)

FairSpec == Spec /\ Fairness

-----------------------------------------------------------------------------
(* Properties *)

States == {ACTIVE, SLEEP, IDLE, HOLD, HIBERNATE_G, HIBERNATE_L}

Ids == [index : 0..127, serial : Nat]

Calls == [op : {"none", "start", "kill", "pid"}, obj : Objs \cup {NoObj},
          slot : Slots, id : Ids]

(* Every kernel variable stays within the range its C type and its role     *)
(* give it: slots index the task table, jumps stay within the table.        *)
TypeOK ==
    /\ state \in [Slots -> States]
    /\ priority \in [Slots -> 0..255]
    /\ jmp_list \in [Slots -> -127..127]
    /\ task_id \in [Slots -> Ids]
    /\ task_obj \in [Slots -> Objs \cup {BaseObj, NoObj}]
    /\ level_stash \in [Slots -> 0..255]
    /\ lstash_ptr \in 0..255
    /\ max_level \in 0..255
    /\ alc \in 0..255
    /\ hlc \in 0..255
    /\ current_task \in Slots
    /\ next_task \in Slots
    /\ task_count \in 0..MAX_TASK_COUNT
    /\ total_task_count \in Nat
    /\ first_start \in BOOLEAN
    /\ normal_schedule \in BOOLEAN
    /\ sched_on \in BOOLEAN
    /\ systick \in BOOLEAN
    /\ pendsv \in BOOLEAN
    /\ call \in [Slots -> Calls]
    /\ fault \in Faults \cup {"none"}

LiveSlots == {t \in Slots : Live(t)}

(* The jumps jl lead from every slot of A to the next higher one, and from  *)
(* the highest to slot 0; the other slots jump nowhere.                     *)
IsRing(jl, A) ==
    /\ 0 \in A
    /\ \A t \in Slots \ A : jl[t] = 0
    /\ \A t \in A :
         LET u == t + jl[t] IN
         /\ u \in A
         /\ \/ u > t /\ \A k \in A : k <= t \/ u <= k
            \/ u = 0 /\ \A k \in A : k <= t

(* The live slots form one ring in the order of their numbers, closed at    *)
(* BaseTask, which is never removed; a free slot jumps nowhere.  This is    *)
(* what the walks of scheduler() and the unlinking of kill rest on.         *)
RingIntact == IsRing(jmp_list, LiveSlots)

(* At most one task is ACTIVE.  It is the one running, or while a context   *)
(* switch is pending the one switched to; a task that gave the processor    *)
(* up (hand over, hibernate, end) is not ACTIVE until it is chosen again.   *)
OneRunner ==
    /\ \A t \in Slots : state[t] = ACTIVE => t = next_task
    /\ normal_schedule /\ ~pendsv => next_task = current_task
    /\ normal_schedule /\ first_start => state[next_task] = ACTIVE
    /\ ~normal_schedule => /\ systick /\ ~pendsv
                           /\ \A t \in Slots : state[t] # ACTIVE

(* max_level is the priority of the most urgent live task. *)
MaxLevelExact ==
    /\ \E t \in Slots : Live(t) /\ priority[t] = max_level
    /\ \A t \in Slots : Live(t) => priority[t] <= max_level

(* The priority of every live task is a level scheduler() steps through. *)
LevelCovered ==
    \A t \in Slots : Live(t) =>
        \E k \in Slots : k < lstash_ptr /\ level_stash[k] = priority[t]

(* The cells level_stash is not using hold no priority a task can have. *)
UnusedCells ==
    \A k \in Slots : k >= lstash_ptr => level_stash[k] \notin 1..127

(* The levels of level_stash cover the live tasks, and keep doing so however *)
(* creations and kills of tasks of shared levels are interleaved; only a     *)
(* step that finds level_stash full, when the search of create and the shift *)
(* of kill read the byte behind it, can lose a level.                        *)
LevelsKeptUntilFull ==
    [][lstash_ptr < MAX_TASK_COUNT /\ LevelCovered /\ UnusedCells
         => LevelCovered' /\ UnusedCells']_vars

(* task_count counts the live slots. *)
TaskCountExact == task_count = Cardinality(LiveSlots)

(* A task id names its slot and no two live tasks share one: a pid decoded  *)
(* by kill and a mutex owner's id mean one task.                            *)
IdsIdentify ==
    \A t \in Slots : Live(t) =>
        /\ task_id[t].index = t
        /\ \A u \in Slots \ {t} : Live(u) => task_id[u].serial # task_id[t].serial

(* No task_t object occupies two slots. *)
ObjectOnce ==
    \A t, u \in Slots : task_obj[t] \in Objs /\ task_obj[t] = task_obj[u] => t = u

(* The timer is stopped under a running task only while that task is the    *)
(* only live one of the highest level: nobody it shares the level with      *)
(* waits for a tick that never comes, whatever alc and hlc have come to.    *)
TimerOffAlone ==
    ThreadMode /\ first_start /\ ~sched_on =>
        /\ priority[current_task] = max_level
        /\ \A t \in Slots \ {current_task} : Live(t) => priority[t] < max_level

(* A kill issued through task_kill removes exactly the task of the object   *)
(* the caller named, in spite of the preemptions between the scan, the      *)
(* loading of the id and the SVC.                                           *)
KilledIsNamed ==
    [][svc_service_task_kill =>
         \A t \in Slots : Live(t) /\ state'[t] = IDLE =>
             task_obj[t] = call[current_task].obj]_vars

(* scheduler() never passes over a ready task of the highest level in       *)
(* favour of a lower one, except the task that was just running.            *)
TopLevelFirst ==
    [][(pendsv' /\ ~pendsv /\ \E t \in Slots \ {current_task} :
           state'[t] = SLEEP /\ priority[t] = max_level)
         => priority[next_task'] = max_level]_vars

(* A ready task of the highest level gets the processor, unless a more      *)
(* urgent task arrives, it is killed or the kernel fails.                   *)
TopLevelRoundRobin ==
    \A t \in Slots :
        (first_start /\ state[t] = SLEEP /\ priority[t] = max_level)
            ~> (state[t] # SLEEP \/ priority[t] # max_level \/ fault # "none")

-----------------------------------------------------------------------------
(* The inductive invariant *)

(* A slot is live exactly while it holds an object and an id; the id's      *)
(* index is the slot, and BaseTask has the lowest priority.                 *)
Identity ==
    /\ task_obj[0] = BaseObj /\ priority[0] = 0
    /\ \A t \in Slots : Live(t) <=> task_obj[t] # NoObj
    /\ \A t \in Slots : Live(t) => task_id[t].index = t
    /\ \A t \in Slots : ~Live(t) => task_id[t] = NoId

(* Every slot of A but slot 0 is jumped to from a lower one. *)
HasLower(jl, A) == \A i \in A \ {0} : \E j \in A : j < i /\ j + jl[j] = i

Linked == HasLower(jmp_list, LiveSlots)

(* A task inside task_kill is not BaseTask and does not aim at itself. *)
CallsAim ==
    \A s \in Slots :
        /\ call[s].op = "kill" => s # 0 /\ call[s].slot # s
        /\ call[s].op = "pid" => s # 0 /\ call[s].id.index # s

(* What depends on which slots are live, and not on who runs. *)
TableInv ==
    /\ Identity
    /\ RingIntact
    /\ Linked
    /\ MaxLevelExact
    /\ TaskCountExact

(* Everything the kernel keeps true, whoever calls it, until BaseTask dies. *)
KernelInv ==
    task_obj[0] = BaseObj =>
        /\ TypeOK
        /\ TableInv
        /\ OneRunner
        /\ Live(next_task)
        /\ CallsAim

(* What a disciplined application adds: the object of a call in flight is   *)
(* in no other call, an object about to start is in no slot, and one about  *)
(* to be killed stays in the slot the call has found.                       *)
CallsSound ==
    /\ task_obj[0] = BaseObj
    /\ \A t \in Slots \ {0} : task_obj[t] # BaseObj
    /\ ObjectOnce
    /\ \A s \in Slots :
         /\ call[s].op = "none" => call[s] = NoCall
         /\ call[s].op = "start" =>
              call[s].obj \in Objs /\ \A t \in Slots : task_obj[t] # call[s].obj
         /\ call[s].op = "kill" =>
              call[s].obj \in Endless /\ task_obj[call[s].slot] = call[s].obj
         /\ call[s].op = "pid" =>
              /\ call[s].obj \in Endless
              /\ call[s].id.index \in Slots
              /\ task_obj[call[s].id.index] = call[s].obj
         /\ \A u \in Slots \ {s} : call[s] # NoCall => call[s].obj # call[u].obj

DisciplinedInv == Disciplined => KernelInv /\ CallsSound

=============================================================================
