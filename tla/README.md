# A TLA+ development for skibios

skibios is a small preemptive real-time kernel in C and assembly for Cortex-M3/M4
(with a second port for mpc57x8 and a Windows simulation, ossim). This directory holds
TLA+ models of it, the TLC configurations that check them on small instances, and
proofs checked by TLAPS. The models follow the ARM port.

## Inventory of the system

| Component | State | Operations | Interacts with |
|---|---|---|---|
| Scheduler and context switch (`src/kernel.c`, `arch/arm-m3m4/pendsv_handler.S`) | `current_task`, `next_task`, `normal_schedule`, `first_start`, the SysTick and PendSV pending bits | `scheduler`, hand over, `start_scheduler`, the PendSV handler | reads the task table; is triggered by ticks and by services |
| Task table and services (`service/svr_task.c`, `task.c`, `kvar.c`) | per slot `state`, `priority_Array`, `jmp_list`, `task_id`, `task_obj`; `level_stash`, `lstash_ptr`, `max_level`, `alc`, `hlc`, `task_count`, `total_task_count` | create, kill, end of a task, hibernate; `task_start` and `task_kill` scan in thread mode before they issue an SVC | starts and stops the timer, triggers the scheduler |
| Priority promotion and mutexes (`share.c`, promote and demote in `svr_task.c`, `mutex.S`) | the mutex word, `mutex_stash`, stashed priority, `maxp_level`, `alcp`, `hlcp`, HOLD | `spin_lock`, `mutex_lock`, `mutex_unlock`, promote, demote | task table, hand over |
| Semaphores (`share.c`, `semaphore.S`) | a byte | increment, decrement with retries | hand over |
| Base service and permissions (`baset.c`, `permissions.c`, `svr_permissions.c`) | `invocated_task`, `invocated_args`, `permissions` | invoke, release, grant | promotes and demotes BaseTask |
| Global heap (`heap.c`, `svr_heap.c`) | marker list, `fsll_start`, `fsll_end`, `blist_size`, `heap_remaining` | allocate, release | SVC |
| Memory protection (`umpu.c`, `svr_umpu.c`) | `mpu_table` | protect, unprotect | context switch |
| Interrupt services (`interrupt.c`, `svr_interrupts.c`, `arch_interrupt.c`) | NVIC registers, vector table | register, enable, disable, priority | permissions |
| SVC dispatch (`svctable.c`, `svc_handler.S`) | none | lookup, chaining of services | all services |
| OS timer (`os_timer.c`) | SysTick registers | on, off, reload | raises `scheduler` |
| Start-up (`startup.c`, `kernel_init`, `arch/arm-m3m4/os_util.c`) | vector tables, MPU, NVIC | `skibios_boot`, `kernel_init` and its steps | uses SVCs while it sets the kernel up |
| Other services of `kernel.c` | `cpu_freq`, any register | hwreg write and read, CPU frequency, device reset | permissions, OS timer |
| Ports mpc57x8 and ossim; generators `objgen`, `devattrb.py` | | | |

What is hard here: the API scans the task table in thread mode and can be preempted
before its SVC; the scheduler's loops run in an exception and must end; the ring
`jmp_list`, the level table and the counts are maintained incrementally by create, kill,
hibernate and wake-up, in any order; free slots keep stale data that later steps read;
byte arithmetic wraps; the timer is switched off on the strength of derived counts; locks
rest on exclusive accesses that any tick may break; promotions nest and put aside levels
that other services go on changing; BaseTask answers one caller at a time in several
steps; the heap's list is edited by hand-written assembly; boot uses services that are
not set up yet, and a reset can come at any time. The `hazards` list of PROJECT.json gives
each of these with its line.

What makes the system correct: the ring links exactly the live slots; one task runs;
`max_level` and the levels of `level_stash` cover the live priorities; ids name slots;
the timer is off only when nobody waits for a tick; a ready task of the top level is
neither passed over nor starved; a kill removes the task that was named; a mutex has one
holder and a waiter in HOLD is woken; an invocation of BaseTask is answered with what it
asked for; a semaphore loses no increment; blocks of the heap are disjoint and accounted
for; vectors are in place before they are used and hardware changes only under permission.

## Modules

**Kernel** models the scheduler, the context switch, the task services and the API of
`task.c`. Variables carry the names of the source (`priority` is
`priority_Array[..][TASK_PRIO_CURRENT]`); `sched_on`, `systick` and `pendsv` are the
SysTick enable bit and the two pending bits; `call[t]` is the API call the task of slot t
is inside of; `fault` is the absorbing failure.

* A task's instruction runs only while no exception is pending; an SVC is one step; a
  pending PendSV is served before SysTick. This is what the exception priorities of the
  port give.
* `task_start` and `task_kill` are the scans. The SVC is a step of its own
  (`svc_service_task_create`, `svc_service_task_kill`), and `task_kill` reads the id in
  a step between (`task_kill_load`), because each can be preempted there.
* A service that chains to HAND_OVER (`*svc_num = HAND_OVER`) is one step with it. The
  flag `self_kill` is set and cleared within such a step and is no variable.
* `LastProbe`, `Insert` are the binary search and the insertion as written, with the
  cell behind the array (`WithStray`) where the code reads it. That cell is `jmp_list[0]`
  if the linker keeps the declaration order of `kvar.c` and `MAX_TASK_COUNT` leaves no
  padding, or a byte of padding: `Behind` is the set of both, with the padding in `Stray`.
  `LeaveLevel`, `Predecessor`, `RecountLevels` are the loops of kill, `RaiseLevel` those of
  create.
* `scheduler` is the whole handler: suspension of the running task, wake-up scan,
  search, timer, PendSV. The search is described by the walk along the ring: `Met`
  counts how often it met `current_task`, which is how often the level was lowered.
* The condition of a hibernating task is application data: any subset of the
  hibernating tasks may wake at a scan.
* Outcomes the source does not determine: a write behind `level_stash` or a search that
  leaves it, a store through a null `task_obj`, and a loop that cannot end set `fault` to
  "overrun", "memfault", "hung" and nothing is claimed afterwards. So does the loop of
  kill that moves the cells of `level_stash` down (`Shift`) when `lstash_ptr` has wrapped to
  255, because it then runs on over the variables behind the array. When `lptr` wraps
  below `level_stash` some other byte is read as the level, so any ready task of the
  ring may be chosen.

Left out of Kernel: the stack contents and MPU settings of the context switch, `error`
fields, the create-time hibernate flag (`task_t.hibernate & 0x80`, which leaves the slot
IDLE), `enable_dws` (always true), `task_kill` of the caller's own object (the thread goes
on running on a freed stack) and `task_kill` before `start_scheduler` (it turns SysTick
on while main still runs on the main stack). The priority of an object is chosen when its
SVC runs. BaseTask calls no task service.

`Disciplined = TRUE` restricts the application: while a call concerns an object no other
call does, and only tasks that never return (`Endless`) are killed. Without it the races
of the API are modelled.

**TaskSystem** is the kernel as an application sees it: tasks by name, each with its
priority, the ones that wait and the one that runs. **KernelTasks** is the mapping: `LevelOf`
reads the priority through the slot that holds the object, `Waiting` are the live tasks that
are neither ACTIVE nor SLEEP, `Runner` is the task chosen last until the scheduler
chooses again. The scan of the API calls, the context switch, ticks, hand overs and faults are
not seen. `Dispatch` lets any task stop waiting, as the conditions of hibernating tasks are
application data.

**Sharing** extends Kernel with `spin_lock`, `mutex_unlock` and the promote and demote
services. `lk[t]` is the place of slot t's task inside the two functions, `held[t]` what it
has locked; `monitor` is the exclusive monitor, which every exception clears. LDREXB,
STREX, the read of the owner's index, the comparison of priorities, the SVC of the
promotion and the hand over are steps of their own; so are STRB and the read of
`mutex_stash` in unlock. A mutex word is an id record; `LockByte` is the width of the byte
`mutex_lock` tests. Every action of Kernel is taken along (`TaskService`, `ShareHibernate`,
`ShareSchedule`, `ShareSwitch`, `ShareTick`, `ShareStart`) with what it does to the monitor and
to a thread that is gone (`Gone`), and a tick may fall between any two instructions. The
history variable `disturbed` becomes true at the two things the code does not guard against:
a promotion of a task that no longer has the mutex, or that `maxp_level` cannot tell from
the first one (`Justified`), and a creation, kill or end while somebody is promoted (`Upset`).
It is in no guard: the model goes on as the code does. `ENABLE_SAFE_LOCK` is 0 (with it on,
`spin_lock` indexes its own byte `state` and does not compile).

**BaseService** extends Sharing with the base service: `svc_service_invoke_base` is the
SVC with the promotion it chains to; BaseTask's loop is three steps (read the invocation,
grant or reset, release with the demotion it chains to), with ticks between. The argument
`*args` is the access code. A device reset ends the behaviour (`fault = "reset"`).

**Semaphores** models `semaphore_increment` and `semaphore_decrement` for tasks that are
switched at any instruction; `ups` and `downs` count stored operations. **Counter** is the
abstract semaphore it implements (`value <- sem`, the same counts).

**Heap** models `heap.c` and `svr_heap.c`. The bookkeeping region is a function `cell`
from word positions to markers (a size with free bit, and a signed offset), with the words
just outside the region, because `heap_init` and the split search reach them. `Visit` and
`Tracked` are the walk along the list; `Split`, `Freed`, `Clubs`, `Pred` are the pieces of
the assembly. Sizes are in words; the 15 bit size and the free bit are `Half`. Requests are
numbers of bytes, zero and those whose rounding wraps included (`Words`). The history
variable `unchecked` becomes true at a step the code should have refused and does not: an
empty block is handed out, or more words than remain (two callers pass the check in thread
mode together), or a marker is converted whole because no word is left for the rest, or a
release leaves a free last marker or cuts the sum of sizes to a half-word. The step is
taken as the code takes it. **Allocator** is the abstract heap (`blocks <-` the allocated
markers, `void <- unchecked`).
The 16 bit range checks of list offsets (`heap.c:182` and the like) cannot fail with a
region of 256 or 512 words and are left out.

**Machine** models the path from reset to `main`, the SVC handler with its table and
chaining, and the services that act on hardware registers. Registers are sets of bits. The
boot is one action per step of `kernel_init`; the two places that use an SVC during boot
go through the same handler. A reset (a pin, a watchdog, DEVICE_RESET) may come at any
step and keeps RAM. The services on tasks appear only with the service they chain to. The
RAM's contents at power-on, and R0 at the CPU_FREQ call, are arbitrary. Interrupt numbers
are not bounded: the code checks only that they are at least 16, the vector's address wraps
(`Cell`), and the priority's number is cut to a byte. `Store` is a store at an address
nothing checks, by HWREG_WRITE, HWREG_READ or behind one of the tables of register addresses:
it changes nothing the model has, or a register of the interrupt controller, the base or a
vector of the table, reload, frequency, permissions, `current_task` or `first_start`. The
history variable `wild` says that such a store, or a service given the number of no
interrupt of the device, has hit one of these since the reset. A store that faults is left
out. After a supervisor call through a vector that is not the kernel's (`svc.pc = "lost"`)
only a reset goes on.

**MCKernel**, **MCSharing**, **MCNesting**, **MCBaseService**, **MCSemaphores**,
**MCHeap** and **MCMachine** give instances; MCKernel and MCHeap also state what comments
of the source say and the code does not keep. The proofs are in **KernelProofs**,
**LevelProofs** and **SchedulerProofs** (about Kernel), **SharingProofs**,
**BaseServiceProofs**, **SemaphoreProofs**, **HeapProofs** and **MachineProofs**.

Definitions commented as mutants are seeded bugs, each named in PROJECT.json with the
property that detects it.

## Runs

| Run | Instance | Shows |
|---|---|---|
| kernel | 4 slots, 3 objects, 2 levels, 3 application starts, disciplined | TypeOK, RingIntact, OneRunner, MaxLevelExact, TimerOffAlone, TopLevelFirst, ImplementsTaskSystem |
| kernel_reuse | 3 slots, 2 objects, priorities 0, 1, 2 and 128, 4 application starts, `jmp_list[0]`, 0 or 255 behind `level_stash`, fair | IdsIdentify, DisciplinedInv (the inductive invariant), LevelsKeptUntilFull, TopLevelRoundRobin, KilledIsNamed |
| kernel_races | 4 slots, 3 objects, one level, undisciplined | KernelInv |
| sharing | 3 slots, 2 objects, one mutex, 3 application starts, tasks created, killed, ending and hibernating, ticks everywhere | STypeOK, MutualExclusion, HoldIsAnswered |
| sharing_nesting | 4 slots, 3 tasks in a chain over 2 mutexes, created in order before the scheduler starts, ticks everywhere | HoldIsAnswered, PromotionsNest |
| sharing_live | 3 slots, 2 objects, one mutex, 1 try, 2 application starts, ticks everywhere, fair | HoldEnds |
| base | 3 slots, 2 objects, tasks coming and going, codes 0 (reset) and 1, fair | InvocationHeld, AnswerFits, InvocationAnswered |
| semaphores | 2 tasks, a byte of 4 values starting at 2, 2 tries, 2 increments, fair | TypeOK, RegisterFresh, ImplementsCounter, CallsReturn |
| heap | 2 callers, 10 words of heap, markers of up to 7 words, 12 cells, requests of 0, 1, 7 and 8 words and one that wraps to 0, 4 blocks | TypeOK, ListSound, RemainingExact, OwnersAgree, ImplementsAllocator |
| machine | BaseTask and one task, interrupt numbers 3 (an exception), 17 and 18, 273 (whose low byte is 17) and 0x4000000B (which wraps to the SVC vector), 2 frequencies (one refused), 2 permissions, stores of one value anywhere, fair handler | VectorsReady, EnablesAsAsked, PriorityBytesApart, TickFitsFrequency, NvicGuarded, CallsReturn |

Three application tasks are the fewest with which a slot in the middle of the ring can be
freed and a neighbour of it killed, and a top level can hold two tasks above a lower one.
Four starts in two slots reuse each slot with another priority, which is when stale
priorities, the byte behind `level_stash` and a full `level_stash` come into play. MaxStarts
bounds the creations (BaseTask's included); the states between them are unbounded in
length. Three tasks and two mutexes are the fewest with a promoted owner that waits for
another promoted owner. `MaxDrift` bounds how far wake-ups that are not counted while
somebody is promoted let `hlc` grow. Semaphores wrap with two increments from 2 in a byte
of 4 values. Four blocks of 1 and 7 words make every case of a release happen: first, middle
and last marker, a free marker before, after and on both sides, a split, and free
neighbours that together exceed the size field of 7 words. Two callers and 10 words make two
requests that pass the check together but do not both fit. The
two interrupts of Machine share an enable register and a priority register, which is where
a wrong shift shows; the other three numbers are refused, cut and wrapped.

The restrictions the passing runs put on the application, and why:

* `Disciplined` (all that contain Kernel but kernel_races): without it task_kill and
  task_start race, which kernel_races covers.
* One order of locking (sharing_nesting): with both, two tasks spin for ever. The two
  invariants of the run hold all the same; the theorems have no such restriction.
* base has no mutexes: promotions for a mutex and for BaseTask at once share
  `maxp_level` and the one stash per slot, and InvocationAnswered does not hold of them.

Two more constraints cut behaviours where the properties stop claiming anything: MCNesting
follows them until a promotion is upset (`Bounded`, which also fixes the order of the creations
before the scheduler starts), MCHeap until `unchecked` and MCMachine to the end of the call that
makes a wild store (`Followable`). The runs sharing and sharing_live go on after a promotion is
upset; mutual exclusion is checked there too. The theorems have none of these constraints.

Fairness. SysTick counts while it is enabled (`Tick`), and a pending exception is taken
(`scheduler`, `pendsv_handler`): weak fairness, which the hardware gives. Application
code is not fair: a task may compute for ever. The claims of Kernel are only for the
top level and stop being ones when the search hangs; lower levels can be starved by design.
Inside `spin_lock` and `mutex_unlock` a task that is given the processor again and again
executes an instruction in the end, because a tick is far longer than one: strong
fairness of its steps, of those inside a call of the kernel, and of its unlock (a task that
holds a lock means to release it).
BaseTask's steps are weakly fair, it has the highest priority while it is promoted. A
task inside a semaphore call gets the processor again and again (strong fairness
of its steps and of the switch to it), which holds for tasks of one level. The SVC handler
is weakly fair: nothing preempts it but a reset, and after a reset the call is over.

Runs that show a violation, each a disagreement between a comment and the code
(`findings` in PROJECT.json):

* kernel_hang: a task of a lower level ends while all tasks of `max_level` hibernate;
  `current_task` is no longer in the ring, the level is never lowered, and the
  search loop never ends.
* heap_overlap: the last block is released after a free one. The free marker becomes the
  end of the list and is kept; a split of it makes a circle, the next append cuts the rest
  off, and its words are handed out again.

### Further behaviour the models show

None of these has a run of its own; each is reached by the model when the restriction
named above, or the bound named here, is lifted.

* `level_stash`: a level is inserted at the last cell probed and the array is not
  sorted; stale priorities of free slots keep dead levels in it until a creation writes
  past its end (`task_create_overrun`). Once it is full, kill copies the byte behind it into
  it, and a creation takes that byte for its level: with 3 slots and `jmp_list[0] = 1`, create
  a task of level 1 and one of level 2, end the second, end the first, create one of level 1:
  that task has no level in `level_stash`. When such tasks end, `lstash_ptr` is decremented
  once too often and can wrap to 255. `max_level`, the ring and the dispatching do
  not read `level_stash` and stay right (DisciplinedInv, TopLevelRoundRobin).
* The recount of kill counts free slots and never recognises a hibernating task (0x80
  against 80 decimal).
* `task_kill` preempted before it reads the id kills BaseTask or the slot's next occupant;
  two callers of `task_start` start one object twice; after 65535 creations the serial
  carries into the slot number of an id.
* The id of the 256th creation has a zero low byte, and a mutex it holds looks free.
* A tick between the exclusive load and the promotion lets the owner unlock, end or be
  replaced; a STREX that fails on a free mutex promotes its last owner, or BaseTask if there was
  none: then nobody wakes the caller from HOLD. A promoted task that ends leaves `max_level`
  above 127 and the scheduler without a ready task. `disturbed` is true in all of these.
* The first promotion while `max_level` is 127 puts 127 aside in `maxp_level`, which is the
  value that says that nobody is promoted. The next promotion takes itself for the first:
  two tasks have level 128, and the one demoted first takes `max_level` down for both
  (`Justified` tells this case apart).
* A task in a reused slot has the permissions of the one before it.
* A decrement of a semaphore at zero reports success; an increment at 255 stores 0.
* `heap_init` clears the word behind the bookkeeping region and not its first one; a split
  may use the word below it. Joining with the marker before has no size check: the sum is cut
  to a half-word, and the words above it belong to no marker. Blocks may
  end behind the SRAM: `heap_remaining` is checked in thread mode, so that two callers
  overcommit it and it wraps, and it knows nothing of fragmentation. With no cell left a
  block is converted whole and `heap_remaining` drifts. A request of no bytes, or of so many
  that their rounding wraps to none, gets a marker of no words, which looks like an empty word.
* HWREG_WRITE stores anywhere in privileged mode ("ToDo: Argument check", `kernel.c:218`), so a
  task with only that permission can change the interrupt controller, the timer, the vectors and
  the permissions. Interrupt numbers from 144 on index behind the tables of register addresses,
  and 0x4000000B passed to `interrupt_register` replaces the SVC vector.
* arch_kernel_init's calls of `interrupt_set_priority` are refused, because BaseTask gets
  its permissions later. `cpu_freq` is zero after boot, so the reload is zero and there is
  no tick until `cpu_freq_update`, whose macro loads R1 while the service reads R0. The
  calls of the heap and of the user regions end as unknown codes with a meaningless
  return value. Without an MPU kernel_init leaves early, without BaseTask, and reports
  success.

## Proofs

**KernelProofs** proves, for every `MAX_TASK_COUNT` in 2..127, every set of objects and
priorities and every byte behind `level_stash`, under one hypothesis, `IdsFit` (fewer creations
than id serials; after 65535 creations they wrap):

* KernelSound: `Spec => []KernelInv`. Whatever the application does, types, ring, identities,
  `max_level`, task count and the running task are sound until a kill hits BaseTask.
* DisciplineSuffices: `Spec => []DisciplinedInv`; with `Disciplined` this gives
  TypeCorrect, RingSafe, OneRunnerAlways and TopLevelExact.
* LevelsSafe: `Spec => LevelsKeptUntilFull` with `Disciplined`. `level_stash` is no part of the
  invariant, because a full one can lose a level; the theorem says that nothing else can. A
  step that does not find it full keeps the levels of the live tasks in it
  (`LevelCovered`) and the cells behind `lstash_ptr` free of priorities (`UnusedCells`, which
  the first needs, since the search of create looks one cell too far).

The argument. RingIntact alone is not inductive: kill looks for the first slot that jumps to
the victim, so the invariant adds that every live slot but 0 is jumped to from a lower live
one (`Linked`), and that a slot is live exactly while it holds an object and an id whose index
is the slot (`Identity`). RingInsert and RingRemove are the two facts about rings;
LevelEntered and LevelLeft say that entering and leaving a level loses no other level, sorted
or not. Steps that leave the set of live slots alone are handled at once by SameTable.
Undisciplined calls can kill BaseTask; from then on nothing is claimed (`task_obj[0] =
BaseObj` in KernelInv), and CallsAim says that until then a call never aims at its own caller.
Under discipline CallsSound says that the object of every call in flight is still where the
call found it.

**LevelProofs** adds, under `IdsFit` and discipline, IdsIdentifyTasks
(`Spec => []IdsIdentify`) and TimerStopsOnlyAlone (`Spec => []TimerOffAlone`). The first
needs that the serials of live tasks have been given out by `total_task_count`
(`SerialsGiven`). The second is about bytes that drift: kill counts free slots, wake-up
counts only tasks of the current top level, and both bytes wrap. What survives is
`CountsCover`: `alc + hlc` modulo 256 is at least the number of live tasks of the top level
and exceeds it by at most 126, so that it cannot be 1 while there are two of them;
`TimerStopped` says with which values of the two the timer was stopped.

**SchedulerProofs** is about the walk of `scheduler` along `jmp_list`: TopLevelIsFirst
(`Spec => TopLevelFirst`) and WakeUpScanEnds (`Spec => []RingCloses`). Both follow the ring by
induction, used in the form that a nonempty set of naturals has a least element
(LeastNat): the first place where the walk would leave the claim is looked at.
The first turn of the ring meets every live slot before it meets `current_task` again, so
the level is not lowered before all others have been offered the processor.

It ends with KernelImplementsTasks (`Spec => ImplementsTaskSystem`), under discipline and
`IdsFit`. The theorem puts the others together: that an object
is in one slot only (`Tenants`, from CallsSound) makes `LevelOf` a function of names, KillHits says
that the kill removes the object named, OneRunner and `MainRuns` (before the start main
runs in BaseTask's place) that only a ready task acts, MaxLevelExact and SchedulerPrefersTop
that the dispatched task is foremost. `Shown` says how tasks and slots correspond; it is shown
once (TenantsShown) and used before and after each step. There is one lemma per
abstract action; OthersNotSeen has the stuttering steps. A fault is a stutter: the system of
tasks stops and no task is lost, but nothing is dispatched any more.

**SharingProofs** proves SharingTyped (`SSpec => []STypeOK`) and MutexesExclude
(`SSpec => []MutualExclusion`) for every set of mutexes, disciplined or not, preemptible
anywhere, under `IdsFit` and `LockBytesFit` (fewer creations than the byte `mutex_lock` tests
can tell from zero; the 256th id looks like an open mutex). The inductive invariant `SInv` says
that the word of a held mutex is locked and names its holder (`HolderNamed`), that a task
about to store with the monitor armed stores into an open mutex (`MonitorGuards`), and
that an id names its slot (`IdsGood`). It needs none of KernelInv, which promotions break.

HoldsAnswered (`SSpec => []HoldIsAnswered`) and PromotionsStayNested
(`SSpec => []PromotionsNest`) are about promotions, for every number of tasks and mutexes, every
relation `Uses` and ticks anywhere, under discipline, `IdsFit` and `LockBytesFit`. Both claim
something until a promotion is upset (`disturbed`), which the code does not prevent. Neither is
inductive. Demotion wakes the first task it finds in HOLD for the
mutex and restores what one promotion put aside, so the invariant is
`SInv /\ (disturbed \/ NestInv)`, and `NestInv` describes the whole stack:

* `LevelsStack`: a task has a level above 127 exactly while it has a mutex in its stash, no two
  share a level, and the levels from 128 to `max_level` are all taken.
* `TopKept`: `max_level`, or `maxp_level` while somebody is promoted, is the highest of the
  priorities the live tasks were created with, which are in `stashed` for the promoted.
* `Waits`: a task in HOLD is at the retry of `spin_lock`, waits for a mutex another task is
  promoted for, alone, and if it is promoted itself that task is one level above it.
* `Answers`: a promoted task holds its mutex or is about to be demoted for it, no other is
  promoted for that mutex, and all but the highest are in HOLD.

The last two make promotion and demotion the push and the pop of a stack. A promotion that is
justified has a target that has the mutex and is not promoted, and a caller of the top level, the
only one that runs; any other sets `disturbed`. The task that demotes itself is the highest,
because the others are in HOLD and do not run. For this `Runs` says who may run (SchedulerRuns:
the scheduler selects no task in HOLD and changes no HOLD). `NestInv` has the kernel's own
invariant in it, which holds through promotions too: the highest level of the stack is the
highest priority the task table shows (AroundKernel). So a creation or an end with nobody promoted is
a step of the kernel alone (KernelNests), and one during a promotion sets `disturbed`. A cycle
of waiting tasks is no counterexample: its members are at levels where `spin_lock` no
longer promotes.

**BaseServiceProofs** proves InvocationsHeld (`BSpec => []InvocationHeld`) and AnswersFit
(`BSpec => AnswerFits`) for applications without mutexes (`OnlyBase`, the restriction of
the run), under discipline and `IdsFit`, for every number of slots, set of
objects, priorities and codes. The invariant is a case distinction: in `Quiet` nobody
is promoted and the kernel's invariant holds; in `Promoted(w)` BaseTask works for the caller w
alone, at level 128 and with the timer off, and the tables are what demotion turns
back into the kernel's invariant (`PromotedTable`, with BaseTask's priority read as 0).
INVOKE_BASE leads from the first to the second, RELEASE_BASE back, and between the two
only BaseTask and the scheduler run (`BaseNext`). `level_stash` is in neither, as no
promotion reads it. After a fault or a reset nothing changes.

**SemaphoreProofs** proves, for every set of tasks, span, start value and number of tries,
SemaphoreInvariant: `Spec => [](TypeOK /\ RegisterFresh)` (SemaphoreTyped is its first
half), and SemaphoreRefinesCounter: `Spec => ImplementsCounter`. The conjunction of TypeOK and
RegisterFresh is inductive: a load makes the register fresh and arms the monitor, and
every step that changes the semaphore or the running task disarms it. The refinement
needs it at one place: a store that succeeds is a step of the counter because the
register is fresh.

**HeapProofs** proves HeapTyped, ListStaysSound, OwnersStayAgreed, RemainingStaysExact and
HeapImplementsAllocator: `Spec` implies `[](~unchecked => TypeOK)`, `[]ListSound`, `[]OwnersAgree`,
`[]RemainingExact` and `ImplementsAllocator`, for every region, size field, heap size and set of
callers and requests, without a hypothesis. The properties claim something until a step the code
should have refused; `unchecked` says in the model which steps these are, and heap_overlap shows
what comes after one of them. Free neighbours whose sum is too large for the size field are
left unjoined by the code, and are no such step as long as the sum is not stored.

The invariant is `~unchecked => IndInv`. `IndInv` says that there are a set `M` of cells and
an address for each of them (`Sound(M, ad)`) such that the cells of `M` are markers and all
others that `heap_init` clears are empty (`Markings`), each but the last points to another one
whose block starts where its own ends and each but the first is pointed to (`Chain`), the
blocks have words and are disjoint (`Apart`), the last is not free (`Joined`), the allocated
ones are `owned`, and `blist_size` counts `M`. Of a set it is known without any walk what a
change of two cells does: SplitKeeps, AppendKeeps, CutKeeps, JoinKeeps and FreeClubbed are the
edits of the assembly. The walk is needed where the code walks. WalkMeets says that `Visit`
meets exactly the cells of `M` within `blist_size` steps and that `Tracked` gives their
addresses. It does not close into a circle because addresses grow, and it reaches every cell
because of the cells it misses the one with the least address would follow one it meets. From
it follow that the searches find what they look for (PlaceOfBlock, PredIs, AddressIs) and that
IndInv implies ListSound and OwnersAgree. `Visit` and `Tracked` are recursive functions; that
they exist, and every induction along them, is by the least natural number at which the claim
would fail (LeastNat).

The account needs that a block handed out was not held before (FreshBlock) and what the
sum over a set of blocks is (`Held`, the FoldSet of RemainingExact): HeldAdds says that one
more block adds its words. FoldSet picks the members in an order of its own; that
the order does not matter is shown by the least number of members for which it would
(SumsAdd).

**MachineProofs** proves VectorsStayReady, EnablesExact, PriorityBytesExact, TickFits and
NvicIsGuarded, which state the five safety properties of the machine run, for every set of
interrupt numbers, priorities, permissions, frequencies and stored values. The first four claim
something until a wild store, the last holds through such stores. The invariant `MInv` adds to the
two properties about registers what each stage of `kernel_init` has established
(`BootOrder`: before `main` nobody has a permission and only the boot's own calls are made),
that nothing is stored wildly before `main` (`Stage`)
and which arguments a service finds in `svc` (`SvcOK`). The run has one priority besides the
boot's; that bits of several priorities accumulate rests on the theorem.

Only model-checked: liveness (TopLevelRoundRobin, HoldEnds, InvocationAnswered and the two
CallsReturn), which is out of the prover's reach, and KilledIsNamed.

## Plan

1. Done: Kernel with its proofs; Sharing and BaseService over it; Semaphores with its
   refinement and proofs; Heap with its refinement; Machine.
2. Done: proofs of the safety properties of Kernel, BaseService, Semaphores and Machine,
   of mutual exclusion in Sharing, and of the heap's list, account and refinement.
3. Done: HoldIsAnswered and PromotionsNest until a promotion is upset, with ticks anywhere.
4. Done: the abstract system of tasks and the proof that Kernel implements it.
5. Open: what is left of the promotions once one is upset; a condition on the requests under
   which `unchecked` stays false.

## Not modelled

* Memory protection of tasks: `svctable.c:60` comments the two services out; nothing
  reaches `svr_umpu.c`. The API's calls are in Machine, as unknown codes.
* Contents of stacks, the registers saved by PendSV, the MPU regions set at a
  context switch: data no property here tells apart.
* mpc57x8: a second target whose integration the repository calls unfinished
  (`README.md:4`). ossim: Windows threads standing in for interrupts; its
  primitives are the operating system's. The code shared with both is modelled.
* Generators (`objgen`, `devattrb.py`): sequential build-time scripts.
