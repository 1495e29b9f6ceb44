------------------------------ MODULE Machine ------------------------------
(***************************************************************************)
(* The arm port between reset and the services that act on the hardware:   *)
(* skibios_boot (startup.c), kernel_init (kernel.c), the SVC handler and   *)
(* its table (arch/arm-m3m4/svc_handler.S, svctable.c), the interrupt      *)
(* services (interrupt.c, service/svr_interrupts.c, arch_interrupt.c), the *)
(* register and frequency services (kernel.c, os_timer.c) and the macros   *)
(* that call them (svc_macros.h).                                          *)
(*                                                                         *)
(* The services on tasks are modelled in Kernel, Sharing and BaseService;  *)
(* here they matter for which service they chain to by overwriting         *)
(* svc_num.  A register is the set of its bits that are 1.                 *)
(*                                                                         *)
(* HWREG_WRITE stores at any address and HWREG_READ at any pointer, and    *)
(* the interrupt services index their tables with any number from 16 on:   *)
(* such a store can hit the controller, the timer, the vector table and    *)
(* the kernel's variables.                                                 *)
(***************************************************************************)
EXTENDS Integers

CONSTANTS
    LastTask,       \* the tasks are 0 (BaseTask) to LastTask
    Irqs,           \* numbers the application gives for an interrupt
    Handler,        \* a handler of the application
    Levels,         \* interrupt priorities the application gives, as bits
    Grants,         \* permissions BaseTask grants, as bits
    Freqs,          \* CPU frequencies the application gives
    Words,          \* values stored through HWREG_WRITE, as bits
    TASK_PER_SEC,
    Overflow,       \* 16777216, the first value too large for STRELOAD
    HasMpu          \* MPUTYPE is not 0

Slots == 0..LastTask

ASSUME SlotsAssumption == LastTask \in Nat
ASSUME IrqsAssumption == Irqs \subseteq Nat
ASSUME WordsAssumption == Words \subseteq SUBSET (0..31)
ASSUME TimerAssumption ==
    TASK_PER_SEC \in Nat \ {0} /\ Overflow \in Nat \ {0} /\ Freqs \subseteq Nat

VARIABLES
    at,             \* what kernel_init does next
    left,           \* interrupts whose priority arch_kernel_init has still to set
    vtable,         \* where VTABLE points to: the table in flash or the one in RAM
    vector,         \* the RAM vector table
    en, prio,       \* NVIC enable and priority registers
    reload, cpu_freq,
    guarded,        \* the MPU is set up
    created,        \* BaseTask has been created
    permissions, current_task, first_start,
    svc,            \* the supervisor call being served
    wanted, levels, \* ghosts: what accepted calls have asked of each interrupt
    wild            \* history: since the reset, a service has stored over something
                    \* above that is not what the service is for

boot == <<at, left, guarded, created>>
table == <<vtable, vector>>
nvic == <<en, prio, wanted, levels>>
clock == <<reload, cpu_freq>>
kvar == <<permissions, current_task, first_start>>
machine == <<table, nvic, clock, wild>>
vars == <<boot, machine, kvar, svc>>

PERMISSION_HWREG == 5
PERMISSION_INTCTRL == 6
All == 0..15

INT_NUM_SVC == 11
INT_NUM_PENDSV == 14
INT_NUM_SYSTICK == 15
Kernels == {INT_NUM_SVC, INT_NUM_PENDSV, INT_NUM_SYSTICK}

(* NUM_OF_INTERRUPTS is 144; the first 16 are exceptions of the processor.  *)
Devices == Irqs \cap 16..143

(* The word of the address space that is cell n of the table in RAM: the    *)
(* address KERNEL_START_ADDRESS + n * 4 wraps.                              *)
Cell(n) == n % 1073741824

(* The vectors the model follows. *)
Followed == Kernels \cup (0..143 \cap {Cell(n) : n \in Irqs})

ERROR_NONE == "none"
ERROR_INSUFFICIENT_PERMISSION == "permission"
ERROR_OVERFLOW == "overflow"
GARBAGE == "garbage"    \* the stack address left in R0

Idle == [pc |-> "thread", code |-> "none", r0 |-> 0, r1 |-> 0, ret |-> ERROR_NONE]

(* Power-on: the RAM holds anything; the table in flash is in force. *)
Init ==
    /\ at = "boot" /\ left = {} /\ vtable = "flash"
    /\ vector = [n \in Followed |-> "anything"]
    /\ en = [r \in 0..3 |-> {}] /\ prio = [r \in 0..34 |-> {}]
    /\ reload = 0 /\ cpu_freq = 0
    /\ guarded = FALSE /\ created = FALSE
    /\ permissions \in {[t \in Slots |-> b] : b \in {{}, All}}
    /\ current_task = 0 /\ first_start = FALSE
    /\ svc = Idle
    /\ wanted = [n \in Devices |-> FALSE] /\ levels = [n \in Devices |-> {}]
    /\ wild = FALSE

Thread == svc.pc = "thread"

-----------------------------------------------------------------------------
(* The supervisor call *)

(* The rows of svc_dispatch: those of the heap and of the user regions of   *)
(* the MPU are commented out.                                               *)
svc_dispatch ==
    { "HAND_OVER", "HIBERNATE", "PRIORITY_PROMOTE", "PRIORITY_DEMOTE", "HWREG_WRITE",
      "HWREG_READ", "CREATE_TASK", "KILL_TASK", "INVOKE_BASE", "RELEASE_BASE",
      "GRANT_PERMISSION", "INT_ENABLE", "INT_DISABLE", "INT_REGISTER", "SET_PRIORITY",
      "CPU_FREQ", "START_SCHEDULER", "DEVICE_RESET" }

(* The SVC instruction: R0 and R1 are stacked, the handler takes the code.  *)
(* Through any other vector the processor is lost to code that is not the   *)
(* kernel's, and that the model does not follow.                            *)
Raise(code, r0, r1) ==
    svc' = [Idle EXCEPT !.pc = IF vtable = "ram" /\ vector[INT_NUM_SVC] = "svc_handler"
                               THEN "cycle" ELSE "lost",
                        !.code = code, !.r0 = r0, !.r1 = r1]

(* A service ends with a value in R0 and a code in svc_num; the handler     *)
(* goes round again when the service has changed the code.                  *)
Served(ret, code) ==
    svc' = [svc EXCEPT !.pc = IF code = svc.code THEN "exit" ELSE "cycle",
                       !.code = code, !.ret = ret]

Cycle(code) == svc.pc = "cycle" /\ svc.code = code /\ code \in svc_dispatch

(* No row has the code: R0 still holds the address of the stacked code. *)
svc_unknown ==
    /\ svc.pc = "cycle"
    /\ svc.code \notin svc_dispatch
    /\ svc' = [svc EXCEPT !.pc = "exit", !.ret = GARBAGE]
    /\ UNCHANGED <<boot, machine, kvar>>

(* The value in R0 is stored in the caller's frame. *)
svc_exit ==
    /\ svc.pc = "exit"
    /\ svc' = Idle
    /\ UNCHANGED <<boot, machine, kvar>>

-----------------------------------------------------------------------------
(* The services *)

(* Mutant: the permissions are not looked at. *)
AnyPermitted(bit) == TRUE

Permitted(bit) == bit \in permissions[current_task]

(* A store that nothing checks, at any address.  It goes to a peripheral or *)
(* to memory of no interest here, or it hits what the kernel relies on.     *)
Store ==
    \/ UNCHANGED <<boot, machine, kvar>>
    \/ /\ wild' = TRUE
       /\ UNCHANGED <<boot, wanted, levels>>
       /\ \/ /\ \E w \in Words, r \in 0..3 :
                    en' \in {[en EXCEPT ![r] = @ \cup w], [en EXCEPT ![r] = @ \ w]}
             /\ UNCHANGED <<prio, table, clock, kvar>>
          \/ /\ \E w \in Words, r \in 0..34 : prio' = [prio EXCEPT ![r] = w]
             /\ UNCHANGED <<en, table, clock, kvar>>
          \/ /\ vtable' \in {"flash", "elsewhere"}
             /\ UNCHANGED <<vector, en, prio, clock, kvar>>
          \/ /\ \E n \in Followed : vector' = [vector EXCEPT ![n] = Handler]
             /\ UNCHANGED <<vtable, en, prio, clock, kvar>>
          \/ /\ \/ reload' \in Freqs /\ UNCHANGED cpu_freq
                \/ cpu_freq' \in Freqs /\ UNCHANGED reload
             /\ UNCHANGED <<en, prio, table, kvar>>
          \/ /\ \E t \in Slots, w \in Words :
                    permissions' = [permissions EXCEPT ![t] = w \cap All]
             /\ UNCHANGED <<en, prio, table, clock, current_task, first_start>>
          \/ /\ current_task' \in Slots /\ first_start' \in BOOLEAN
             /\ UNCHANGED <<en, prio, table, clock, permissions>>

(* The caller has no permission, or names an exception of the processor.    *)
(* arch_interrupt_priority has cut the number to a byte by then.            *)
Refused(code, n) ==
    \/ ~Permitted(PERMISSION_INTCTRL)
    \/ (IF code = "SET_PRIORITY" THEN n % 256 ELSE n) < 16

EnableRegister(n) == (n - 16) \div 32

(* Mutant: the bit counts the exceptions of the processor too. *)
EnableBitRaw(n) == n % 32

EnableBit(n) == (n - 16) % 32

(* Mutant: the byte in a priority register is chosen without its position. *)
PriorityBitsLow(n, level) == level \cap {5, 6, 7}

(* PRIORITY_WRITE_MASK and the shift to the interrupt's byte. *)
PriorityBits(n, level) == {b + 8 * ((n - 16) % 4) : b \in level \cap {5, 6, 7}}

(* The tables of register addresses end with the device's interrupts; what  *)
(* lies behind them is taken for an address.                                *)
arch_interrupt_enable(n) ==
    IF n \in Devices
    THEN /\ en' = [en EXCEPT ![EnableRegister(n)] = @ \cup {EnableBit(n)}]
         /\ wanted' = [wanted EXCEPT ![n] = TRUE]
         /\ UNCHANGED <<boot, table, prio, levels, clock, kvar, wild>>
    ELSE Store

arch_interrupt_disable(n) ==
    IF n \in Devices
    THEN /\ en' = [en EXCEPT ![EnableRegister(n)] = @ \ {EnableBit(n)}]
         /\ wanted' = [wanted EXCEPT ![n] = FALSE]
         /\ UNCHANGED <<boot, table, prio, levels, clock, kvar, wild>>
    ELSE Store

arch_interrupt_register(n, handler) ==
    IF Cell(n) \in 0..143
    THEN /\ vector' = [vector EXCEPT ![Cell(n)] = handler]
         /\ wild' = (wild \/ n \notin Devices)
         /\ UNCHANGED <<boot, vtable, nvic, clock, kvar>>
    ELSE Store

(* The number is cut to a byte, and prioreg has 35 registers.  The bits are *)
(* ORed into the register: bits of an earlier priority stay.                *)
arch_interrupt_priority(n, level) ==
    LET irq == n % 256 IN
    IF irq < 156
    THEN /\ prio' = [prio EXCEPT ![(irq - 16) \div 4] = @ \cup PriorityBits(irq, level)]
         /\ levels' = [m \in Devices |-> IF m = n THEN levels[m] \cup level ELSE levels[m]]
         /\ wild' = (wild \/ n \notin Devices)
         /\ UNCHANGED <<boot, table, en, wanted, clock, kvar>>
    ELSE Store

RefuseInterrupt(code) ==
    /\ Cycle(code)
    /\ Refused(code, svc.r0)
    /\ Served(ERROR_INSUFFICIENT_PERMISSION, code)
    /\ UNCHANGED <<boot, machine, kvar>>

(* The request to the interrupt controller is accepted. *)
Accept(code) ==
    /\ Cycle(code)
    /\ ~Refused(code, svc.r0)
    /\ Served(ERROR_NONE, code)

svc_service_int_enable ==
    \/ RefuseInterrupt("INT_ENABLE")
    \/ Accept("INT_ENABLE") /\ arch_interrupt_enable(svc.r0)

svc_service_int_disable ==
    \/ RefuseInterrupt("INT_DISABLE")
    \/ Accept("INT_DISABLE") /\ arch_interrupt_disable(svc.r0)

svc_service_int_register ==
    \/ RefuseInterrupt("INT_REGISTER")
    \/ Accept("INT_REGISTER") /\ arch_interrupt_register(svc.r0, svc.r1)

svc_service_int_set_priority ==
    \/ RefuseInterrupt("SET_PRIORITY")
    \/ Accept("SET_PRIORITY") /\ arch_interrupt_priority(svc.r0, svc.r1)

(* HWREG_WRITE stores the caller's value at the caller's address, and       *)
(* HWREG_READ what it reads at the caller's pointer: "ToDo: Argument        *)
(* check".                                                                  *)
svc_service_hwreg ==
    \E code \in {"HWREG_WRITE", "HWREG_READ"} :
        /\ Cycle(code)
        /\ IF Permitted(PERMISSION_HWREG)
           THEN Served(ERROR_NONE, code) /\ Store
           ELSE /\ Served(ERROR_INSUFFICIENT_PERMISSION, code)
                /\ UNCHANGED <<boot, machine, kvar>>

(* Mutant: the frequency is recorded before the load is checked. *)
os_timer_config_early(freq) ==
    /\ cpu_freq' = freq
    /\ reload' = IF freq \div TASK_PER_SEC >= Overflow THEN reload ELSE freq \div TASK_PER_SEC

os_timer_config(freq) ==
    IF freq \div TASK_PER_SEC >= Overflow
    THEN UNCHANGED clock
    ELSE cpu_freq' = freq /\ reload' = freq \div TASK_PER_SEC

ConfigError(freq) == IF freq \div TASK_PER_SEC >= Overflow THEN ERROR_OVERFLOW ELSE ERROR_NONE

svc_service_cpu_freq_update ==
    /\ Cycle("CPU_FREQ")
    /\ os_timer_config(svc.r0)
    /\ Served(ConfigError(svc.r0), "CPU_FREQ")
    /\ UNCHANGED <<boot, table, nvic, wild, kvar>>

(* r0 is the slot of the task whose id is given, r1 the permission. *)
svc_service_grant_permission ==
    /\ Cycle("GRANT_PERMISSION")
    /\ permissions' = [permissions EXCEPT ![svc.r0] = svc.r1]
    /\ Served(ERROR_NONE, "GRANT_PERMISSION")
    /\ UNCHANGED <<boot, machine, current_task, first_start>>

svc_service_start_scheduler ==
    /\ Cycle("START_SCHEDULER")
    /\ permissions' = [t \in Slots |-> IF t = 0 THEN All ELSE {}]
    /\ first_start' = TRUE
    /\ Served(ERROR_NONE, "HAND_OVER")
    /\ UNCHANGED <<boot, machine, current_task>>

(* Mutant: the demotion chains back to the service it was called from. *)
ChainBack(code) ==
    CASE code = "KILL_TASK" -> {code, "HAND_OVER"}
      [] code = "INVOKE_BASE" -> {code, "PRIORITY_PROMOTE"}
      [] code = "RELEASE_BASE" -> {code, "PRIORITY_DEMOTE"}
      [] code = "PRIORITY_DEMOTE" -> {"RELEASE_BASE"}
      [] OTHER -> {code}

(* What the services on tasks leave in svc_num: a task that kills itself, a *)
(* BaseTask that has answered and a demotion hand over; an invocation       *)
(* promotes BaseTask.                                                       *)
Chain(code) ==
    CASE code = "KILL_TASK" -> {code, "HAND_OVER"}
      [] code = "INVOKE_BASE" -> {code, "PRIORITY_PROMOTE"}
      [] code = "RELEASE_BASE" -> {code, "PRIORITY_DEMOTE"}
      [] code = "PRIORITY_DEMOTE" -> {"HAND_OVER"}
      [] OTHER -> {code}

TaskServices == {"HAND_OVER", "HIBERNATE", "PRIORITY_PROMOTE", "PRIORITY_DEMOTE", "CREATE_TASK",
                 "KILL_TASK", "INVOKE_BASE", "RELEASE_BASE"}

(* A service on tasks.  The scheduler it asks for runs after the call: the  *)
(* next caller may be another task.                                         *)
TaskService ==
    \E code \in TaskServices : \E next \in Chain(code) :
        /\ Cycle(code)
        /\ Served(ERROR_NONE, next)
        /\ UNCHANGED <<boot, machine, kvar>>

(* The device restarts; its RAM keeps what it holds. *)
Restart ==
    /\ at' = "boot" /\ left' = {} /\ vtable' = "flash"
    /\ en' = [r \in 0..3 |-> {}] /\ prio' = [r \in 0..34 |-> {}]
    /\ wanted' = [n \in Devices |-> FALSE] /\ levels' = [n \in Devices |-> {}]
    /\ reload' = 0 /\ guarded' = FALSE
    /\ svc' = Idle /\ wild' = FALSE
    /\ UNCHANGED <<vector, cpu_freq, created, kvar>>

svc_service_device_reset == Cycle("DEVICE_RESET") /\ Restart

(* A reset from outside: the reset pin, a watchdog. *)
HardwareReset == Restart

Service ==
    \/ svc_service_int_enable \/ svc_service_int_disable
    \/ svc_service_int_register \/ svc_service_int_set_priority
    \/ svc_service_hwreg \/ svc_service_cpu_freq_update
    \/ svc_service_grant_permission \/ svc_service_start_scheduler
    \/ TaskService \/ svc_service_device_reset

-----------------------------------------------------------------------------
(* Boot *)

(* .kdat is copied and .kbss, cpu_freq included, cleared; kernel_init begins. *)
skibios_boot ==
    /\ at = "boot"
    /\ at' = "relocate"
    /\ cpu_freq' = 0
    /\ permissions' = [t \in Slots |-> {}]
    /\ current_task' = 0 /\ first_start' = FALSE /\ created' = FALSE
    /\ UNCHANGED <<left, guarded, table, nvic, reload, wild, svc>>

(* The table in flash: every vector used here leads to an endless loop. *)
g_pfnVectors == [n \in DOMAIN vector |-> "default_handler"]

(* The table is copied from where VTABLE points to. *)
vector_table_relocate ==
    /\ at = "relocate"
    /\ at' = "arch"
    /\ vector' = IF vtable = "flash" THEN g_pfnVectors ELSE vector
    /\ vtable' = "ram"
    /\ UNCHANGED <<left, guarded, created, nvic, clock, wild, kvar, svc>>

(* Mutant: the handlers are not registered. *)
arch_kernel_init_bare ==
    /\ at = "arch"
    /\ at' = "priorities"
    /\ left' = Devices
    /\ UNCHANGED <<guarded, created, machine, kvar, svc>>

arch_kernel_init ==
    /\ at = "arch"
    /\ at' = "priorities"
    /\ vector' = [vector EXCEPT ![INT_NUM_SVC] = "svc_handler",
                                ![INT_NUM_PENDSV] = "pendsv_handler"]
    /\ left' = Devices
    /\ UNCHANGED <<vtable, guarded, created, nvic, clock, wild, kvar, svc>>

(* interrupt_set_priority(i, 0x20), through the SVC just installed. *)
arch_kernel_init_priorities ==
    /\ at = "priorities" /\ Thread
    /\ IF left = {}
       THEN at' = "timer" /\ UNCHANGED <<left, svc>>
       ELSE \E n \in left :
                /\ \A m \in left : n <= m
                /\ left' = left \ {n}
                /\ Raise("SET_PRIORITY", n, {5})
                /\ UNCHANGED at
    /\ UNCHANGED <<guarded, created, machine, kvar>>

(* A load that is too large ends kernel_init. *)
os_timer_init ==
    /\ at = "timer"
    /\ os_timer_config(cpu_freq)
    /\ IF ConfigError(cpu_freq) = ERROR_NONE
       THEN at' = "mpu" /\ vector' = [vector EXCEPT ![INT_NUM_SYSTICK] = "scheduler"]
       ELSE at' = "main" /\ UNCHANGED vector
    /\ UNCHANGED <<left, vtable, guarded, created, nvic, wild, kvar, svc>>

(* So does a device without an MPU. *)
arch_mpu_init ==
    /\ at = "mpu"
    /\ at' = IF HasMpu THEN "base" ELSE "main"
    /\ guarded' = HasMpu
    /\ UNCHANGED <<left, created, machine, kvar, svc>>

(* task_start(&base_task), by an SVC. *)
kernel_init_base ==
    /\ at = "base"
    /\ at' = "grant"
    /\ created' = TRUE
    /\ Raise("CREATE_TASK", 0, 0)
    /\ UNCHANGED <<left, guarded, machine, kvar>>

(* BaseTask gets all permissions; heap_init is in Heap. *)
kernel_init_grant ==
    /\ at = "grant" /\ Thread
    /\ at' = "main"
    /\ permissions' = [permissions EXCEPT ![0] = All]
    /\ current_task' = 0
    /\ UNCHANGED <<left, guarded, created, machine, first_start, svc>>

(* main() calls start_scheduler, which refuses to start twice. *)
start_scheduler ==
    /\ at = "main" /\ Thread
    /\ ~first_start
    /\ current_task' = 0
    /\ Raise("START_SCHEDULER", 0, 0)
    /\ UNCHANGED <<boot, machine, permissions, first_start>>

kernel_init ==
    \/ skibios_boot \/ vector_table_relocate \/ arch_kernel_init \/ arch_kernel_init_priorities
    \/ os_timer_init \/ arch_mpu_init \/ kernel_init_base \/ kernel_init_grant

-----------------------------------------------------------------------------
(* The application *)

InterruptCalls ==
    [code : {"INT_ENABLE", "INT_DISABLE"}, r0 : Irqs, r1 : {0}]
        \cup [code : {"INT_REGISTER"}, r0 : Irqs, r1 : {Handler}]
        \cup [code : {"SET_PRIORITY"}, r0 : Irqs, r1 : Levels]

(* The macro of CPU_FREQ loads the frequency into R1 while the service      *)
(* reads R0, which holds anything.                                          *)
KernelCalls ==
    [code : {"HWREG_WRITE", "HWREG_READ"}, r0 : {0}, r1 : {0}]
        \cup [code : {"CPU_FREQ"}, r0 : Freqs, r1 : {0}]

(* A task's calls about tasks. *)
TaskCalls == {"HAND_OVER", "HIBERNATE", "PRIORITY_PROMOTE", "PRIORITY_DEMOTE", "CREATE_TASK",
              "KILL_TASK", "INVOKE_BASE"}

(* Calls of the API whose services have no row. *)
UnservedCalls == {"GHEAP_ALLOCATE", "GHEAP_RELEASE", "ENABLE_UMPU", "DISABLE_UMPU"}

(* Calls of the application, from main() or from a task. *)
Calls ==
    InterruptCalls \cup KernelCalls
        \cup [code : TaskCalls \cup UnservedCalls, r0 : {0}, r1 : {0}]

(* Calls that BaseTask alone makes. *)
BaseCalls ==
    [code : {"GRANT_PERMISSION"}, r0 : Slots \ {0}, r1 : Grants]
        \cup [code : {"RELEASE_BASE", "DEVICE_RESET"}, r0 : {0}, r1 : {0}]

Call ==
    /\ at = "main" /\ Thread
    /\ \E c \in Calls \cup BaseCalls :
           /\ c \in BaseCalls => first_start /\ current_task = 0
           /\ c.code \in TaskServices \ {"CREATE_TASK"} => first_start
           /\ Raise(c.code, c.r0, c.r1)
    /\ UNCHANGED <<boot, machine, kvar>>

(* The scheduler and PendSV make another task current, while the kernel's   *)
(* handlers are in force.                                                   *)
Switch ==
    /\ at = "main" /\ first_start /\ Thread
    /\ vtable = "ram"
    /\ vector[INT_NUM_SYSTICK] = "scheduler" /\ vector[INT_NUM_PENDSV] = "pendsv_handler"
    /\ \E t \in Slots : current_task' = t
    /\ UNCHANGED <<boot, machine, permissions, first_start, svc>>

Next ==
    \/ kernel_init \/ start_scheduler
    \/ Call \/ svc_unknown \/ Service \/ svc_exit
    \/ Switch \/ HardwareReset

Spec == Init /\ [][Next]_vars

(* The handler gets on: nothing preempts it but a reset. *)
FairSpec == Spec /\ WF_vars(svc_unknown \/ Service \/ svc_exit)

-----------------------------------------------------------------------------
(* Properties *)

(* An SVC enters the kernel's handler, however early in the boot it is      *)
(* raised, and once the scheduler runs the tick and PendSV do too: until a  *)
(* wild store, no registration by a task reaches these vectors.             *)
VectorsReady ==
    ~wild =>
        /\ svc.pc # "lost"
        /\ first_start /\ at = "main" =>
               /\ vtable = "ram"
               /\ vector[INT_NUM_PENDSV] = "pendsv_handler"
               /\ vector[INT_NUM_SYSTICK] = "scheduler"

(* Until a wild store, an interrupt is enabled in the NVIC exactly if the   *)
(* last accepted call about it says so: calls about other interrupts do not *)
(* reach its bit.                                                           *)
EnablesAsAsked ==
    ~wild => \A n \in Devices : wanted[n] <=> (n - 16) % 32 \in en[(n - 16) \div 32]

(* Until a wild store, the priority byte of an interrupt holds the bits     *)
(* accepted calls about this interrupt have given, all of them, and no      *)
(* others.                                                                  *)
PriorityBytesApart ==
    ~wild =>
        \A n \in Devices :
            {b \in 0..7 : b + 8 * ((n - 16) % 4) \in prio[(n - 16) \div 4]} = levels[n] \cap {5, 6, 7}

(* Once kernel_init is over, and until a wild store, the tick the timer     *)
(* makes is the one of the frequency on record, also after a frequency that *)
(* was refused.                                                             *)
TickFitsFrequency ==
    at = "main" /\ ~wild => reload = cpu_freq \div TASK_PER_SEC /\ reload < Overflow

(* Whatever has been overwritten, the interrupt controller changes under a  *)
(* task only while that task has the permission for it, or the one for      *)
(* HWREG_WRITE and HWREG_READ, which is as good; and at boot not at all:    *)
(* arch_kernel_init's own calls are refused.                                *)
NvicGuarded ==
    [][<<en, prio>>' # <<en, prio>> =>
          \/ at' = "boot"
          \/ at = "main" /\ \/ PERMISSION_INTCTRL \in permissions[current_task]
                            \/ /\ PERMISSION_HWREG \in permissions[current_task]
                               /\ svc.code \in {"HWREG_WRITE", "HWREG_READ"}]_vars

(* Every supervisor call that enters the kernel returns to its caller: no   *)
(* chain of services is a circle.                                           *)
CallsReturn == svc.pc \in {"cycle", "exit"} ~> svc.pc = "thread"

=============================================================================
