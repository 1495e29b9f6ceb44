--------------------------- MODULE MachineProofs ---------------------------
(***************************************************************************)
(* Proofs about Machine: the vectors, the interrupt controller and the     *)
(* tick, for every set of interrupts, priorities, permissions and          *)
(* frequencies, with or without an MPU.                                    *)
(***************************************************************************)
EXTENDS Machine, TLAPS

Codes == svc_dispatch \cup UnservedCalls \cup {"none"}

InterruptCodes == {"INT_ENABLE", "INT_DISABLE", "INT_REGISTER", "SET_PRIORITY"}

Handlers == {"anything", "default_handler", "svc_handler", "pendsv_handler", "scheduler", Handler}

PermissionBits == All \cup UNION Grants

LevelsUsed == Levels \cup {{5}}

(* What the variables of the boot, the tick and the permissions hold. *)
MTypeOK ==
    /\ at \in {"boot", "relocate", "arch", "priorities", "timer", "mpu", "base", "grant", "main"}
    /\ left \subseteq Devices
    /\ vtable \in {"flash", "ram", "elsewhere"}
    /\ vector \in [Followed -> Handlers]
    /\ reload \in Nat /\ cpu_freq \in Nat
    /\ permissions \in [Slots -> SUBSET PermissionBits]
    /\ current_task \in Slots
    /\ first_start \in BOOLEAN
    /\ wild \in BOOLEAN

(* The registers of the interrupt controller, and what has been asked of it. *)
NTypeOK ==
    /\ en \in [0..3 -> SUBSET (0..31)]
    /\ prio \in [0..34 -> SUBSET (0..31)]
    /\ wanted \in [Devices -> BOOLEAN]
    /\ levels \in [Devices -> SUBSET UNION LevelsUsed]

Arguments == {Handler, 0, 1} \cup LevelsUsed \cup Grants \cup Freqs

Returns == {ERROR_NONE, ERROR_INSUFFICIENT_PERMISSION, ERROR_OVERFLOW, GARBAGE}

(* The fields of svc, and the arguments that the service it names reads. *)
SvcOK ==
    /\ svc \in [pc : {"thread", "cycle", "exit", "lost"}, code : Codes, r0 : Nat, r1 : Arguments,
                ret : Returns]
    /\ svc.code \in InterruptCodes => svc.r0 \in Irqs
    /\ svc.code = "INT_REGISTER" => svc.r1 = Handler
    /\ svc.code = "SET_PRIORITY" => svc.r1 \in LevelsUsed
    /\ svc.code = "CPU_FREQ" => svc.r0 \in Freqs
    /\ svc.code = "GRANT_PERMISSION" => svc.r0 \in Slots /\ svc.r1 \in Grants

(* An SVC is raised only by the calls kernel_init makes itself and by the   *)
(* application, and nothing is overwritten before the application runs.     *)
Stage ==
    /\ svc.pc # "thread" => at \in {"priorities", "grant", "main"}
    /\ svc.pc # "thread" /\ at = "priorities" => svc.code = "SET_PRIORITY"
    /\ svc.pc # "thread" /\ at = "grant" => svc.code = "CREATE_TASK"
    /\ wild => at = "main"

(* What holds at each stage of kernel_init, until a wild store.  Nothing is *)
(* granted before its last step.                                            *)
BootOrder ==
    /\ svc.pc # "lost"
    /\ at \notin {"boot", "main"} =>
           permissions = [t \in Slots |-> {}] /\ cpu_freq = 0 /\ ~first_start
    /\ at \notin {"boot", "relocate"} => vtable = "ram"
    /\ at \notin {"boot", "relocate", "arch"} =>
           vector[INT_NUM_SVC] = "svc_handler" /\ vector[INT_NUM_PENDSV] = "pendsv_handler"
    /\ at \in {"mpu", "base", "grant", "main"} =>
           /\ vector[INT_NUM_SYSTICK] = "scheduler"
           /\ reload = cpu_freq \div TASK_PER_SEC /\ reload < Overflow

MInv ==
    /\ MTypeOK /\ NTypeOK /\ SvcOK /\ Stage
    /\ ~wild => BootOrder
    /\ EnablesAsAsked /\ PriorityBytesApart

-----------------------------------------------------------------------------
(* The registers of the interrupt controller *)

(* Two interrupts share neither an enable bit nor a priority byte. *)
LEMMA BitsApart ==
    ASSUME NEW n \in Devices, NEW m \in Devices
    PROVE  /\ EnableRegister(n) \in 0..3 /\ EnableBit(n) \in 0..31
           /\ (n - 16) \div 4 \in 0..31 /\ (n - 16) % 4 \in 0..3
           /\ EnableRegister(n) = EnableRegister(m) /\ EnableBit(n) = EnableBit(m) => n = m
           /\ (n - 16) \div 4 = (m - 16) \div 4 /\ (n - 16) % 4 = (m - 16) % 4 => n = m
<1>1. n \in 16..143 /\ m \in 16..143
    BY DEF Devices
<1> QED
    BY <1>1 DEF EnableRegister, EnableBit

(* The bits written for an interrupt are bits of one register. *)
LEMMA BytesFit ==
    ASSUME NEW n \in 16..255, NEW level
    PROVE  PriorityBits(n, level) \subseteq 0..31
<1>1. (n - 16) % 4 \in 0..3
    OBVIOUS
<1> DEFINE k == (n - 16) % 4
<1> HIDE DEF k
<1>2. k \in 0..3
    BY <1>1 DEF k
<1>3. PriorityBits(n, level) = {c + 8 * k : c \in level \cap {5, 6, 7}}
    BY DEF PriorityBits, k
<1> QED
    BY <1>2, <1>3

(* The bits written for an interrupt lie in its byte. *)
LEMMA BytesApart ==
    ASSUME NEW n \in 16..255, NEW m \in 16..255, NEW level, NEW b \in 0..7
    PROVE  /\ b + 8 * ((n - 16) % 4) \in PriorityBits(n, level) <=> b \in level \cap {5, 6, 7}
           /\ (n - 16) % 4 # (m - 16) % 4 => b + 8 * ((m - 16) % 4) \notin PriorityBits(n, level)
<1>1. (n - 16) % 4 \in 0..3 /\ (m - 16) % 4 \in 0..3
    OBVIOUS
<1> DEFINE k == (n - 16) % 4
           l == (m - 16) % 4
<1> HIDE DEF k, l
<1>2. k \in 0..3 /\ l \in 0..3
    BY <1>1 DEF k, l
<1>3. PriorityBits(n, level) = {c + 8 * k : c \in level \cap {5, 6, 7}}
    BY DEF PriorityBits, k
<1>4. b + 8 * k \in PriorityBits(n, level) <=> b \in level \cap {5, 6, 7}
    BY <1>2, <1>3
<1>5. k # l => b + 8 * l \notin PriorityBits(n, level)
    BY <1>2, <1>3
<1> QED
    BY <1>4, <1>5 DEF k, l

-----------------------------------------------------------------------------
(* What a step does to the interrupt controller *)

(* A store that nothing checks leaves every variable with its type, and     *)
(* what it overwrites makes it wild.                                        *)
LEMMA StoreEffect ==
    ASSUME MTypeOK, NTypeOK, Store
    PROVE  /\ UNCHANGED <<boot, wanted, levels>>
           /\ MTypeOK' /\ NTypeOK'
           /\ wild' \/ UNCHANGED <<machine, kvar>>
<1>1. CASE UNCHANGED <<boot, machine, kvar>>
    BY <1>1 DEF MTypeOK, NTypeOK, boot, machine, kvar, table, nvic, clock
<1>2. CASE wild' = TRUE /\ UNCHANGED <<boot, wanted, levels>>
  <2> USE DEF MTypeOK, NTypeOK, boot, table, clock, kvar
  <2>1. CASE /\ \E w \in Words, r \in 0..3 :
                    en' \in {[en EXCEPT ![r] = @ \cup w], [en EXCEPT ![r] = @ \ w]}
             /\ UNCHANGED <<prio, table, clock, kvar>>
    <3>1. PICK w \in Words, r \in 0..3 :
              en' \in {[en EXCEPT ![r] = @ \cup w], [en EXCEPT ![r] = @ \ w]}
        BY <2>1
    <3>2. w \subseteq 0..31
        BY WordsAssumption
    <3>3. en[r] \cup w \in SUBSET (0..31) /\ en[r] \ w \in SUBSET (0..31)
        BY <3>2
    <3>4. /\ [en EXCEPT ![r] = en[r] \cup w] \in [0..3 -> SUBSET (0..31)]
          /\ [en EXCEPT ![r] = en[r] \ w] \in [0..3 -> SUBSET (0..31)]
        BY <3>3
    <3>5. en' \in [0..3 -> SUBSET (0..31)]
        BY <3>1, <3>4
    <3> QED
        BY <1>2, <2>1, <3>5
  <2>2. CASE /\ \E w \in Words, r \in 0..34 : prio' = [prio EXCEPT ![r] = w]
             /\ UNCHANGED <<en, table, clock, kvar>>
    <3>1. prio' \in [0..34 -> SUBSET (0..31)]
        BY <2>2, WordsAssumption
    <3> QED
        BY <1>2, <2>2, <3>1
  <2>3. CASE vtable' \in {"flash", "elsewhere"} /\ UNCHANGED <<vector, en, prio, clock, kvar>>
      BY <1>2, <2>3
  <2>4. CASE /\ \E n \in Followed : vector' = [vector EXCEPT ![n] = Handler]
             /\ UNCHANGED <<vtable, en, prio, clock, kvar>>
    <3>1. vector' \in [Followed -> Handlers]
        BY <2>4 DEF Handlers
    <3> QED
        BY <1>2, <2>4, <3>1
  <2>5. CASE /\ \/ reload' \in Freqs /\ UNCHANGED cpu_freq
                \/ cpu_freq' \in Freqs /\ UNCHANGED reload
             /\ UNCHANGED <<en, prio, table, kvar>>
      BY <1>2, <2>5, TimerAssumption
  <2>6. CASE /\ \E t \in Slots, w \in Words : permissions' = [permissions EXCEPT ![t] = w \cap All]
             /\ UNCHANGED <<en, prio, table, clock, current_task, first_start>>
    <3>1. permissions' \in [Slots -> SUBSET PermissionBits]
        BY <2>6 DEF PermissionBits
    <3> QED
        BY <1>2, <2>6, <3>1
  <2>7. CASE /\ current_task' \in Slots /\ first_start' \in BOOLEAN
             /\ UNCHANGED <<en, prio, table, clock, permissions>>
      BY <1>2, <2>7
  <2> QED
      BY <1>1, <1>2, <2>1, <2>2, <2>3, <2>4, <2>5, <2>6, <2>7 DEF Store
<1> QED
    BY <1>1, <1>2 DEF Store

(* The caller may have something stored where the kernel does not check: it *)
(* has the permission for the interrupt services, or for HWREG_WRITE.       *)
MayStore ==
    /\ svc.pc # "thread" /\ svc.code \in InterruptCodes \cup {"HWREG_WRITE", "HWREG_READ"}
    /\ \/ PERMISSION_INTCTRL \in permissions[current_task]
       \/ /\ PERMISSION_HWREG \in permissions[current_task]
          /\ svc.code \in {"HWREG_WRITE", "HWREG_READ"}

(* What an accepted request to the interrupt controller does.               *)
Asked ==
    \/ /\ arch_interrupt_enable(svc.r0) \/ arch_interrupt_disable(svc.r0)
       /\ svc.r0 \in Devices
    \/ svc.code = "SET_PRIORITY" /\ svc.r0 % 256 \in 16..155 /\ arch_interrupt_priority(svc.r0, svc.r1)

(* The registers of the interrupt controller change only by an accepted     *)
(* service, an unchecked store and a reset.                                 *)
LEMMA NvicSteps ==
    ASSUME MTypeOK, SvcOK, [Next]_vars
    PROVE  \/ UNCHANGED nvic /\ (wild => wild')
           \/ MayStore /\ (Asked \/ Store)
           \/ Restart
<1>1. CASE UNCHANGED vars
    BY <1>1 DEF vars, machine
<1>2. CASE kernel_init
    BY <1>2 DEF kernel_init, skibios_boot, vector_table_relocate, arch_kernel_init,
           arch_kernel_init_priorities, os_timer_init, arch_mpu_init, kernel_init_base,
           kernel_init_grant, machine
<1>3. CASE start_scheduler \/ Call \/ svc_unknown \/ svc_exit \/ Switch
    BY <1>3 DEF start_scheduler, Call, svc_unknown, svc_exit, Switch, machine
<1>4. ASSUME NEW code, RefuseInterrupt(code)
      PROVE  UNCHANGED nvic /\ (wild => wild')
    BY <1>4 DEF RefuseInterrupt, machine
<1>5. ASSUME NEW code \in InterruptCodes, Accept(code)
      PROVE  MayStore /\ svc.code = code /\ svc.r0 \in Irqs /\ svc.r0 \in Nat
    BY <1>5, IrqsAssumption DEF Accept, Cycle, Refused, Permitted, MayStore, SvcOK
<1>6. CASE svc_service_int_enable
    BY <1>4, <1>5, <1>6
       DEF svc_service_int_enable, arch_interrupt_enable, Asked, InterruptCodes
<1>7. CASE svc_service_int_disable
    BY <1>4, <1>5, <1>7
       DEF svc_service_int_disable, arch_interrupt_disable, Asked, InterruptCodes
<1>8. CASE svc_service_int_register
    BY <1>4, <1>5, <1>8
       DEF svc_service_int_register, arch_interrupt_register, InterruptCodes
<1>9. CASE svc_service_int_set_priority
  <2>1. CASE Accept("SET_PRIORITY") /\ arch_interrupt_priority(svc.r0, svc.r1)
    <3>1. MayStore /\ svc.code = "SET_PRIORITY" /\ svc.r0 \in Nat
        BY <1>5, <2>1 DEF InterruptCodes
    <3>2. ~(svc.r0 % 256 < 16)
        BY <2>1 DEF Accept, Refused
    <3>3. CASE svc.r0 % 256 < 156
      <4>1. \A r \in Nat : ~(r % 256 < 16) /\ r % 256 < 156 => r % 256 \in 16..155
          OBVIOUS
      <4>2. svc.r0 % 256 \in 16..155
          BY <3>1, <3>2, <3>3, <4>1
      <4> QED
          BY <2>1, <3>1, <4>2 DEF Asked
    <3>4. CASE ~(svc.r0 % 256 < 156)
        BY <2>1, <3>1, <3>4 DEF arch_interrupt_priority
    <3> QED
        BY <3>3, <3>4
  <2> QED
      BY <1>4, <1>9, <2>1 DEF svc_service_int_set_priority
<1>10. CASE svc_service_hwreg
    BY <1>10 DEF svc_service_hwreg, Cycle, Permitted, MayStore, machine
<1>11. CASE svc_service_cpu_freq_update \/ svc_service_grant_permission
              \/ svc_service_start_scheduler \/ TaskService
    BY <1>11 DEF svc_service_cpu_freq_update, svc_service_grant_permission,
           svc_service_start_scheduler, TaskService, machine
<1>12. CASE svc_service_device_reset \/ HardwareReset
    BY <1>12 DEF svc_service_device_reset, HardwareReset
<1> QED
    BY <1>1, <1>2, <1>3, <1>6, <1>7, <1>8, <1>9, <1>10, <1>11, <1>12 DEF Next, Service

(* An enable or disable service leaves the bits of other interrupts alone,  *)
(* and a reset clears the registers and what has been asked for.            *)
LEMMA EnablesStep ==
    ASSUME MTypeOK, NTypeOK, SvcOK, EnablesAsAsked, [Next]_vars
    PROVE  /\ en' \in [0..3 -> SUBSET (0..31)] /\ wanted' \in [Devices -> BOOLEAN]
           /\ EnablesAsAsked'
<1> DEFINE n == svc.r0
<1>0. en \in [0..3 -> SUBSET (0..31)] /\ wanted \in [Devices -> BOOLEAN] /\ EnablesAsAsked
    BY DEF NTypeOK
<1>1. CASE UNCHANGED <<en, wanted>> /\ (wild => wild')
    BY <1>0, <1>1 DEF EnablesAsAsked
<1>2. CASE n \in Devices /\ arch_interrupt_enable(n)
  <2> HIDE DEF n
  <2>1. /\ en' = [en EXCEPT ![EnableRegister(n)] = en[EnableRegister(n)] \cup {EnableBit(n)}]
        /\ wanted' = [wanted EXCEPT ![n] = TRUE]
        /\ wild' = wild
      BY <1>2 DEF arch_interrupt_enable
  <2>2. EnableRegister(n) \in 0..3 /\ EnableBit(n) \in 0..31
      BY <1>2, BitsApart
  <2>3. ASSUME ~wild, NEW m \in Devices
        PROVE  wanted'[m] <=> EnableBit(m) \in en'[EnableRegister(m)]
    <3>1. wanted[m] <=> EnableBit(m) \in en[EnableRegister(m)]
        BY <1>0, <2>3 DEF EnablesAsAsked, EnableRegister, EnableBit
    <3>2. EnableRegister(m) \in 0..3
        BY <2>3, BitsApart
    <3>3. EnableRegister(n) = EnableRegister(m) /\ EnableBit(n) = EnableBit(m) => n = m
        BY <1>2, <2>3, BitsApart
    <3> QED
        BY <1>0, <1>2, <2>1, <2>2, <3>1, <3>2, <3>3
  <2>4. EnablesAsAsked'
      BY <2>1, <2>3 DEF EnablesAsAsked, EnableRegister, EnableBit
  <2> QED
      BY <1>0, <1>2, <2>1, <2>2, <2>4
<1>3. CASE n \in Devices /\ arch_interrupt_disable(n)
  <2> HIDE DEF n
  <2>1. /\ en' = [en EXCEPT ![EnableRegister(n)] = en[EnableRegister(n)] \ {EnableBit(n)}]
        /\ wanted' = [wanted EXCEPT ![n] = FALSE]
        /\ wild' = wild
      BY <1>3 DEF arch_interrupt_disable
  <2>2. EnableRegister(n) \in 0..3 /\ EnableBit(n) \in 0..31
      BY <1>3, BitsApart
  <2>3. ASSUME ~wild, NEW m \in Devices
        PROVE  wanted'[m] <=> EnableBit(m) \in en'[EnableRegister(m)]
    <3>1. wanted[m] <=> EnableBit(m) \in en[EnableRegister(m)]
        BY <1>0, <2>3 DEF EnablesAsAsked, EnableRegister, EnableBit
    <3>2. EnableRegister(m) \in 0..3
        BY <2>3, BitsApart
    <3>3. EnableRegister(n) = EnableRegister(m) /\ EnableBit(n) = EnableBit(m) => n = m
        BY <1>3, <2>3, BitsApart
    <3> QED
        BY <1>0, <1>3, <2>1, <2>2, <3>1, <3>2, <3>3
  <2>4. EnablesAsAsked'
      BY <2>1, <2>3 DEF EnablesAsAsked, EnableRegister, EnableBit
  <2> QED
      BY <1>0, <1>3, <2>1, <2>2, <2>4
<1>4. CASE arch_interrupt_priority(n, svc.r1) /\ n % 256 \in 16..155
  <2>1. n % 256 < 156
      BY <1>4
  <2> QED
      BY <1>1, <1>4, <2>1 DEF arch_interrupt_priority
<1>5. CASE Store
    BY <1>0, <1>5, StoreEffect DEF NTypeOK, EnablesAsAsked, machine, nvic
<1>6. CASE Restart
  <2>1. en' = [r \in 0..3 |-> {}] /\ wanted' = [i \in Devices |-> FALSE]
      BY <1>6 DEF Restart
  <2>2. ASSUME NEW m \in Devices
        PROVE  ~wanted'[m] /\ EnableBit(m) \notin en'[EnableRegister(m)]
      BY <2>1, <2>2, BitsApart
  <2> QED
      BY <2>1, <2>2 DEF EnablesAsAsked, EnableRegister, EnableBit
<1> QED
    BY <1>1, <1>2, <1>3, <1>4, <1>5, <1>6, NvicSteps DEF nvic, Asked

(* The same for the priority service.  A number cut to a byte hits another  *)
(* interrupt's byte, and is wild.                                           *)
LEMMA PrioritiesStep ==
    ASSUME MTypeOK, NTypeOK, SvcOK, PriorityBytesApart, [Next]_vars
    PROVE  /\ prio' \in [0..34 -> SUBSET (0..31)]
           /\ levels' \in [Devices -> SUBSET UNION LevelsUsed]
           /\ PriorityBytesApart'
<1> DEFINE n == svc.r0
           irq == n % 256
           level == svc.r1
           Reg(i) == (i - 16) \div 4
           Bit(b, i) == b + 8 * ((i - 16) % 4)
           Right(i, p, l) == \A b \in 0..7 : Bit(b, i) \in p[Reg(i)] <=> b \in l[i] \cap {5, 6, 7}
<1>0. /\ prio \in [0..34 -> SUBSET (0..31)] /\ levels \in [Devices -> SUBSET UNION LevelsUsed]
      /\ PriorityBytesApart
    BY DEF NTypeOK
<1>a. PriorityBytesApart <=> (~wild => \A i \in Devices : Right(i, prio, levels))
    BY DEF PriorityBytesApart
<1>b. PriorityBytesApart' <=> (~wild' => \A i \in Devices : Right(i, prio', levels'))
    BY DEF PriorityBytesApart
<1>1. CASE UNCHANGED <<prio, levels>> /\ (wild => wild')
    BY <1>0, <1>1 DEF PriorityBytesApart
<1>2. CASE svc.code = "SET_PRIORITY" /\ irq \in 16..155 /\ arch_interrupt_priority(n, level)
  <2>1. level \in LevelsUsed /\ n \in Nat
      BY <1>2, IrqsAssumption DEF SvcOK, InterruptCodes
  <2>2. /\ prio' = [prio EXCEPT ![Reg(irq)] = prio[Reg(irq)] \cup PriorityBits(irq, level)]
        /\ levels' = [m \in Devices |-> IF m = n THEN levels[m] \cup level ELSE levels[m]]
        /\ wild' = (wild \/ n \notin Devices)
    <3>1. irq < 156
        BY <1>2
    <3> QED
        BY <1>2, <3>1 DEF arch_interrupt_priority
  <2>d. n \in Devices => irq = n
      BY <2>1 DEF Devices
  <2> HIDE DEF n, level, irq
  <2>i. irq \in 16..155 /\ irq \in 16..255
      BY <1>2
  <2>3. Reg(irq) \in 0..34 /\ PriorityBits(irq, level) \subseteq 0..31
    <3>1. Reg(irq) \in 0..34
        BY <2>i
    <3>2. PriorityBits(irq, level) \subseteq 0..31
        BY <2>i, BytesFit, Zenon
    <3> QED
        BY <3>1, <3>2
  <2>4. ASSUME ~wild', NEW m \in Devices, NEW b \in 0..7
        PROVE  Bit(b, m) \in prio'[Reg(m)] <=> b \in levels'[m] \cap {5, 6, 7}
    <3>a. n \in Devices /\ ~wild
        BY <2>2, <2>4
    <3>b. m \in 16..143 /\ m \in 16..255
        BY DEF Devices
    <3>0. n \in Devices /\ irq = n /\ ~wild /\ m \in 16..143 /\ m \in 16..255 /\ n \in 16..255
        BY <2>d, <2>i, <3>a, <3>b
    <3>1. Bit(b, m) \in prio[Reg(m)] <=> b \in levels[m] \cap {5, 6, 7}
        BY <1>0, <1>a, <3>0
    <3>2. Reg(m) \in 0..34
        BY <3>0
    <3>3. Reg(n) = Reg(m) /\ m # n => (n - 16) % 4 # (m - 16) % 4
        BY <3>0, BitsApart
    <3>4. /\ Bit(b, n) \in PriorityBits(n, level) <=> b \in level \cap {5, 6, 7}
          /\ (n - 16) % 4 # (m - 16) % 4 => Bit(b, m) \notin PriorityBits(n, level)
        BY <3>0, BytesApart, Zenon
    <3> HIDE DEF Reg, Bit
    <3>5. prio'[Reg(m)] = IF Reg(m) = Reg(n) THEN prio[Reg(m)] \cup PriorityBits(n, level)
                                             ELSE prio[Reg(m)]
        BY <1>0, <2>2, <3>0, <3>2
    <3>6. levels'[m] = IF m = n THEN levels[m] \cup level ELSE levels[m]
        BY <1>0, <2>2
    <3>7. CASE m = n
        BY <3>1, <3>4, <3>5, <3>6, <3>7
    <3>8. CASE m # n
        BY <3>1, <3>3, <3>4, <3>5, <3>6, <3>8
    <3> QED
        BY <3>7, <3>8
  <2>5. PriorityBytesApart'
      BY <1>b, <2>4
  <2>6. levels' \in [Devices -> SUBSET UNION LevelsUsed]
      BY <1>0, <2>1, <2>2
  <2>7. prio' \in [0..34 -> SUBSET (0..31)]
    <3> HIDE DEF Reg
    <3> QED
        BY <1>0, <2>2, <2>3
  <2> QED
      BY <2>5, <2>6, <2>7
<1>3. CASE /\ arch_interrupt_enable(n) \/ arch_interrupt_disable(n)
           /\ n \in Devices
    BY <1>1, <1>3 DEF arch_interrupt_enable, arch_interrupt_disable
<1>4. CASE Store
    BY <1>0, <1>4, StoreEffect DEF NTypeOK, PriorityBytesApart, machine, nvic
<1>5. CASE Restart
  <2>1. prio' = [r \in 0..34 |-> {}] /\ levels' = [i \in Devices |-> {}]
      BY <1>5 DEF Restart
  <2>2. ASSUME NEW m \in Devices, NEW b \in 0..7
        PROVE  Bit(b, m) \notin prio'[Reg(m)] /\ b \notin levels'[m] \cap {5, 6, 7}
    <3>1. Reg(m) \in 0..34
        BY BitsApart
    <3> HIDE DEF Reg, Bit
    <3> QED
        BY <2>1, <3>1
  <2>3. PriorityBytesApart'
      BY <1>b, <2>2
  <2> QED
      BY <2>1, <2>3
<1> QED
    BY <1>1, <1>2, <1>3, <1>4, <1>5, NvicSteps DEF nvic, Asked

-----------------------------------------------------------------------------
(* The boot sequence and the services *)

(* Where an SVC leads. *)
Entry == IF vtable = "ram" /\ vector[INT_NUM_SVC] = "svc_handler" THEN "cycle" ELSE "lost"

(* The fields of a call that is raised, served or left. *)
LEMMA RaiseServe ==
    ASSUME SvcOK, NEW code \in Codes, NEW r0 \in Nat, NEW r1 \in Arguments, NEW ret \in Returns
    PROVE  /\ Raise(code, r0, r1) =>
                svc' = [pc |-> Entry, code |-> code, r0 |-> r0, r1 |-> r1, ret |-> ERROR_NONE]
           /\ Served(ret, code) =>
                svc' = [pc |-> IF code = svc.code THEN "exit" ELSE "cycle", code |-> code,
                        r0 |-> svc.r0, r1 |-> svc.r1, ret |-> ret]
BY DEF Raise, Served, Idle, SvcOK, Entry

(* The calls of the application carry the arguments their services expect.  *)
LEMMA CallArguments ==
    ASSUME NEW c \in Calls \cup BaseCalls
    PROVE  /\ c.code \in Codes /\ c.r0 \in Nat /\ c.r1 \in Arguments
           /\ c.code \in InterruptCodes => c.r0 \in Irqs
           /\ c.code = "INT_REGISTER" => c.r1 = Handler
           /\ c.code = "SET_PRIORITY" => c.r1 \in LevelsUsed
           /\ c.code = "CPU_FREQ" => c.r0 \in Freqs
           /\ c.code = "GRANT_PERMISSION" => c.r0 \in Slots /\ c.r1 \in Grants
<1> USE DEF Codes, svc_dispatch, InterruptCodes, Arguments, LevelsUsed
<1>0. Irqs \subseteq Nat /\ Freqs \subseteq Nat /\ Slots \subseteq Nat
    BY IrqsAssumption, TimerAssumption, SlotsAssumption DEF Slots
<1>1. CASE c \in InterruptCalls
    BY <1>0, <1>1 DEF InterruptCalls
<1>2. CASE c \in KernelCalls
  <2>1. CASE c \in [code : {"HWREG_WRITE", "HWREG_READ"}, r0 : {0}, r1 : {0}]
      BY <2>1
  <2>2. CASE c \in [code : {"CPU_FREQ"}, r0 : Freqs, r1 : {0}]
    <3>1. c.code = "CPU_FREQ" /\ c.r0 \in Freqs /\ c.r1 = 0
        BY <2>2
    <3> QED
        BY <1>0, <3>1
  <2> QED
      BY <1>2, <2>1, <2>2 DEF KernelCalls
<1>3. CASE c \in [code : TaskCalls \cup UnservedCalls, r0 : {0}, r1 : {0}]
    BY <1>3 DEF TaskCalls, UnservedCalls
<1>4. CASE c \in BaseCalls
  <2>1. CASE c \in [code : {"GRANT_PERMISSION"}, r0 : Slots \ {0}, r1 : Grants]
    <3>1. c.code = "GRANT_PERMISSION" /\ c.r0 \in Slots /\ c.r1 \in Grants
        BY <2>1
    <3> QED
        BY <1>0, <3>1
  <2>2. CASE c \in [code : {"RELEASE_BASE", "DEVICE_RESET"}, r0 : {0}, r1 : {0}]
      BY <2>2
  <2> QED
      BY <1>4, <2>1, <2>2 DEF BaseCalls
<1> QED
    BY <1>1, <1>2, <1>3, <1>4 DEF Calls

(* A service keeps its arguments, and chains only to a service on tasks. *)
LEMMA SvcStep ==
    ASSUME MTypeOK, SvcOK, [Next]_vars
    PROVE  SvcOK'
<1>0. SvcOK /\ svc.r0 \in Nat /\ svc.code \in Codes
    BY DEF SvcOK
<1>e. Entry \in {"cycle", "lost"}
    BY DEF Entry
<1>i. ASSUME svc' = Idle PROVE SvcOK'
    BY <1>i DEF SvcOK, Idle, Codes, Arguments, Returns, InterruptCodes
<1>s. ASSUME NEW ret \in Returns, NEW code \in {svc.code} \cup TaskServices, Served(ret, code)
      PROVE  SvcOK'
  <2>1. code \in Codes
      BY <1>0 DEF Codes, svc_dispatch, TaskServices
  <2>2. svc' = [pc |-> IF code = svc.code THEN "exit" ELSE "cycle", code |-> code,
                r0 |-> svc.r0, r1 |-> svc.r1, ret |-> ret]
      BY <1>0, <1>s, <2>1, RaiseServe DEF Arguments
  <2> QED
      BY <1>0, <2>1, <2>2 DEF SvcOK, TaskServices, InterruptCodes
<1>1. CASE UNCHANGED svc
    BY <1>0, <1>1 DEF SvcOK
<1>2. CASE svc_unknown
    BY <1>0, <1>2 DEF svc_unknown, SvcOK, Returns
<1>3. CASE svc_exit \/ Restart
    BY <1>i, <1>3 DEF svc_exit, Restart
<1>4. CASE \E code \in svc_dispatch : RefuseInterrupt(code)
    BY <1>4, <1>s DEF RefuseInterrupt, Returns, Cycle
<1>5. CASE svc_service_int_enable \/ svc_service_int_disable \/ svc_service_int_register
              \/ svc_service_int_set_priority
    BY <1>4, <1>5, <1>s DEF svc_service_int_enable, svc_service_int_disable,
           svc_service_int_register, svc_service_int_set_priority, Accept, Cycle, Returns, svc_dispatch
<1>6. CASE svc_service_hwreg \/ svc_service_cpu_freq_update \/ svc_service_grant_permission
    BY <1>6, <1>s DEF svc_service_hwreg, svc_service_cpu_freq_update,
           svc_service_grant_permission, Cycle, Returns, ConfigError
<1>7. CASE svc_service_start_scheduler \/ TaskService
    BY <1>7, <1>s DEF svc_service_start_scheduler, TaskService, TaskServices, Chain, Cycle, Returns
<1>8. CASE arch_kernel_init_priorities
  <2>1. CASE UNCHANGED svc
      BY <1>1, <2>1
  <2>2. CASE \E n \in left : Raise("SET_PRIORITY", n, {5})
    <3>1. PICK n \in left : Raise("SET_PRIORITY", n, {5})
        BY <2>2
    <3>2. n \in Irqs /\ n \in Nat
        BY IrqsAssumption DEF MTypeOK, Devices
    <3>3. "SET_PRIORITY" \in Codes /\ {5} \in Arguments /\ {5} \in LevelsUsed
        BY DEF Codes, svc_dispatch, Arguments, LevelsUsed
    <3>4. svc' = [pc |-> Entry, code |-> "SET_PRIORITY", r0 |-> n, r1 |-> {5},
                  ret |-> ERROR_NONE]
        BY <1>0, <3>1, <3>2, <3>3, RaiseServe DEF Returns
    <3> QED
        BY <1>e, <3>2, <3>3, <3>4 DEF SvcOK, InterruptCodes, Returns
  <2> QED
      BY <1>8, <2>1, <2>2 DEF arch_kernel_init_priorities
<1>9. CASE kernel_init_base \/ start_scheduler
  <2>1. PICK code \in {"CREATE_TASK", "START_SCHEDULER"} : Raise(code, 0, 0)
      BY <1>9 DEF kernel_init_base, start_scheduler
  <2>2. code \in Codes
      BY DEF Codes, svc_dispatch
  <2>3. svc' = [pc |-> Entry, code |-> code, r0 |-> 0, r1 |-> 0, ret |-> ERROR_NONE]
      BY <1>0, <2>1, <2>2, RaiseServe DEF Returns, Arguments
  <2> QED
      BY <1>e, <2>2, <2>3 DEF SvcOK, InterruptCodes, Returns, Arguments
<1>10. CASE Call
  <2>1. PICK c \in Calls \cup BaseCalls : Raise(c.code, c.r0, c.r1)
      BY <1>10 DEF Call
  <2>2. svc' = [pc |-> Entry, code |-> c.code, r0 |-> c.r0, r1 |-> c.r1, ret |-> ERROR_NONE]
      BY <1>0, <2>1, CallArguments, RaiseServe DEF Returns
  <2> QED
      BY <1>e, <2>2, CallArguments DEF SvcOK, Returns
<1>11. CASE UNCHANGED vars \/ Switch \/ skibios_boot \/ vector_table_relocate \/ arch_kernel_init
               \/ os_timer_init \/ arch_mpu_init \/ kernel_init_grant
    BY <1>1, <1>11 DEF vars, Switch, skibios_boot, vector_table_relocate, arch_kernel_init,
           os_timer_init, arch_mpu_init, kernel_init_grant
<1> QED
    BY <1>2, <1>3, <1>5, <1>6, <1>7, <1>8, <1>9, <1>10, <1>11
       DEF Next, Service, kernel_init, svc_service_device_reset, HardwareReset

(* The parts of the state one by one. *)
LEMMA Parts ==
    /\ UNCHANGED machine =>
           /\ vtable' = vtable /\ vector' = vector /\ reload' = reload
           /\ cpu_freq' = cpu_freq /\ wild' = wild
    /\ UNCHANGED clock => reload' = reload /\ cpu_freq' = cpu_freq
    /\ UNCHANGED kvar =>
           permissions' = permissions /\ current_task' = current_task /\ first_start' = first_start
    /\ UNCHANGED boot => at' = at /\ left' = left
BY DEF machine, table, clock, kvar, boot

(* Where the call being served may stand, at each stage. *)
SvcFits ==
    \/ svc.pc = "thread"
    \/ /\ ~wild => svc.pc # "lost"
       /\ \/ at = "main"
          \/ at = "priorities" /\ svc.code = "SET_PRIORITY"
          \/ at = "grant" /\ svc.code = "CREATE_TASK"

(* A step that only raises, serves or leaves a call. *)
LEMMA Stays ==
    ASSUME MInv, UNCHANGED <<boot, machine, kvar>>, SvcFits'
    PROVE  MTypeOK' /\ Stage' /\ (~wild' => BootOrder')
<1>1. /\ vtable' = vtable /\ vector' = vector /\ reload' = reload /\ cpu_freq' = cpu_freq
      /\ wild' = wild /\ permissions' = permissions /\ current_task' = current_task
      /\ first_start' = first_start /\ at' = at /\ left' = left
    BY Parts
<1>2. MTypeOK /\ Stage /\ (~wild => BootOrder)
    BY DEF MInv
<1>3. MTypeOK'
    BY <1>1, <1>2 DEF MTypeOK
<1>4. Stage'
    BY <1>1, <1>2 DEF Stage, SvcFits
<1>5. ~wild => BootOrder'
    BY <1>1, <1>2 DEF BootOrder, SvcFits
<1> QED
    BY <1>1, <1>3, <1>4, <1>5

(* The boot, the tick and the permissions, action by action. *)
LEMMA BootStep ==
    ASSUME MInv, [Next]_vars
    PROVE  MTypeOK' /\ Stage' /\ (~wild' => BootOrder')
<1>t. /\ TASK_PER_SEC \in Nat /\ TASK_PER_SEC > 0 /\ Overflow \in Nat /\ Overflow > 0
      /\ Freqs \subseteq Nat
    BY TimerAssumption
<1>k. 0 \in Slots
    BY SlotsAssumption DEF Slots
<1>m. MTypeOK /\ SvcOK /\ Stage /\ (~wild => BootOrder)
    BY DEF MInv
<1>f. ASSUME NEW f \in Nat, os_timer_config(f)
      PROVE  /\ ConfigError(f) # ERROR_NONE => reload' = reload /\ cpu_freq' = cpu_freq
             /\ ConfigError(f) = ERROR_NONE =>
                    cpu_freq' \in Nat /\ reload' \in Nat
                    /\ reload' = cpu_freq' \div TASK_PER_SEC /\ reload' < Overflow
  <2> DEFINE q == f \div TASK_PER_SEC
  <2>1. q \in Nat
      BY <1>t
  <2>2. /\ q >= Overflow => UNCHANGED clock /\ ConfigError(f) = ERROR_OVERFLOW
        /\ ~(q >= Overflow) => cpu_freq' = f /\ reload' = q /\ ConfigError(f) = ERROR_NONE
      BY <1>f DEF os_timer_config, ConfigError
  <2>3. ERROR_OVERFLOW # ERROR_NONE
      BY DEF ERROR_OVERFLOW, ERROR_NONE
  <2> QED
      BY <1>t, <2>1, <2>2, <2>3, Parts
<1>p. svc.pc \in {"thread", "cycle", "exit", "lost"}
    BY <1>m DEF SvcOK
<1>s. ASSUME NEW ret, NEW code, Served(ret, code)
      PROVE  svc'.pc \in {"cycle", "exit"} /\ svc'.code = code
    BY <1>m, <1>s DEF Served, SvcOK
<1>r. ASSUME NEW code, NEW r0, NEW r1, Raise(code, r0, r1)
      PROVE  /\ svc'.pc \in {"cycle", "lost"} /\ svc'.code = code
             /\ at \notin {"boot", "relocate", "arch"} /\ ~wild => svc'.pc # "lost"
    BY <1>m, <1>r DEF Raise, Idle, BootOrder
<1>c. ASSUME NEW code, Cycle(code)
      PROVE  svc.pc = "cycle" /\ svc.code = code
             /\ \/ at = "main"
                \/ at = "priorities" /\ code = "SET_PRIORITY"
                \/ at = "grant" /\ code = "CREATE_TASK"
    BY <1>m, <1>c DEF Cycle, Stage
<1>1. CASE UNCHANGED vars
  <2>1. UNCHANGED <<boot, machine, kvar>> /\ svc' = svc /\ wild' = wild /\ at' = at
      BY <1>1, Parts DEF vars
  <2>2. SvcFits
      BY <1>m, <1>p DEF SvcFits, Stage, BootOrder
  <2> QED
      BY <2>1, <2>2, Stays DEF SvcFits
<1>2. CASE svc_unknown \/ svc_exit
  <2>1. UNCHANGED <<boot, machine, kvar>>
      BY <1>2 DEF svc_unknown, svc_exit
  <2>2. at' = at /\ wild' = wild
      BY <2>1, Parts
  <2>3. SvcFits'
    <3>1. CASE svc_unknown
      <4>1. svc.pc = "cycle" /\ svc' = [svc EXCEPT !.pc = "exit", !.ret = GARBAGE]
          BY <3>1 DEF svc_unknown
      <4>2. svc'.code = svc.code /\ svc'.pc = "exit"
          BY <1>m, <4>1 DEF SvcOK
      <4> QED
          BY <1>m, <2>2, <4>1, <4>2 DEF SvcFits, Stage
    <3>2. CASE svc_exit
        BY <3>2 DEF svc_exit, Idle, SvcFits
    <3> QED
        BY <1>2, <3>1, <3>2
  <2> QED
      BY <2>1, <2>3, Stays
<1>3. CASE Restart
    BY <1>3, <1>m DEF Restart, Idle, MTypeOK, Stage, BootOrder, kvar
<1>4. CASE skibios_boot
  <2>1. svc.pc = "thread" /\ svc' = svc /\ at' = "relocate" /\ wild = FALSE /\ wild' = wild
        /\ left' = left /\ vtable' = vtable /\ vector' = vector /\ reload' = reload
      BY <1>4, <1>m, <1>p DEF skibios_boot, table, Stage
  <2>2. /\ cpu_freq' = 0 /\ permissions' = [t \in Slots |-> {}]
        /\ current_task' = 0 /\ first_start' = FALSE
      BY <1>4 DEF skibios_boot
  <2>3. permissions' \in [Slots -> SUBSET PermissionBits]
      BY <2>2
  <2>4. MTypeOK'
      BY <1>m, <1>k, <2>1, <2>2, <2>3 DEF MTypeOK
  <2> QED
      BY <2>1, <2>2, <2>4 DEF Stage, BootOrder
<1>5. CASE vector_table_relocate
  <2>1. /\ at = "relocate" /\ at' = "arch" /\ vtable' = "ram" /\ left' = left
        /\ reload' = reload /\ cpu_freq' = cpu_freq /\ permissions' = permissions
        /\ current_task' = current_task /\ first_start' = first_start /\ wild' = wild
        /\ svc' = svc /\ vector' \in [Followed -> Handlers]
      BY <1>5, <1>m DEF vector_table_relocate, g_pfnVectors, clock, kvar, Handlers, MTypeOK
  <2> QED
      BY <1>m, <1>p, <2>1 DEF MTypeOK, Stage, BootOrder
<1>6. CASE arch_kernel_init
  <2>1. /\ at = "arch" /\ at' = "priorities" /\ left' = Devices
        /\ vtable' = vtable /\ reload' = reload /\ cpu_freq' = cpu_freq
        /\ permissions' = permissions /\ current_task' = current_task
        /\ first_start' = first_start /\ wild' = wild /\ svc' = svc
      BY <1>6 DEF arch_kernel_init, clock, kvar
  <2>2. /\ vector' \in [Followed -> Handlers]
        /\ vector'[INT_NUM_SVC] = "svc_handler" /\ vector'[INT_NUM_PENDSV] = "pendsv_handler"
    <3>1. 11 \in Followed /\ 14 \in Followed
        BY DEF Followed, Kernels, INT_NUM_SVC, INT_NUM_PENDSV
    <3>2. vector' = [vector EXCEPT ![11] = "svc_handler", ![14] = "pendsv_handler"]
        BY <1>6 DEF arch_kernel_init, INT_NUM_SVC, INT_NUM_PENDSV
    <3>3. "svc_handler" \in Handlers /\ "pendsv_handler" \in Handlers
        BY DEF Handlers
    <3> QED
        BY <1>m, <3>1, <3>2, <3>3 DEF MTypeOK, INT_NUM_SVC, INT_NUM_PENDSV
  <2> QED
      BY <1>m, <1>p, <2>1, <2>2 DEF MTypeOK, Stage, BootOrder
<1>7. CASE arch_kernel_init_priorities
  <2>0. at = "priorities" /\ Thread /\ UNCHANGED <<guarded, created, machine, kvar>>
      BY <1>7 DEF arch_kernel_init_priorities
  <2>1. /\ vtable' = vtable /\ vector' = vector /\ reload' = reload /\ cpu_freq' = cpu_freq
        /\ wild' = wild /\ permissions' = permissions /\ current_task' = current_task
        /\ first_start' = first_start
      BY <2>0, Parts
  <2>2. \/ at' = "timer" /\ left' = left /\ svc' = svc
        \/ /\ at' = at /\ left' \subseteq left
           /\ svc'.pc \in {"cycle", "lost"} /\ svc'.code = "SET_PRIORITY"
           /\ ~wild => svc'.pc # "lost"
      BY <1>7, <1>r DEF arch_kernel_init_priorities
  <2>3. MTypeOK'
      BY <1>m, <2>0, <2>1, <2>2 DEF MTypeOK
  <2>4. Stage'
      BY <1>m, <2>0, <2>1, <2>2 DEF Stage, Thread
  <2>5. ~wild => BootOrder'
      BY <1>m, <2>0, <2>1, <2>2 DEF BootOrder, Thread
  <2> QED
      BY <2>1, <2>3, <2>4, <2>5
<1>8. CASE os_timer_init
  <2>w. at = "timer" /\ ~wild
      BY <1>8, <1>m DEF os_timer_init, Stage
  <2>1. cpu_freq = 0 /\ os_timer_config(0)
      BY <1>8, <1>m, <2>w DEF os_timer_init, BootOrder
  <2>2. 0 \div TASK_PER_SEC = 0 /\ ~(0 >= Overflow)
      BY <1>t
  <2>3. ConfigError(0) = ERROR_NONE
      BY <2>2 DEF ConfigError
  <2>4. cpu_freq' = 0 /\ reload' = 0 /\ 0 < Overflow
      BY <1>t, <2>1, <2>2 DEF os_timer_config
  <2>5. at' = "mpu" /\ vector' = [vector EXCEPT ![INT_NUM_SYSTICK] = "scheduler"]
      BY <1>8, <2>1, <2>3 DEF os_timer_init
  <2>6. /\ left' = left /\ vtable' = vtable /\ first_start' = first_start /\ wild' = wild
        /\ permissions' = permissions /\ current_task' = current_task /\ svc' = svc
      BY <1>8 DEF os_timer_init, kvar
  <2>7. /\ vector' \in [Followed -> Handlers] /\ vector'[INT_NUM_SYSTICK] = "scheduler"
        /\ vector'[INT_NUM_SVC] = vector[INT_NUM_SVC]
        /\ vector'[INT_NUM_PENDSV] = vector[INT_NUM_PENDSV]
      BY <1>m, <2>5 DEF MTypeOK, Handlers, Followed, Kernels, INT_NUM_SVC, INT_NUM_PENDSV,
             INT_NUM_SYSTICK
  <2>8. MTypeOK'
      BY <1>m, <2>4, <2>5, <2>6, <2>7 DEF MTypeOK
  <2>9. Stage' /\ BootOrder'
      BY <1>m, <2>w, <2>2, <2>4, <2>5, <2>6, <2>7 DEF Stage, BootOrder
  <2> QED
      BY <2>8, <2>9
<1>9. CASE arch_mpu_init
  <2>1. /\ at = "mpu" /\ at' \in {"base", "main"} /\ svc' = svc /\ left' = left
        /\ UNCHANGED machine /\ UNCHANGED kvar
      BY <1>9 DEF arch_mpu_init
  <2> QED
      BY <1>m, <1>p, <2>1, Parts DEF MTypeOK, Stage, BootOrder
<1>10. CASE kernel_init_base
  <2>1. /\ at = "base" /\ at' = "grant" /\ left' = left /\ UNCHANGED machine /\ UNCHANGED kvar
        /\ Raise("CREATE_TASK", 0, 0)
      BY <1>10 DEF kernel_init_base
  <2>2. svc'.code = "CREATE_TASK" /\ (~wild => svc'.pc # "lost")
      BY <1>r, <2>1
  <2> QED
      BY <1>m, <2>1, <2>2, Parts DEF MTypeOK, Stage, BootOrder
<1>11. CASE kernel_init_grant
  <2>1. /\ at = "grant" /\ at' = "main" /\ left' = left /\ UNCHANGED machine
        /\ first_start' = first_start /\ svc' = svc /\ current_task' = 0
        /\ permissions' = [permissions EXCEPT ![0] = All]
      BY <1>11 DEF kernel_init_grant
  <2>2. permissions' \in [Slots -> SUBSET PermissionBits]
      BY <1>m, <2>1 DEF MTypeOK, PermissionBits
  <2> QED
      BY <1>m, <1>k, <2>1, <2>2, Parts DEF MTypeOK, Stage, BootOrder
<1>12. CASE start_scheduler
  <2>1. /\ at = "main" /\ UNCHANGED boot /\ UNCHANGED machine /\ current_task' = 0
        /\ permissions' = permissions /\ first_start' = first_start
        /\ Raise("START_SCHEDULER", 0, 0)
      BY <1>12 DEF start_scheduler
  <2>2. ~wild => svc'.pc # "lost"
      BY <1>r, <2>1
  <2> QED
      BY <1>m, <1>k, <2>1, <2>2, Parts DEF MTypeOK, Stage, BootOrder
<1>13. CASE Call
  <2>1. at = "main" /\ UNCHANGED <<boot, machine, kvar>>
        /\ \E c \in Calls \cup BaseCalls : Raise(c.code, c.r0, c.r1)
      BY <1>13 DEF Call
  <2>2. at' = "main" /\ wild' = wild
      BY <2>1, Parts
  <2>3. SvcFits'
      BY <1>r, <2>1, <2>2 DEF SvcFits
  <2> QED
      BY <2>1, <2>3, Stays
<1>14. CASE Switch
  <2>1. /\ at = "main" /\ UNCHANGED boot /\ UNCHANGED machine /\ current_task' \in Slots
        /\ permissions' = permissions /\ first_start' = first_start /\ svc' = svc
      BY <1>14 DEF Switch
  <2> QED
      BY <1>m, <2>1, Parts DEF MTypeOK, Stage, BootOrder
<1>15. ASSUME NEW code, NEW next, NEW ret, Cycle(code), Served(ret, next),
              UNCHANGED <<boot, machine, kvar>>, at = "main" \/ next = code
       PROVE  MTypeOK' /\ Stage' /\ (~wild' => BootOrder')
  <2>1. at' = at /\ svc'.pc \in {"cycle", "exit"} /\ svc'.code = next
      BY <1>s, <1>15, Parts
  <2>2. SvcFits'
      BY <1>c, <1>15, <2>1 DEF SvcFits
  <2> QED
      BY <1>15, <2>2, Stays
<1>16. ASSUME NEW code, RefuseInterrupt(code)
       PROVE  MTypeOK' /\ Stage' /\ (~wild' => BootOrder')
    BY <1>15, <1>16 DEF RefuseInterrupt
<1>17. ASSUME NEW code \in InterruptCodes, Accept(code)
       PROVE  /\ at = "main" /\ svc.code = code /\ svc.r0 \in Irqs
              /\ svc'.pc \in {"cycle", "exit"} /\ svc'.code = code
              /\ code = "INT_REGISTER" => svc.r1 = Handler
  <2>1. Cycle(code) /\ ~Refused(code, svc.r0) /\ Served(ERROR_NONE, code)
      BY <1>17 DEF Accept
  <2>2. svc'.pc \in {"cycle", "exit"} /\ svc'.code = code /\ svc.code = code
      BY <1>s, <1>c, <2>1
  <2>3. PERMISSION_INTCTRL \in permissions[current_task] /\ current_task \in Slots
      BY <1>m, <2>1 DEF Refused, Permitted, MTypeOK
  <2>4. at \in {"priorities", "grant"} => permissions[current_task] = {}
      BY <1>m, <2>3 DEF Stage, BootOrder
  <2>5. at = "main"
      BY <1>c, <2>1, <2>3, <2>4
  <2> QED
      BY <1>m, <2>2, <2>5 DEF SvcOK
<1>18. ASSUME Store, at = "main", svc'.pc # "lost"
       PROVE  MTypeOK' /\ Stage' /\ (~wild' => BootOrder')
  <2>1. UNCHANGED boot /\ MTypeOK' /\ (wild' \/ UNCHANGED <<machine, kvar>>)
      BY <1>18, <1>m, StoreEffect DEF MInv
  <2>2. at' = "main" /\ SvcFits'
      BY <1>18, <2>1, Parts DEF SvcFits
  <2>3. Stage'
      BY <2>2 DEF Stage
  <2>4. CASE UNCHANGED <<machine, kvar>>
      BY <2>1, <2>2, <2>4, Stays
  <2> QED
      BY <2>1, <2>3, <2>4
<1>19. ASSUME at = "main", svc'.pc # "lost", UNCHANGED <<boot, table, clock, kvar, wild>>
       PROVE  MTypeOK' /\ Stage' /\ (~wild' => BootOrder')
  <2>1. /\ vtable' = vtable /\ vector' = vector /\ reload' = reload /\ cpu_freq' = cpu_freq
        /\ permissions' = permissions /\ current_task' = current_task
        /\ first_start' = first_start /\ at' = at /\ left' = left /\ wild' = wild
      BY <1>19, Parts DEF table
  <2> QED
      BY <1>m, <1>19, <2>1 DEF MTypeOK, Stage, BootOrder
<1>20. CASE svc_service_int_enable
  <2>1. CASE Accept("INT_ENABLE") /\ arch_interrupt_enable(svc.r0)
    <3>1. at = "main" /\ svc'.pc # "lost"
        BY <1>17, <2>1 DEF InterruptCodes
    <3> QED
        BY <1>18, <1>19, <2>1, <3>1 DEF arch_interrupt_enable
  <2> QED
      BY <1>16, <1>20, <2>1 DEF svc_service_int_enable
<1>21. CASE svc_service_int_disable
  <2>1. CASE Accept("INT_DISABLE") /\ arch_interrupt_disable(svc.r0)
    <3>1. at = "main" /\ svc'.pc # "lost"
        BY <1>17, <2>1 DEF InterruptCodes
    <3> QED
        BY <1>18, <1>19, <2>1, <3>1 DEF arch_interrupt_disable
  <2> QED
      BY <1>16, <1>21, <2>1 DEF svc_service_int_disable
<1>22. CASE svc_service_int_set_priority
  <2>1. CASE Accept("SET_PRIORITY") /\ arch_interrupt_priority(svc.r0, svc.r1)
    <3>1. at = "main" /\ svc'.pc # "lost"
        BY <1>17, <2>1 DEF InterruptCodes
    <3>2. CASE ~(svc.r0 % 256 < 156)
        BY <1>18, <2>1, <3>1, <3>2 DEF arch_interrupt_priority
    <3>3. CASE svc.r0 % 256 < 156
      <4>1. /\ wild' = (wild \/ svc.r0 \notin Devices)
            /\ UNCHANGED boot /\ UNCHANGED table /\ UNCHANGED clock /\ UNCHANGED kvar
          BY <2>1, <3>3 DEF arch_interrupt_priority
      <4>2. /\ vtable' = vtable /\ vector' = vector /\ reload' = reload /\ cpu_freq' = cpu_freq
            /\ permissions' = permissions /\ current_task' = current_task
            /\ first_start' = first_start /\ at' = at /\ left' = left
          BY <4>1, Parts DEF table
      <4> QED
          BY <1>m, <3>1, <4>1, <4>2 DEF MTypeOK, Stage, BootOrder
    <3> QED
        BY <3>2, <3>3
  <2> QED
      BY <1>16, <1>22, <2>1 DEF svc_service_int_set_priority
<1>23. CASE svc_service_int_register
  <2>1. CASE Accept("INT_REGISTER") /\ arch_interrupt_register(svc.r0, svc.r1)
    <3>1. at = "main" /\ svc'.pc # "lost" /\ svc.r0 \in Irqs /\ svc.r1 = Handler
        BY <1>17, <2>1 DEF InterruptCodes
    <3>2. CASE ~(Cell(svc.r0) \in 0..143)
        BY <1>18, <2>1, <3>1, <3>2 DEF arch_interrupt_register
    <3>3. CASE Cell(svc.r0) \in 0..143
      <4>1. /\ vector' = [vector EXCEPT ![Cell(svc.r0)] = Handler]
            /\ wild' = (wild \/ svc.r0 \notin Devices) /\ vtable' = vtable
            /\ UNCHANGED boot /\ UNCHANGED clock /\ UNCHANGED kvar
          BY <2>1, <3>1, <3>3 DEF arch_interrupt_register
      <4>2. vector' \in [Followed -> Handlers]
          BY <1>m, <3>1, <3>3, <4>1 DEF MTypeOK, Followed, Handlers
      <4>3. svc.r0 \in Devices => Cell(svc.r0) \notin Kernels
        <5>1. \A n \in 16..143 : n % 1073741824 = n
            OBVIOUS
        <5> QED
            BY <5>1 DEF Devices, Cell, Kernels, INT_NUM_SVC, INT_NUM_PENDSV, INT_NUM_SYSTICK
      <4>4. svc.r0 \in Devices => \A n \in Kernels : vector'[n] = vector[n]
          BY <1>m, <4>1, <4>3 DEF MTypeOK, Followed
      <4>5. /\ reload' = reload /\ cpu_freq' = cpu_freq
            /\ permissions' = permissions /\ current_task' = current_task
            /\ first_start' = first_start /\ at' = at /\ left' = left
          BY <4>1, Parts
      <4>6. MTypeOK' /\ Stage'
          BY <1>m, <3>1, <4>1, <4>2, <4>5 DEF MTypeOK, Stage
      <4>7. ~wild' => BootOrder'
          BY <1>m, <3>1, <4>1, <4>4, <4>5 DEF BootOrder, Kernels
      <4> QED
          BY <4>6, <4>7
    <3> QED
        BY <3>2, <3>3
  <2> QED
      BY <1>16, <1>23, <2>1 DEF svc_service_int_register
<1>24. CASE svc_service_hwreg
  <2>1. PICK code \in {"HWREG_WRITE", "HWREG_READ"} :
            /\ Cycle(code)
            /\ Store \/ UNCHANGED <<boot, machine, kvar>>
            /\ \E ret : Served(ret, code)
      BY <1>24 DEF svc_service_hwreg
  <2>2. at = "main" /\ svc'.pc \in {"cycle", "exit"}
      BY <1>c, <1>s, <2>1
  <2> QED
      BY <1>15, <1>18, <2>1, <2>2
<1>25. CASE svc_service_cpu_freq_update
  <2>1. svc.code = "CPU_FREQ" /\ at = "main"
      BY <1>25, <1>c DEF svc_service_cpu_freq_update
  <2>2. svc.r0 \in Nat
      BY <1>m, <1>t, <2>1 DEF SvcOK
  <2>3. /\ os_timer_config(svc.r0) /\ UNCHANGED boot /\ UNCHANGED table /\ UNCHANGED kvar
        /\ wild' = wild /\ Served(ConfigError(svc.r0), "CPU_FREQ")
      BY <1>25 DEF svc_service_cpu_freq_update
  <2>4. /\ vtable' = vtable /\ vector' = vector /\ at' = at /\ left' = left
        /\ permissions' = permissions /\ current_task' = current_task
        /\ first_start' = first_start
      BY <2>3, Parts DEF table
  <2>5. /\ cpu_freq' \in Nat /\ reload' \in Nat
        /\ ~wild => reload' = cpu_freq' \div TASK_PER_SEC /\ reload' < Overflow
    <3>1. CASE ConfigError(svc.r0) = ERROR_NONE
        BY <1>f, <2>2, <2>3, <3>1
    <3>2. CASE ConfigError(svc.r0) # ERROR_NONE
      <4>1. reload' = reload /\ cpu_freq' = cpu_freq
          BY <1>f, <2>2, <2>3, <3>2
      <4> QED
          BY <1>m, <2>1, <4>1 DEF MTypeOK, BootOrder
    <3> QED
        BY <3>1, <3>2
  <2>6. svc'.pc # "lost"
      BY <1>s, <2>3
  <2>7. MTypeOK' /\ Stage'
      BY <1>m, <2>1, <2>3, <2>4, <2>5 DEF MTypeOK, Stage
  <2>8. ~wild => BootOrder'
      BY <1>m, <2>1, <2>4, <2>5, <2>6 DEF BootOrder
  <2> QED
      BY <2>3, <2>7, <2>8
<1>26. CASE svc_service_grant_permission
  <2>1. svc.code = "GRANT_PERMISSION" /\ at = "main"
      BY <1>26, <1>c DEF svc_service_grant_permission
  <2>2. /\ permissions' = [permissions EXCEPT ![svc.r0] = svc.r1] /\ UNCHANGED boot
        /\ UNCHANGED machine /\ current_task' = current_task /\ first_start' = first_start
        /\ svc'.pc # "lost"
      BY <1>26, <1>s DEF svc_service_grant_permission
  <2>3. permissions' \in [Slots -> SUBSET PermissionBits]
      BY <1>m, <2>1, <2>2 DEF MTypeOK, SvcOK, PermissionBits
  <2> QED
      BY <1>m, <2>1, <2>2, <2>3, Parts DEF MTypeOK, Stage, BootOrder
<1>27. CASE svc_service_start_scheduler
  <2>1. at = "main"
      BY <1>27, <1>c DEF svc_service_start_scheduler
  <2>2. /\ permissions' = [t \in Slots |-> IF t = 0 THEN All ELSE {}] /\ UNCHANGED boot
        /\ UNCHANGED machine /\ current_task' = current_task /\ first_start' = TRUE
        /\ svc'.pc # "lost"
      BY <1>27, <1>s DEF svc_service_start_scheduler
  <2>3. permissions' \in [Slots -> SUBSET PermissionBits]
      BY <2>2 DEF PermissionBits
  <2> QED
      BY <1>m, <2>1, <2>2, <2>3, Parts DEF MTypeOK, Stage, BootOrder
<1>28. CASE TaskService
  <2>1. PICK code \in TaskServices : \E next \in Chain(code) :
            /\ Cycle(code) /\ Served(ERROR_NONE, next) /\ UNCHANGED <<boot, machine, kvar>>
      BY <1>28 DEF TaskService
  <2>2. PICK next \in Chain(code) :
            /\ Cycle(code) /\ Served(ERROR_NONE, next) /\ UNCHANGED <<boot, machine, kvar>>
      BY <2>1
  <2>3. code = "CREATE_TASK" => next = code
      BY <2>2 DEF Chain
  <2>4. at = "main" \/ next = code
      BY <1>c, <2>2, <2>3 DEF TaskServices
  <2> QED
      BY <1>15, <2>2, <2>4
<1> QED
    BY <1>1, <1>2, <1>3, <1>4, <1>5, <1>6, <1>7, <1>8, <1>9, <1>10, <1>11, <1>12, <1>13, <1>14,
       <1>20, <1>21, <1>22, <1>23, <1>24, <1>25, <1>26, <1>27, <1>28
       DEF Next, Service, kernel_init, svc_service_device_reset, HardwareReset

-----------------------------------------------------------------------------
(* Theorems *)

(* The inductive invariant holds after power-on, and every step keeps it. *)
LEMMA MachineInvariant == Spec => []MInv
<1>1. Init => MInv
  <2> SUFFICES ASSUME Init PROVE MInv
      OBVIOUS
  <2>1. MTypeOK
    <3>1. permissions \in [Slots -> SUBSET PermissionBits]
        BY DEF Init, PermissionBits
    <3>2. current_task \in Slots
        BY SlotsAssumption DEF Init, Slots
    <3>3. vector \in [Followed -> Handlers]
        BY DEF Init, Handlers
    <3> QED
        BY <3>1, <3>2, <3>3 DEF Init, MTypeOK
  <2>2. NTypeOK
      BY DEF Init, NTypeOK
  <2>3. SvcOK
      BY DEF Init, SvcOK, Idle, Codes, Arguments, Returns, InterruptCodes
  <2>4. Stage /\ BootOrder
      BY DEF Init, Stage, BootOrder, Idle
  <2>5. EnablesAsAsked /\ PriorityBytesApart
    <3>1. ASSUME NEW n \in Devices
          PROVE  en[(n - 16) \div 32] = {} /\ prio[(n - 16) \div 4] = {}
                 /\ ~wanted[n] /\ levels[n] = {}
        BY BitsApart DEF Init, EnableRegister
    <3> QED
        BY <3>1 DEF EnablesAsAsked, PriorityBytesApart
  <2> QED
      BY <2>1, <2>2, <2>3, <2>4, <2>5 DEF MInv
<1>2. MInv /\ [Next]_vars => MInv'
    BY EnablesStep, PrioritiesStep, SvcStep, BootStep DEF MInv, NTypeOK
<1> QED
    BY <1>1, <1>2, PTL DEF Spec

(* An SVC enters the kernel's handler however early it is raised, and once  *)
(* the scheduler runs so do the tick and PendSV: no sequence of resets,     *)
(* boots and registrations reaches these vectors, but through a wild store. *)
THEOREM VectorsStayReady == Spec => []VectorsReady
<1>1. MInv => VectorsReady
    BY DEF MInv, BootOrder, VectorsReady
<1> QED
    BY <1>1, MachineInvariant, PTL

(* Until a wild store, an interrupt is enabled exactly if the last accepted *)
(* call about it says so, for every set of numbers the application gives.   *)
THEOREM EnablesExact == Spec => []EnablesAsAsked
<1>1. MInv => EnablesAsAsked
    BY DEF MInv
<1> QED
    BY <1>1, MachineInvariant, PTL

(* Until a wild store, a priority byte holds the bits given to its          *)
(* interrupt and no others.                                                 *)
THEOREM PriorityBytesExact == Spec => []PriorityBytesApart
<1>1. MInv => PriorityBytesApart
    BY DEF MInv
<1> QED
    BY <1>1, MachineInvariant, PTL

(* Until a wild store, the tick is that of the frequency on record, and     *)
(* fits the timer's register, whatever frequencies have been asked for and  *)
(* refused.                                                                 *)
THEOREM TickFits == Spec => []TickFitsFrequency
<1>1. MInv => TickFitsFrequency
    BY DEF MInv, BootOrder, TickFitsFrequency
<1> QED
    BY <1>1, MachineInvariant, PTL

(* The registers of the interrupt controller change only by a reset or      *)
(* under a current task that has one of the two permissions for it, also    *)
(* after wild stores into the permissions: arch_kernel_init's own calls     *)
(* change nothing.                                                          *)
THEOREM NvicIsGuarded == Spec => NvicGuarded
<1>1. ASSUME MInv, [Next]_vars, <<en, prio>>' # <<en, prio>>
      PROVE  \/ at' = "boot"
             \/ at = "main" /\ \/ PERMISSION_INTCTRL \in permissions[current_task]
                               \/ /\ PERMISSION_HWREG \in permissions[current_task]
                                  /\ svc.code \in {"HWREG_WRITE", "HWREG_READ"}
  <2>1. CASE Restart
      BY <2>1 DEF Restart
  <2>2. CASE MayStore
    <3>1. svc.pc # "thread" /\ svc.code # "CREATE_TASK"
          /\ (svc.code = "SET_PRIORITY" => PERMISSION_INTCTRL \in permissions[current_task])
        BY <2>2 DEF MayStore, InterruptCodes
    <3>2. current_task \in Slots
        BY <1>1 DEF MInv, MTypeOK
    <3>3. at = "main"
        BY <1>1, <3>1, <3>2 DEF MInv, Stage, BootOrder
    <3> QED
        BY <2>2, <3>3 DEF MayStore
  <2> QED
      BY <1>1, <2>1, <2>2, NvicSteps DEF MInv, nvic
<1>2. MInv /\ [Next]_vars =>
        [<<en, prio>>' # <<en, prio>> =>
            \/ at' = "boot"
            \/ at = "main" /\ \/ PERMISSION_INTCTRL \in permissions[current_task]
                              \/ /\ PERMISSION_HWREG \in permissions[current_task]
                                 /\ svc.code \in {"HWREG_WRITE", "HWREG_READ"}]_vars
    BY <1>1
<1> QED
    BY <1>2, MachineInvariant, PTL DEF Spec, NvicGuarded

=============================================================================
