----------------------------- MODULE Semaphores -----------------------------
(***************************************************************************)
(* semaphore_increment and semaphore_decrement (share.c) over the          *)
(* exclusive loads and stores of arch/arm-m3m4/semaphore.S.  The task that *)
(* runs may change between any two instructions; taking the exception that *)
(* changes it clears the exclusive monitor, and so does the SVC of a hand  *)
(* over.                                                                   *)
(***************************************************************************)
EXTENDS Integers

CONSTANTS
    Tasks,      \* the tasks that share the semaphore
    Span,       \* 256, the values of the byte LDREXB loads
    Start,      \* the value the application gives the semaphore
    Retry,      \* the retry argument
    MaxOps      \* bound: successful increments in one behaviour

ASSUME SpanAssumption == Span \in Nat \ {0} /\ Start \in 0..(Span - 1)
ASSUME RetryAssumption == Retry \in 1..65535 /\ MaxOps \in Nat

VARIABLES
    sem,        \* the semaphore
    monitor,    \* the exclusive monitor is armed
    running,    \* the task whose instructions execute
    at,         \* per task: where it is; r1 is the register, loop the tries used
    ups, downs, \* increments and decrements stored
    taken       \* decrements reported as successful

vars == <<sem, monitor, running, at, ups, downs, taken>>

Out == [pc |-> "out", op |-> "inc", r1 |-> 0, loop |-> 0]

Init ==
    /\ sem = Start
    /\ monitor = FALSE
    /\ running \in Tasks
    /\ at = [t \in Tasks |-> Out]
    /\ ups = 0 /\ downs = 0 /\ taken = 0

At(pc) == at[running].pc = pc

(* The running task goes on at pc, with v in its register. *)
Goto(pc, v, loop) ==
    at' = [at EXCEPT ![running] = [pc |-> pc, op |-> at[running].op, r1 |-> v, loop |-> loop]]

Return == at' = [at EXCEPT ![running] = Out]

(* Mutant: the monitor survives the exception. *)
SwitchKeepsMonitor(t) ==
    /\ running' = t
    /\ UNCHANGED <<sem, monitor, at, ups, downs, taken>>

(* A tick or a hand over makes another task run. *)
Switch(t) ==
    /\ running' = t
    /\ monitor' = FALSE
    /\ UNCHANGED <<sem, at, ups, downs, taken>>

Call(op) ==
    /\ At("out")
    /\ op = "inc" => ups < MaxOps
    /\ op = "dec" => taken < Start + MaxOps
    /\ at' = [at EXCEPT ![running] = [pc |-> "load", op |-> op, r1 |-> 0, loop |-> 0]]
    /\ UNCHANGED <<sem, monitor, running, ups, downs, taken>>

(* LDREXB and the addition.  The register is wider than the byte; the store *)
(* keeps its low byte.                                                      *)
arch_semaphore_inc ==
    /\ At("load") /\ at[running].op = "inc"
    /\ Goto("store", sem + 1, at[running].loop)
    /\ monitor' = TRUE
    /\ UNCHANGED <<sem, running, ups, downs, taken>>

(* LDREXB and the subtraction. *)
arch_semaphore_dec ==
    /\ At("load") /\ at[running].op = "dec" /\ sem # 0
    /\ Goto("store", sem - 1, at[running].loop)
    /\ monitor' = TRUE
    /\ UNCHANGED <<sem, running, ups, downs, taken>>

(* A semaphore at zero: nothing is stored and R0 = 0 is returned, which     *)
(* semaphore_decrement takes for success.                                   *)
arch_semaphore_dec_zero ==
    /\ At("load") /\ at[running].op = "dec" /\ sem = 0
    /\ Return
    /\ monitor' = TRUE
    /\ taken' = taken + 1
    /\ UNCHANGED <<sem, running, ups, downs>>

(* Mutant: the store succeeds whatever happened since the load. *)
StoreAlways == TRUE

(* STREXB fails once the monitor was cleared. *)
StoreSucceeds == monitor

(* Mutant: the whole register is stored. *)
WholeRegister(r) == r

(* The low byte of a register. *)
LowByte(r) == r % Span

arch_semaphore_store ==
    /\ At("store")
    /\ StoreSucceeds
    /\ sem' = LowByte(at[running].r1)
    /\ IF at[running].op = "inc"
       THEN ups' = ups + 1 /\ UNCHANGED <<downs, taken>>
       ELSE downs' = downs + 1 /\ taken' = taken + 1 /\ UNCHANGED ups
    /\ Return
    /\ monitor' = FALSE
    /\ UNCHANGED running

(* Mutant: failed tries are not counted. *)
SameTry(n) == n

NextTry(n) == n + 1

(* STREXB fails: svc(HAND_OVER); loop++, at last                            *)
(* ERROR_RESOURCE_LOCKED_INDEFINETLY.                                       *)
semaphore_retry(t) ==
    /\ At("store")
    /\ ~StoreSucceeds
    /\ IF NextTry(at[running].loop) >= Retry
       THEN Return
       ELSE Goto("load", at[running].r1, NextTry(at[running].loop))
    /\ running' = t
    /\ monitor' = FALSE
    /\ UNCHANGED <<sem, ups, downs, taken>>

Run ==
    \/ arch_semaphore_inc \/ arch_semaphore_dec \/ arch_semaphore_dec_zero
    \/ arch_semaphore_store
    \/ \E t \in Tasks : semaphore_retry(t)

Next ==
    \/ \E op \in {"inc", "dec"} : Call(op)
    \/ Run
    \/ \E t \in Tasks : Switch(t)

Spec == Init /\ [][Next]_vars

(* A task inside a call gets the processor again and again, and uses it. *)
FairSpec ==
    /\ Spec
    /\ \A t \in Tasks : SF_vars(running = t /\ Run) /\ SF_vars(running # t /\ Switch(t))

-----------------------------------------------------------------------------
(* Properties *)

Places == [pc : {"out", "load", "store"}, op : {"inc", "dec"}, r1 : 0..Span, loop : Nat]

(* The semaphore is a byte. *)
TypeOK ==
    /\ sem \in 0..(Span - 1)
    /\ monitor \in BOOLEAN
    /\ running \in Tasks
    /\ at \in [Tasks -> Places]
    /\ ups \in Nat /\ downs \in Nat /\ taken \in Nat

(* An armed monitor vouches for the value loaded: what the running task is  *)
(* about to store differs by one from what is still in memory.              *)
RegisterFresh ==
    monitor /\ At("store") =>
        /\ at[running].op = "inc" => at[running].r1 = sem + 1
        /\ at[running].op = "dec" => at[running].r1 = sem - 1 /\ sem > 0

(* The refinement: loads, retries and preemptions in between are invisible, *)
(* and every successful store is one step of the counter, none lost or done *)
(* twice.                                                                   *)
C == INSTANCE Counter WITH value <- sem
ImplementsCounter == C!Spec

(* Every call returns, after at most Retry tries. *)
CallsReturn == \A t \in Tasks : at[t].pc # "out" ~> at[t].pc = "out"

=============================================================================
