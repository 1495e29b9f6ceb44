-------------------------- MODULE SemaphoreProofs --------------------------
(***************************************************************************)
(* The exclusive loads and stores implement the counter, for any number of *)
(* tasks, any retry limit and any width of the semaphore.                  *)
(***************************************************************************)
EXTENDS Semaphores, TLAPS

Inv == TypeOK /\ RegisterFresh

(* Stores keep the byte a byte. *)
LEMMA LowByteType == \A r \in 0..Span : LowByte(r) \in 0..(Span - 1)
BY SpanAssumption DEF LowByte

(* The places a task can go on to are places. *)
LEMMA PlaceTypes ==
    /\ Out \in Places
    /\ \A pc \in {"load", "store"}, op \in {"inc", "dec"}, r \in 0..Span, n \in Nat :
         [pc |-> pc, op |-> op, r1 |-> r, loop |-> n] \in Places
BY SpanAssumption DEF Out, Places

LEMMA InitInv == Init => Inv
<1> SUFFICES ASSUME Init PROVE Inv
    OBVIOUS
<1>1. TypeOK
    BY PlaceTypes, SpanAssumption DEF Init, TypeOK
<1>2. RegisterFresh
    BY DEF Init, RegisterFresh
<1> QED
    BY <1>1, <1>2 DEF Inv

(* Each step keeps the types: every task goes on at a place. *)
LEMMA NextType == TypeOK /\ RegisterFresh /\ [Next]_vars => TypeOK'
<1> SUFFICES ASSUME TypeOK, RegisterFresh, [Next]_vars PROVE TypeOK'
    OBVIOUS
<1>1. /\ running \in Tasks /\ at[running] \in Places
      /\ at[running].op \in {"inc", "dec"} /\ at[running].r1 \in 0..Span
      /\ at[running].loop \in Nat
    BY DEF TypeOK, Places
<1> USE <1>1, PlaceTypes, SpanAssumption DEF TypeOK, Goto, Return
<1>2. ASSUME NEW op \in {"inc", "dec"}, Call(op) PROVE TypeOK'
    BY <1>2 DEF Call
<1>3. CASE arch_semaphore_inc
  <2>1. sem + 1 \in 0..Span
      OBVIOUS
  <2>2. [pc |-> "store", op |-> at[running].op, r1 |-> sem + 1, loop |-> at[running].loop]
           \in Places
      BY <2>1
  <2> QED
      BY <1>3, <2>2 DEF arch_semaphore_inc
<1>4. CASE arch_semaphore_dec
  <2>1. sem - 1 \in 0..Span
      BY <1>4 DEF arch_semaphore_dec
  <2>2. [pc |-> "store", op |-> at[running].op, r1 |-> sem - 1, loop |-> at[running].loop]
           \in Places
      BY <2>1
  <2> QED
      BY <1>4, <2>2 DEF arch_semaphore_dec
<1>5. CASE arch_semaphore_dec_zero
    BY <1>5 DEF arch_semaphore_dec_zero
<1>6. CASE arch_semaphore_store
  <2>1. sem' \in 0..(Span - 1)
      BY <1>6, LowByteType DEF arch_semaphore_store
  <2>2. at' \in [Tasks -> Places]
      BY <1>6 DEF arch_semaphore_store
  <2>3. ups' \in Nat /\ downs' \in Nat /\ taken' \in Nat
      BY <1>6 DEF arch_semaphore_store
  <2> QED
      BY <1>6, <2>1, <2>2, <2>3 DEF arch_semaphore_store
<1>7. ASSUME NEW t \in Tasks, semaphore_retry(t) PROVE TypeOK'
  <2>1. NextTry(at[running].loop) \in Nat
      BY DEF NextTry
  <2>2. [pc |-> "load", op |-> at[running].op, r1 |-> at[running].r1,
         loop |-> NextTry(at[running].loop)] \in Places
      BY <2>1
  <2>3. at' \in [Tasks -> Places]
      BY <1>7, <2>2 DEF semaphore_retry
  <2> QED
      BY <1>7, <2>3 DEF semaphore_retry
<1>8. ASSUME NEW t \in Tasks, Switch(t) PROVE TypeOK'
    BY <1>8 DEF Switch
<1>9. CASE UNCHANGED vars
    BY <1>9 DEF vars
<1> QED
    BY <1>2, <1>3, <1>4, <1>5, <1>6, <1>7, <1>8, <1>9 DEF Next, Run

(* The running task is the only one that can pass from a load to a store    *)
(* with the monitor armed.                                                  *)
LEMMA NextFresh == TypeOK /\ RegisterFresh /\ [Next]_vars => RegisterFresh'
<1> SUFFICES ASSUME TypeOK, RegisterFresh, [Next]_vars PROVE RegisterFresh'
    OBVIOUS
<1>1. running \in Tasks /\ at \in [Tasks -> Places]
    BY DEF TypeOK
<1> USE <1>1 DEF RegisterFresh, At, Goto, Return, Out
<1>2. ASSUME NEW op \in {"inc", "dec"}, Call(op) PROVE RegisterFresh'
    BY <1>2 DEF Call
<1>3. CASE arch_semaphore_inc
    BY <1>3 DEF arch_semaphore_inc
<1>4. CASE arch_semaphore_dec
    BY <1>4, SpanAssumption DEF arch_semaphore_dec, TypeOK
<1>5. CASE arch_semaphore_dec_zero
    BY <1>5 DEF arch_semaphore_dec_zero
<1>6. CASE arch_semaphore_store
    BY <1>6 DEF arch_semaphore_store
<1>7. ASSUME NEW t \in Tasks, semaphore_retry(t) PROVE RegisterFresh'
    BY <1>7 DEF semaphore_retry
<1>8. ASSUME NEW t \in Tasks, Switch(t) PROVE RegisterFresh'
    BY <1>8 DEF Switch
<1>9. CASE UNCHANGED vars
    BY <1>9 DEF vars
<1> QED
    BY <1>2, <1>3, <1>4, <1>5, <1>6, <1>7, <1>8, <1>9 DEF Next, Run

LEMMA NextInv == Inv /\ [Next]_vars => Inv'
BY NextType, NextFresh DEF Inv

(* A value loaded under an armed monitor is still in memory when it is      *)
(* stored (semaphore.S: LDREXB ... STREXB).                                 *)
THEOREM SemaphoreInvariant == Spec => [](TypeOK /\ RegisterFresh)
<1>1. Inv <=> TypeOK /\ RegisterFresh
    BY DEF Inv
<1> QED
    BY <1>1, InitInv, NextInv, PTL DEF Spec

(* The semaphore stays a byte whatever is stored: an increment at 255 wraps *)
(* (STREXB stores the low byte), and none is decremented at 0.              *)
THEOREM SemaphoreTyped == Spec => []TypeOK
BY SemaphoreInvariant, PTL

(* Every step of the semaphore is a step of the counter or invisible to it. *)
LEMMA StepSimulation == Inv /\ [Next]_vars => [C!Up \/ C!Down]_<<sem, ups, downs>>
<1> SUFFICES ASSUME Inv, [Next]_vars PROVE [C!Up \/ C!Down]_<<sem, ups, downs>>
    OBVIOUS
<1>1. CASE arch_semaphore_store
  <2>1. CASE at[running].op = "inc"
      BY <1>1, <2>1 DEF arch_semaphore_store, StoreSucceeds, LowByte, Inv, TypeOK,
                        RegisterFresh, At, C!Up
  <2>2. CASE at[running].op # "inc"
    <3>1. at[running].op = "dec"
        BY <2>2 DEF Inv, TypeOK, Places
    <3>2. at[running].r1 = sem - 1 /\ sem > 0 /\ sem < Span /\ sem \in Int /\ Span \in Int
        BY <1>1, <3>1, SpanAssumption DEF arch_semaphore_store, StoreSucceeds, Inv, TypeOK, RegisterFresh, At
    <3>3. LowByte(sem - 1) = sem - 1
        BY <3>2 DEF LowByte
    <3> QED
        BY <1>1, <2>2, <3>2, <3>3 DEF arch_semaphore_store, C!Down
  <2> QED
      BY <2>1, <2>2
<1>2. CASE ~arch_semaphore_store
    BY <1>2 DEF Next, Run, Call, Switch, arch_semaphore_inc, arch_semaphore_dec,
                arch_semaphore_dec_zero, semaphore_retry, vars
<1> QED
    BY <1>1, <1>2

(* The semaphore implements the counter: no increment or decrement that     *)
(* semaphore_increment or semaphore_decrement stores is lost, however the   *)
(* tasks preempt one another.                                               *)
THEOREM SemaphoreRefinesCounter == Spec => ImplementsCounter
<1>1. Init => C!Init
    BY DEF Init, C!Init
<1> QED
    BY <1>1, InitInv, NextInv, StepSimulation, PTL DEF Spec, ImplementsCounter, C!Spec

=============================================================================
