-------------------------- MODULE SchedulerProofs --------------------------
(***************************************************************************)
(* Proofs about the walk of scheduler() over the ring of live tasks, and   *)
(* about which task it ends at; and that the kernel implements TaskSystem. *)
(***************************************************************************)
EXTENDS KernelProofs, KernelTasks, WellFoundedInduction

-----------------------------------------------------------------------------
(* Induction over the naturals, as the existence of a least element *)

(* Every nonempty set of naturals has a least element. *)
LEMMA LeastNat ==
    ASSUME NEW X \in SUBSET Nat, X # {}
    PROVE  \E m \in X : \A k \in X : m <= k
<1>1. IsWellFoundedOn(OpToRel(<, Nat), Nat)
    BY NatLessThanWellFounded
<1>2. PICK m \in X : \A k \in X : ~(<<k, m>> \in OpToRel(<, Nat))
    BY <1>1, WFMin
<1>3. \A k \in X : ~(k < m)
    BY <1>2 DEF OpToRel
<1> QED
    BY <1>3

-----------------------------------------------------------------------------
(* The walk *)

(* The bound on the walk allows at least one turn of the ring. *)
LEMMA WalkBound ==
    ASSUME TypeOK
    PROVE  MaxWalk \in Nat /\ MAX_TASK_COUNT <= MaxWalk
<1>1. MAX_TASK_COUNT \in Nat /\ lstash_ptr \in Nat
    BY SlotsAssumption DEF TypeOK
<1>2. \A a, b \in Nat : a * (b + 1) \in Nat /\ a <= a * (b + 1)
  <2> TAKE a, b \in Nat
  <2>1. a * b \in Nat
      OBVIOUS
  <2>2. a * (b + 1) = a * b + a
      OBVIOUS
  <2> QED
      BY <2>1, <2>2
<1> QED
    BY <1>1, <1>2 DEF MaxWalk

(* The walk can be taken any number of steps: the recursion that defines it *)
(* has a solution.                                                          *)
Walks(f, m) == f = [n \in 0..m |-> IF n = 0 THEN next_task ELSE Successor[f[n - 1]]]

LEMMA WalkExists ==
    ASSUME NEW N \in Nat
    PROVE  \E f : Walks(f, N)
<1> USE DEF Walks
<1> DEFINE X == {m \in Nat : ~ \E f : Walks(f, m)}
<1> SUFFICES ASSUME X # {} PROVE FALSE
    OBVIOUS
<1>1. PICK m \in X : \A k \in X : m <= k
    BY LeastNat
<1>2. m # 0
  <2>1. Walks([n \in 0..0 |-> next_task], 0)
      OBVIOUS
  <2> QED
      BY <2>1
<1>3. m - 1 \in Nat /\ m - 1 \notin X
  <2>1. m \in Nat
      OBVIOUS
  <2> HIDE DEF X
  <2> QED
      BY <1>1, <1>2, <2>1
<1>4. PICK g : g = [n \in 0..(m - 1) |-> IF n = 0 THEN next_task ELSE Successor[g[n - 1]]]
    BY <1>3
<1> DEFINE f == [n \in 0..m |-> IF n = 0 THEN next_task ELSE Successor[g[n - 1]]]
<1>5. \A n \in 0..(m - 1) : f[n] = g[n]
  <2>1. \A n \in 0..(m - 1) : n \in 0..m
      OBVIOUS
  <2>2. \A n \in 0..m : f[n] = IF n = 0 THEN next_task ELSE Successor[g[n - 1]]
      OBVIOUS
  <2>3. \A n \in 0..(m - 1) : g[n] = IF n = 0 THEN next_task ELSE Successor[g[n - 1]]
      BY <1>4
  <2> HIDE DEF f
  <2> QED
      BY <2>1, <2>2, <2>3
<1>6. \A n \in 0..m : n # 0 => n - 1 \in 0..(m - 1)
    BY <1>2
<1>7. f = [n \in 0..m |-> IF n = 0 THEN next_task ELSE Successor[f[n - 1]]]
    BY <1>5, <1>6
<1>8. Walks(f, m)
    BY <1>7
<1> QED
    BY <1>8

(* The walk starts at next_task and follows the jumps. *)
LEMMA WalkSteps ==
    ASSUME TypeOK
    PROVE  /\ Walk[0] = next_task
           /\ \A n \in 1..MaxWalk : Walk[n] = Successor[Walk[n - 1]]
<1>1. MaxWalk \in Nat
    BY WalkBound
<1>2. \E f : Walks(f, MaxWalk)
    BY <1>1, WalkExists
<1>3. Walk = CHOOSE f : Walks(f, MaxWalk)
    BY DEF Walk, Walks
<1>4. Walks(Walk, MaxWalk)
    BY <1>2, <1>3
<1> QED
    BY <1>1, <1>4 DEF Walks

(* The highest live slot jumps to slot 0. *)
LEMMA RingTurns ==
    ASSUME TypeOK, RingIntact
    PROVE  \E j \in LiveSlots : j + jmp_list[j] = 0 /\ \A k \in LiveSlots : k <= j
<1>1. LiveSlots \subseteq 0..126 /\ 0 \in LiveSlots /\ LiveSlots \subseteq Slots
  <2>1. 0 \in LiveSlots /\ LiveSlots \subseteq Slots
      BY DEF LiveSlots, RingIntact, IsRing
  <2>2. Slots \subseteq 0..126
      BY SlotNumbers, SlotsAssumption
  <2> QED
      BY <2>1, <2>2
<1>a. \A t \in LiveSlots : t \in Int
    BY <1>1
<1> DEFINE X == {126 - t : t \in LiveSlots}
<1>2. X \in SUBSET Nat /\ X # {}
    BY <1>1
<1>3. PICK m \in X : \A k \in X : m <= k
    BY <1>2, LeastNat
<1>4. PICK j \in LiveSlots : m = 126 - j
    OBVIOUS
<1>5. ASSUME NEW k \in LiveSlots PROVE k <= j
  <2>1. 126 - k \in X
      OBVIOUS
  <2>2. 126 - j <= 126 - k
      BY <1>3, <1>4, <2>1
  <2>3. j \in Int /\ k \in Int
      BY <1>a
  <2> QED
      BY <2>2, <2>3
<1>6. LET u == j + jmp_list[j] IN
        /\ u \in LiveSlots
        /\ \/ u > j /\ \A k \in LiveSlots : k <= j \/ u <= k
           \/ u = 0 /\ \A k \in LiveSlots : k <= j
    BY DEF RingIntact, IsRing
<1>7. j + jmp_list[j] \in Int /\ j \in Int
  <2>1. j + jmp_list[j] \in LiveSlots
      BY <1>6
  <2> QED
      BY <1>a, <2>1
<1>8. j + jmp_list[j] = 0
    BY <1>5, <1>6, <1>7
<1> QED
    BY <1>5, <1>8

(* Where live slot u comes in a turn of the ring that starts at next_task. *)
Rank(u) == IF u > next_task THEN u - next_task ELSE MAX_TASK_COUNT - next_task + u

(* The slot before u in the ring is next_task or comes earlier in the turn. *)
LEMMA RankBefore ==
    ASSUME TypeOK, RingIntact, Linked, Live(next_task), NEW u \in LiveSlots \ {next_task}
    PROVE  /\ Rank(u) \in 1..(MAX_TASK_COUNT - 1)
           /\ \E j \in LiveSlots :
                /\ j + jmp_list[j] = u
                /\ j # next_task => Rank(j) \in Nat /\ Rank(j) < Rank(u)
<1> DEFINE c == next_task
           N == MAX_TASK_COUNT
<1>1. /\ N \in Nat /\ c \in LiveSlots
      /\ \A t \in LiveSlots : t \in Int /\ 0 <= t /\ t < N
    BY SlotNumbers, SlotsAssumption DEF LiveSlots, TypeOK
<1>2. \A t \in LiveSlots : Rank(t) = IF t > c THEN t - c ELSE N - c + t
    BY DEF Rank
<1> HIDE DEF c, N
<1>3. \A t \in LiveSlots : t # c => Rank(t) \in 1..(N - 1)
    BY <1>1, <1>2
<1>4. CASE u = 0
  <2>1. PICK j \in LiveSlots : j + jmp_list[j] = 0 /\ \A k \in LiveSlots : k <= j
      BY RingTurns
  <2>2. j # c => Rank(j) < Rank(u)
    <3>1. c <= j
        BY <1>1, <2>1
    <3>2. u # c
        BY DEF c
    <3> QED
        BY <1>1, <1>2, <1>4, <3>1, <3>2
  <2> QED
      BY <1>3, <1>4, <2>1, <2>2 DEF c, N
<1>5. CASE u # 0
  <2>1. PICK j \in LiveSlots : j < u /\ j + jmp_list[j] = u
      BY <1>5 DEF Linked, HasLower
  <2>2. \A k \in LiveSlots : k <= j \/ u <= k
    <3>1. LET v == j + jmp_list[j] IN
            \/ v > j /\ \A k \in LiveSlots : k <= j \/ v <= k
            \/ v = 0 /\ \A k \in LiveSlots : k <= j
        BY DEF RingIntact, IsRing
    <3> QED
        BY <1>5, <2>1, <3>1
  <2>3. j # c => Rank(j) < Rank(u)
    <3>1. c <= j \/ u <= c
        BY <1>1, <2>2
    <3>2. u # c
        BY DEF c
    <3> QED
        BY <1>1, <1>2, <2>1, <3>1, <3>2
  <2> QED
      BY <1>3, <2>1, <2>3 DEF c, N
<1> QED
    BY <1>4, <1>5

(* A turn of the ring meets every other live slot before next_task again. *)
LEMMA WalkReaches ==
    ASSUME TypeOK, RingIntact, Linked, Live(next_task), NEW u \in LiveSlots \ {next_task}
    PROVE  \E n \in 1..(MAX_TASK_COUNT - 1) :
               Walk[n] = u /\ \A m \in 1..n : Walk[m] # next_task
<1> DEFINE Reached(t) ==
             \E n \in 1..Rank(t) : Walk[n] = t /\ \A m \in 1..n : Walk[m] # next_task
           X == {Rank(t) : t \in {v \in LiveSlots \ {next_task} : ~Reached(v)}}
<1>1. \A t \in LiveSlots \ {next_task} : Rank(t) \in 1..(MAX_TASK_COUNT - 1)
    BY RankBefore
<1>2. MAX_TASK_COUNT \in Nat /\ MaxWalk \in Nat /\ MAX_TASK_COUNT <= MaxWalk
    BY WalkBound, SlotsAssumption
<1>3. X = {}
  <2> SUFFICES ASSUME X # {} PROVE FALSE
      OBVIOUS
  <2>1. X \in SUBSET Nat
      BY <1>1, <1>2
  <2>2. PICK r \in X : \A k \in X : r <= k
      BY <2>1, LeastNat
  <2>3. PICK t \in LiveSlots \ {next_task} : ~Reached(t) /\ r = Rank(t)
      OBVIOUS
  <2>4. PICK j \in LiveSlots : /\ j + jmp_list[j] = t
                               /\ j # next_task => Rank(j) \in Nat /\ Rank(j) < Rank(t)
      BY RankBefore
  <2>5. j # next_task => Reached(j)
    <3> SUFFICES ASSUME j # next_task, ~Reached(j) PROVE FALSE
        OBVIOUS
    <3>1. Rank(j) \in X
        OBVIOUS
    <3>2. Rank(j) \in Nat /\ Rank(t) \in Nat /\ Rank(j) < Rank(t) /\ Rank(t) <= Rank(j)
        BY <1>1, <2>2, <2>3, <2>4, <3>1
    <3> QED
        BY <3>2
  <2>6. Successor[j] = t
      BY <2>4 DEF Successor, LiveSlots
  <2>7. Rank(t) \in Nat /\ 1 <= Rank(t) /\ Rank(t) <= MaxWalk
      BY <1>1, <1>2
  <2>8. CASE j = next_task
    <3>1. Walk[1] = t
      <4>1. 1 \in 1..MaxWalk /\ 1 - 1 = 0
          BY <1>2, <2>7
      <4>2. Walk[1] = Successor[Walk[1 - 1]] /\ Walk[0] = next_task
          BY <4>1, WalkSteps
      <4> QED
          BY <2>6, <2>8, <4>1, <4>2
    <3>2. \A m \in 1..1 : Walk[m] # next_task
        BY <3>1
    <3>3. 1 \in 1..Rank(t)
        BY <2>7
    <3> QED
        BY <2>3, <3>1, <3>2, <3>3
  <2>9. CASE j # next_task
    <3>1. PICK n \in 1..Rank(j) : Walk[n] = j /\ \A m \in 1..n : Walk[m] # next_task
        BY <2>5, <2>9
    <3>2. n \in Nat /\ n + 1 \in 1..Rank(t) /\ n + 1 \in 1..MaxWalk
        BY <1>2, <2>4, <2>7, <2>9, <3>1
    <3>3. Walk[n + 1] = t
      <4>1. Walk[n + 1] = Successor[Walk[(n + 1) - 1]]
          BY <3>2, WalkSteps
      <4>2. (n + 1) - 1 = n
          BY <3>2
      <4> QED
          BY <2>6, <3>1, <4>1, <4>2
    <3>4. \A m \in 1..(n + 1) : m \in 1..n \/ m = n + 1
        BY <3>2
    <3>5. \A m \in 1..(n + 1) : Walk[m] # next_task
        BY <3>1, <3>3, <3>4
    <3> QED
        BY <2>3, <3>2, <3>3, <3>5
  <2> QED
      BY <2>8, <2>9
<1>4. Reached(u)
    BY <1>3
<1>5. PICK n \in 1..Rank(u) : Walk[n] = u /\ \A m \in 1..n : Walk[m] # next_task
    BY <1>4
<1>6. n \in 1..(MAX_TASK_COUNT - 1)
    BY <1>1, <1>2
<1> QED
    BY <1>5, <1>6

(* The walk never leaves the live slots. *)
LEMMA WalkStaysLive ==
    ASSUME TypeOK, RingIntact, Live(next_task)
    PROVE  \A n \in 0..MaxWalk : Walk[n] \in LiveSlots
<1> DEFINE X == {n \in 0..MaxWalk : Walk[n] \notin LiveSlots}
<1> SUFFICES ASSUME X # {} PROVE FALSE
    OBVIOUS
<1>1. MaxWalk \in Nat
    BY WalkBound
<1>2. X \in SUBSET Nat
    OBVIOUS
<1>3. PICK n \in X : \A k \in X : n <= k
    BY <1>2, LeastNat
<1>4. n \in 0..MaxWalk /\ Walk[n] \notin LiveSlots
    OBVIOUS
<1>5. n # 0
    BY <1>4, WalkSteps DEF LiveSlots, TypeOK
<1>6. n - 1 \in 0..MaxWalk /\ n \in 1..MaxWalk /\ ~(n <= n - 1)
    BY <1>1, <1>4, <1>5
<1>7. Walk[n - 1] \in LiveSlots
    BY <1>3, <1>6
<1>8. Walk[n] = Walk[n - 1] + jmp_list[Walk[n - 1]]
    BY <1>6, <1>7, WalkSteps DEF Successor, LiveSlots
<1> QED
    BY <1>4, <1>7, <1>8 DEF RingIntact, IsRing

-----------------------------------------------------------------------------
(* Who is chosen *)

(* A search that ends before it has met current_task ends at the highest    *)
(* level.                                                                   *)
LEMMA StopsAtTop ==
    ASSUME NEW n \in Nat, NEW st, Stops(n, st), \A m \in 1..n : Walk[m] # current_task
    PROVE  priority[Walk[n]] = max_level
<1>1. {m \in 1..n : Walk[m] = current_task} = {}
    OBVIOUS
<1>2. Met(n) = 0
    BY <1>1, FS_EmptySet DEF Met
<1> QED
    BY <1>2 DEF Stops, LevelAfter

(* The search ends at the first step that ends it. *)
LEMMA SelectedFirst ==
    ASSUME TypeOK, NEW st, NEW n0 \in 1..MaxWalk, Stops(n0, st), NEW t \in Selected(st)
    PROVE  \E n \in 1..n0 : Stops(n, st) /\ t = Walk[n]
<1> DEFINE X == {n \in 1..MaxWalk : Stops(n, st)}
           IsFirst(n) == Stops(n, st) /\ \A m \in 1..(n - 1) : ~Stops(m, st)
           first == CHOOSE n \in 1..MaxWalk : IsFirst(n)
<1>0. MaxWalk \in Nat
    BY WalkBound
<1>1. X \in SUBSET Nat /\ X # {}
    OBVIOUS
<1>2. PICK n \in X : \A k \in X : n <= k
    BY <1>1, LeastNat
<1>3. n \in 1..MaxWalk /\ IsFirst(n)
  <2>1. n \in 1..MaxWalk /\ Stops(n, st)
      OBVIOUS
  <2>2. ASSUME NEW m \in 1..(n - 1), Stops(m, st) PROVE FALSE
    <3>1. m \in 1..MaxWalk /\ ~(n <= m)
        BY <1>0, <2>1
    <3> QED
        BY <1>2, <2>2, <3>1
  <2> QED
      BY <2>1, <2>2
<1>4. first \in 1..MaxWalk /\ IsFirst(first)
    BY <1>3
<1>5. t = Walk[first]
  <2>1. \E m \in 1..MaxWalk : Stops(m, st)
      OBVIOUS
  <2>2. t \in {u \in Slots : u = Walk[first] /\ Stops(first, st)}
      BY <2>1, Zenon DEF Selected
  <2> HIDE DEF first
  <2> QED
      BY <2>2
<1> HIDE DEF first
<1>6. first <= n0
    BY <1>0, <1>4
<1> QED
    BY <1>0, <1>4, <1>5, <1>6

(* A task that has given the processor up is where the walk starts, or has  *)
(* ended.                                                                   *)
GaveUp == ~normal_schedule => next_task = current_task \/ ~Live(current_task)

GaveUpInv == task_obj[0] = BaseObj => GaveUp

(* Only a hand over, a hibernation or an end gives the processor up, and    *)
(* the scheduler is the next to run.                                        *)
LEMMA NextGaveUp ==
    ASSUME IdsFit, KInv, GaveUpInv, [Next]_vars
    PROVE  GaveUpInv'
<1> SUFFICES ASSUME task_obj'[0] = BaseObj PROVE GaveUp'
    BY DEF GaveUpInv
<1>1. task_obj[0] = BaseObj
    BY OccupantsStep DEF KInv
<1>2. TypeOK /\ TableInv /\ OneRunner /\ Live(next_task) /\ GaveUp
    BY <1>1 DEF KInv, KernelInv, GaveUpInv
<1>3. CASE ThreadMode
  <2>1. normal_schedule /\ next_task = current_task
      BY <1>2, <1>3, Running
  <2>2. ASSUME UNCHANGED normal_schedule PROVE GaveUp'
      BY <2>1, <2>2 DEF GaveUp
  <2>3. CASE \/ \E o \in Objs : task_start(o) \/ task_kill(o)
             \/ task_kill_load
             \/ \E p \in Priorities : task_create_rejected(p)
      BY <2>2, <2>3 DEF task_start, task_kill, task_kill_load, task_create_rejected, Enter,
             switchVars
  <2>4. CASE \/ \E o \in Objs, p \in Priorities : svc_service_task_create(o, p)
             \/ svc_service_task_kill
      BY <2>2, <2>4 DEF svc_service_task_create, svc_service_task_kill, Remove
  <2>5. CASE \/ \E p \in Priorities : task_create_overrun(p)
             \/ task_kill_memfault
      BY <2>2, <2>5 DEF task_create_overrun, task_kill_memfault, Fail, switchVars
  <2>6. CASE resolve_end
    <3>1. current_task \in Slots /\ Live(current_task)
        BY <1>2, <2>1 DEF TypeOK
    <3>2. task_id[current_task].index = current_task
        BY <1>2, <3>1 DEF TableInv, Identity
    <3>3. Remove(current_task, TRUE)
        BY <2>6, <3>2 DEF resolve_end
    <3>4. state'[current_task] = IDLE /\ UNCHANGED current_task
        BY <1>2, <3>1, <3>3 DEF Remove, TypeOK
    <3> QED
        BY <3>4 DEF GaveUp, Live
  <2>7. CASE \/ \E reverse \in BOOLEAN : svc_service_hibernate(reverse)
             \/ svc_service_hand_over
             \/ svc_service_start_scheduler
      BY <2>1, <2>7 DEF svc_service_hibernate, svc_service_hand_over,
             svc_service_start_scheduler, GaveUp
  <2>8. CASE scheduler \/ scheduler_hangs \/ pendsv_handler
      BY <1>3, <2>8 DEF ThreadMode, scheduler, scheduler_hangs, pendsv_handler
  <2>9. CASE Tick \/ Compute \/ UNCHANGED vars
      BY <2>2, <2>9 DEF Tick, Compute, vars, switchVars
  <2> QED
      BY <2>3, <2>4, <2>5, <2>6, <2>7, <2>8, <2>9 DEF Next
<1>4. CASE ~ThreadMode
  <2>1. CASE scheduler
      BY <2>1 DEF scheduler, GaveUp
  <2>2. CASE scheduler_hangs \/ Compute \/ UNCHANGED vars
      BY <1>2, <2>2 DEF scheduler_hangs, Compute, Fail, vars, switchVars, slotVars, GaveUp, Live
  <2>3. CASE pendsv_handler \/ Tick
    <3>1. normal_schedule /\ UNCHANGED normal_schedule
        BY <1>2, <2>3 DEF pendsv_handler, Tick, OneRunner
    <3> QED
        BY <3>1 DEF GaveUp
  <2> QED
      BY <1>4, <2>1, <2>2, <2>3 DEF Next, task_start, task_kill, task_kill_load,
         svc_service_task_create, task_create_rejected, task_create_overrun,
         svc_service_task_kill, task_kill_memfault, resolve_end, svc_service_hibernate,
         svc_service_hand_over, svc_service_start_scheduler, Caller
<1> QED
    BY <1>3, <1>4

(* scheduler() passes over a ready task of the highest level only for       *)
(* another task of the highest level.                                       *)
LEMMA SchedulerPrefersTop ==
    ASSUME TypeOK, TableInv, OneRunner, Live(next_task), GaveUp, scheduler,
           NEW t \in Slots \ {current_task}, state'[t] = SLEEP, priority[t] = max_level
    PROVE  priority[next_task'] = max_level
<1>1. PICK woken \in SUBSET Wakeable :
        \E u \in Selected(Awake(Suspended, woken)) : SwitchTo(u, Awake(Suspended, woken))
    BY DEF scheduler
<1> DEFINE st == Awake(Suspended, woken)
<1>2. PICK u \in Selected(st) : SwitchTo(u, st)
    BY <1>1
<1>3. DOMAIN st = Slots
    BY DEF Awake
<1> HIDE DEF st
<1>4. next_task' = u /\ state' = [st EXCEPT ![u] = ACTIVE]
    BY <1>2 DEF SwitchTo
<1>5. u \in Slots
    BY <1>2 DEF Selected
<1>6. st[t] = SLEEP
    BY <1>3, <1>4, <1>5 DEF ACTIVE, SLEEP
<1>7. RingIntact /\ Linked /\ lstash_ptr \in Nat /\ MaxWalk \in Nat
  <2>1. RingIntact /\ Linked
      BY DEF TableInv
  <2>2. lstash_ptr \in Nat
      BY SlotsAssumption DEF TypeOK
  <2> QED
      BY <2>1, <2>2, WalkBound
<1>8. CASE next_task = current_task
  <2>1. t \in LiveSlots \ {next_task}
    <3>1. Suspended[t] = IDLE <=> state[t] = IDLE
        BY <1>8 DEF Suspended, TypeOK
    <3>2. st[t] = IDLE <=> state[t] = IDLE
        BY <3>1 DEF st, Awake, Wakeable, Hibernating, IDLE, SLEEP, HIBERNATE_G, HIBERNATE_L
    <3> QED
        BY <1>6, <1>8, <3>2 DEF LiveSlots, Live, IDLE, SLEEP
  <2>2. PICK n0 \in 1..MaxWalk : Walk[n0] = t /\ \A m \in 1..n0 : Walk[m] # next_task
    <3>1. MAX_TASK_COUNT \in Nat /\ MAX_TASK_COUNT <= MaxWalk
        BY WalkBound, SlotsAssumption
    <3>2. \A n \in 1..(MAX_TASK_COUNT - 1) : n \in 1..MaxWalk
        BY <1>7, <3>1
    <3> QED
        BY <1>7, <2>1, <3>2, WalkReaches
  <2>3. {m \in 1..n0 : Walk[m] = current_task} = {}
      BY <1>8, <2>2
  <2>4. Met(n0) = 0
      BY <2>3, FS_EmptySet DEF Met
  <2>5. Stops(n0, st)
      BY <1>6, <1>7, <2>2, <2>4 DEF Stops, LevelRead, LevelAfter
  <2>6. PICK n \in 1..n0 : Stops(n, st) /\ u = Walk[n]
      BY <1>2, <2>5, SelectedFirst
  <2>7. n \in Nat /\ \A m \in 1..n : m \in 1..n0
      BY <1>7
  <2>8. \A m \in 1..n : Walk[m] # current_task
      BY <1>8, <2>2, <2>7
  <2> QED
      BY <1>4, <2>6, <2>7, <2>8, StopsAtTop
<1>9. CASE next_task # current_task
  <2>1. ~Live(current_task)
      BY <1>9 DEF GaveUp, OneRunner, scheduler
  <2>2. \A n \in 0..MaxWalk : Walk[n] # current_task
      BY <1>7, <2>1, WalkStaysLive DEF LiveSlots
  <2>3. \A n \in 1..MaxWalk : Met(n) = 0
    <3> TAKE n \in 1..MaxWalk
    <3>1. \A m \in 1..n : m \in 0..MaxWalk
        BY <1>7
    <3>2. {m \in 1..n : Walk[m] = current_task} = {}
        BY <2>2, <3>1
    <3> QED
        BY <3>2, FS_EmptySet DEF Met
  <2>4. MaxWalk \in 1..MaxWalk
      BY <1>7, WalkBound, SlotsAssumption
  <2>5. LevelRead(Met(MaxWalk))
      BY <1>7, <2>3, <2>4 DEF LevelRead
  <2>6. PICK n0 \in 1..MaxWalk : Stops(n0, st)
    <3> SUFFICES ASSUME ~ \E m \in 1..MaxWalk : Stops(m, st) PROVE FALSE
        OBVIOUS
    <3> QED
        BY <1>2, <2>5, Zenon DEF Selected
  <2>7. PICK n \in 1..n0 : Stops(n, st) /\ u = Walk[n]
      BY <1>2, <2>6, SelectedFirst
  <2>8. n \in Nat /\ n \in 1..MaxWalk /\ \A m \in 1..n : m \in 0..MaxWalk
      BY <1>7
  <2> QED
      BY <1>4, <2>2, <2>7, <2>8, StopsAtTop
<1> QED
    BY <1>8, <1>9

(* One turn of the ring comes back to where it started. *)
LEMMA WalkReturns ==
    ASSUME TypeOK, TableInv, Live(next_task)
    PROVE  RingCloses
<1>1. RingIntact /\ Linked /\ next_task \in LiveSlots /\ next_task \in Slots
    BY DEF TableInv, TypeOK, LiveSlots
<1>2. PICK j \in LiveSlots : j + jmp_list[j] = next_task
    BY <1>1, RingTurns DEF Linked, HasLower
<1>3. Successor[j] = next_task
    BY <1>2 DEF Successor, LiveSlots
<1>4. MAX_TASK_COUNT \in Nat /\ 1 <= MAX_TASK_COUNT /\ MaxWalk \in Nat /\ MAX_TASK_COUNT <= MaxWalk
    BY WalkBound, SlotsAssumption
<1>5. PICK n \in 0..(MAX_TASK_COUNT - 1) : Walk[n] = j
  <2>1. CASE j = next_task
      BY <1>4, <2>1, WalkSteps
  <2>2. CASE j # next_task
    <3>1. PICK n \in 1..(MAX_TASK_COUNT - 1) : Walk[n] = j
        BY <1>1, <2>2, WalkReaches
    <3> QED
        BY <1>4, <3>1
  <2> QED
      BY <2>1, <2>2
<1>6. n \in Nat /\ n + 1 \in 1..MAX_TASK_COUNT /\ n + 1 \in 1..MaxWalk /\ (n + 1) - 1 = n
    BY <1>4
<1>7. Walk[n + 1] = next_task
  <2>1. Walk[n + 1] = Successor[Walk[(n + 1) - 1]]
      BY <1>6, WalkSteps
  <2> QED
      BY <1>3, <1>5, <1>6, <2>1
<1> QED
    BY <1>1, <1>6, <1>7 DEF RingCloses

-----------------------------------------------------------------------------
(* The theorems *)

(* The invariant of the tables, with where the walk starts. *)
LEMMA GaveUpInvariant ==
    ASSUME IdsFit
    PROVE  Spec => [](KInv /\ GaveUpInv)
<1>1. Init => KInv /\ GaveUpInv
    BY InitKInv DEF Init, GaveUpInv, GaveUp
<1>2. KInv /\ GaveUpInv /\ [Next]_vars => KInv' /\ GaveUpInv'
    BY NextKInv, NextGaveUp
<1> QED
    BY <1>1, <1>2, PTL DEF Spec

(* Under discipline scheduler() never passes over a ready task of the       *)
(* highest level in favour of a lower one, except the task that was just    *)
(* running: the walk meets every other live task before that one again.     *)
THEOREM TopLevelIsFirst ==
    ASSUME IdsFit, Disciplined
    PROVE  Spec => TopLevelFirst
<1>1. ASSUME KInv, GaveUpInv, DisciplinedInv, [Next]_vars, pendsv', ~pendsv,
             NEW t \in Slots \ {current_task}, state'[t] = SLEEP, priority[t] = max_level
      PROVE  priority[next_task'] = max_level
  <2>1. TypeOK /\ TableInv /\ OneRunner /\ Live(next_task) /\ GaveUp
      BY <1>1 DEF DisciplinedInv, CallsSound, KernelInv, GaveUpInv
  <2>2. scheduler
      BY <1>1 DEF Next, vars, switchVars, task_start, task_kill, task_kill_load, Enter,
             svc_service_task_create, task_create_rejected, task_create_overrun, Fail,
             svc_service_task_kill, task_kill_memfault, resolve_end, Remove,
             svc_service_hibernate, svc_service_hand_over, svc_service_start_scheduler,
             scheduler_hangs, pendsv_handler, Tick, Compute
  <2> QED
      BY <1>1, <2>1, <2>2, SchedulerPrefersTop
<1>2. KInv /\ GaveUpInv /\ DisciplinedInv /\ [Next]_vars =>
        [(pendsv' /\ ~pendsv /\ \E t \in Slots \ {current_task} :
             state'[t] = SLEEP /\ priority[t] = max_level)
           => priority[next_task'] = max_level]_vars
    BY <1>1
<1>3. Spec => []DisciplinedInv
    BY DisciplineSuffices
<1> QED
    BY <1>2, <1>3, GaveUpInvariant, PTL DEF Spec, TopLevelFirst

(* Under discipline the do-while loop of scheduler() over the ring ends: if *)
(* scheduler() hangs, it is in its search for a ready task.                 *)
THEOREM WakeUpScanEnds ==
    ASSUME IdsFit, Disciplined
    PROVE  Spec => []RingCloses
<1>1. DisciplinedInv => RingCloses
    BY WalkReturns DEF DisciplinedInv, CallsSound, KernelInv
<1>2. Spec => []DisciplinedInv
    BY DisciplineSuffices
<1> QED
    BY <1>1, <1>2, PTL

-----------------------------------------------------------------------------
(* The kernel implements the task system *)

(* The live slots are those that hold an object, and no two hold the same. *)
Tenants ==
    /\ \A t \in Slots : Live(t) <=> task_obj[t] # NoObj
    /\ \A t, u \in Slots : Live(t) /\ task_obj[u] = task_obj[t] => u = t

(* What the task system shows of the slots. *)
Shown ==
    /\ LevelOf = [o \in DOMAIN LevelOf |-> LevelOf[o]]
    /\ \A o : o \in DOMAIN LevelOf <=> \E t \in Slots : Live(t) /\ o = task_obj[t]
    /\ \A t \in Slots : Live(t) => LevelOf[task_obj[t]] = priority[t]
    /\ \A o : o \in Waiting <=>
         \E t \in Slots : Live(t) /\ o = task_obj[t] /\ state[t] \notin {ACTIVE, SLEEP}

(* Before the scheduler starts main runs in the place of BaseTask. *)
MainRuns ==
    ~first_start =>
        /\ current_task = 0 /\ state[0] = SLEEP
        /\ ~sched_on /\ ~systick /\ ~pendsv

(* The invariants the refinement rests on. *)
TasksInv == KernelInv /\ CallsSound /\ GaveUp /\ MainRuns

(* Tasks and slots correspond. *)
LEMMA TenantsShown == Tenants => Shown
<1> SUFFICES ASSUME Tenants PROVE Shown
    OBVIOUS
<1>1. \A o : o \in {task_obj[t] : t \in LiveSlots} <=> \E t \in Slots : Live(t) /\ o = task_obj[t]
    BY DEF LiveSlots
<1>2. ASSUME NEW t \in Slots, Live(t) PROVE Home(task_obj[t]) = t
  <2>1. \A u \in Slots : task_obj[u] = task_obj[t] => u = t
      BY <1>2 DEF Tenants
  <2> QED
      BY <2>1 DEF Home
<1>3. ASSUME NEW t \in Slots, Live(t) PROVE LevelOf[task_obj[t]] = priority[t]
  <2>1. task_obj[t] \in {task_obj[u] : u \in LiveSlots}
      BY <1>1, <1>3
  <2> QED
      BY <1>2, <1>3, <2>1, Zenon DEF LevelOf
<1>4. DOMAIN LevelOf = {task_obj[t] : t \in LiveSlots}
    BY DEF LevelOf
<1>5. LevelOf = [o \in DOMAIN LevelOf |-> LevelOf[o]]
    BY Zenon DEF LevelOf
<1>6. \A o : o \in Waiting <=>
         \E t \in Slots : Live(t) /\ o = task_obj[t] /\ state[t] \notin {ACTIVE, SLEEP}
    BY DEF Waiting, LiveSlots
<1> QED
    BY <1>1, <1>3, <1>4, <1>5, <1>6 DEF Shown

(* The same after a step. *)
LEMMA TenantsShownNext == Tenants' => Shown'
BY TenantsShown, PTL

(* Under discipline each task has a slot of its own. *)
LEMMA DisciplinedTenants == KernelInv /\ CallsSound => Tenants
<1> SUFFICES ASSUME KernelInv, CallsSound PROVE Tenants
    OBVIOUS
<1>1. TypeOK /\ TableInv /\ CallsSound
    BY DEF KernelInv, CallsSound
<1>2. \A t \in Slots : Live(t) <=> task_obj[t] # NoObj
    BY <1>1 DEF TableInv, Identity
<1>3. ASSUME NEW t \in Slots, NEW u \in Slots, Live(t), task_obj[u] = task_obj[t]
      PROVE  u = t
  <2>1. task_obj[t] \in Objs \cup {BaseObj}
      BY <1>1, <1>2, <1>3 DEF TypeOK
  <2>2. CASE task_obj[t] \in Objs
      BY <1>1, <1>3, <2>2 DEF CallsSound, ObjectOnce
  <2>3. CASE task_obj[t] = BaseObj
    <3>1. t = 0 /\ u = 0
        BY <1>1, <1>3, <2>3 DEF CallsSound
    <3> QED
        BY <3>1
  <2> QED
      BY <2>1, <2>2, <2>3
<1> QED
    BY <1>2, <1>3 DEF Tenants

(* The same after a step. *)
LEMMA DisciplinedTenantsNext == KernelInv' /\ CallsSound' => Tenants'
BY DisciplinedTenants, PTL

(* A step that leaves the table alone and moves no task between those that  *)
(* wait and those that do not is not seen.                                  *)
LEMMA NotSeen ==
    ASSUME UNCHANGED <<task_obj, priority, Runner>>,
           \A t \in Slots : Live(t)' <=> Live(t),
           \A t \in Slots : state'[t] \in {ACTIVE, SLEEP} <=> state[t] \in {ACTIVE, SLEEP}
    PROVE  UNCHANGED <<LevelOf, Waiting, Runner>>
<1>1. LiveSlots' = LiveSlots
    BY DEF LiveSlots, Slots
<1>2. LevelOf' = LevelOf
  <2>1. Slots' = Slots /\ task_obj' = task_obj /\ priority' = priority
      BY DEF Slots
  <2> QED
      BY <1>1, <2>1 DEF LevelOf, Home
<1>3. Waiting' = Waiting
    BY <1>1 DEF Waiting, LiveSlots
<1> QED
    BY <1>2, <1>3

(* Calls that are entered or refused, and faults, move nothing. *)
LEMMA NothingMoves ==
    ASSUME \/ \E o \in Objs : task_start(o) \/ task_kill(o)
           \/ task_kill_load
           \/ \E p \in Priorities : task_create_rejected(p) \/ task_create_overrun(p)
           \/ task_kill_memfault \/ scheduler_hangs \/ Compute \/ UNCHANGED vars
    PROVE  UNCHANGED <<slotVars, levelVars, countVars, switchVars, first_start>>
<1>1. CASE \E o \in Objs : task_start(o) \/ task_kill(o)
  <2>1. PICK c : Enter(c)
      BY <1>1, Zenon DEF task_start, task_kill
  <2> QED
      BY <2>1 DEF Enter
<1>2. CASE task_kill_load
    BY <1>2 DEF task_kill_load, Enter
<1>3. CASE \E p \in Priorities : task_create_rejected(p) \/ task_create_overrun(p)
    BY <1>3 DEF task_create_rejected, task_create_overrun, Enter, Fail
<1>4. CASE task_kill_memfault \/ scheduler_hangs \/ Compute \/ UNCHANGED vars
    BY <1>4 DEF task_kill_memfault, scheduler_hangs, Fail, Compute, vars
<1> QED
    BY <1>1, <1>2, <1>3, <1>4

(* Until the scheduler is started only main runs. *)
LEMMA NextMainRuns ==
    ASSUME TypeOK, CallsAim, MainRuns, [Next]_vars
    PROVE  MainRuns'
<1> SUFFICES ASSUME ~first_start'
             PROVE  /\ current_task' = 0 /\ state'[0] = SLEEP
                    /\ ~sched_on' /\ ~systick' /\ ~pendsv'
    BY DEF MainRuns
<1>1. CASE first_start
  <2>1. CASE \/ \E o \in Objs : task_start(o) \/ task_kill(o)
             \/ task_kill_load
             \/ \E p \in Priorities : task_create_rejected(p) \/ task_create_overrun(p)
             \/ task_kill_memfault \/ scheduler_hangs \/ Compute \/ UNCHANGED vars
      BY <1>1, <2>1, NothingMoves DEF vars
  <2>2. CASE \E o \in Objs, p \in Priorities : svc_service_task_create(o, p)
      BY <1>1, <2>2 DEF svc_service_task_create
  <2>3. CASE svc_service_task_kill \/ resolve_end
      BY <1>1, <2>3 DEF svc_service_task_kill, resolve_end, Remove
  <2>4. CASE \/ \E reverse \in BOOLEAN : svc_service_hibernate(reverse)
             \/ svc_service_hand_over \/ svc_service_start_scheduler
             \/ scheduler \/ pendsv_handler \/ Tick
      BY <1>1, <2>4 DEF svc_service_hibernate, svc_service_hand_over,
             svc_service_start_scheduler, scheduler, pendsv_handler, Tick
  <2> QED
      BY <2>1, <2>2, <2>3, <2>4 DEF Next
<1>2. CASE ~first_start
  <2>1. /\ current_task = 0 /\ 0 \in Slots /\ state[0] = SLEEP
        /\ ~sched_on /\ ~systick /\ ~pendsv
      BY <1>2 DEF MainRuns, TypeOK
  <2>2. call[current_task].op # "kill" /\ call[current_task].op # "pid"
      BY <2>1 DEF CallsAim
  <2>3. ASSUME NEW o \in Objs, NEW p \in Priorities, svc_service_task_create(o, p)
        PROVE  /\ current_task' = 0 /\ state'[0] = SLEEP
               /\ ~sched_on' /\ ~systick' /\ ~pendsv'
    <3>1. PICK i \in Slots : FirstIdle(i) /\ Occupy(i, o, p)
        BY <2>3 DEF svc_service_task_create
    <3>2. i # 0 /\ state' = [state EXCEPT ![i] = SLEEP]
        BY <2>1, <3>1 DEF FirstIdle, Occupy, SLEEP, IDLE
    <3>3. state'[0] = SLEEP
        BY <2>1, <3>2 DEF TypeOK
    <3>4. sched_on' = FALSE
      <4>1. \E b \in BOOLEAN : sched_on' = (sched_on \/ (first_start /\ b))
          BY <3>1 DEF Occupy, RaiseLevel
      <4> QED
          BY <1>2, <2>1, <4>1
    <3> QED
        BY <2>1, <2>3, <3>3, <3>4 DEF svc_service_task_create
  <2>4. ASSUME UNCHANGED <<slotVars, switchVars>>
        PROVE  /\ current_task' = 0 /\ state'[0] = SLEEP
               /\ ~sched_on' /\ ~systick' /\ ~pendsv'
      BY <2>1, <2>4 DEF slotVars, switchVars
  <2>5. CASE \/ \E o \in Objs : task_start(o) \/ task_kill(o)
             \/ \E p \in Priorities : task_create_rejected(p) \/ task_create_overrun(p)
             \/ task_kill_memfault \/ scheduler_hangs \/ Compute \/ UNCHANGED vars
      BY <2>4, <2>5, NothingMoves
  <2>6. ~task_kill_load /\ ~svc_service_task_kill
      BY <2>2 DEF task_kill_load, svc_service_task_kill
  <2>7. /\ ~resolve_end /\ ~svc_service_hand_over
        /\ ~(\E reverse \in BOOLEAN : svc_service_hibernate(reverse))
      BY <2>1, Zenon DEF resolve_end, svc_service_hand_over, svc_service_hibernate
  <2>8. ~scheduler /\ ~pendsv_handler /\ ~Tick
      BY <2>1 DEF scheduler, pendsv_handler, Tick
  <2>9. ~svc_service_start_scheduler
      BY DEF svc_service_start_scheduler
  <2> QED
      BY <2>3, <2>5, <2>6, <2>7, <2>8, <2>9 DEF Next
<1> QED
    BY <1>1, <1>2

(* kernel_init establishes the invariant. *)
LEMMA InitTasksInv == Init => TasksInv
<1> SUFFICES ASSUME Init PROVE TasksInv
    OBVIOUS
<1>1. KernelInv /\ CallsSound
    BY InitKInv, InitCallsSound DEF KInv
<1>2. GaveUp
    BY DEF Init, GaveUp
<1>3. MainRuns
  <2>1. 0 \in Slots
      BY SlotNumbers, SlotsAssumption
  <2> QED
      BY <2>1 DEF Init, MainRuns
<1> QED
    BY <1>1, <1>2, <1>3 DEF TasksInv

(* What TasksInv says while BaseTask lives, which it does for good. *)
LEMMA TasksSound ==
    ASSUME TasksInv
    PROVE  /\ KInv /\ GaveUpInv /\ Tenants /\ Shown
           /\ TypeOK /\ TableInv /\ OneRunner /\ Live(next_task) /\ CallsAim
           /\ 0 \in Slots /\ task_obj[0] = BaseObj
<1>1. task_obj[0] = BaseObj /\ KernelInv /\ CallsSound /\ GaveUp
    BY DEF TasksInv, CallsSound
<1>2. TypeOK /\ TableInv /\ OneRunner /\ Live(next_task) /\ CallsAim
    BY <1>1 DEF KernelInv
<1>3. KInv /\ GaveUpInv
    BY <1>1, <1>2 DEF KInv, Occupants, TypeOK, GaveUpInv
<1>4. Tenants /\ Shown
    BY <1>1, DisciplinedTenants, TenantsShown
<1>5. 0 \in Slots
    BY SlotNumbers, SlotsAssumption
<1> QED
    BY <1>1, <1>2, <1>3, <1>4, <1>5

(* Every step preserves the invariant. *)
LEMMA NextTasksInv ==
    ASSUME IdsFit, Disciplined, TasksInv, [Next]_vars
    PROVE  TasksInv'
<1>1. /\ KInv /\ GaveUpInv
      /\ TypeOK /\ TableInv /\ OneRunner /\ Live(next_task) /\ CallsAim
    BY TasksSound
<1>2. KInv' /\ GaveUpInv'
    BY <1>1, NextKInv, NextGaveUp
<1>3. CallsSound'
    BY <1>1, NextCallsSound DEF TasksInv
<1>4. MainRuns'
    BY <1>1, NextMainRuns DEF TasksInv
<1>5. task_obj'[0] = BaseObj
    BY <1>3 DEF CallsSound
<1> QED
    BY <1>2, <1>3, <1>4, <1>5 DEF TasksInv, KInv, GaveUpInv

(* A task acts while it is the one chosen last, and is ready. *)
LEMMA RunnerActs ==
    ASSUME TasksInv, ThreadMode
    PROVE  /\ Runner = task_obj[current_task] /\ normal_schedule
           /\ current_task \in Slots /\ Live(current_task)
           /\ state[current_task] = IF first_start THEN ACTIVE ELSE SLEEP
           /\ Runner \in DOMAIN LevelOf /\ Runner \notin Waiting
<1>1. /\ TypeOK /\ OneRunner /\ Live(next_task) /\ Tenants /\ Shown
      /\ MainRuns
    BY TasksSound DEF TasksInv
<1>2. normal_schedule /\ next_task = current_task /\ Live(current_task)
    BY <1>1, Running
<1>3. Runner = task_obj[current_task] /\ current_task \in Slots
    BY <1>1, <1>2 DEF Runner, TypeOK
<1>4. state[current_task] = IF first_start THEN ACTIVE ELSE SLEEP
    BY <1>1, <1>2 DEF OneRunner, MainRuns
<1>5. Runner \in DOMAIN LevelOf
    BY <1>1, <1>2, <1>3 DEF Shown
<1>6. Runner \notin Waiting
  <2>1. \A t \in Slots : Live(t) /\ task_obj[current_task] = task_obj[t] => t = current_task
      BY <1>1, <1>2, <1>3 DEF Tenants
  <2> QED
      BY <1>1, <1>3, <1>4, <2>1 DEF Shown
<1> QED
    BY <1>2, <1>3, <1>4, <1>5, <1>6

(* A creation is one: the new task joins the others, which keep what they   *)
(* have.                                                                    *)
LEMMA CreateShown ==
    ASSUME TasksInv, Tenants', Shown',
           NEW o \in Objs, NEW p \in Priorities, svc_service_task_create(o, p)
    PROVE  TS!Create(o, p)
<1>1. /\ TypeOK /\ TableInv /\ Live(next_task) /\ Tenants /\ Shown
      /\ current_task \in Slots /\ CallsSound
    BY TasksSound DEF TasksInv, TypeOK
<1>2. /\ ThreadMode
      /\ call[current_task].op = "start" /\ call[current_task].obj = o
      /\ UNCHANGED <<current_task, next_task, normal_schedule>>
    BY DEF svc_service_task_create, Caller
<1>3. /\ Runner = task_obj[current_task] /\ normal_schedule
      /\ Runner \in DOMAIN LevelOf /\ Runner \notin Waiting
    BY <1>2, RunnerActs
<1>4. PICK i \in Slots : FirstIdle(i) /\ Occupy(i, o, p)
    BY DEF svc_service_task_create
<1>5. /\ ~Live(i)
      /\ task_obj' = [task_obj EXCEPT ![i] = o]
      /\ state' = [state EXCEPT ![i] = SLEEP]
      /\ priority' = [priority EXCEPT ![i] = p]
    BY <1>4 DEF FirstIdle, Occupy, Live
<1>6. /\ task_obj'[i] = o /\ priority'[i] = p /\ state'[i] = SLEEP /\ Live(i)'
      /\ \A t \in Slots \ {i} : /\ task_obj'[t] = task_obj[t] /\ priority'[t] = priority[t]
                                /\ state'[t] = state[t] /\ (Live(t)' <=> Live(t))
    BY <1>1, <1>5 DEF TypeOK, Live, SLEEP, IDLE
<1>7. \A t \in Slots : task_obj[t] # o
    BY <1>1, <1>2 DEF CallsSound
<1>8. \A u : u \in (DOMAIN LevelOf)' <=> u \in DOMAIN LevelOf \cup {o}
    BY <1>1, <1>5, <1>6 DEF Shown
<1>9. o \notin DOMAIN LevelOf
    BY <1>1, <1>7 DEF Shown
<1>10. LevelOf'[o] = p
    BY <1>6 DEF Shown
<1>11. ASSUME NEW u \in DOMAIN LevelOf
       PROVE  LevelOf'[u] = LevelOf[u]
  <2>1. PICK t \in Slots : Live(t) /\ u = task_obj[t]
      BY <1>1 DEF Shown
  <2>2. t # i /\ Live(t)' /\ task_obj'[t] = u /\ priority'[t] = priority[t]
      BY <1>5, <1>6, <2>1
  <2> QED
      BY <1>1, <2>1, <2>2 DEF Shown
<1>12. LevelOf' = [u \in DOMAIN LevelOf \cup {o} |-> IF u = o THEN p ELSE LevelOf[u]]
  <2>1. LevelOf' = [u \in (DOMAIN LevelOf)' |-> LevelOf'[u]]
      BY DEF Shown
  <2>2. (DOMAIN LevelOf)' = DOMAIN LevelOf \cup {o}
      BY <1>8
  <2> HIDE DEF Shown
  <2> QED
      BY <1>9, <1>10, <1>11, <2>1, <2>2
<1>13. Waiting' = Waiting
  <2>1. \A u : u \in Waiting' <=> u \in Waiting
      BY <1>1, <1>5, <1>6 DEF Shown
  <2>2. /\ Waiting = {task_obj[t] : t \in {u \in LiveSlots : state[u] \notin {ACTIVE, SLEEP}}}
        /\ Waiting' = {task_obj'[t] : t \in {u \in LiveSlots' : state'[u] \notin {ACTIVE, SLEEP}}}
      BY DEF Waiting
  <2> QED
      BY <2>1, <2>2
<1>14. Runner' = Runner
  <2>1. next_task # i /\ next_task \in Slots
      BY <1>1, <1>5 DEF TypeOK
  <2> QED
      BY <1>2, <1>3, <1>6, <2>1 DEF Runner
<1> QED
    BY <1>3, <1>9, <1>12, <1>13, <1>14 DEF TS!Create, TS!Acts, TS!Existing

(* svc_service_task_kill takes one task out, and leaves the others what     *)
(* they have.                                                               *)
LEMMA RemoveShown ==
    ASSUME TasksInv, Tenants', Shown',
           NEW i \in Slots, Live(i), NEW self \in BOOLEAN, Remove(i, self)
    PROVE  /\ TS!Leave(task_obj[i])
           /\ task_obj' = [task_obj EXCEPT ![i] = NoObj]
<1>1. TypeOK /\ Tenants /\ Shown
    BY TasksSound
<1>2. /\ task_obj' = [task_obj EXCEPT ![i] = NoObj]
      /\ state' = [state EXCEPT ![i] = IDLE]
      /\ UNCHANGED priority
    BY DEF Remove
<1>3. /\ task_obj'[i] = NoObj /\ ~Live(i)'
      /\ \A t \in Slots \ {i} : /\ task_obj'[t] = task_obj[t] /\ priority'[t] = priority[t]
                                /\ state'[t] = state[t] /\ (Live(t)' <=> Live(t))
    BY <1>1, <1>2 DEF TypeOK, Live
<1> DEFINE o == task_obj[i]
<1>4. \A t \in Slots : Live(t) /\ task_obj[t] = o <=> t = i
    BY <1>1 DEF Tenants
<1> HIDE DEF o
<1>5. \A u : u \in (DOMAIN LevelOf)' <=> u \in DOMAIN LevelOf \ {o}
    BY <1>1, <1>3, <1>4 DEF Shown
<1>6. ASSUME NEW u \in DOMAIN LevelOf \ {o}
      PROVE  LevelOf'[u] = LevelOf[u]
  <2>1. PICK t \in Slots : Live(t) /\ u = task_obj[t]
      BY <1>1 DEF Shown
  <2>2. t # i /\ Live(t)' /\ task_obj'[t] = u /\ priority'[t] = priority[t]
      BY <1>3, <1>4, <2>1
  <2> QED
      BY <1>1, <2>1, <2>2 DEF Shown
<1>7. LevelOf' = [u \in DOMAIN LevelOf \ {o} |-> LevelOf[u]]
  <2>1. LevelOf' = [u \in (DOMAIN LevelOf)' |-> LevelOf'[u]]
      BY DEF Shown
  <2>2. (DOMAIN LevelOf)' = DOMAIN LevelOf \ {o}
      BY <1>5
  <2> HIDE DEF Shown
  <2> QED
      BY <1>6, <2>1, <2>2
<1>8. Waiting' = Waiting \ {o}
  <2>1. \A u : u \in Waiting' <=> u \in Waiting \ {o}
      BY <1>1, <1>3, <1>4 DEF Shown
  <2>2. Waiting' = {task_obj'[t] : t \in {u \in LiveSlots' : state'[u] \notin {ACTIVE, SLEEP}}}
      BY DEF Waiting
  <2> QED
      BY <2>1, <2>2
<1> QED
    BY <1>2, <1>7, <1>8 DEF TS!Leave, TS!Existing, o

(* A task that is killed is the one named, another than the one that runs,  *)
(* and one that would not have ended.                                       *)
LEMMA KillShown ==
    ASSUME TasksInv, Tenants', Shown', svc_service_task_kill
    PROVE  \E o \in Objs : TS!Kill(o)
<1>1. /\ TypeOK /\ TableInv /\ CallsAim /\ CallsSound /\ Tenants /\ Shown
      /\ ThreadMode /\ call[current_task].op = "pid"
    BY TasksSound DEF TasksInv, svc_service_task_kill, Caller
<1>2. PICK i \in Slots :
             /\ i = call[current_task].id.index
             /\ Remove(i, FALSE)
             /\ task_obj[i] \in Endless
    BY <1>1, KillHits
<1>3. /\ Runner = task_obj[current_task] /\ current_task \in Slots /\ Live(current_task)
      /\ Runner \in DOMAIN LevelOf /\ Runner \notin Waiting
      /\ normal_schedule
    BY <1>1, RunnerActs
<1>4. task_obj[i] \in Objs
    BY <1>2, ObjsAssumption
<1>5. i # current_task /\ Live(i)
    BY <1>1, <1>2, <1>3, <1>4, HolderIsLive DEF CallsAim
<1>6. TS!Leave(task_obj[i]) /\ task_obj' = [task_obj EXCEPT ![i] = NoObj]
    BY <1>2, <1>5, RemoveShown
<1>7. Runner' = Runner
  <2>1. UNCHANGED <<normal_schedule, next_task, current_task>>
      BY <1>2 DEF Remove
  <2>2. next_task = current_task
      BY <1>1, Running, TasksSound
  <2> QED
      BY <1>1, <1>3, <1>5, <1>6, <2>1, <2>2 DEF Runner, TypeOK
<1>8. task_obj[i] \in DOMAIN LevelOf
    BY <1>1, <1>5 DEF Shown
<1>9. task_obj[i] # Runner
    BY <1>1, <1>3, <1>5 DEF Tenants
<1>10. TS!Kill(task_obj[i])
    BY <1>2, <1>3, <1>6, <1>7, <1>8, <1>9 DEF TS!Kill, TS!Acts, TS!Existing
<1> QED
    BY <1>4, <1>10

(* The task whose function returns is the one that runs. *)
LEMMA FinishShown ==
    ASSUME TasksInv, Tenants', Shown', resolve_end
    PROVE  TS!Finish
<1>1. /\ TypeOK /\ TableInv /\ Shown /\ CallsSound /\ ThreadMode
      /\ current_task # 0 /\ task_obj[current_task] \notin Endless
      /\ Remove(task_id[current_task].index, TRUE)
    BY TasksSound DEF TasksInv, resolve_end
<1>2. /\ Runner = task_obj[current_task] /\ current_task \in Slots /\ Live(current_task)
      /\ Runner \in DOMAIN LevelOf /\ Runner \notin Waiting
    BY <1>1, RunnerActs
<1>3. task_id[current_task].index = current_task
    BY <1>1, <1>2 DEF TableInv, Identity
<1>4. TS!Leave(Runner) /\ task_obj' = [task_obj EXCEPT ![current_task] = NoObj]
    BY <1>1, <1>2, <1>3, RemoveShown
<1>5. Runner' = NoObj
  <2>1. normal_schedule' = FALSE /\ UNCHANGED current_task
      BY <1>1 DEF Remove, HandOver
  <2> QED
      BY <1>1, <1>2, <1>4, <2>1 DEF Runner, TypeOK
<1>6. Runner # BaseObj
    BY <1>1, <1>2 DEF CallsSound
<1> QED
    BY <1>1, <1>2, <1>4, <1>5, <1>6 DEF TS!Finish, TS!Acts, TS!Existing

(* Only the task that runs hibernates. *)
LEMMA HibernateShown ==
    ASSUME TasksInv, Tenants', Shown', NEW reverse \in BOOLEAN, svc_service_hibernate(reverse)
    PROVE  TS!Hibernate
<1>1. /\ TypeOK /\ Tenants /\ Shown /\ CallsSound /\ ThreadMode
      /\ current_task # 0
    BY TasksSound DEF TasksInv, svc_service_hibernate
<1>2. /\ Runner = task_obj[current_task] /\ current_task \in Slots /\ Live(current_task)
      /\ Runner \in DOMAIN LevelOf /\ Runner \notin Waiting
    BY <1>1, RunnerActs
<1>3. /\ UNCHANGED <<task_obj, priority, current_task>> /\ normal_schedule' = FALSE
      /\ state' = [state EXCEPT ![current_task] = IF reverse THEN HIBERNATE_L ELSE HIBERNATE_G]
    BY DEF svc_service_hibernate, HandOver
<1>4. /\ state'[current_task] \notin {ACTIVE, SLEEP, IDLE}
      /\ \A t \in Slots \ {current_task} : state'[t] = state[t]
    BY <1>1, <1>2, <1>3 DEF TypeOK, ACTIVE, SLEEP, IDLE, HIBERNATE_G, HIBERNATE_L
<1>5. \A t \in Slots : Live(t)' <=> Live(t)
    BY <1>2, <1>4 DEF Live
<1>6. LevelOf' = LevelOf
  <2>1. LiveSlots' = LiveSlots
      BY <1>5 DEF LiveSlots, Slots
  <2>2. Slots' = Slots
      BY DEF Slots
  <2> QED
      BY <1>3, <2>1, <2>2 DEF LevelOf, Home
<1>7. Waiting' = Waiting \cup {Runner}
  <2>1. \A t \in Slots : Live(t) /\ task_obj[t] = Runner <=> t = current_task
      BY <1>1, <1>2 DEF Tenants
  <2>2. \A u : u \in Waiting' <=> u \in Waiting \cup {Runner}
      BY <1>1, <1>2, <1>3, <1>4, <1>5, <2>1 DEF Shown
  <2>3. Waiting' = {task_obj'[t] : t \in {u \in LiveSlots' : state'[u] \notin {ACTIVE, SLEEP}}}
      BY DEF Waiting
  <2> QED
      BY <2>2, <2>3
<1>8. Runner' = Runner
    BY <1>2, <1>3 DEF Runner
<1>9. Runner # BaseObj
    BY <1>1, <1>2 DEF CallsSound
<1> QED
    BY <1>2, <1>6, <1>7, <1>8, <1>9 DEF TS!Hibernate, TS!Acts, TS!Existing

(* The highest level of a live task is max_level. *)
LEMMA ForemostIsTop ==
    ASSUME TasksInv, NEW t \in Slots, Live(t)
    PROVE  TS!Foremost(task_obj[t]) <=> priority[t] = max_level
<1>1. TypeOK /\ MaxLevelExact /\ Shown
    BY TasksSound DEF TableInv
<1>2. max_level \in Int /\ \A u \in Slots : priority[u] \in Int
  <2>1. max_level \in 0..255 /\ priority \in [Slots -> 0..255]
      BY <1>1 DEF TypeOK
  <2> QED
      BY <2>1
<1>3. TS!Foremost(task_obj[t]) <=> \A u \in Slots : Live(u) => priority[u] <= priority[t]
    BY <1>1 DEF TS!Foremost, TS!Existing, Shown
<1>4. (\A u \in Slots : Live(u) => priority[u] <= priority[t]) <=> priority[t] = max_level
  <2>1. PICK v \in Slots : Live(v) /\ priority[v] = max_level
      BY <1>1 DEF MaxLevelExact
  <2>2. \A u \in Slots : Live(u) => priority[u] <= max_level
      BY <1>1 DEF MaxLevelExact
  <2> QED
      BY <1>2, <2>1, <2>2
<1> QED
    BY <1>3, <1>4

(* The scheduler is the dispatcher: nobody begins to wait, and the task it  *)
(* chooses is ready, and a foremost one if one was ready besides the caller.*)
LEMMA DispatchShown ==
    ASSUME TasksInv, Tenants', Shown', scheduler
    PROVE  TS!Dispatch
<1>1. /\ TypeOK /\ TableInv /\ OneRunner /\ Live(next_task) /\ CallsAim /\ GaveUp
      /\ Tenants /\ Shown
    BY TasksSound DEF TasksInv
<1>2. normal_schedule => next_task = current_task /\ Live(current_task)
    BY <1>1 DEF scheduler, OneRunner
<1>3. Runner = task_obj[current_task]
    BY <1>2 DEF Runner
<1>4. UNCHANGED <<task_obj, priority, max_level>> /\ normal_schedule' = TRUE
    BY DEF scheduler
<1>5. PICK woken \in SUBSET Wakeable :
        \E n \in Selected(Awake(Suspended, woken)) : SwitchTo(n, Awake(Suspended, woken))
    BY DEF scheduler
<1> DEFINE st == Awake(Suspended, woken)
<1>6. PICK n \in Selected(st) : SwitchTo(n, st)
    BY <1>5
<1>7. /\ Suspended \in [Slots -> States]
      /\ \A t \in Slots : Suspended[t] = IDLE <=> state[t] = IDLE
      /\ \A t \in Slots : Suspended[t] \notin {ACTIVE, SLEEP} => Suspended[t] = state[t]
    BY <1>1, <1>2 DEF Suspended, TypeOK, States, Live, ACTIVE, SLEEP, IDLE
<1>8. /\ st \in [Slots -> States]
      /\ \A t \in Slots : st[t] = IDLE <=> state[t] = IDLE
      /\ \A t \in Slots : st[t] \notin {ACTIVE, SLEEP} => st[t] = state[t]
    BY <1>7 DEF Awake, Wakeable, Hibernating, States, ACTIVE, SLEEP, IDLE,
                HIBERNATE_G, HIBERNATE_L
<1>9. n \in Slots
    BY DEF Selected
<1> HIDE DEF st
<1>10. st[n] = SLEEP
    BY SelectedReady
<1>11. next_task' = n /\ state' = [st EXCEPT ![n] = ACTIVE] /\ pendsv' /\ ~pendsv
    BY <1>6 DEF SwitchTo, scheduler
<1>12. /\ state'[n] = ACTIVE /\ Live(n) /\ Live(n)'
       /\ \A t \in Slots : Live(t)' <=> Live(t)
       /\ \A t \in Slots : state'[t] \notin {ACTIVE, SLEEP} => state'[t] = state[t]
    BY <1>8, <1>9, <1>10, <1>11 DEF Live, ACTIVE, SLEEP, IDLE
<1>13. Runner' = task_obj[n]
    BY <1>4, <1>11 DEF Runner
<1>14. LevelOf' = LevelOf
  <2>1. LiveSlots' = LiveSlots
      BY <1>12 DEF LiveSlots, Slots
  <2>2. Slots' = Slots
      BY DEF Slots
  <2> QED
      BY <1>4, <2>1, <2>2 DEF LevelOf, Home
<1>15. Waiting' \subseteq Waiting
    BY <1>1, <1>4, <1>12 DEF Shown
<1>16. Runner' \in DOMAIN LevelOf /\ Runner' \notin Waiting'
  <2>1. task_obj[n] \in DOMAIN LevelOf
      BY <1>1, <1>9, <1>12 DEF Shown
  <2>2. \A t \in Slots : Live(t) /\ task_obj[t] = task_obj[n] => t = n
      BY <1>1, <1>9, <1>12 DEF Tenants
  <2>3. task_obj[n] \notin Waiting'
      BY <1>4, <1>9, <1>12, <2>2 DEF Shown
  <2> QED
      BY <1>13, <2>1, <2>3
<1>17. ASSUME NEW u \in DOMAIN LevelOf \ (Waiting' \cup {Runner}), TS!Foremost(u)
       PROVE  TS!Foremost(Runner')
  <2>1. PICK t \in Slots : Live(t) /\ u = task_obj[t]
      BY <1>1 DEF Shown
  <2>2. t # current_task /\ priority[t] = max_level
      BY <1>3, <1>17, <2>1, ForemostIsTop
  <2>3. state'[t] \in {ACTIVE, SLEEP}
      BY <1>4, <1>12, <1>17, <2>1 DEF Shown
  <2>4. priority[n] = max_level
    <3>1. CASE state'[t] = SLEEP
        BY <1>1, <1>4, <1>11, <2>2, <3>1, SchedulerPrefersTop
    <3>2. CASE state'[t] = ACTIVE
      <4>1. OneRunner'
          BY <1>1, SchedulerPreserves
      <4>2. t = n
          BY <1>11, <3>2, <4>1 DEF OneRunner
      <4> QED
          BY <2>2, <4>2
    <3> QED
        BY <2>3, <3>1, <3>2
  <2> QED
      BY <1>9, <1>12, <1>13, <2>4, ForemostIsTop
<1> QED
    BY <1>14, <1>15, <1>16, <1>17 DEF TS!Dispatch, TS!Existing

(* What else happens the task system does not show: calls on their way, a   *)
(* hand over, the context switch and the tick.                              *)
LEMMA OthersNotSeen ==
    ASSUME TasksInv,
           \/ \E o \in Objs : task_start(o) \/ task_kill(o)
           \/ task_kill_load
           \/ \E p \in Priorities : task_create_rejected(p) \/ task_create_overrun(p)
           \/ task_kill_memfault \/ scheduler_hangs \/ Compute \/ UNCHANGED vars
           \/ svc_service_hand_over \/ svc_service_start_scheduler
           \/ pendsv_handler \/ Tick
    PROVE  UNCHANGED <<LevelOf, Waiting, Runner>>
<1>1. TypeOK /\ OneRunner /\ Live(next_task)
    BY TasksSound
<1>2. ASSUME UNCHANGED slotVars, UNCHANGED Runner
      PROVE  UNCHANGED <<LevelOf, Waiting, Runner>>
  <2>1. UNCHANGED <<state, priority, task_obj>>
      BY <1>2 DEF slotVars
  <2> QED
      BY <1>2, <2>1, NotSeen DEF Live
<1>3. CASE \/ \E o \in Objs : task_start(o) \/ task_kill(o)
           \/ task_kill_load
           \/ \E p \in Priorities : task_create_rejected(p) \/ task_create_overrun(p)
           \/ task_kill_memfault \/ scheduler_hangs \/ Compute \/ UNCHANGED vars
  <2>1. UNCHANGED <<slotVars, switchVars>>
      BY <1>3, NothingMoves
  <2> QED
      BY <1>2, <2>1 DEF slotVars, switchVars, Runner
<1>4. CASE svc_service_hand_over \/ svc_service_start_scheduler
  <2>1. /\ ThreadMode /\ UNCHANGED <<task_obj, priority, current_task, next_task>>
        /\ state' = [state EXCEPT ![current_task] = SLEEP] /\ normal_schedule' = FALSE
      BY <1>4 DEF svc_service_hand_over, svc_service_start_scheduler, HandOver
  <2>2. /\ Runner = task_obj[current_task] /\ current_task \in Slots
        /\ state[current_task] \in {ACTIVE, SLEEP}
      BY <2>1, RunnerActs
  <2>3. /\ \A t \in Slots : Live(t)' <=> Live(t)
        /\ \A t \in Slots : state'[t] \in {ACTIVE, SLEEP} <=> state[t] \in {ACTIVE, SLEEP}
      BY <1>1, <2>1, <2>2 DEF TypeOK, Live, ACTIVE, SLEEP, IDLE
  <2>4. Runner' = Runner
      BY <2>1, <2>2 DEF Runner
  <2> QED
      BY <2>1, <2>3, <2>4, NotSeen
<1>5. CASE pendsv_handler \/ Tick
  <2>1. /\ UNCHANGED <<slotVars, next_task, normal_schedule>>
        /\ normal_schedule \/ UNCHANGED current_task
      BY <1>1, <1>5 DEF pendsv_handler, Tick, OneRunner
  <2>2. Runner' = Runner
      BY <2>1 DEF Runner, slotVars
  <2> QED
      BY <1>2, <2>1, <2>2
<1> QED
    BY <1>3, <1>4, <1>5

(* Every step of the kernel is a step of the task system, or not seen. *)
LEMMA StepShown ==
    ASSUME TasksInv, TasksInv', [Next]_vars
    PROVE  [TS!Next]_(TS!tvars)
<1>1. Tenants' /\ Shown'
    BY DisciplinedTenantsNext, TenantsShownNext DEF TasksInv
<1>2. CASE \E o \in Objs, p \in Priorities : svc_service_task_create(o, p)
    BY <1>1, <1>2, CreateShown DEF TS!Next
<1>3. CASE svc_service_task_kill
    BY <1>1, <1>3, KillShown DEF TS!Next
<1>4. CASE resolve_end
    BY <1>1, <1>4, FinishShown DEF TS!Next
<1>5. CASE \E reverse \in BOOLEAN : svc_service_hibernate(reverse)
    BY <1>1, <1>5, HibernateShown DEF TS!Next
<1>6. CASE scheduler
    BY <1>1, <1>6, DispatchShown DEF TS!Next
<1>7. CASE UNCHANGED <<LevelOf, Waiting, Runner>>
    BY <1>7 DEF TS!tvars
<1> QED
    BY <1>2, <1>3, <1>4, <1>5, <1>6, <1>7, OthersNotSeen, Zenon DEF Next

(* After kernel_init there is BaseTask, and main runs in its place. *)
LEMMA InitShown == Init => TS!Init
<1> SUFFICES ASSUME Init PROVE TS!Init
    OBVIOUS
<1>1. Shown /\ 0 \in Slots /\ task_obj[0] = BaseObj
    BY InitTasksInv, TasksSound
<1>2. /\ \A t \in Slots : Live(t) <=> t = 0
      /\ state[0] = SLEEP /\ priority[0] = 0 /\ next_task = 0 /\ normal_schedule
    BY <1>1 DEF Init, Live, SLEEP, IDLE
<1>3. DOMAIN LevelOf = {BaseObj} /\ LevelOf[BaseObj] = 0
    BY <1>1, <1>2 DEF Shown
<1>4. LevelOf = [t \in {BaseObj} |-> 0]
  <2>1. LevelOf = [t \in {BaseObj} |-> LevelOf[t]]
      BY <1>1, <1>3 DEF Shown
  <2> QED
      BY <1>3, <2>1
<1>5. Waiting = {}
    BY <1>1, <1>2 DEF Shown
<1>6. Runner = BaseObj
    BY <1>1, <1>2 DEF Runner
<1> QED
    BY <1>4, <1>5, <1>6 DEF TS!Init

(* The kernel implements the task system for a disciplined application:     *)
(* preemptible API calls, the ring, the ids, level_stash and the two        *)
(* exceptions neither lose, wake, confuse nor pass over a task.             *)
THEOREM KernelImplementsTasks ==
    ASSUME IdsFit, Disciplined
    PROVE  Spec => ImplementsTaskSystem
<1>1. Init => TasksInv
    BY InitTasksInv
<1>2. TasksInv /\ [Next]_vars => TasksInv'
    BY NextTasksInv
<1>3. Init => TS!Init
    BY InitShown
<1>4. TasksInv /\ TasksInv' /\ [Next]_vars => [TS!Next]_(TS!tvars)
    BY StepShown
<1> QED
    BY <1>1, <1>2, <1>3, <1>4, PTL DEF Spec, ImplementsTaskSystem, TS!Spec

=============================================================================
