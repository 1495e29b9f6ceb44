---------------------------- MODULE KernelTasks ----------------------------
(***************************************************************************)
(* Kernel as a system of tasks: the slots, the ring, the ids, level_stash, *)
(* the counters and the two exceptions are hidden.                         *)
(***************************************************************************)
EXTENDS Kernel

(* The slot that holds a task's object. *)
Home(o) == CHOOSE t \in Slots : task_obj[t] = o

(* The priority of every task, by its object. *)
LevelOf == [o \in {task_obj[t] : t \in LiveSlots} |-> priority[Home(o)]]

(* The tasks scheduler() does not select. *)
Waiting == {task_obj[t] : t \in {u \in LiveSlots : state[u] \notin {ACTIVE, SLEEP}}}

(* The task chosen last, and once it gave up, the one that did, which has   *)
(* no object any more if it has ended.                                      *)
Runner == task_obj[IF normal_schedule THEN next_task ELSE current_task]

TS == INSTANCE TaskSystem
        WITH Names <- Objs, Base <- BaseObj, Nobody <- NoObj, Levels <- Priorities,
             level <- LevelOf, waiting <- Waiting, running <- Runner

(* The kernel implements the task system: what is left of the preemptible   *)
(* API calls, the SVCs, the scheduler and the context switch is one step    *)
(* each, and a task comes, goes, waits and runs for no other reason.        *)
ImplementsTaskSystem == TS!Spec

=============================================================================
