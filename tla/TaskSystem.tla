----------------------------- MODULE TaskSystem -----------------------------
(***************************************************************************)
(* What the kernel promises to an application, in terms of its tasks only: *)
(* a task exists from its creation until it ends or is killed, keeps the   *)
(* priority it was created with, gives the processor up by itself or to    *)
(* the dispatcher, and comes before tasks of lower priority.               *)
(***************************************************************************)
EXTENDS Integers

CONSTANTS Names, Base, Nobody, Endless, Levels

VARIABLES
    level,      \* the priority of every task there is
    waiting,    \* the tasks that cannot be given the processor
    running     \* the task that has the processor, or had it last

tvars == <<level, waiting, running>>

Existing == DOMAIN level

(* A task nobody has a higher priority than. *)
Foremost(t) == \A u \in Existing : level[u] <= level[t]

(* The running task acts: it neither waits nor has ended. *)
Acts == running \in Existing \ waiting

Init ==
    /\ level = [t \in {Base} |-> 0]
    /\ waiting = {}
    /\ running = Base

(* A running task, or main for BaseTask, creates another one. *)
Create(t, p) ==
    /\ Acts
    /\ t \in Names \ Existing
    /\ level' = [u \in Existing \cup {t} |-> IF u = t THEN p ELSE level[u]]
    /\ UNCHANGED <<waiting, running>>

Leave(t) ==
    /\ level' = [u \in Existing \ {t} |-> level[u]]
    /\ waiting' = waiting \ {t}

(* A running task kills another one, which would not have ended. *)
Kill(t) ==
    /\ Acts
    /\ t \in (Existing \cap Endless) \ {running}
    /\ Leave(t)
    /\ UNCHANGED running

(* The function of the running task returns. *)
Finish ==
    /\ Acts
    /\ running \notin Endless \cup {Base}
    /\ Leave(running)
    /\ running' = Nobody

(* The running task waits for a condition. *)
Hibernate ==
    /\ Acts
    /\ running # Base
    /\ waiting' = waiting \cup {running}
    /\ UNCHANGED <<level, running>>

(* Some tasks need not wait any longer; a task that can run gets the        *)
(* processor, and a foremost one if there is one besides the last to run.   *)
Dispatch ==
    /\ waiting' \subseteq waiting
    /\ running' \in Existing \ waiting'
    /\ (\E t \in Existing \ (waiting' \cup {running}) : Foremost(t)) => Foremost(running')
    /\ UNCHANGED level

Next ==
    \/ \E t \in Names, p \in Levels : Create(t, p)
    \/ \E t \in Names : Kill(t)
    \/ Finish
    \/ Hibernate
    \/ Dispatch

Spec == Init /\ [][Next]_tvars

=============================================================================
