----------------------------- MODULE MCNesting -----------------------------
(***************************************************************************)
(* Sharing for three tasks in a chain: Top waits for Outer, which Middle   *)
(* has while it waits for Inner, which Bottom has.                         *)
(***************************************************************************)
EXTENDS Sharing

CONSTANTS Top, Middle, Bottom, Outer, Inner

Chain == {<<Top, Outer>>, <<Middle, Outer>>, <<Middle, Inner>>, <<Bottom, Inner>>}

(* Bounds: the three tasks are created in order before the scheduler starts, *)
(* and a behaviour is left once a promotion has been upset.                  *)
Bounded ==
    /\ total_task_count > 1 => task_obj[1] \in {Top, NoObj}
    /\ total_task_count > 2 => task_obj[2] \in {Middle, NoObj}
    /\ first_start => total_task_count = MaxStarts
    /\ ~disturbed

=============================================================================
