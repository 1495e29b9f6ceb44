------------------------------- MODULE MCHeap -------------------------------
(***************************************************************************)
(* Small instances of Heap.                                                *)
(***************************************************************************)
EXTENDS Heap, TLC

(* The callers are alike. *)
Perms == Permutations(Tasks)

(* Bound: the heap is followed to the first step the code should have       *)
(* refused; no property speaks of what comes after.                         *)
Followable == ~unchecked

(* No two callers hold the same word. *)
BlocksApart ==
    \A b, d \in owned : b # d => b.addr + b.size <= d.addr \/ d.addr + d.size <= b.addr

=============================================================================
