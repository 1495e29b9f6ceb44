------------------------------ MODULE MCKernel ------------------------------
(***************************************************************************)
(* Small instances of Kernel, and what comments of the source say of the   *)
(* kernel that the code does not keep.                                     *)
(***************************************************************************)
EXTENDS KernelTasks

(* scheduler() finds the next task: neither of its loops runs for ever. *)
NeverHangs == fault # "hung"

=============================================================================
