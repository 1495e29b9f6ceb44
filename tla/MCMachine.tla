----------------------------- MODULE MCMachine -----------------------------
(***************************************************************************)
(* A small instance of Machine.                                            *)
(***************************************************************************)
EXTENDS Machine

LevelBits == {{3, 6}}

WordBits == {{1, PERMISSION_INTCTRL}}

(* Bound: the device is followed to the end of the call that makes a wild   *)
(* store.                                                                   *)
Followable == ~wild \/ svc.pc # "thread"

GrantBits == {{PERMISSION_HWREG}, {PERMISSION_INTCTRL}}

=============================================================================
