------------------------------ MODULE Counter ------------------------------
(***************************************************************************)
(* What a semaphore promises: a byte that each increment and each          *)
(* decrement changes in one indivisible step, and that no decrement takes  *)
(* below zero.                                                             *)
(***************************************************************************)
EXTENDS Integers

CONSTANTS Span,     \* the values of the byte
          Start     \* the value the application gives the semaphore

VARIABLES value, ups, downs

Init == value = Start /\ ups = 0 /\ downs = 0

Up ==
    /\ value' = (value + 1) % Span
    /\ ups' = ups + 1
    /\ UNCHANGED downs

Down ==
    /\ value > 0
    /\ value' = value - 1
    /\ downs' = downs + 1
    /\ UNCHANGED ups

Spec == Init /\ [][Up \/ Down]_<<value, ups, downs>>

=============================================================================
