---------------------------- MODULE MCSemaphores ----------------------------
(***************************************************************************)
(* Small instances of Semaphores.                                          *)
(***************************************************************************)
EXTENDS Semaphores

=============================================================================
