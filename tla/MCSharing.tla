----------------------------- MODULE MCSharing -----------------------------
(***************************************************************************)
(* Small instances of Sharing in which every task locks every mutex.       *)
(***************************************************************************)
EXTENDS Sharing

AllUses == Objs \X Mutexes

=============================================================================
