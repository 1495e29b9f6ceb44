--------------------------- MODULE MCBaseService ---------------------------
(***************************************************************************)
(* A small instance of BaseService.  Its tasks lock no other mutex.        *)
(***************************************************************************)
EXTENDS BaseService

AllUses == Objs \X Mutexes

=============================================================================
