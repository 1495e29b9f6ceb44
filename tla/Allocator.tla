----------------------------- MODULE Allocator -----------------------------
(***************************************************************************)
(* What the global heap promises to its callers: an allocation hands out   *)
(* words no other block has, and a release takes back exactly the block it *)
(* names.  The promise can be voided, and then for good.                   *)
(***************************************************************************)
EXTENDS Integers

VARIABLES
    blocks,     \* the blocks handed out: [addr, size], in words
    void        \* nothing is promised any more

Init == blocks = {} /\ void = FALSE

Disjoint(b, d) == b.addr + b.size <= d.addr \/ d.addr + d.size <= b.addr

(* A block of at least one word appears among the ones handed out, apart    *)
(* from all of them.                                                        *)
Alloc ==
    \E b \in blocks' \ blocks :
        /\ b.size > 0
        /\ \A d \in blocks : Disjoint(b, d)
        /\ blocks' = blocks \cup {b}

Release == \E b \in blocks : blocks' = blocks \ {b}

Next ==
    \/ void'
    \/ ~void /\ ~void' /\ (Alloc \/ Release)

Spec == Init /\ [][Next]_<<blocks, void>>

=============================================================================
