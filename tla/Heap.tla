-------------------------------- MODULE Heap --------------------------------
(***************************************************************************)
(* The global heap of the arm port: heap.c and the two services of         *)
(* service/svr_heap.c.  The heap's words carry no data of the allocator;   *)
(* what is free and what is allocated is kept in a list of markers in the  *)
(* bookkeeping region.  A marker is a word: a half-word `half' with the    *)
(* size and the free bit, and a half-word `off' with the signed distance   *)
(* to the next marker.  The blocks lie in memory in the order of the list, *)
(* so that a block's address is the sum of the sizes before it.            *)
(*                                                                         *)
(* Cell c is the word at bstart_addr - 4c: cell 0 (fsll_start) is the      *)
(* region's last word, cell HB - 1 its first, cells -1 and HB the words    *)
(* just outside.  Sizes and addresses count words, addresses from          *)
(* hstart_addr.  The services run in the SVC handler, one at a time; the   *)
(* checks of heap_allocate run in thread mode before it.                   *)
(*                                                                         *)
(* Four things the code does not check: a request of no words, a request   *)
(* that no longer fits when the service runs, a marker that is handed out  *)
(* whole because no word is empty for the rest, and what a release leaves  *)
(* in the marker before the block.  A step that does one of them sets      *)
(* `unchecked', and is taken as the code takes it.                         *)
(***************************************************************************)
EXTENDS Integers, FiniteSets, FiniteSetsExt

CONSTANTS
    Tasks,          \* the callers
    HB,             \* HEAP_BOOKEEPING_SIZE: 256 or 512
    Half,           \* the free bit, in words: 8192
    Wide,           \* 2^30, the words a register counts
    Total,          \* words of SRAM from hstart_addr to its end
    Requests,       \* sizes asked for, in bytes
    MaxBlocks       \* bound: blocks handed out at a time

ASSUME RegionAssumption == HB \in Nat \ {0} /\ HB % 4 = 0
ASSUME SizeAssumption == Half \in Nat \ {0} /\ Wide \in Nat \ {0} /\ Total \in 0..(Wide - 1)
ASSUME RequestsAssumption == Requests \subseteq Nat

VARIABLES
    ready,          \* heap_init has run
    cell,           \* the bookkeeping region and its two neighbours
    fsll_end,       \* the cell of the last marker
    blist_size,     \* the number of markers
    heap_remaining,
    asked,          \* per task: words of the request that passed the checks, or NoRequest
    owned,          \* the blocks the callers hold: [addr, size]
    unchecked       \* history: a step did what the code should have refused

vars == <<ready, cell, fsll_end, blist_size, heap_remaining, asked, owned, unchecked>>

NoRequest == -1

Empty == [half |-> 0, off |-> 0]
Junk == [half |-> 1, off |-> 1]     \* a word in use by somebody else

IsFree(m) == m.half >= Half
Size(m) == m.half % Half

(* The marker the one in cell c points to; a marker with offset 0 is the last. *)
Succ(c) == c - cell[c].off

MaxWalk == HB + 2

(* The markers met when the list is followed from fsll_start. *)
Visit[i \in 1..MaxWalk] == IF i = 1 THEN 0 ELSE Succ(Visit[i - 1])

(* The RAM tracking pointer at the i-th of them. *)
Tracked[i \in 1..MaxWalk] ==
    IF i = 1 THEN 0 ELSE Tracked[i - 1] + Size(cell[Visit[i - 1]])

(* Cells 0 to HB - 2 are cleared anyway; the first word of the region and   *)
(* the word below hold what was there.                                      *)
Init ==
    /\ ready = FALSE
    /\ cell \in {[c \in -1..HB |-> IF c >= HB - 1 THEN w ELSE Junk] : w \in {Empty, Junk}}
    /\ fsll_end = 0
    /\ blist_size = 0
    /\ heap_remaining = 0
    /\ asked = [t \in Tasks |-> NoRequest]
    /\ owned = {}
    /\ unchecked = FALSE

(* The loop clears words 1 to HB of the region, which are the cells -1 to   *)
(* HB - 2.                                                                  *)
heap_init ==
    /\ ~ready
    /\ ready' = TRUE
    /\ cell' = [c \in -1..HB |-> IF c <= HB - 2 THEN Empty ELSE cell[c]]
    /\ fsll_end' = 0
    /\ blist_size' = 0
    /\ heap_remaining' = Total
    /\ UNCHANGED <<asked, owned, unchecked>>

-----------------------------------------------------------------------------
(* Allocation *)

(* A size in bytes rounded up to words; the sum is a 32-bit number. *)
Words(bytes) == ((bytes + 3) \div 4) % Wide

(* Mutant: every request goes on to the service. *)
heap_allocate_unchecked(t, bytes) ==
    /\ ready
    /\ asked[t] = NoRequest
    /\ Cardinality(owned) < MaxBlocks
    /\ asked' = [asked EXCEPT ![t] = Words(bytes)]
    /\ UNCHANGED <<ready, cell, fsll_end, blist_size, heap_remaining, owned, unchecked>>

(* heap_allocate up to its SVC: the two checks, in thread mode.  A request  *)
(* they refuse changes nothing.                                             *)
heap_allocate(t, bytes) ==
    /\ ready
    /\ asked[t] = NoRequest
    /\ Cardinality(owned) < MaxBlocks
    /\ Words(bytes) < Half
    /\ heap_remaining >= Words(bytes)
    /\ asked' = [asked EXCEPT ![t] = Words(bytes)]
    /\ UNCHANGED <<ready, cell, fsll_end, blist_size, heap_remaining, owned, unchecked>>

(* The block at address a goes to task t, with a marker of n words.  It may *)
(* be empty, another caller may have taken the words since the check, and   *)
(* the marker may have more of them than are taken off heap_remaining.      *)
Hand(t, a, n) ==
    /\ heap_remaining' = (heap_remaining - asked[t]) % Wide
    /\ owned' = owned \cup {[addr |-> a, size |-> asked[t]]}
    /\ asked' = [asked EXCEPT ![t] = NoRequest]
    /\ unchecked' = (unchecked \/ asked[t] \notin 1..heap_remaining \/ n # asked[t])

(* The places in the list of free markers of at least n words. *)
Fitting(n) == {i \in 1..blist_size : IsFree(cell[Visit[i]]) /\ Size(cell[Visit[i]]) >= n}

(* The empty words the search for a split marker looks at, from cell HB to  *)
(* cell 1.                                                                  *)
SplitCells == {c \in 1..HB : cell[c] = Empty}

(* Mutant: the split marker forgets the marker that followed. *)
SplitAtEnd(c, s, n) ==
    [cell EXCEPT ![c] = [half |-> n, off |-> c - s],
                 ![s] = [half |-> Half + Size(cell[c]) - n, off |-> 0]]

(* The free marker in cell c keeps n words; a free marker for the rest is   *)
(* put into cell s between c and what c pointed to.                         *)
Split(c, s, n) ==
    [cell EXCEPT ![c] = [half |-> n, off |-> c - s],
                 ![s] = [half |-> Half + Size(cell[c]) - n, off |-> s - Succ(c)]]

(* A fitting marker is split, or converted whole when nothing is left over  *)
(* or no word is empty.                                                     *)
search_free_marker(t) ==
    LET n == asked[t]
        i == Min(Fitting(n))
        c == Visit[i]
        splits == Size(cell[c]) # n /\ SplitCells # {}
    IN  /\ Fitting(n) # {}
        /\ cell' = IF splits THEN Split(c, Max(SplitCells), n)
                   ELSE [cell EXCEPT ![c] = [half |-> Size(cell[c]), off |-> cell[c].off]]
        /\ blist_size' = IF splits THEN blist_size + 1 ELSE blist_size
        /\ Hand(t, Tracked[i], IF splits THEN n ELSE Size(cell[c]))
        /\ UNCHANGED <<ready, fsll_end>>

(* The empty words the search for a new marker looks at: its counter goes   *)
(* up by four while the words go down by one.                               *)
NewCells == {c \in 0..((HB \div 4) - 1) : cell[c] = Empty}

(* Mutant: fsll_end stays at the old last marker. *)
NewEndStale(c) == fsll_end

NewEnd(c) == c

(* The sum of the sizes met from fsll_start to a marker in cell c, which    *)
(* the old last marker points to.                                           *)
AddressOf(c) ==
    LET i == Min({j \in 1..MaxWalk : Visit[j] = fsll_end})
    IN  IF c = fsll_end THEN Tracked[i] ELSE Tracked[i] + Size(cell[fsll_end])

(* No free marker fits: a new marker at the end of the list, or NULL. *)
add_new_allocated_marker(t) ==
    LET c == Min(NewCells)
    IN  /\ asked[t] # NoRequest
        /\ Fitting(asked[t]) = {}
        /\ IF NewCells = {}
           THEN /\ asked' = [asked EXCEPT ![t] = NoRequest]
                /\ UNCHANGED <<cell, fsll_end, blist_size, heap_remaining, owned, unchecked>>
           ELSE /\ cell' = [d \in DOMAIN cell |->
                              IF d = c THEN [half |-> asked[t], off |-> 0]
                              ELSE IF d = fsll_end THEN [half |-> cell[d].half, off |-> d - c]
                              ELSE cell[d]]
                /\ fsll_end' = NewEnd(c)
                /\ blist_size' = blist_size + 1
                /\ Hand(t, AddressOf(c), asked[t])
        /\ UNCHANGED ready

svc_service_gheap_allocate(t) ==
    /\ asked[t] # NoRequest
    /\ search_free_marker(t) \/ add_new_allocated_marker(t)

-----------------------------------------------------------------------------
(* Release *)

(* Mutant: the next marker is joined whether it is free or not. *)
ClubsAnything(c) == cell[c].off # 0 /\ Size(cell[c]) + Size(cell[Succ(c)]) < Half

(* The next marker is free and the sum of the sizes fits a marker. *)
Clubs(c) ==
    /\ cell[c].off # 0
    /\ IsFree(cell[Succ(c)])
    /\ Size(cell[c]) + Size(cell[Succ(c)]) < Half

(* The register with the size for the merge with the marker before: it      *)
(* holds the sum also where the sum was too large to be stored.             *)
R3(c) ==
    Half + Size(cell[c])
         + (IF cell[c].off # 0 /\ IsFree(cell[Succ(c)]) THEN Size(cell[Succ(c)]) ELSE 0)

(* The cells once marker c is free: deleted if it is the last, else joined  *)
(* with a free marker after it.                                             *)
Freed(c) ==
    IF cell[c].off = 0 THEN [cell EXCEPT ![c] = Empty]
    ELSE IF Clubs(c)
    THEN [cell EXCEPT ![c] = [half |-> R3(c), off |-> c - Succ(c) + cell[Succ(c)].off],
                      ![Succ(c)] = Empty]
    ELSE [cell EXCEPT ![c] = [half |-> Half + Size(cell[c]), off |-> cell[c].off]]

(* The marker that points to c. *)
Pred(c) == Visit[Min({i \in 1..MaxWalk : Visit[i] = c}) - 1]

(* The marker of the block at address a is freed, and joined with a free    *)
(* marker before it; the sum there is cut to a half-word without a check.   *)
(* A last marker is deleted, and a free marker before it stays as the last. *)
release_allocated_marker(a) ==
    LET c == Visit[Min({i \in 1..blist_size : Tracked[i] = a})]
        p == Pred(c)
        freed == Freed(c)
        shorter == cell[c].off = 0 \/ Clubs(c)
        deleted == c # 0 /\ freed[c] = Empty
        joins == c # 0 /\ ~deleted /\ IsFree(cell[p])
        left == IF shorter THEN blist_size - 1 ELSE blist_size
        sum == R3(c) + Size(cell[p])
    IN  /\ cell' = IF deleted
                   THEN [freed EXCEPT ![p] = [half |-> freed[p].half, off |-> 0]]
                   ELSE IF joins
                   THEN [freed EXCEPT ![p] = [half |-> sum % (2 * Half),
                                              off |-> p - c + freed[c].off],
                                      ![c] = Empty]
                   ELSE freed
        /\ fsll_end' = IF deleted THEN p ELSE fsll_end
        /\ blist_size' = IF joins THEN left - 1 ELSE left
        /\ heap_remaining' = (heap_remaining + Size(cell[c])) % Wide
        /\ unchecked' = (unchecked \/ (deleted /\ IsFree(cell[p])) \/ (joins /\ sum >= 2 * Half))

(* A pointer that is no block's address changes nothing. *)
svc_service_gheap_release(a) ==
    IF \E i \in 1..blist_size : Tracked[i] = a
    THEN release_allocated_marker(a)
    ELSE UNCHANGED <<cell, fsll_end, blist_size, heap_remaining, unchecked>>

(* A task gives a block back. *)
heap_release(b) ==
    /\ svc_service_gheap_release(b.addr)
    /\ owned' = owned \ {b}
    /\ UNCHANGED <<ready, asked>>

Next ==
    \/ heap_init
    \/ \E t \in Tasks : \E bytes \in Requests : heap_allocate(t, bytes)
    \/ \E t \in Tasks : svc_service_gheap_allocate(t)
    \/ \E b \in owned : heap_release(b)

Spec == Init /\ [][Next]_vars

-----------------------------------------------------------------------------
(* Properties *)

Markers == {Visit[i] : i \in 1..blist_size}

(* The block of the i-th marker. *)
BlockAt(i) == [addr |-> Tracked[i], size |-> Size(cell[Visit[i]])]

Allocated == {BlockAt(i) : i \in {j \in 1..blist_size : ~IsFree(cell[Visit[j]])}}

Words16 == [half : 0..(2 * Half - 1), off : -HB..HB]

TypeOK ==
    /\ ready \in BOOLEAN
    /\ cell \in [-1..HB -> Words16]
    /\ fsll_end \in 0..HB
    /\ blist_size \in 0..MaxWalk
    /\ heap_remaining \in 0..(Wide - 1)
    /\ asked \in [Tasks -> NoRequest..(Half - 1)]
    /\ unchecked \in BOOLEAN

(* fsll_end and blist_size describe one list: following blist_size markers  *)
(* from fsll_start meets different markers, the last of them is fsll_end,   *)
(* which is not free and points nowhere, and no other word of the region is *)
(* taken.  Holds until a step the code should have refused.                 *)
ListSound ==
    ready /\ ~unchecked /\ blist_size > 0 =>
        /\ Cardinality(Markers) = blist_size
        /\ Visit[blist_size] = fsll_end
        /\ cell[fsll_end].off = 0 /\ ~IsFree(cell[fsll_end])
        /\ \A c \in 0..(HB - 2) \ Markers : cell[c] = Empty

(* heap_remaining counts the words that are not allocated, and is never     *)
(* below zero, until a step the code should have refused.                   *)
RemainingExact ==
    ready /\ ~unchecked =>
        heap_remaining = Total - FoldSet(LAMBDA b, sum : sum + b.size, 0, Allocated)

(* The allocated markers are the blocks the callers hold, until a step the  *)
(* code should have refused.                                                *)
OwnersAgree == ~unchecked => Allocated = owned

(* The marker list implements the allocator: splits, merges and refused     *)
(* requests are invisible, an allocation adds a block apart from all others *)
(* and a release removes one.  The promise ends with a step the code should *)
(* have refused.                                                            *)
A == INSTANCE Allocator WITH blocks <- Allocated, void <- unchecked
ImplementsAllocator == A!Spec

=============================================================================
