----------------------------- MODULE HeapProofs -----------------------------
(***************************************************************************)
(* Proofs about Heap: the list of markers that heap_allocate splits and    *)
(* extends and heap_release joins and shortens.                            *)
(***************************************************************************)
EXTENDS Heap, FiniteSetTheorems, WellFoundedInduction, TLAPS

-----------------------------------------------------------------------------
(* Numbers *)

(* Every nonempty set of naturals has a least element. *)
LEMMA LeastNat ==
    ASSUME NEW X \in SUBSET Nat, X # {}
    PROVE  \E m \in X : \A k \in X : m <= k
<1>1. IsWellFoundedOn(OpToRel(<, Nat), Nat)
    BY NatLessThanWellFounded
<1>2. PICK m \in X : \A k \in X : ~(<<k, m>> \in OpToRel(<, Nat))
    BY <1>1, WFMin
<1>3. \A k \in X : ~(k < m)
    BY <1>2 DEF OpToRel
<1> QED
    BY <1>3

(* The least member of a set of numbers. *)
LEMMA MinIsLeast ==
    ASSUME NEW X \in SUBSET Nat, X # {}
    PROVE  Min(X) \in X /\ \A k \in X : Min(X) <= k
<1>1. \E m \in X : \A k \in X : m <= k
    BY LeastNat
<1> QED
    BY <1>1 DEF Min

(* The greatest member of a bounded set of numbers is one of its members. *)
LEMMA MaxIsIn ==
    ASSUME NEW N \in Nat, NEW X \in SUBSET (0..N), X # {}
    PROVE  Max(X) \in X
<1> DEFINE Y == {N - x : x \in X}
<1>0. \A x \in X : x \in Int /\ N - x \in Nat
    OBVIOUS
<1>1. Y \in SUBSET Nat /\ Y # {}
    BY <1>0
<1>2. PICK m \in Y : \A k \in Y : m <= k
    BY <1>1, LeastNat
<1>3. PICK x \in X : m = N - x
    OBVIOUS
<1>4. ASSUME NEW y \in X PROVE x >= y
  <2>1. N - x <= N - y
      BY <1>2, <1>3
  <2> QED
      BY <1>0, <2>1
<1> QED
    BY <1>3, <1>4 DEF Max

-----------------------------------------------------------------------------
(* Markers *)

(* A marker whose half-word is below the free bit is allocated. *)
LEMMA AllocatedMarker ==
    ASSUME NEW h \in 0..(Half - 1), NEW o \in -HB..HB
    PROVE  LET m == [half |-> h, off |-> o]
           IN  m \in Words16 /\ Size(m) = h /\ ~IsFree(m)
<1>1. Half \in Nat \ {0} /\ HB \in Nat
    BY SizeAssumption, RegionAssumption
<1>2. h % Half = h
    BY <1>1
<1> QED
    BY <1>1, <1>2 DEF Words16, Size, IsFree

(* With the free bit it is free, and of the same size. *)
LEMMA FreeMarker ==
    ASSUME NEW h \in 0..(Half - 1), NEW o \in -HB..HB
    PROVE  LET m == [half |-> Half + h, off |-> o]
           IN  m \in Words16 /\ Size(m) = h /\ IsFree(m)
<1>1. Half \in Nat \ {0} /\ HB \in Nat
    BY SizeAssumption, RegionAssumption
<1>2. (Half + h) % Half = h
    BY <1>1
<1> QED
    BY <1>1, <1>2 DEF Words16, Size, IsFree

(* What a marker's fields can be. *)
LEMMA MarkerFields ==
    ASSUME NEW m \in Words16
    PROVE  Size(m) \in 0..(Half - 1) /\ m.off \in -HB..HB
<1>1. Half \in Nat \ {0} /\ HB \in Nat /\ m.half \in Nat
    BY SizeAssumption, RegionAssumption DEF Words16
<1>2. m.half % Half \in 0..(Half - 1)
    BY <1>1
<1> QED
    BY <1>1, <1>2 DEF Words16, Size

(* An empty word is no marker. *)
LEMMA EmptyWord == Empty \in Words16 /\ Size(Empty) = 0 /\ Empty.off = 0
<1>1. Half \in Nat \ {0} /\ HB \in Nat
    BY SizeAssumption, RegionAssumption
<1>2. 0 \in 0..(Half - 1) /\ 0 \in -HB..HB
    BY <1>1
<1> QED
    BY <1>2, AllocatedMarker DEF Empty

-----------------------------------------------------------------------------
(* The list *)

(* The cell the marker in cell c of region cl points to, and where the      *)
(* block it stands for ends.                                                *)
Nx(cl, c) == c - cl[c].off
End(cl, ad, c) == ad[c] + Size(cl[c])

(* The cells M of the region hold a list of markers: it starts at           *)
(* fsll_start, ends at e and leaves out none of them.  Each marker stands   *)
(* for a block, which starts at ad[c], where the block before it ends.      *)
Markings(cl, M, ad) ==
    /\ cl \in [-1..HB -> Words16]
    /\ M \in SUBSET (0..HB)
    /\ ad \in [M -> Nat]
    /\ \A c \in M : Size(cl[c]) > 0
    /\ \A c \in 0..(HB - 2) : c \notin M => cl[c] = Empty

Chain(cl, M, e, ad) ==
    /\ M = {} => e = 0
    /\ M # {} => 0 \in M /\ e \in M /\ ad[0] = 0 /\ cl[e].off = 0
    /\ \A c \in M \ {e} : Nx(cl, c) \in M /\ ad[Nx(cl, c)] = End(cl, ad, c)
    /\ \A c \in M \ {0} : \E p \in M \ {e} : Nx(cl, p) = c

(* The blocks are disjoint, and the last is behind all others. *)
Apart(cl, M, e, ad) ==
    /\ \A c, d \in M : c # d => End(cl, ad, c) <= ad[d] \/ End(cl, ad, d) <= ad[c]
    /\ \A c \in M : End(cl, ad, c) <= End(cl, ad, e)

List(cl, M, e, ad) == Markings(cl, M, ad) /\ Chain(cl, M, e, ad) /\ Apart(cl, M, e, ad)

(* No free marker at the end. *)
Joined(cl, M, e) == M # {} => ~IsFree(cl[e])

(* The callers hold the allocated blocks. *)
Block(cl, ad, c) == [addr |-> ad[c], size |-> Size(cl[c])]
Owned(cl, M, ad, own) ==
    \A b : b \in own <=> \E c \in M : ~IsFree(cl[c]) /\ b = Block(cl, ad, c)

(* What is in the cells of a list. *)
LEMMA ListTypes ==
    ASSUME NEW cl, NEW M, NEW e, NEW ad, List(cl, M, e, ad)
    PROVE  /\ HB \in Nat /\ Half \in Nat
           /\ \A c \in M : /\ c \in 0..HB /\ c \in -1..HB /\ c \in Int /\ ad[c] \in Nat
                           /\ cl[c] \in Words16 /\ cl[c].off \in Int
                           /\ Size(cl[c]) \in Int /\ 0 < Size(cl[c]) /\ Size(cl[c]) < Half
                           /\ cl[c] # Empty
<1>1. HB \in Nat /\ Half \in Nat
    BY SizeAssumption, RegionAssumption
<1>2. ASSUME NEW c \in M
      PROVE  /\ c \in 0..HB /\ c \in -1..HB /\ c \in Int /\ ad[c] \in Nat
             /\ cl[c] \in Words16 /\ cl[c].off \in Int
             /\ Size(cl[c]) \in Int /\ 0 < Size(cl[c]) /\ Size(cl[c]) < Half
             /\ cl[c] # Empty
  <2>1. c \in 0..HB /\ ad[c] \in Nat /\ Size(cl[c]) > 0
      BY DEF List, Markings
  <2>2. c \in -1..HB /\ c \in Int
      BY <1>1, <2>1
  <2>3. cl[c] \in Words16
      BY <2>2 DEF List, Markings
  <2>4. Size(cl[c]) \in 0..(Half - 1) /\ cl[c].off \in -HB..HB
      BY <2>3, MarkerFields
  <2>5. cl[c].off \in Int /\ Size(cl[c]) \in Int /\ Size(cl[c]) < Half
      BY <1>1, <2>4
  <2>6. cl[c] # Empty
      BY <2>1, EmptyWord
  <2> QED
      BY <2>1, <2>2, <2>3, <2>5, <2>6
<1> QED
    BY <1>1, <1>2

(* A marker but the last points to another, one but the first is pointed to *)
(* by one only.                                                             *)
LEMMA ListLinks ==
    ASSUME NEW cl, NEW M, NEW e, NEW ad, List(cl, M, e, ad)
    PROVE  /\ \A c \in M \ {e} : Nx(cl, c) \in M \ {0, c} /\ cl[c].off # 0
           /\ \A c, d \in M \ {e} : Nx(cl, c) = Nx(cl, d) => c = d
<1>1. ASSUME NEW c \in M \ {e} PROVE Nx(cl, c) \in M \ {0, c} /\ cl[c].off # 0
  <2>1. Nx(cl, c) \in M /\ ad[Nx(cl, c)] = ad[c] + Size(cl[c]) /\ ad[0] = 0
      BY DEF List, Chain, End
  <2>2. ad[c] \in Nat /\ Size(cl[c]) \in Int /\ 0 < Size(cl[c]) /\ c \in Int
      BY ListTypes
  <2>3. Nx(cl, c) # 0 /\ Nx(cl, c) # c
      BY <2>1, <2>2
  <2> QED
      BY <2>1, <2>2, <2>3 DEF Nx
<1>2. ASSUME NEW c \in M \ {e}, NEW d \in M \ {e}, Nx(cl, c) = Nx(cl, d), c # d
      PROVE  FALSE
  <2>1. ad[c] + Size(cl[c]) = ad[d] + Size(cl[d])
      BY <1>2 DEF List, Chain, End
  <2>2. /\ ad[c] \in Nat /\ Size(cl[c]) \in Int /\ 0 < Size(cl[c])
        /\ ad[d] \in Nat /\ Size(cl[d]) \in Int /\ 0 < Size(cl[d])
      BY ListTypes
  <2>3. ad[c] + Size(cl[c]) <= ad[d] \/ ad[d] + Size(cl[d]) <= ad[c]
      BY <1>2 DEF List, Apart, End
  <2> QED
      BY <2>1, <2>2, <2>3
<1> QED
    BY <1>1, <1>2

(* A marker is written again with its size and its offset. *)
Remarked(cl, c, cl2) ==
    /\ cl2 \in [-1..HB -> Words16]
    /\ cl2[c].off = cl[c].off /\ Size(cl2[c]) = Size(cl[c])
    /\ \A d \in -1..HB : d # c => cl2[d] = cl[d]

(* The other markers of M are what they were. *)
Elsewhere(cl, M, c, cl2) ==
    \A d \in M \ {c} : Nx(cl2, d) = Nx(cl, d) /\ cl2[d] = cl[d]

(* The list stays one. *)
LEMMA RemarkKeeps ==
    ASSUME NEW cl, NEW M, NEW e, NEW ad, NEW c, NEW cl2,
           List(cl, M, e, ad), c \in M, Remarked(cl, c, cl2)
    PROVE  /\ List(cl2, M, e, ad)
           /\ Elsewhere(cl, M, c, cl2)
           /\ Nx(cl2, c) = Nx(cl, c)
<1>1. /\ c \in -1..HB /\ cl \in [-1..HB -> Words16]
      /\ \A d \in M : d \in -1..HB
    BY ListTypes DEF List, Markings
<1>2. /\ cl2 \in [-1..HB -> Words16]
      /\ cl2[c].off = cl[c].off /\ Size(cl2[c]) = Size(cl[c])
      /\ \A d \in -1..HB : d # c => cl2[d] = cl[d]
    BY DEF Remarked
<1>3. \A d \in M : cl2[d].off = cl[d].off /\ Size(cl2[d]) = Size(cl[d])
    BY <1>1, <1>2
<1>4. \A d \in M : Nx(cl2, d) = Nx(cl, d) /\ End(cl2, ad, d) = End(cl, ad, d)
    BY <1>3 DEF Nx, End
<1>5. Markings(cl2, M, ad)
  <2>1. \A d \in 0..(HB - 2) : d \notin M => cl2[d] = Empty
    <3>1. \A d \in 0..(HB - 2) : d \in -1..HB
        BY RegionAssumption
    <3> QED
        BY <1>2, <3>1 DEF List, Markings
  <2> QED
      BY <1>2, <1>3, <2>1 DEF List, Markings
<1>6. Chain(cl2, M, e, ad)
    BY <1>3, <1>4 DEF List, Chain
<1>7. Apart(cl2, M, e, ad)
  <2>1. M # {} /\ e \in M
      BY DEF List, Chain
  <2> QED
      BY <1>4, <2>1 DEF List, Apart
<1> QED
    BY <1>1, <1>2, <1>4, <1>5, <1>6, <1>7 DEF List, Elsewhere

(* A free marker is handed out whole. *)
LEMMA TakeKeeps ==
    ASSUME NEW cl, NEW M, NEW e, NEW ad, NEW own, NEW c, NEW cl2,
           List(cl, M, e, ad), Joined(cl, M, e), Owned(cl, M, ad, own), c \in M,
           Remarked(cl, c, cl2), IsFree(cl[c]), ~IsFree(cl2[c])
    PROVE  /\ List(cl2, M, e, ad)
           /\ Joined(cl2, M, e)
           /\ Owned(cl2, M, ad, own \cup {Block(cl, ad, c)})
<1>1. List(cl2, M, e, ad) /\ Elsewhere(cl, M, c, cl2) /\ Nx(cl2, c) = Nx(cl, c)
    BY RemarkKeeps
<1>2. \A d \in M \ {c} : Block(cl2, ad, d) = Block(cl, ad, d) /\ cl2[d] = cl[d]
    BY <1>1 DEF Elsewhere, Block
<1>3. Block(cl2, ad, c) = Block(cl, ad, c)
    BY DEF Block, Remarked
<1>4. \A d \in M : d = c \/ d \in M \ {c}
    OBVIOUS
<1>5. Joined(cl2, M, e)
  <2>1. \A d \in M : IsFree(cl2[d]) => IsFree(cl[d])
      BY <1>2, <1>4
  <2>2. M # {} => e \in M
      BY DEF List, Chain
  <2> QED
      BY <2>1, <2>2 DEF Joined
<1>6. ASSUME NEW b
      PROVE  (\E d \in M : ~IsFree(cl2[d]) /\ b = Block(cl2, ad, d))
               <=> b \in own \/ b = Block(cl, ad, c)
  <2>1. b \in own <=> \E d \in M : ~IsFree(cl[d]) /\ b = Block(cl, ad, d)
      BY DEF Owned
  <2> QED
      BY <1>2, <1>3, <1>4, <2>1
<1>7. Owned(cl2, M, ad, own \cup {Block(cl, ad, c)})
    BY <1>6 DEF Owned
<1> QED
    BY <1>1, <1>5, <1>7

(* A free marker is split: its first m words go to a caller, a free marker  *)
(* for the rest is put into cell s.                                         *)
Parted(cl, M, ad, c, s, m, cl2, M2, ad2) ==
    /\ c \in M /\ IsFree(cl[c]) /\ s \in (0..HB) \ M /\ m \in 1..(Size(cl[c]) - 1)
    /\ cl2 = [cl EXCEPT ![c] = [half |-> m, off |-> c - s],
                        ![s] = [half |-> Half + Size(cl[c]) - m, off |-> s - Nx(cl, c)]]
    /\ M2 = M \cup {s}
    /\ ad2 = [d \in M2 |-> IF d = s THEN ad[c] + m ELSE ad[d]]

(* The blocks are then the callers', the new one with them. *)
LEMMA SplitKeeps ==
    ASSUME NEW cl, NEW M, NEW e, NEW ad, NEW own, NEW c, NEW s, NEW m, NEW cl2, NEW M2, NEW ad2,
           List(cl, M, e, ad), Joined(cl, M, e), Owned(cl, M, ad, own),
           Parted(cl, M, ad, c, s, m, cl2, M2, ad2)
    PROVE  /\ List(cl2, M2, e, ad2)
           /\ Joined(cl2, M2, e)
           /\ Owned(cl2, M2, ad2, own \cup {[addr |-> ad[c], size |-> m]})
<1> /\ c \in M /\ IsFree(cl[c]) /\ s \in (0..HB) \ M /\ m \in 1..(Size(cl[c]) - 1)
    /\ cl2 = [cl EXCEPT ![c] = [half |-> m, off |-> c - s],
                        ![s] = [half |-> Half + Size(cl[c]) - m, off |-> s - Nx(cl, c)]]
    /\ M2 = M \cup {s}
    /\ ad2 = [d \in M2 |-> IF d = s THEN ad[c] + m ELSE ad[d]]
    BY DEF Parted
<1> DEFINE z == Size(cl[c])
           x == Nx(cl, c)
           p == [half |-> m, off |-> c - s]
           q == [half |-> Half + z - m, off |-> s - x]
<1>1. c # e /\ e \in M
    BY DEF List, Chain, Joined
<1>2. x \in M \ {0, c} /\ ad[x] = ad[c] + z
  <2>1. x \in M \ {0, c}
      BY <1>1, ListLinks
  <2> QED
      BY <1>1, <2>1 DEF List, Chain, End
<1>3. /\ HB \in Nat /\ Half \in Nat /\ z \in Int /\ 0 < z /\ z < Half /\ m \in Int /\ 0 < m /\ m < z
      /\ c \in Int /\ s \in Int /\ c \in 0..HB /\ x \in 0..HB /\ s \in -1..HB /\ c \in -1..HB
      /\ x \in Int /\ ad[c] \in Nat
  <2>1. HB \in Nat /\ Half \in Nat /\ z \in Int /\ 0 < z /\ z < Half /\ ad[c] \in Nat
        /\ c \in 0..HB /\ x \in 0..HB /\ c \in -1..HB
      BY <1>2, ListTypes
  <2> QED
      BY <2>1
<1>4. p \in Words16 /\ Size(p) = m /\ ~IsFree(p) /\ p.off = c - s
  <2>1. m \in 0..(Half - 1) /\ c - s \in -HB..HB
      BY <1>3
  <2> QED
      BY <2>1, AllocatedMarker
<1>5. q \in Words16 /\ Size(q) = z - m /\ IsFree(q) /\ q.off = s - x
  <2>1. z - m \in 0..(Half - 1) /\ s - x \in -HB..HB /\ Half + z - m = Half + (z - m)
      BY <1>3
  <2>2. q = [half |-> Half + (z - m), off |-> s - x]
      BY <2>1
  <2> QED
      BY <2>1, <2>2, FreeMarker
<1>6. cl2 = [cl EXCEPT ![c] = p, ![s] = q]
    OBVIOUS
<1> HIDE DEF p, q, z, x
<1>7. cl \in [-1..HB -> Words16] /\ \A d \in M : d \in -1..HB
    BY ListTypes DEF List, Markings
<1>8. /\ cl2 \in [-1..HB -> Words16]
      /\ cl2[c] = p /\ cl2[s] = q
      /\ \A d \in -1..HB : d # c /\ d # s => cl2[d] = cl[d]
    BY <1>3, <1>4, <1>5, <1>6, <1>7
<1>9. \A d \in M : d # s /\ (d # c => cl2[d] = cl[d])
    BY <1>7, <1>8
<1>10. ad2 \in [M2 -> Nat] /\ ad2[s] = ad[c] + m /\ \A d \in M : ad2[d] = ad[d]
  <2>1. ad \in [M -> Nat] /\ ad[c] + m \in Nat
      BY <1>3 DEF List, Markings
  <2> QED
      BY <1>9, <2>1
<1>11. Nx(cl2, c) = s /\ Nx(cl2, s) = x /\ \A d \in M \ {c} : Nx(cl2, d) = Nx(cl, d)
  <2>1. Nx(cl2, c) = c - (c - s) /\ Nx(cl2, s) = s - (s - x)
      BY <1>4, <1>5, <1>8 DEF Nx
  <2>2. \A d \in M \ {c} : Nx(cl2, d) = Nx(cl, d)
      BY <1>9 DEF Nx
  <2>3. c - (c - s) = s /\ s - (s - x) = x
      BY <1>3
  <2> QED
      BY <2>1, <2>2, <2>3
<1>12. /\ End(cl2, ad2, c) = ad[c] + m /\ End(cl2, ad2, s) = ad[c] + z
       /\ \A d \in M \ {c} : End(cl2, ad2, d) = End(cl, ad, d)
  <2>1. End(cl2, ad2, c) = ad[c] + m /\ End(cl2, ad2, s) = (ad[c] + m) + (z - m)
      BY <1>4, <1>5, <1>8, <1>10 DEF End
  <2>2. \A d \in M \ {c} : End(cl2, ad2, d) = End(cl, ad, d)
      BY <1>9, <1>10 DEF End
  <2>3. (ad[c] + m) + (z - m) = ad[c] + z
      BY <1>3
  <2> QED
      BY <2>1, <2>2, <2>3
<1>13. Markings(cl2, M2, ad2)
  <2>1. M2 \in SUBSET (0..HB)
      BY DEF List, Markings
  <2>2. \A d \in M2 : Size(cl2[d]) > 0
      BY <1>3, <1>4, <1>5, <1>8, <1>9 DEF List, Markings
  <2>3. \A d \in 0..(HB - 2) : d \in -1..HB
      BY <1>3
  <2>4. \A d \in 0..(HB - 2) : d \notin M2 => cl2[d] = Empty
      BY <1>8, <2>3 DEF List, Markings
  <2> QED
      BY <1>8, <1>10, <2>1, <2>2, <2>4 DEF Markings
<1>14. Chain(cl2, M2, e, ad2)
  <2>1. 0 \in M2 /\ e \in M2 /\ ad2[0] = 0 /\ cl2[e].off = 0
      BY <1>1, <1>9, <1>10 DEF List, Chain
  <2>2. ASSUME NEW d \in M2 \ {e}
        PROVE  Nx(cl2, d) \in M2 /\ ad2[Nx(cl2, d)] = End(cl2, ad2, d)
    <3>1. CASE d = c
        BY <1>10, <1>11, <1>12, <3>1
    <3>2. CASE d = s
        BY <1>2, <1>10, <1>11, <1>12, <3>2
    <3>3. CASE d \in M \ {c}
        BY <1>10, <1>11, <1>12, <3>3 DEF List, Chain
    <3> QED
        BY <3>1, <3>2, <3>3
  <2>3. ASSUME NEW d \in M2 \ {0}
        PROVE  \E r \in M2 \ {e} : Nx(cl2, r) = d
    <3>1. CASE d = s
        BY <1>1, <1>11, <3>1
    <3>2. CASE d \in M
      <4>1. PICK r \in M \ {e} : Nx(cl, r) = d
          BY <3>2 DEF List, Chain
      <4>2. CASE r = c
        <5>1. d = x
            BY <4>1, <4>2 DEF x
        <5>2. s # e
            BY <1>1, <1>9
        <5> QED
            BY <1>11, <5>1, <5>2
      <4>3. CASE r # c
          BY <1>11, <4>1, <4>3
      <4> QED
          BY <4>2, <4>3
    <3> QED
        BY <3>1, <3>2
  <2> QED
      BY <2>1, <2>2, <2>3 DEF Chain
<1>15. Apart(cl2, M2, e, ad2)
  <2>1. \A d \in M \ {c} : End(cl, ad, d) <= ad[c] \/ ad[c] + z <= ad[d]
      BY DEF List, Apart, End, z
  <2>2. ASSUME NEW d \in M \ {c}
        PROVE  /\ End(cl2, ad2, d) <= ad2[c] \/ End(cl2, ad2, c) <= ad2[d]
               /\ End(cl2, ad2, d) <= ad2[s] \/ End(cl2, ad2, s) <= ad2[d]
    <3>1. ad[d] \in Nat /\ Size(cl[d]) \in Int
        BY ListTypes
    <3>2. End(cl, ad, d) \in Int /\ ad[d] \in Int
        BY <3>1 DEF End
    <3>3. End(cl, ad, d) <= ad[c] \/ ad[c] + z <= ad[d]
        BY <2>1
    <3>4. /\ End(cl2, ad2, d) = End(cl, ad, d) /\ ad2[d] = ad[d] /\ ad2[c] = ad[c]
          /\ ad2[s] = ad[c] + m /\ End(cl2, ad2, c) = ad[c] + m /\ End(cl2, ad2, s) = ad[c] + z
        BY <1>10, <1>12
    <3> QED
        BY <1>3, <3>2, <3>3, <3>4
  <2>3. End(cl2, ad2, c) <= ad2[s]
    <3>1. End(cl2, ad2, c) = ad[c] + m /\ ad2[s] = ad[c] + m
        BY <1>10, <1>12
    <3>2. ad[c] + m \in Int
        BY <1>3
    <3> QED
        BY <3>1, <3>2
  <2>4. \A d, f \in M \ {c} : d # f => \/ End(cl2, ad2, d) <= ad2[f]
                                       \/ End(cl2, ad2, f) <= ad2[d]
      BY <1>10, <1>12 DEF List, Apart
  <2>5. End(cl2, ad2, e) = End(cl, ad, e) /\ End(cl, ad, e) \in Int
    <3>1. ad[e] \in Nat /\ Size(cl[e]) \in Int
        BY <1>1, ListTypes
    <3>2. End(cl, ad, e) \in Int
        BY <3>1 DEF End
    <3> QED
        BY <1>1, <1>12, <3>2
  <2>6. \A d \in M \ {c} : End(cl2, ad2, d) <= End(cl2, ad2, e)
      BY <1>12, <2>5 DEF List, Apart
  <2>7. End(cl2, ad2, c) <= End(cl2, ad2, e) /\ End(cl2, ad2, s) <= End(cl2, ad2, e)
    <3>1. ad[c] + z <= End(cl, ad, e)
        BY DEF List, Apart, End, z
    <3> QED
        BY <1>3, <1>12, <2>5, <3>1
  <2>8. \A d \in M2 : d \in M \ {c} \/ d = c \/ d = s
      OBVIOUS
  <2>9. ASSUME NEW d \in M2, NEW f \in M2, d # f
        PROVE  End(cl2, ad2, d) <= ad2[f] \/ End(cl2, ad2, f) <= ad2[d]
    <3>1. CASE d \in M \ {c} /\ f \in M \ {c}
        BY <2>4, <2>9, <3>1
    <3>2. CASE d \in M \ {c} /\ f \in {c, s}
        BY <2>2, <3>2
    <3>3. CASE d \in {c, s} /\ f \in M \ {c}
        BY <2>2, <3>3
    <3>4. CASE d \in {c, s} /\ f \in {c, s}
        BY <2>3, <2>9, <3>4
    <3> QED
        BY <2>8, <3>1, <3>2, <3>3, <3>4
  <2>10. \A d \in M2 : End(cl2, ad2, d) <= End(cl2, ad2, e)
      BY <2>6, <2>7, <2>8
  <2> QED
      BY <2>9, <2>10 DEF Apart
<1>16. Joined(cl2, M2, e)
    BY <1>1, <1>9 DEF Joined
<1>17. Owned(cl2, M2, ad2, own \cup {[addr |-> ad[c], size |-> m]})
  <2>1. \A d \in M \ {c} : Block(cl2, ad2, d) = Block(cl, ad, d) /\ cl2[d] = cl[d]
      BY <1>9, <1>10 DEF Block
  <2>2. Block(cl2, ad2, c) = [addr |-> ad[c], size |-> m]
      BY <1>4, <1>8, <1>10 DEF Block
  <2>3. \A d \in M2 : ~IsFree(cl2[d]) <=> d = c \/ (d \in M \ {c} /\ ~IsFree(cl[d]))
      BY <1>4, <1>5, <1>8, <2>1
  <2>4. ASSUME NEW b
        PROVE  (\E d \in M2 : ~IsFree(cl2[d]) /\ b = Block(cl2, ad2, d))
                 <=> b = [addr |-> ad[c], size |-> m] \/ b \in own
    <3>1. b \in own <=> \E d \in M : ~IsFree(cl[d]) /\ b = Block(cl, ad, d)
        BY DEF Owned
    <3> QED
        BY <2>1, <2>2, <2>3, <3>1
  <2> QED
      BY <2>4, ZenonT(60) DEF Owned
<1> QED
    BY <1>13, <1>14, <1>15, <1>16, <1>17 DEF List

(* The first marker. *)
LEMMA FirstKeeps ==
    ASSUME NEW cl, NEW e, NEW ad, NEW own,
           List(cl, {}, e, ad), Owned(cl, {}, ad, own), NEW m \in 1..(Half - 1),
           NEW w, w = [half |-> m, off |-> 0],
           NEW cl2, cl2 \in [-1..HB -> Words16], cl2[0] = w,
           \A d \in -1..HB : d # 0 => cl2[d] = cl[d],
           NEW ad2, ad2 = [d \in {0} |-> 0]
    PROVE  /\ List(cl2, {0}, 0, ad2)
           /\ Joined(cl2, {0}, 0)
           /\ Owned(cl2, {0}, ad2, own \cup {[addr |-> 0, size |-> m]})
<1>1. HB \in Nat /\ Half \in Nat /\ m \in Int /\ 0 < m
    BY RegionAssumption, SizeAssumption
<1>2. w \in Words16 /\ Size(w) = m /\ ~IsFree(w) /\ w.off = 0
  <2>1. m \in 0..(Half - 1) /\ 0 \in -HB..HB
      BY <1>1
  <2> QED
      BY <2>1, AllocatedMarker
<1>3. ad2[0] = 0 /\ ad2 \in [{0} -> Nat]
    OBVIOUS
<1>4. Markings(cl2, {0}, ad2)
  <2>1. \A d \in 0..(HB - 2) : d \in -1..HB
      BY <1>1
  <2>2. \A d \in 0..(HB - 2) : d \notin {0} => cl2[d] = Empty
      BY <2>1 DEF List, Markings
  <2>3. {0} \in SUBSET (0..HB)
      BY <1>1
  <2> QED
      BY <1>1, <1>2, <1>3, <2>2, <2>3 DEF Markings
<1>5. Chain(cl2, {0}, 0, ad2)
    BY <1>2, <1>3 DEF Chain
<1>6. Apart(cl2, {0}, 0, ad2)
  <2>1. End(cl2, ad2, 0) = 0 + m
      BY <1>2, <1>3 DEF End
  <2>2. End(cl2, ad2, 0) \in Int
      BY <1>1, <2>1
  <2> QED
      BY <2>2 DEF Apart
<1>7. Joined(cl2, {0}, 0)
    BY <1>2 DEF Joined
<1>8. Owned(cl2, {0}, ad2, own \cup {[addr |-> 0, size |-> m]})
  <2>1. own = {}
      BY DEF Owned
  <2>2. Block(cl2, ad2, 0) = [addr |-> 0, size |-> m]
      BY <1>2, <1>3 DEF Block
  <2> QED
      BY <1>2, <2>1, <2>2 DEF Owned
<1> QED
    BY <1>4, <1>5, <1>6, <1>7, <1>8 DEF List

(* A new marker behind the last. *)
Extended(cl, M, e, ad, c, m, cl2, M2, ad2) ==
    /\ c \in (0..HB) \ M /\ m \in 1..(Half - 1)
    /\ cl2 \in [-1..HB -> Words16]
    /\ cl2[c] = [half |-> m, off |-> 0]
    /\ cl2[e] = [half |-> cl[e].half, off |-> e - c]
    /\ \A d \in -1..HB : d # c /\ d # e => cl2[d] = cl[d]
    /\ M2 = M \cup {c}
    /\ ad2 = [d \in M2 |-> IF d = c THEN End(cl, ad, e) ELSE ad[d]]

(* The list is longer by one block, which is the callers'. *)
LEMMA AppendKeeps ==
    ASSUME NEW cl, NEW M, NEW e, NEW ad, NEW own, NEW c, NEW m, NEW cl2, NEW M2, NEW ad2,
           List(cl, M, e, ad), Joined(cl, M, e), Owned(cl, M, ad, own), M # {},
           Extended(cl, M, e, ad, c, m, cl2, M2, ad2)
    PROVE  /\ List(cl2, M2, c, ad2)
           /\ Joined(cl2, M2, c)
           /\ Owned(cl2, M2, ad2, own \cup {[addr |-> End(cl, ad, e), size |-> m]})
<1> DEFINE w == [half |-> m, off |-> 0]
           v == [half |-> cl[e].half, off |-> e - c]
<1> /\ c \in (0..HB) \ M /\ m \in 1..(Half - 1)
    /\ cl2 \in [-1..HB -> Words16] /\ cl2[c] = w /\ cl2[e] = v
    /\ \A d \in -1..HB : d # c /\ d # e => cl2[d] = cl[d]
    BY DEF Extended
<1> /\ M2 = M \cup {c}
    /\ ad2 = [d \in M2 |-> IF d = c THEN End(cl, ad, e) ELSE ad[d]]
    BY DEF Extended
<1>1. HB \in Nat /\ Half \in Nat /\ m \in Int /\ 0 < m /\ c \in Int
    BY RegionAssumption, SizeAssumption
<1>2. e \in M /\ e # c /\ e \in Int /\ ~IsFree(cl[e])
  <2>1. e \in M /\ ~IsFree(cl[e])
      BY DEF List, Chain, Joined
  <2> QED
      BY <2>1, ListTypes
<1>3. w \in Words16 /\ Size(w) = m /\ ~IsFree(w) /\ w.off = 0
  <2>1. m \in 0..(Half - 1) /\ 0 \in -HB..HB
      BY <1>1
  <2> QED
      BY <2>1, AllocatedMarker
<1>4. Size(v) = Size(cl[e]) /\ ~IsFree(v) /\ v.off = e - c
    BY <1>2 DEF Size, IsFree
<1> HIDE DEF w, v
<1>5. \A d \in M : d # c /\ (d # e => cl2[d] = cl[d])
    BY ListTypes
<1>6. /\ \A d \in M : Size(cl2[d]) = Size(cl[d]) /\ (IsFree(cl2[d]) <=> IsFree(cl[d]))
      /\ \A d \in M \ {e} : Nx(cl2, d) = Nx(cl, d)
  <2>1. \A d \in M \ {e} : Nx(cl2, d) = Nx(cl, d)
      BY <1>5 DEF Nx
  <2> QED
      BY <1>2, <1>4, <1>5, <2>1
<1>7. Nx(cl2, e) = c
  <2>1. Nx(cl2, e) = e - (e - c)
      BY <1>4 DEF Nx
  <2> QED
      BY <1>1, <1>2, <2>1
<1>8. /\ ad[e] \in Nat /\ Size(cl[e]) \in Int /\ 0 < Size(cl[e])
      /\ End(cl, ad, e) \in Nat
  <2>1. ad[e] \in Nat /\ Size(cl[e]) \in Int /\ 0 < Size(cl[e])
      BY <1>2, ListTypes
  <2> QED
      BY <2>1 DEF End
<1>9. ad2 \in [M2 -> Nat] /\ ad2[c] = End(cl, ad, e) /\ \A d \in M : ad2[d] = ad[d]
  <2>1. ad \in [M -> Nat]
      BY DEF List, Markings
  <2> QED
      BY <1>5, <1>8, <2>1
<1>10. \A d \in M : End(cl2, ad2, d) = End(cl, ad, d)
    BY <1>6, <1>9 DEF End
<1>11. Markings(cl2, M2, ad2)
  <2>1. \A d \in 0..(HB - 2) : d \in -1..HB
      BY <1>1
  <2>2. \A d \in 0..(HB - 2) : d \notin M2 => cl2[d] = Empty
      BY <1>2, <2>1 DEF List, Markings
  <2>3. M2 \in SUBSET (0..HB)
      BY DEF List, Markings
  <2>4. \A d \in M2 : Size(cl2[d]) > 0
      BY <1>1, <1>3, <1>6 DEF List, Markings
  <2> QED
      BY <1>9, <2>2, <2>3, <2>4 DEF Markings
<1>12. Chain(cl2, M2, c, ad2)
  <2>1. 0 \in M2 /\ c \in M2 /\ ad2[0] = 0 /\ cl2[c].off = 0
      BY <1>3, <1>9 DEF List, Chain
  <2>2. ASSUME NEW d \in M2 \ {c}
        PROVE  Nx(cl2, d) \in M2 /\ ad2[Nx(cl2, d)] = End(cl2, ad2, d)
    <3>1. CASE d = e
        BY <1>2, <1>7, <1>9, <1>10, <3>1
    <3>2. CASE d # e
        BY <1>6, <1>9, <1>10, <3>2 DEF List, Chain
    <3> QED
        BY <3>1, <3>2
  <2>3. ASSUME NEW d \in M2 \ {0}
        PROVE  \E p \in M2 \ {c} : Nx(cl2, p) = d
    <3>1. CASE d = c
        BY <1>2, <1>7, <3>1
    <3>2. CASE d # c
      <4>1. PICK p \in M \ {e} : Nx(cl, p) = d
          BY <3>2 DEF List, Chain
      <4> QED
          BY <1>5, <1>6, <4>1
    <3> QED
        BY <3>1, <3>2
  <2> QED
      BY <2>1, <2>2, <2>3 DEF Chain
<1>13. Apart(cl2, M2, c, ad2)
  <2>1. \A d \in M : End(cl2, ad2, d) <= ad2[c]
      BY <1>9, <1>10 DEF List, Apart
  <2>2. End(cl2, ad2, c) = End(cl, ad, e) + m
      BY <1>3, <1>9 DEF End
  <2>3. ASSUME NEW d \in M PROVE End(cl2, ad2, d) <= End(cl2, ad2, c)
    <3>1. ad[d] \in Nat /\ Size(cl[d]) \in Int
        BY ListTypes
    <3>2. End(cl, ad, d) \in Int
        BY <3>1 DEF End
    <3>3. End(cl, ad, d) <= End(cl, ad, e)
        BY <1>9, <1>10, <2>1
    <3>4. End(cl, ad, e) \in Int
        BY <1>8
    <3>5. End(cl2, ad2, d) = End(cl, ad, d)
        BY <1>10
    <3> QED
        BY <1>1, <2>2, <3>2, <3>3, <3>4, <3>5
  <2>4. End(cl2, ad2, c) <= End(cl2, ad2, c)
      BY <1>1, <1>8, <2>2
  <2>5. \A d, f \in M : d # f => End(cl2, ad2, d) <= ad2[f] \/ End(cl2, ad2, f) <= ad2[d]
      BY <1>9, <1>10 DEF List, Apart
  <2>6. \A d \in M2 : d \in M \/ d = c
      OBVIOUS
  <2>7. \A d, f \in M2 : d # f => End(cl2, ad2, d) <= ad2[f] \/ End(cl2, ad2, f) <= ad2[d]
      BY <2>1, <2>5, <2>6
  <2>8. \A d \in M2 : End(cl2, ad2, d) <= End(cl2, ad2, c)
      BY <2>3, <2>4, <2>6
  <2> QED
      BY <2>7, <2>8 DEF Apart
<1>14. Joined(cl2, M2, c)
    BY <1>3 DEF Joined
<1>15. Owned(cl2, M2, ad2, own \cup {[addr |-> End(cl, ad, e), size |-> m]})
  <2>1. \A d \in M : Block(cl2, ad2, d) = Block(cl, ad, d)
      BY <1>6, <1>9 DEF Block
  <2>2. Block(cl2, ad2, c) = [addr |-> End(cl, ad, e), size |-> m]
      BY <1>3, <1>9 DEF Block
  <2>3. ASSUME NEW b
        PROVE  (\E d \in M2 : ~IsFree(cl2[d]) /\ b = Block(cl2, ad2, d))
                 <=> b = [addr |-> End(cl, ad, e), size |-> m] \/ b \in own
    <3>1. b \in own <=> \E d \in M : ~IsFree(cl[d]) /\ b = Block(cl, ad, d)
        BY DEF Owned
    <3> QED
        BY <1>3, <1>6, <2>1, <2>2, <3>1
  <2> QED
      BY <2>3 DEF Owned
<1> QED
    BY <1>11, <1>12, <1>13, <1>14, <1>15 DEF List

(* Different markers stand for different blocks. *)
LEMMA BlocksDiffer ==
    ASSUME NEW cl, NEW M, NEW e, NEW ad, List(cl, M, e, ad), NEW c \in M, NEW d \in M, c # d
    PROVE  ad[c] # ad[d] /\ Block(cl, ad, c) # Block(cl, ad, d)
<1>1. /\ ad[c] \in Nat /\ Size(cl[c]) \in Int /\ 0 < Size(cl[c])
      /\ ad[d] \in Nat /\ Size(cl[d]) \in Int /\ 0 < Size(cl[d])
    BY ListTypes
<1>2. ad[c] + Size(cl[c]) <= ad[d] \/ ad[d] + Size(cl[d]) <= ad[c]
    BY DEF List, Apart, End
<1>3. ad[c] # ad[d]
    BY <1>1, <1>2
<1> QED
    BY <1>3 DEF Block

(* A list whose last marker is the first has no other. *)
LEMMA OnlyMarker ==
    ASSUME NEW cl, NEW M, NEW ad, List(cl, M, 0, ad), M # {}
    PROVE  M = {0}
<1>1. 0 \in M /\ ad[0] = 0
    BY DEF List, Chain
<1>2. ASSUME NEW d \in M, d # 0 PROVE FALSE
  <2>1. /\ ad[d] \in Nat /\ Size(cl[d]) \in Int /\ 0 < Size(cl[d])
        /\ Size(cl[0]) \in Int /\ 0 < Size(cl[0])
      BY <1>1, ListTypes
  <2>2. /\ ad[d] + Size(cl[d]) <= ad[0] \/ ad[0] + Size(cl[0]) <= ad[d]
        /\ ad[d] + Size(cl[d]) <= ad[0] + Size(cl[0])
      BY <1>1, <1>2 DEF List, Apart, End
  <2> QED
      BY <1>1, <2>1, <2>2
<1> QED
    BY <1>1, <1>2

(* The last marker is deleted; the one before it becomes the last. *)
Shortened(cl, M, e, p, cl2) ==
    /\ p \in M \ {e} /\ Nx(cl, p) = e /\ ~IsFree(cl[p])
    /\ cl2 \in [-1..HB -> Words16]
    /\ cl2[e] = Empty
    /\ cl2[p] = [half |-> cl[p].half, off |-> 0]
    /\ \A d \in -1..HB : d # p /\ d # e => cl2[d] = cl[d]

(* The list is shorter by one block, which nobody holds any more. *)
LEMMA CutKeeps ==
    ASSUME NEW cl, NEW M, NEW e, NEW ad, NEW own, NEW p, NEW cl2,
           List(cl, M, e, ad), Joined(cl, M, e), Owned(cl, M, ad, own),
           Shortened(cl, M, e, p, cl2),
           NEW M2, M2 = M \ {e},
           NEW ad2, ad2 = [d \in M2 |-> ad[d]]
    PROVE  /\ List(cl2, M2, p, ad2)
           /\ Joined(cl2, M2, p)
           /\ Owned(cl2, M2, ad2, own \ {Block(cl, ad, e)})
<1> DEFINE w == [half |-> cl[p].half, off |-> 0]
<1> /\ p \in M \ {e} /\ Nx(cl, p) = e /\ ~IsFree(cl[p])
    /\ cl2 \in [-1..HB -> Words16] /\ cl2[e] = Empty /\ cl2[p] = w
    /\ \A d \in -1..HB : d # p /\ d # e => cl2[d] = cl[d]
    BY DEF Shortened
<1>1. HB \in Nat /\ e \in M /\ e # 0
  <2>1. e \in M \ {0, p}
      BY ListLinks
  <2> QED
      BY <2>1, RegionAssumption
<1>2. Size(w) = Size(cl[p]) /\ ~IsFree(w) /\ w.off = 0
    BY DEF Size, IsFree
<1> HIDE DEF w
<1>3. \A d \in M2 : d \in -1..HB /\ (d # p => cl2[d] = cl[d])
    BY ListTypes
<1>4. /\ \A d \in M2 : Size(cl2[d]) = Size(cl[d]) /\ (IsFree(cl2[d]) <=> IsFree(cl[d]))
      /\ \A d \in M2 \ {p} : Nx(cl2, d) = Nx(cl, d)
  <2>1. \A d \in M2 \ {p} : Nx(cl2, d) = Nx(cl, d)
      BY <1>3 DEF Nx
  <2> QED
      BY <1>2, <1>3, <2>1
<1>5. ad2 \in [M2 -> Nat] /\ \A d \in M2 : ad2[d] = ad[d]
    BY DEF List, Markings
<1>6. \A d \in M2 : End(cl2, ad2, d) = End(cl, ad, d)
    BY <1>4, <1>5 DEF End
<1>7. Markings(cl2, M2, ad2)
  <2>1. \A d \in 0..(HB - 2) : d \in -1..HB
      BY <1>1
  <2>2. \A d \in 0..(HB - 2) : d \notin M2 => cl2[d] = Empty
      BY <2>1 DEF List, Markings
  <2>3. M2 \in SUBSET (0..HB) /\ \A d \in M2 : Size(cl2[d]) > 0
      BY <1>4 DEF List, Markings
  <2> QED
      BY <1>5, <2>2, <2>3 DEF Markings
<1>8. Chain(cl2, M2, p, ad2)
  <2>1. 0 \in M2 /\ p \in M2 /\ ad2[0] = 0 /\ cl2[p].off = 0
      BY <1>1, <1>2, <1>5 DEF List, Chain
  <2>2. ASSUME NEW d \in M2 \ {p}
        PROVE  Nx(cl2, d) \in M2 /\ ad2[Nx(cl2, d)] = End(cl2, ad2, d)
    <3>1. Nx(cl, d) # e
        BY ListLinks
    <3>2. Nx(cl, d) \in M /\ ad[Nx(cl, d)] = End(cl, ad, d)
        BY DEF List, Chain
    <3> QED
        BY <1>4, <1>5, <1>6, <3>1, <3>2
  <2>3. ASSUME NEW d \in M2 \ {0}
        PROVE  \E q \in M2 \ {p} : Nx(cl2, q) = d
    <3>1. PICK q \in M \ {e} : Nx(cl, q) = d
        BY DEF List, Chain
    <3>2. q # p
        BY <3>1
    <3> QED
        BY <1>4, <3>1, <3>2
  <2> QED
      BY <2>1, <2>2, <2>3 DEF Chain
<1>9. Apart(cl2, M2, p, ad2)
  <2>1. \A d, f \in M2 : d # f => End(cl2, ad2, d) <= ad2[f] \/ End(cl2, ad2, f) <= ad2[d]
      BY <1>5, <1>6, ZenonT(60) DEF List, Apart
  <2>2. ASSUME NEW d \in M2 PROVE End(cl2, ad2, d) <= End(cl2, ad2, p)
    <3>1. /\ ad[d] \in Nat /\ Size(cl[d]) \in Int /\ 0 < Size(cl[d])
          /\ ad[e] \in Nat /\ Size(cl[e]) \in Int /\ 0 < Size(cl[e])
        BY <1>1, ListTypes
    <3>2. ad[e] = End(cl, ad, p)
        BY DEF List, Chain
    <3>3. /\ ad[d] + Size(cl[d]) <= ad[e] \/ ad[e] + Size(cl[e]) <= ad[d]
          /\ ad[d] + Size(cl[d]) <= ad[e] + Size(cl[e])
        BY <1>1 DEF List, Apart, End
    <3>4. ad[d] + Size(cl[d]) <= ad[e]
        BY <3>1, <3>3
    <3>5. End(cl2, ad2, p) = ad[e] /\ End(cl2, ad2, d) = ad[d] + Size(cl[d])
        BY <1>6, <3>2 DEF End
    <3> QED
        BY <3>4, <3>5
  <2> QED
      BY <2>1, <2>2 DEF Apart
<1>10. Joined(cl2, M2, p)
    BY <1>2 DEF Joined
<1>11. Owned(cl2, M2, ad2, own \ {Block(cl, ad, e)})
  <2>1. \A d \in M2 : Block(cl2, ad2, d) = Block(cl, ad, d) /\ Block(cl, ad, d) # Block(cl, ad, e)
      BY <1>1, <1>4, <1>5, BlocksDiffer DEF Block
  <2>2. ASSUME NEW b
        PROVE  (\E d \in M2 : ~IsFree(cl2[d]) /\ b = Block(cl2, ad2, d))
                 <=> b \in own /\ b # Block(cl, ad, e)
    <3>1. b \in own <=> \E d \in M : ~IsFree(cl[d]) /\ b = Block(cl, ad, d)
        BY DEF Owned
    <3> QED
        BY <1>4, <2>1, <3>1
  <2> QED
      BY <2>2, ZenonT(60) DEF Owned
<1> QED
    BY <1>7, <1>8, <1>9, <1>10, <1>11 DEF List

(* The only marker is deleted. *)
LEMMA LastKeeps ==
    ASSUME NEW cl, NEW ad, NEW own,
           List(cl, {0}, 0, ad), Joined(cl, {0}, 0), Owned(cl, {0}, ad, own),
           NEW cl2, cl2 = [cl EXCEPT ![0] = Empty],
           NEW ad2, ad2 = [d \in {} |-> 0]
    PROVE  /\ List(cl2, {}, 0, ad2)
           /\ Joined(cl2, {}, 0)
           /\ Owned(cl2, {}, ad2, own \ {Block(cl, ad, 0)})
<1>1. HB \in Nat
    BY RegionAssumption
<1>2. cl \in [-1..HB -> Words16] /\ 0 \in -1..HB /\ Empty \in Words16
    BY <1>1, EmptyWord DEF List, Markings
<1>3. /\ cl2 \in [-1..HB -> Words16] /\ cl2[0] = Empty
      /\ \A d \in -1..HB : d # 0 => cl2[d] = cl[d]
    BY <1>2
<1>4. Markings(cl2, {}, ad2)
  <2>1. \A d \in 0..(HB - 2) : d \in -1..HB
      BY <1>1
  <2>2. \A d \in 0..(HB - 2) : cl2[d] = Empty
      BY <1>3, <2>1 DEF List, Markings
  <2> QED
      BY <1>3, <2>2 DEF Markings
<1>5. Chain(cl2, {}, 0, ad2) /\ Apart(cl2, {}, 0, ad2) /\ Joined(cl2, {}, 0)
    BY DEF Chain, Apart, Joined
<1>6. Owned(cl2, {}, ad2, own \ {Block(cl, ad, 0)})
    BY DEF Owned
<1> QED
    BY <1>4, <1>5, <1>6 DEF List

(* A free marker p takes up the free marker c it points to. *)
Merged(cl, M, e, ad, p, c, cl2, M2, ad2) ==
    /\ p \in M \ {e} /\ c \in M \ {e} /\ c = Nx(cl, p)
    /\ IsFree(cl[p]) /\ IsFree(cl[c])
    /\ cl2 \in [-1..HB -> Words16]
    /\ IsFree(cl2[p]) /\ Size(cl2[p]) = Size(cl[p]) + Size(cl[c])
    /\ cl2[p].off = p - Nx(cl, c)
    /\ cl2[c] = Empty
    /\ \A d \in -1..HB : d # p /\ d # c => cl2[d] = cl[d]
    /\ M2 = M \ {c}
    /\ ad2 = [d \in M2 |-> ad[d]]

(* The callers' blocks are the same. *)
LEMMA JoinKeeps ==
    ASSUME NEW cl, NEW M, NEW e, NEW ad, NEW own, NEW p, NEW c, NEW cl2, NEW M2, NEW ad2,
           List(cl, M, e, ad), Owned(cl, M, ad, own), Merged(cl, M, e, ad, p, c, cl2, M2, ad2)
    PROVE  /\ List(cl2, M2, e, ad2)
           /\ Owned(cl2, M2, ad2, own)
           /\ Elsewhere(cl, M2, p, cl2)
           /\ Nx(cl2, p) = Nx(cl, c)
<1> DEFINE w == cl2[p]
<1> /\ p \in M \ {e} /\ c \in M \ {e} /\ c = Nx(cl, p)
    /\ IsFree(cl[p]) /\ IsFree(cl[c])
    /\ cl2 \in [-1..HB -> Words16]
    /\ IsFree(w) /\ Size(w) = Size(cl[p]) + Size(cl[c])
    /\ w.off = p - Nx(cl, c)
    /\ cl2[p] = w /\ cl2[c] = Empty
    /\ \A d \in -1..HB : d # p /\ d # c => cl2[d] = cl[d]
    /\ M2 = M \ {c}
    /\ ad2 = [d \in M2 |-> ad[d]]
    BY DEF Merged
<1> HIDE DEF w
<1>1. HB \in Nat /\ e \in M /\ c # 0 /\ c # p
  <2>1. c \in M \ {0, p} /\ e \in M
      BY ListLinks DEF List, Chain
  <2> QED
      BY <2>1, RegionAssumption
<1> DEFINE x == Nx(cl, c)
<1>2. x \in M \ {0, c} /\ x # p
  <2>1. x \in M \ {0, c} /\ ad[x] = End(cl, ad, c) /\ ad[c] = End(cl, ad, p)
      BY ListLinks DEF List, Chain
  <2>2. /\ ad[c] \in Nat /\ Size(cl[c]) \in Int /\ 0 < Size(cl[c])
        /\ ad[p] \in Nat /\ Size(cl[p]) \in Int /\ 0 < Size(cl[p])
      BY ListTypes
  <2>3. ad[x] = ad[c] + Size(cl[c]) /\ ad[c] = ad[p] + Size(cl[p])
      BY <2>1 DEF End
  <2>4. ad[x] # ad[p]
      BY <2>2, <2>3
  <2> QED
      BY <2>1, <2>4
<1>3. /\ p \in Int /\ x \in Int
      /\ ad[c] \in Nat /\ Size(cl[c]) \in Int /\ 0 < Size(cl[c])
      /\ ad[p] \in Nat /\ Size(cl[p]) \in Int /\ 0 < Size(cl[p])
      /\ ad[c] = ad[p] + Size(cl[p]) /\ ad[x] = ad[c] + Size(cl[c])
  <2>1. ad[x] = End(cl, ad, c) /\ ad[c] = End(cl, ad, p)
      BY ListLinks DEF List, Chain
  <2>2. ad[x] = ad[c] + Size(cl[c]) /\ ad[c] = ad[p] + Size(cl[p])
      BY <2>1 DEF End
  <2> QED
      BY <1>2, <2>2, ListTypes
<1>4. Nx(cl2, p) = x
  <2>1. Nx(cl2, p) = p - (p - x)
      BY DEF Nx
  <2> HIDE DEF x
  <2> QED
      BY <1>3, <2>1
<1> HIDE DEF x
<1>5. \A d \in M2 : d # c /\ d \in M /\ (d # p => cl2[d] = cl[d])
    BY ListTypes
<1>6. \A d \in M2 \ {p} : Nx(cl2, d) = Nx(cl, d) /\ cl2[d] = cl[d]
    BY <1>5 DEF Nx
<1>7. ad2 \in [M2 -> Nat] /\ \A d \in M2 : ad2[d] = ad[d]
    BY DEF List, Markings
<1>8. /\ End(cl2, ad2, p) = End(cl, ad, c)
      /\ \A d \in M2 \ {p} : End(cl2, ad2, d) = End(cl, ad, d)
  <2>1. /\ End(cl2, ad2, p) = ad[p] + (Size(cl[p]) + Size(cl[c]))
        /\ End(cl, ad, c) = ad[c] + Size(cl[c])
      BY <1>1, <1>7 DEF End
  <2>2. \A d \in M2 \ {p} : End(cl2, ad2, d) = End(cl, ad, d)
      BY <1>6, <1>7 DEF End
  <2>3. End(cl2, ad2, p) = End(cl, ad, c)
      BY <1>3, <2>1
  <2> QED
      BY <2>2, <2>3
<1>9. Markings(cl2, M2, ad2)
  <2>1. \A d \in 0..(HB - 2) : d \in -1..HB
      BY <1>1
  <2>2. \A d \in 0..(HB - 2) : d \notin M2 => cl2[d] = Empty
      BY <2>1 DEF List, Markings
  <2>3. Size(w) > 0
      BY <1>3
  <2>4. M2 \in SUBSET (0..HB) /\ \A d \in M2 : Size(cl2[d]) > 0
      BY <1>6, <2>3 DEF List, Markings
  <2> QED
      BY <1>7, <2>2, <2>4 DEF Markings
<1>10. Chain(cl2, M2, e, ad2)
  <2>1. 0 \in M2 /\ e \in M2 /\ ad2[0] = 0 /\ cl2[e].off = 0
      BY <1>1, <1>6, <1>7 DEF List, Chain
  <2>2. ASSUME NEW d \in M2 \ {e}
        PROVE  Nx(cl2, d) \in M2 /\ ad2[Nx(cl2, d)] = End(cl2, ad2, d)
    <3>1. CASE d = p
      <4>1. x \in M2 /\ ad[x] = End(cl, ad, c)
          BY <1>2, <1>3 DEF End
      <4> QED
          BY <1>4, <1>7, <1>8, <3>1, <4>1
    <3>2. CASE d # p
      <4>1. Nx(cl, d) # c
          BY <3>2, ListLinks
      <4>2. Nx(cl, d) \in M /\ ad[Nx(cl, d)] = End(cl, ad, d)
          BY DEF List, Chain
      <4> QED
          BY <1>6, <1>7, <1>8, <3>2, <4>1, <4>2
    <3> QED
        BY <3>1, <3>2
  <2>3. ASSUME NEW d \in M2 \ {0}
        PROVE  \E q \in M2 \ {e} : Nx(cl2, q) = d
    <3>1. PICK q \in M \ {e} : Nx(cl, q) = d
        BY DEF List, Chain
    <3>2. q # p
        BY <3>1
    <3>3. CASE q = c
      <4>1. d = x
          BY <3>1, <3>3 DEF x
      <4> QED
          BY <1>1, <1>4, <4>1
    <3>4. CASE q # c
        BY <1>6, <3>1, <3>2, <3>4
    <3> QED
        BY <3>3, <3>4
  <2> QED
      BY <2>1, <2>2, <2>3 DEF Chain
<1>11. Apart(cl2, M2, e, ad2)
  <2>1. \A d, f \in M2 \ {p} : d # f => \/ End(cl2, ad2, d) <= ad2[f]
                                        \/ End(cl2, ad2, f) <= ad2[d]
      BY <1>7, <1>8, ZenonT(60) DEF List, Apart
  <2>2. ASSUME NEW d \in M2 \ {p}
        PROVE  End(cl2, ad2, d) <= ad2[p] \/ End(cl2, ad2, p) <= ad2[d]
    <3>1. ad[d] \in Nat /\ Size(cl[d]) \in Int /\ 0 < Size(cl[d])
        BY ListTypes
    <3>2. /\ ad[d] + Size(cl[d]) <= ad[p] \/ ad[p] + Size(cl[p]) <= ad[d]
          /\ ad[d] + Size(cl[d]) <= ad[c] \/ ad[c] + Size(cl[c]) <= ad[d]
        BY <1>5 DEF List, Apart, End
    <3>3. /\ End(cl2, ad2, d) = ad[d] + Size(cl[d]) /\ ad2[p] = ad[p] /\ ad2[d] = ad[d]
          /\ End(cl2, ad2, p) = ad[c] + Size(cl[c])
        BY <1>1, <1>7, <1>8 DEF End
    <3> QED
        BY <1>3, <3>1, <3>2, <3>3, SMTT(30)
  <2>3. \A d \in M2 : End(cl2, ad2, d) <= End(cl2, ad2, e)
    <3>1. End(cl2, ad2, e) = End(cl, ad, e)
        BY <1>1, <1>8
    <3> QED
        BY <1>5, <1>8, <3>1 DEF List, Apart
  <2>4. \A d \in M2 : d = p \/ d \in M2 \ {p}
      OBVIOUS
  <2>5. \A d, f \in M2 : d # f => End(cl2, ad2, d) <= ad2[f] \/ End(cl2, ad2, f) <= ad2[d]
      BY <2>1, <2>2, <2>4, ZenonT(60)
  <2> QED
      BY <2>3, <2>5 DEF Apart
<1>12. Owned(cl2, M2, ad2, own)
  <2>1. \A d \in M2 \ {p} : Block(cl2, ad2, d) = Block(cl, ad, d)
      BY <1>6, <1>7 DEF Block
  <2>2. ASSUME NEW b
        PROVE  (\E d \in M2 : ~IsFree(cl2[d]) /\ b = Block(cl2, ad2, d)) <=> b \in own
    <3>1. b \in own <=> \E d \in M : ~IsFree(cl[d]) /\ b = Block(cl, ad, d)
        BY DEF Owned
    <3> QED
        BY <1>5, <1>6, <2>1, <3>1
  <2> QED
      BY <2>2 DEF Owned
<1> QED
    BY <1>4, <1>6, <1>9, <1>10, <1>11, <1>12 DEF List, Elsewhere, x

(* A marker is written again as a free one: its block is no longer held. *)
LEMMA FreeKeeps ==
    ASSUME NEW cl, NEW M, NEW e, NEW ad, NEW own, NEW c, NEW cl2,
           List(cl, M, e, ad), Owned(cl, M, ad, own), c \in M, ~IsFree(cl[c]),
           Remarked(cl, c, cl2), IsFree(cl2[c])
    PROVE  /\ List(cl2, M, e, ad)
           /\ Owned(cl2, M, ad, own \ {Block(cl, ad, c)})
           /\ Elsewhere(cl, M, c, cl2)
           /\ Nx(cl2, c) = Nx(cl, c)
<1>1. List(cl2, M, e, ad) /\ Elsewhere(cl, M, c, cl2) /\ Nx(cl2, c) = Nx(cl, c)
    BY RemarkKeeps
<1>2. \A d \in M \ {c} : Block(cl2, ad, d) = Block(cl, ad, d) /\ cl2[d] = cl[d]
    BY <1>1 DEF Elsewhere, Block
<1>3. \A d \in M \ {c} : Block(cl, ad, d) # Block(cl, ad, c)
    BY BlocksDiffer
<1>4. ASSUME NEW b
      PROVE  (\E d \in M : ~IsFree(cl2[d]) /\ b = Block(cl2, ad, d))
               <=> b \in own /\ b # Block(cl, ad, c)
  <2>1. b \in own <=> \E d \in M : ~IsFree(cl[d]) /\ b = Block(cl, ad, d)
      BY DEF Owned
  <2>2. \A d \in M : d = c \/ d \in M \ {c}
      OBVIOUS
  <2> QED
      BY <1>2, <1>3, <2>1, <2>2
<1>5. Owned(cl2, M, ad, own \ {Block(cl, ad, c)})
    BY <1>4 DEF Owned
<1> QED
    BY <1>1, <1>5

(* A marker before the last is freed. *)
LEMMA FreeAlone ==
    ASSUME NEW cl, NEW M, NEW e, NEW ad, NEW own, NEW c, NEW cl2,
           List(cl, M, e, ad), Joined(cl, M, e), Owned(cl, M, ad, own),
           c \in M \ {e}, ~IsFree(cl[c]),
           Remarked(cl, c, cl2), IsFree(cl2[c])
    PROVE  /\ List(cl2, M, e, ad)
           /\ Owned(cl2, M, ad, own \ {Block(cl, ad, c)})
           /\ Joined(cl2, M, e)
           /\ Elsewhere(cl, M, c, cl2)
           /\ Nx(cl2, c) = Nx(cl, c)
<1>1. /\ List(cl2, M, e, ad)
      /\ Owned(cl2, M, ad, own \ {Block(cl, ad, c)})
      /\ Elsewhere(cl, M, c, cl2)
      /\ Nx(cl2, c) = Nx(cl, c)
    BY FreeKeeps
<1>2. Joined(cl2, M, e)
    BY <1>1 DEF List, Chain, Joined, Elsewhere
<1> QED
    BY <1>1, <1>2

(* A marker is freed and takes up the free one after it; u is what it would *)
(* be alone.                                                                *)
Clubbed(cl, M, e, ad, c, x, u, cl2, M2, ad2) ==
    /\ c \in M \ {e} /\ ~IsFree(cl[c]) /\ x = Nx(cl, c) /\ IsFree(cl[x])
    /\ u \in Words16 /\ IsFree(u) /\ Size(u) = Size(cl[c]) /\ u.off = cl[c].off
    /\ cl2 \in [-1..HB -> Words16] /\ IsFree(cl2[c])
    /\ Size(cl2[c]) = Size(cl[c]) + Size(cl[x])
    /\ cl2[c].off = c - Nx(cl, x)
    /\ cl2[x] = Empty
    /\ \A d \in -1..HB : d # c /\ d # x => cl2[d] = cl[d]
    /\ M2 = M \ {x}
    /\ ad2 = [d \in M2 |-> ad[d]]

(* Its block is no longer held. *)
LEMMA FreeClubbed ==
    ASSUME NEW cl, NEW M, NEW e, NEW ad, NEW own, NEW c, NEW x, NEW u, NEW cl2, NEW M2, NEW ad2,
           List(cl, M, e, ad), Joined(cl, M, e), Owned(cl, M, ad, own),
           Clubbed(cl, M, e, ad, c, x, u, cl2, M2, ad2)
    PROVE  /\ List(cl2, M2, e, ad2)
           /\ Owned(cl2, M2, ad2, own \ {Block(cl, ad, c)})
           /\ Joined(cl2, M2, e)
           /\ Elsewhere(cl, M2, c, cl2)
<1> /\ c \in M \ {e} /\ ~IsFree(cl[c]) /\ x = Nx(cl, c) /\ IsFree(cl[x])
    /\ u \in Words16 /\ IsFree(u) /\ Size(u) = Size(cl[c]) /\ u.off = cl[c].off
    /\ cl2 \in [-1..HB -> Words16] /\ IsFree(cl2[c])
    /\ Size(cl2[c]) = Size(cl[c]) + Size(cl[x])
    /\ cl2[c].off = c - Nx(cl, x)
    /\ cl2[x] = Empty
    /\ \A d \in -1..HB : d # c /\ d # x => cl2[d] = cl[d]
    /\ M2 = M \ {x}
    /\ ad2 = [d \in M2 |-> ad[d]]
    BY DEF Clubbed
<1>1. x \in M \ {0, c} /\ x # e /\ e \in M /\ c \in M /\ ~IsFree(cl[e])
    BY ListLinks DEF List, Chain, Joined
<1>2. cl \in [-1..HB -> Words16] /\ c \in -1..HB /\ x \in -1..HB
    BY <1>1, ListTypes DEF List, Markings
<1>3. PICK cl1 : cl1 = [cl EXCEPT ![c] = u]
    OBVIOUS
<1>4. cl1[c] = u /\ Remarked(cl, c, cl1) /\ \A d \in -1..HB : d # c => cl1[d] = cl[d]
    BY <1>2, <1>3 DEF Remarked
<1>5. /\ List(cl1, M, e, ad)
      /\ Owned(cl1, M, ad, own \ {Block(cl, ad, c)})
      /\ Elsewhere(cl, M, c, cl1)
      /\ Nx(cl1, c) = Nx(cl, c)
  <2>1. List(cl, M, e, ad) /\ Owned(cl, M, ad, own) /\ c \in M /\ ~IsFree(cl[c])
      BY <1>1
  <2>2. Remarked(cl, c, cl1) /\ IsFree(cl1[c])
      BY <1>4
  <2> QED
      BY ONLY <2>1, <2>2, FreeKeeps
<1>6. Merged(cl1, M, e, ad, c, x, cl2, M2, ad2)
  <2>1. cl1[x] = cl[x] /\ Nx(cl1, x) = Nx(cl, x)
      BY <1>1, <1>5 DEF Elsewhere
  <2>2. \A d \in -1..HB : d # c /\ d # x => cl2[d] = cl1[d]
      BY <1>4
  <2> QED
      BY <1>1, <1>4, <1>5, <2>1, <2>2 DEF Merged
<1>7. /\ List(cl2, M2, e, ad2)
      /\ Owned(cl2, M2, ad2, own \ {Block(cl, ad, c)})
      /\ Elsewhere(cl1, M2, c, cl2)
      /\ Nx(cl2, c) = Nx(cl1, x)
    BY <1>5, <1>6, JoinKeeps
<1>8. Elsewhere(cl, M2, c, cl2) /\ Nx(cl2, c) = Nx(cl, x)
    BY <1>1, <1>5, <1>7 DEF Elsewhere
<1>9. Joined(cl2, M2, e)
    BY <1>1, <1>8 DEF Joined, Elsewhere
<1> QED
    BY <1>1, <1>7, <1>8, <1>9

(* The marker before takes it up. *)
LEMMA FreeJoined ==
    ASSUME NEW cl, NEW M, NEW e, NEW ad, NEW own, NEW c, NEW p, NEW cl2, NEW M2, NEW ad2,
           List(cl, M, e, ad), Joined(cl, M, e), Owned(cl, M, ad, own),
           Merged(cl, M, e, ad, p, c, cl2, M2, ad2)
    PROVE  /\ List(cl2, M2, e, ad2)
           /\ Joined(cl2, M2, e)
           /\ Owned(cl2, M2, ad2, own)
<1>1. /\ List(cl2, M2, e, ad2)
      /\ Owned(cl2, M2, ad2, own)
      /\ Elsewhere(cl, M2, p, cl2)
      /\ Nx(cl2, p) = Nx(cl, c)
    BY JoinKeeps
<1>2. /\ p \in M \ {e} /\ c \in M \ {e} /\ c = Nx(cl, p) /\ IsFree(cl[p]) /\ IsFree(cl[c])
      /\ M2 = M \ {c}
    BY DEF Merged
<1>3. e \in M2 \ {p} /\ e \in M /\ ~IsFree(cl[e])
  <2>1. c \in M \ {0, p} /\ e \in M
      BY <1>2, ListLinks DEF List, Chain
  <2> QED
      BY <1>2, <2>1 DEF Joined
<1>4. Joined(cl2, M2, e)
    BY <1>1, <1>3 DEF Joined, Elsewhere
<1> QED
    BY <1>1, <1>4

-----------------------------------------------------------------------------
(* The walk *)

(* The recursions that define Visit and Tracked have a solution of any      *)
(* length.                                                                  *)
Visits(v, m) == v = [i \in 1..m |-> IF i = 1 THEN 0 ELSE Succ(v[i - 1])]
Tracks(r, m) ==
    r = [i \in 1..m |-> IF i = 1 THEN 0 ELSE r[i - 1] + Size(cell[Visit[i - 1]])]

(* There is a walk of every length. *)
LEMMA VisitsExist ==
    ASSUME NEW N \in Nat
    PROVE  \E v : Visits(v, N)
<1> USE DEF Visits
<1> DEFINE X == {m \in Nat : ~ \E v : Visits(v, m)}
<1> SUFFICES ASSUME X # {} PROVE FALSE
    OBVIOUS
<1>1. PICK m \in X : \A k \in X : m <= k
    BY LeastNat
<1>2. m # 0
  <2>1. Visits([i \in 1..0 |-> 0], 0)
      OBVIOUS
  <2> QED
      BY <2>1
<1>3. m \in Nat /\ m - 1 \in Nat /\ m - 1 \notin X
  <2>1. m \in Nat
      OBVIOUS
  <2> HIDE DEF X
  <2> QED
      BY <1>1, <1>2, <2>1
<1>4. PICK g : g = [i \in 1..(m - 1) |-> IF i = 1 THEN 0 ELSE Succ(g[i - 1])]
    BY <1>3
<1> DEFINE f == [i \in 1..m |-> IF i = 1 THEN 0 ELSE Succ(g[i - 1])]
<1>5. \A i \in 1..(m - 1) : f[i] = g[i]
  <2>1. \A i \in 1..(m - 1) : i \in 1..m
      BY <1>3
  <2>2. \A i \in 1..m : f[i] = IF i = 1 THEN 0 ELSE Succ(g[i - 1])
      OBVIOUS
  <2>3. \A i \in 1..(m - 1) : g[i] = IF i = 1 THEN 0 ELSE Succ(g[i - 1])
      BY <1>4
  <2> HIDE DEF f
  <2> QED
      BY <2>1, <2>2, <2>3
<1>6. \A i \in 1..m : i # 1 => i - 1 \in 1..(m - 1)
    BY <1>3
<1>7. f = [i \in 1..m |-> IF i = 1 THEN 0 ELSE Succ(f[i - 1])]
    BY <1>5, <1>6
<1>8. Visits(f, m)
    BY <1>7
<1> QED
    BY <1>8

(* And a tracking pointer along it. *)
LEMMA TracksExist ==
    ASSUME NEW N \in Nat
    PROVE  \E r : Tracks(r, N)
<1> USE DEF Tracks
<1> DEFINE X == {m \in Nat : ~ \E r : Tracks(r, m)}
<1> SUFFICES ASSUME X # {} PROVE FALSE
    BY SMTT(30)
<1>1. PICK m \in X : \A k \in X : m <= k
    BY LeastNat
<1>2. m # 0
  <2>1. Tracks([i \in 1..0 |-> 0], 0)
      OBVIOUS
  <2> QED
      BY <2>1
<1>3. m \in Nat /\ m - 1 \in Nat /\ m - 1 \notin X
  <2>1. m \in Nat
      OBVIOUS
  <2> HIDE DEF X
  <2> QED
      BY <1>1, <1>2, <2>1
<1>4. PICK g : g = [i \in 1..(m - 1) |->
                      IF i = 1 THEN 0 ELSE g[i - 1] + Size(cell[Visit[i - 1]])]
    BY <1>3
<1> DEFINE f == [i \in 1..m |-> IF i = 1 THEN 0 ELSE g[i - 1] + Size(cell[Visit[i - 1]])]
<1>5. \A i \in 1..(m - 1) : f[i] = g[i]
  <2>1. \A i \in 1..(m - 1) : i \in 1..m
      BY <1>3
  <2>2. \A i \in 1..m : f[i] = IF i = 1 THEN 0 ELSE g[i - 1] + Size(cell[Visit[i - 1]])
      OBVIOUS
  <2>3. \A i \in 1..(m - 1) :
            g[i] = IF i = 1 THEN 0 ELSE g[i - 1] + Size(cell[Visit[i - 1]])
      BY <1>4
  <2> HIDE DEF f
  <2> QED
      BY <2>1, <2>2, <2>3
<1>6. \A i \in 1..m : i # 1 => i - 1 \in 1..(m - 1)
    BY <1>3
<1>7. f = [i \in 1..m |-> IF i = 1 THEN 0 ELSE f[i - 1] + Size(cell[Visit[i - 1]])]
    BY <1>5, <1>6
<1>8. Tracks(f, m)
    BY <1>7
<1> QED
    BY <1>8

(* The walk starts at fsll_start and follows the offsets, the tracking      *)
(* pointer the sizes.                                                       *)
LEMMA WalkSteps ==
    /\ MaxWalk \in Nat /\ MaxWalk = HB + 2
    /\ Visit[1] = 0 /\ Tracked[1] = 0
    /\ \A i \in 2..MaxWalk : /\ Visit[i] = Nx(cell, Visit[i - 1])
                             /\ Tracked[i] = Tracked[i - 1] + Size(cell[Visit[i - 1]])
<1>1. MaxWalk \in Nat /\ MaxWalk = HB + 2 /\ HB \in Nat
    BY RegionAssumption DEF MaxWalk
<1>2. Visits(Visit, MaxWalk)
  <2>1. \E v : Visits(v, MaxWalk)
      BY <1>1, VisitsExist
  <2>2. Visit = CHOOSE v : Visits(v, MaxWalk)
      BY DEF Visit, Visits
  <2> QED
      BY <2>1, <2>2
<1>3. Tracks(Tracked, MaxWalk)
  <2>1. \E r : Tracks(r, MaxWalk)
      BY <1>1, TracksExist
  <2>2. Tracked = CHOOSE r : Tracks(r, MaxWalk)
      BY DEF Tracked, Tracks
  <2> QED
      BY <2>1, <2>2
<1>4. \A i \in 1..MaxWalk : Visit[i] = IF i = 1 THEN 0 ELSE Succ(Visit[i - 1])
    BY <1>2 DEF Visits
<1>5. \A i \in 1..MaxWalk :
          Tracked[i] = IF i = 1 THEN 0 ELSE Tracked[i - 1] + Size(cell[Visit[i - 1]])
    BY <1>3 DEF Tracks
<1>6. 1 \in 1..MaxWalk /\ \A i \in 2..MaxWalk : i \in 1..MaxWalk /\ i # 1
    BY <1>1
<1>7. \A i \in 2..MaxWalk : Visit[i] = Nx(cell, Visit[i - 1])
    BY <1>4, <1>6 DEF Succ, Nx
<1>8. \A i \in 2..MaxWalk : Tracked[i] = Tracked[i - 1] + Size(cell[Visit[i - 1]])
    BY <1>5, <1>6
<1> QED
    BY <1>1, <1>4, <1>5, <1>6, <1>7, <1>8

(* The first k places of the walk meet each marker of M once, the last of   *)
(* them at e, and the tracking pointer is there at the marker's block.      *)
Meets(M, e, ad, k) ==
    /\ k \in 1..(HB + 1)
    /\ \A i \in 1..k : Visit[i] \in M /\ Tracked[i] = ad[Visit[i]]
    /\ \A i, j \in 1..k : Visit[i] = Visit[j] => i = j
    /\ \A c \in M : \E i \in 1..k : Visit[i] = c
    /\ Visit[k] = e

(* As long as the walk has not met e it meets markers, ... *)
LEMMA WalkInside ==
    ASSUME NEW M, NEW e, NEW ad, List(cell, M, e, ad), M # {},
           NEW n \in 1..MaxWalk, \A i \in 1..(n - 1) : Visit[i] # e
    PROVE  \A i \in 1..n : Visit[i] \in M /\ Tracked[i] = ad[Visit[i]]
<1> DEFINE Good(i) == Visit[i] \in M /\ Tracked[i] = ad[Visit[i]]
           X == {i \in 1..n : ~Good(i)}
<1> SUFFICES ASSUME X # {} PROVE FALSE
    OBVIOUS
<1>0. n \in Nat /\ MaxWalk \in Nat
    BY WalkSteps
<1>1. X \in SUBSET Nat
    OBVIOUS
<1>2. PICK m \in X : \A k \in X : m <= k
    BY <1>1, LeastNat
<1>3. m \in 1..n /\ ~Good(m)
    OBVIOUS
<1>4. m # 1
  <2>1. Visit[1] = 0 /\ Tracked[1] = 0
      BY WalkSteps
  <2>2. 0 \in M /\ ad[0] = 0
      BY DEF List, Chain
  <2>3. Good(1)
      BY <2>1, <2>2
  <2> QED
      BY <1>3, <2>3
<1>5. m \in 2..MaxWalk /\ m - 1 \in 1..(n - 1) /\ m - 1 \in 1..n
    BY <1>0, <1>3, <1>4
<1>6. Good(m - 1)
  <2>1. m - 1 \notin X
    <3> HIDE DEF X
    <3> QED
        BY <1>2, <1>5
  <2> HIDE DEF Good
  <2> QED
      BY <1>5, <2>1
<1>7. Visit[m - 1] \in M \ {e} /\ Tracked[m - 1] = ad[Visit[m - 1]]
    BY <1>5, <1>6
<1>8. Visit[m] = Nx(cell, Visit[m - 1]) /\ Tracked[m] = Tracked[m - 1] + Size(cell[Visit[m - 1]])
    BY <1>5, WalkSteps
<1>9. /\ Nx(cell, Visit[m - 1]) \in M
      /\ ad[Nx(cell, Visit[m - 1])] = ad[Visit[m - 1]] + Size(cell[Visit[m - 1]])
    BY <1>7 DEF List, Chain, End
<1>10. Good(m)
    BY <1>7, <1>8, <1>9
<1> QED
    BY <1>3, <1>10

(* ... each behind the ones before it.                                      *)
LEMMA WalkClimbs ==
    ASSUME NEW M, NEW e, NEW ad, List(cell, M, e, ad), M # {},
           NEW n \in 1..MaxWalk, \A i \in 1..(n - 1) : Visit[i] # e
    PROVE  \A j \in 1..n : \A i \in 1..(j - 1) : ad[Visit[i]] < ad[Visit[j]]
<1> DEFINE Good(j) == \A i \in 1..(j - 1) : ad[Visit[i]] < ad[Visit[j]]
           X == {j \in 1..n : ~Good(j)}
<1> SUFFICES ASSUME X # {} PROVE FALSE
    OBVIOUS
<1>0. n \in Nat /\ MaxWalk \in Nat
    BY WalkSteps
<1>1. X \in SUBSET Nat
    OBVIOUS
<1>2. PICK m \in X : \A k \in X : m <= k
    BY <1>1, LeastNat
<1>3. m \in 1..n /\ ~Good(m)
    OBVIOUS
<1>4. m # 1
    BY <1>3
<1>5. m \in 2..MaxWalk /\ m - 1 \in 1..(n - 1) /\ m - 1 \in 1..n
    BY <1>0, <1>3, <1>4
<1>6. Good(m - 1)
  <2>1. m - 1 \notin X
    <3> HIDE DEF X
    <3> QED
        BY <1>2, <1>5
  <2> HIDE DEF Good
  <2> QED
      BY <1>5, <2>1
<1>7. \A i \in 1..n : Visit[i] \in M
    BY WalkInside
<1>8. Visit[m - 1] \in M \ {e} /\ Visit[m] = Nx(cell, Visit[m - 1])
    BY <1>5, <1>7, WalkSteps
<1>9. ad[Visit[m]] = ad[Visit[m - 1]] + Size(cell[Visit[m - 1]])
    BY <1>8 DEF List, Chain, End
<1>10. /\ Size(cell[Visit[m - 1]]) \in Int /\ 0 < Size(cell[Visit[m - 1]])
       /\ \A i \in 1..n : ad[Visit[i]] \in Nat
    BY <1>7, <1>8, ListTypes
<1>11. ASSUME NEW i \in 1..(m - 1) PROVE ad[Visit[i]] < ad[Visit[m]]
  <2>1. i \in 1..n /\ (i = m - 1 \/ i \in 1..((m - 1) - 1))
      BY <1>0, <1>3
  <2>2. ad[Visit[i]] \in Nat /\ ad[Visit[m - 1]] \in Nat
      BY <1>5, <1>10, <2>1
  <2>3. i = m - 1 \/ ad[Visit[i]] < ad[Visit[m - 1]]
      BY <1>6, <2>1
  <2>4. CASE i = m - 1
      BY <1>9, <1>10, <2>2, <2>4
  <2>5. CASE ad[Visit[i]] < ad[Visit[m - 1]]
      BY <1>9, <1>10, <2>2, <2>5
  <2> QED
      BY <2>3, <2>4, <2>5
<1> QED
    BY <1>3, <1>11

(* The markers of a list are at most as many as there are words. *)
LEMMA MarkersFinite ==
    ASSUME NEW cl, NEW M, NEW e, NEW ad, List(cl, M, e, ad)
    PROVE  IsFiniteSet(M) /\ Cardinality(M) \in Nat /\ Cardinality(M) <= HB + 1
<1>1. HB \in Nat
    BY RegionAssumption
<1>2. M \in SUBSET Nat /\ \A c \in M : c <= HB
    BY <1>1 DEF List, Markings
<1>3. IsFiniteSet(M) /\ Cardinality(M) <= HB + 1
    BY <1>1, <1>2, FS_BoundedSetOfNaturals
<1> QED
    BY <1>3, FS_CardinalityType

(* The walk meets the whole list. *)
LEMMA WalkMeets ==
    ASSUME NEW M, NEW e, NEW ad, List(cell, M, e, ad), M # {}
    PROVE  Meets(M, e, ad, Cardinality(M))
<1>0. HB \in Nat /\ MaxWalk \in Nat /\ MaxWalk = HB + 2
    BY WalkSteps, RegionAssumption
<1>1. IsFiniteSet(M) /\ Cardinality(M) \in Nat /\ Cardinality(M) <= HB + 1
    BY MarkersFinite
<1> DEFINE X == {i \in 1..MaxWalk : Visit[i] = e}
<1>2. X # {}
  <2> SUFFICES ASSUME X = {} PROVE FALSE
      OBVIOUS
  <2>1. MaxWalk \in 1..MaxWalk /\ \A i \in 1..(MaxWalk - 1) : i \in 1..MaxWalk
      BY <1>0
  <2>2. \A i \in 1..(MaxWalk - 1) : Visit[i] # e
      BY <2>1
  <2>3. /\ \A i \in 1..MaxWalk : Visit[i] \in M
        /\ \A j \in 1..MaxWalk : \A i \in 1..(j - 1) : ad[Visit[i]] < ad[Visit[j]]
      BY <2>1, <2>2, WalkInside, WalkClimbs
  <2>4. \A i \in 1..MaxWalk : ad[Visit[i]] \in Nat
      BY <2>3, ListTypes
  <2> DEFINE f == [i \in 1..MaxWalk |-> Visit[i]]
  <2>5. ASSUME NEW i \in 1..MaxWalk, NEW j \in 1..MaxWalk, i # j PROVE Visit[i] # Visit[j]
    <3>1. i \in 1..(j - 1) \/ j \in 1..(i - 1)
        BY <1>0, <2>5
    <3> QED
        BY <2>3, <2>4, <3>1
  <2>6. f \in Injection(1..MaxWalk, M)
      BY <2>3, <2>5 DEF Injection, IsInjective
  <2>7. Cardinality(1..MaxWalk) = MaxWalk
      BY <1>0, FS_Interval
  <2>8. Cardinality(1..MaxWalk) <= Cardinality(M)
      BY <1>1, <2>6, FS_Injection
  <2> QED
      BY <1>0, <1>1, <2>7, <2>8
<1>3. PICK k \in X : \A i \in X : k <= i
  <2>1. X \in SUBSET Nat
      OBVIOUS
  <2> HIDE DEF X
  <2> QED
      BY <1>2, <2>1, LeastNat
<1>4. k \in 1..MaxWalk /\ Visit[k] = e /\ k \in Nat
    OBVIOUS
<1>5. \A i \in 1..(k - 1) : Visit[i] # e
  <2>1. \A i \in 1..(k - 1) : i \in 1..MaxWalk /\ ~(k <= i)
      BY <1>0, <1>4
  <2> QED
      BY <1>3, <2>1
<1> HIDE DEF X
<1>6. /\ \A i \in 1..k : Visit[i] \in M /\ Tracked[i] = ad[Visit[i]]
      /\ \A j \in 1..k : \A i \in 1..(j - 1) : ad[Visit[i]] < ad[Visit[j]]
    BY <1>4, <1>5, WalkInside, WalkClimbs
<1>7. \A i \in 1..k : ad[Visit[i]] \in Nat
    BY <1>6, ListTypes
<1>8. ASSUME NEW i \in 1..k, NEW j \in 1..k, i # j PROVE Visit[i] # Visit[j]
  <2>1. i \in 1..(j - 1) \/ j \in 1..(i - 1)
      BY <1>4, <1>8
  <2> QED
      BY <1>6, <1>7, <2>1
<1>9. \A c \in M : \E i \in 1..k : Visit[i] = c
  <2> DEFINE L == {c \in M : ~ \E i \in 1..k : Visit[i] = c}
             A2 == {ad[c] : c \in L}
  <2> SUFFICES ASSUME L # {} PROVE FALSE
      OBVIOUS
  <2>1. A2 \in SUBSET Nat /\ A2 # {}
      BY ListTypes
  <2>2. PICK a \in A2 : \A b \in A2 : a <= b
      BY <2>1, LeastNat
  <2>3. PICK c \in L : a = ad[c]
      OBVIOUS
  <2>4. c \in M /\ c # 0
    <3>1. Visit[1] = 0 /\ 1 \in 1..k
        BY <1>4, WalkSteps
    <3> QED
        BY <3>1
  <2>5. PICK q \in M \ {e} : Nx(cell, q) = c
      BY <2>4 DEF List, Chain
  <2>6. ad[q] < ad[c]
    <3>1. ad[c] = ad[q] + Size(cell[q])
        BY <2>5 DEF List, Chain, End
    <3>2. ad[q] \in Nat /\ Size(cell[q]) \in Int /\ 0 < Size(cell[q])
        BY ListTypes
    <3> QED
        BY <3>1, <3>2
  <2>7. q \notin L
    <3>1. ad[q] \in Nat /\ ad[c] \in Nat
        BY <2>4, ListTypes
    <3>2. q \in L => ad[c] <= ad[q]
        BY <2>2, <2>3
    <3> QED
        BY <2>6, <3>1, <3>2
  <2>8. PICK i \in 1..k : Visit[i] = q
      BY <2>7
  <2>9. i # k
      BY <1>4, <2>8
  <2>10. i + 1 \in 1..k /\ i + 1 \in 2..MaxWalk /\ (i + 1) - 1 = i
      BY <1>0, <1>4, <2>9
  <2>11. Visit[i + 1] = c
      BY <2>5, <2>8, <2>10, WalkSteps
  <2> QED
      BY <2>10, <2>11
<1>10. Cardinality(M) = k
  <2> DEFINE f == [i \in 1..k |-> Visit[i]]
  <2>1. f \in Injection(1..k, M)
      BY <1>6, <1>8 DEF Injection, IsInjective
  <2>2. f \in Surjection(1..k, M)
      BY <1>6, <1>9 DEF Surjection
  <2>3. Cardinality(1..k) = k
      BY <1>4, FS_Interval
  <2> QED
      BY <1>1, <2>1, <2>2, <2>3, FS_Injection
<1> QED
    BY <1>0, <1>1, <1>4, <1>6, <1>8, <1>9, <1>10 DEF Meets

(* The place after a marker's is the place of the marker it points to. *)
LEMMA NextPlace ==
    ASSUME NEW M, NEW e, NEW ad, NEW k, Meets(M, e, ad, k), NEW i \in 1..k, Visit[i] # e
    PROVE  i + 1 \in 1..k /\ Visit[i + 1] = Nx(cell, Visit[i])
<1>1. k \in Nat /\ k <= HB + 1 /\ HB \in Nat /\ MaxWalk = HB + 2
    BY WalkSteps, RegionAssumption DEF Meets
<1>2. i # k
    BY DEF Meets
<1>3. i + 1 \in 1..k /\ i + 1 \in 2..MaxWalk /\ (i + 1) - 1 = i
    BY <1>1, <1>2
<1> QED
    BY <1>3, WalkSteps

(* The place before. *)
LEMMA PlaceBefore ==
    ASSUME NEW M, NEW e, NEW ad, NEW k, Meets(M, e, ad, k), NEW i \in 2..k
    PROVE  i - 1 \in 1..k /\ Visit[i - 1] # e /\ Visit[i] = Nx(cell, Visit[i - 1])
<1>1. k \in Nat
    BY DEF Meets
<1>2. i - 1 \in 1..k /\ i - 1 # k /\ k \in 1..k /\ (i - 1) + 1 = i
    BY <1>1
<1>3. Visit[i - 1] # e
    BY <1>2 DEF Meets
<1> QED
    BY <1>2, <1>3, NextPlace

(* The search of the release finds the place of the block it is given. *)
LEMMA PlaceOfBlock ==
    ASSUME NEW M, NEW e, NEW ad, List(cell, M, e, ad), Meets(M, e, ad, blist_size), NEW c \in M
    PROVE  /\ \E i \in 1..blist_size : Tracked[i] = ad[c]
           /\ Visit[Min({i \in 1..blist_size : Tracked[i] = ad[c]})] = c
<1> DEFINE X == {i \in 1..blist_size : Tracked[i] = ad[c]}
<1>1. PICK i \in 1..blist_size : Visit[i] = c
    BY DEF Meets
<1>2. i \in X
    BY <1>1 DEF Meets
<1>3. X \in SUBSET Nat /\ X # {}
    BY <1>2
<1>4. Min(X) \in X
    BY <1>3, MinIsLeast
<1> DEFINE j == Min(X)
<1>5. j \in 1..blist_size /\ Tracked[j] = ad[c]
    BY <1>4
<1> HIDE DEF j, X
<1>6. Visit[j] \in M /\ ad[Visit[j]] = ad[c]
    BY <1>5 DEF Meets
<1>7. Visit[j] = c
    BY <1>6, BlocksDiffer
<1> QED
    BY <1>2, <1>7 DEF j, X

(* So does the search for the place of a marker, up to MaxWalk markers away. *)
LEMMA PlaceOfMarker ==
    ASSUME NEW M, NEW e, NEW ad, NEW k, Meets(M, e, ad, k), NEW c \in M
    PROVE  LET j == Min({i \in 1..MaxWalk : Visit[i] = c}) IN j \in 1..k /\ Visit[j] = c
<1> DEFINE X == {i \in 1..MaxWalk : Visit[i] = c}
           j == Min(X)
<1>1. k \in Nat /\ k <= HB + 1 /\ HB \in Nat /\ MaxWalk = HB + 2
    BY WalkSteps, RegionAssumption DEF Meets
<1>2. PICK i \in 1..k : Visit[i] = c
    BY DEF Meets
<1>3. i \in X
    BY <1>1, <1>2
<1>4. X \in SUBSET Nat /\ X # {}
    BY <1>1, <1>3
<1>5. j \in X /\ j <= i
    BY <1>3, <1>4, MinIsLeast
<1>6. j \in 1..MaxWalk /\ Visit[j] = c
    BY <1>5
<1> HIDE DEF j
<1>7. j \in 1..k
    BY <1>1, <1>5, <1>6
<1> QED
    BY <1>6, <1>7 DEF j

(* Pred finds the marker before. *)
LEMMA PredIs ==
    ASSUME NEW M, NEW e, NEW ad, List(cell, M, e, ad), Meets(M, e, ad, blist_size),
           NEW c \in M \ {0}
    PROVE  Pred(c) \in M \ {e} /\ Nx(cell, Pred(c)) = c
<1> DEFINE j == Min({i \in 1..MaxWalk : Visit[i] = c})
<1>1. j \in 1..blist_size /\ Visit[j] = c
    BY PlaceOfMarker
<1>2. Pred(c) = Visit[j - 1]
    BY DEF Pred
<1> HIDE DEF j
<1>3. j \in 2..blist_size
  <2>1. Visit[1] = 0
      BY WalkSteps
  <2>2. j # 1 /\ blist_size \in Nat
      BY <1>1, <2>1 DEF Meets
  <2> QED
      BY <1>1, <2>2
<1>4. j - 1 \in 1..blist_size /\ Visit[j - 1] # e /\ Visit[j] = Nx(cell, Visit[j - 1])
    BY <1>3, PlaceBefore
<1>5. Visit[j - 1] \in M
    BY <1>4 DEF Meets
<1> QED
    BY <1>1, <1>2, <1>4, <1>5

(* A new last marker gets the address behind the old one. *)
LEMMA AddressIs ==
    ASSUME NEW M, NEW ad, List(cell, M, fsll_end, ad), Meets(M, fsll_end, ad, blist_size),
           M # {}, NEW c, c \notin M
    PROVE  AddressOf(c) = End(cell, ad, fsll_end)
<1> DEFINE j == Min({i \in 1..MaxWalk : Visit[i] = fsll_end})
<1>1. fsll_end \in M
    BY DEF List, Chain
<1>2. j \in 1..blist_size /\ Visit[j] = fsll_end
    BY <1>1, PlaceOfMarker
<1>3. AddressOf(c) = Tracked[j] + Size(cell[fsll_end])
    BY <1>1 DEF AddressOf
<1> HIDE DEF j
<1>4. Tracked[j] = ad[fsll_end]
    BY <1>2 DEF Meets
<1> QED
    BY <1>3, <1>4 DEF End

-----------------------------------------------------------------------------
(* The invariant *)

(* The region holds a list that fsll_end and blist_size describe and whose  *)
(* allocated blocks are the ones the callers hold.                          *)
Sound(M, ad) ==
    /\ List(cell, M, fsll_end, ad)
    /\ Joined(cell, M, fsll_end)
    /\ Owned(cell, M, ad, owned)
    /\ blist_size = Cardinality(M)

Kept == \E M, ad : Sound(M, ad)

(* Before heap_init nothing is held or asked for. *)
Untouched ==
    owned = {} /\ blist_size = 0 /\ fsll_end = 0 /\ asked = [t \in Tasks |-> NoRequest]

IndInv ==
    /\ TypeOK
    /\ ready => Kept
    /\ ~ready => Untouched

(* What the invariant says of the walk. *)
LEMMA SoundWalk ==
    ASSUME NEW M, NEW ad, Sound(M, ad)
    PROVE  /\ IsFiniteSet(M) /\ blist_size \in 0..(HB + 1)
           /\ M = {} <=> blist_size = 0
           /\ M # {} => Meets(M, fsll_end, ad, blist_size)
<1>1. List(cell, M, fsll_end, ad) /\ blist_size = Cardinality(M)
    BY DEF Sound
<1>2. IsFiniteSet(M) /\ Cardinality(M) \in Nat /\ Cardinality(M) <= HB + 1
    BY <1>1, MarkersFinite
<1>3. M = {} <=> Cardinality(M) = 0
    BY <1>2, FS_EmptySet
<1>4. M # {} => Meets(M, fsll_end, ad, Cardinality(M))
    BY <1>1, WalkMeets
<1>5. Cardinality(M) \in 0..(HB + 1)
    BY <1>2, RegionAssumption
<1> QED
    BY <1>1, <1>2, <1>3, <1>4, <1>5

(* The fields of a kept list have their types. *)
LEMMA KeptTypes ==
    Kept => cell \in [-1..HB -> Words16] /\ fsll_end \in 0..HB /\ blist_size \in 0..MaxWalk
<1> SUFFICES ASSUME Kept
             PROVE  cell \in [-1..HB -> Words16] /\ fsll_end \in 0..HB /\ blist_size \in 0..MaxWalk
    OBVIOUS
<1>1. PICK M, ad : Sound(M, ad)
    BY DEF Kept
<1>2. HB \in Nat /\ MaxWalk = HB + 2
    BY RegionAssumption DEF MaxWalk
<1>3. blist_size \in 0..MaxWalk
  <2>1. blist_size \in 0..(HB + 1)
      BY <1>1, SoundWalk
  <2> QED
      BY <1>2, <2>1
<1>4. cell \in [-1..HB -> Words16]
    BY <1>1 DEF Sound, List, Markings
<1>5. fsll_end \in 0..HB
  <2>1. M \in SUBSET (0..HB) /\ (fsll_end = 0 \/ fsll_end \in M)
      BY <1>1 DEF Sound, List, Markings, Chain
  <2>2. 0 \in 0..HB
      BY <1>2
  <2> QED
      BY <2>1, <2>2
<1> QED
    BY <1>3, <1>4, <1>5

(* fsll_end and blist_size describe the list. *)
LEMMA KeptIsSound == (~unchecked => IndInv) => ListSound
<1> SUFFICES ASSUME IndInv, ready, blist_size > 0
             PROVE  /\ Cardinality(Markers) = blist_size
                    /\ Visit[blist_size] = fsll_end
                    /\ cell[fsll_end].off = 0 /\ ~IsFree(cell[fsll_end])
                    /\ \A c \in 0..(HB - 2) \ Markers : cell[c] = Empty
    BY DEF ListSound
<1>1. PICK M, ad : Sound(M, ad)
    BY DEF IndInv, Kept
<1>2. M # {} /\ Meets(M, fsll_end, ad, blist_size) /\ blist_size \in Nat
  <2>1. blist_size \in 0..(HB + 1) /\ HB \in Nat
      BY <1>1, SoundWalk, RegionAssumption
  <2> QED
      BY <1>1, <2>1, SoundWalk
<1>3. Markers = M
    BY <1>2 DEF Markers, Meets
<1>4. Cardinality(Markers) = blist_size
    BY <1>1, <1>3 DEF Sound
<1>5. Visit[blist_size] = fsll_end
    BY <1>2 DEF Meets
<1>6. cell[fsll_end].off = 0 /\ ~IsFree(cell[fsll_end])
    BY <1>1, <1>2 DEF Sound, List, Chain, Joined
<1>7. \A c \in 0..(HB - 2) \ Markers : cell[c] = Empty
    BY <1>1, <1>3 DEF Sound, List, Markings
<1> QED
    BY <1>4, <1>5, <1>6, <1>7

(* The allocated markers are the blocks that are held. *)
LEMMA KeptAgrees == IndInv => Allocated = owned
<1> SUFFICES ASSUME IndInv PROVE Allocated = owned
    OBVIOUS
<1>1. CASE ready
  <2>1. PICK M, ad : Sound(M, ad)
      BY <1>1 DEF IndInv, Kept
  <2>2. \A i \in 1..blist_size : /\ Visit[i] \in M
                                 /\ BlockAt(i) = Block(cell, ad, Visit[i])
    <3>1. CASE M = {}
      <4>1. blist_size = 0
          BY <2>1, <3>1, SoundWalk
      <4> QED
          BY <4>1
    <3>2. CASE M # {}
      <4>1. Meets(M, fsll_end, ad, blist_size)
          BY <2>1, <3>2, SoundWalk
      <4> QED
          BY <4>1 DEF Meets, BlockAt, Block
    <3> QED
        BY <3>1, <3>2
  <2>3. \A c \in M : \E i \in 1..blist_size : Visit[i] = c
      BY <2>1, SoundWalk DEF Meets
  <2>4. \A b : b \in owned <=> \E c \in M : ~IsFree(cell[c]) /\ b = Block(cell, ad, c)
      BY <2>1 DEF Sound, Owned
  <2>5. \A b : b \in Allocated <=>
                 \E i \in 1..blist_size : ~IsFree(cell[Visit[i]]) /\ b = BlockAt(i)
      BY DEF Allocated
  <2>6. \A b : b \in Allocated <=> b \in owned
      BY <2>2, <2>3, <2>4, <2>5
  <2> QED
      BY <2>6
<1>2. CASE ~ready
  <2>1. blist_size = 0 /\ owned = {}
      BY <1>2 DEF IndInv, Untouched
  <2>2. 1..blist_size = {}
      BY <2>1
  <2> QED
      BY <2>1, <2>2 DEF Allocated
<1> QED
    BY <1>1, <1>2

-----------------------------------------------------------------------------
(* Allocation *)

(* A request that is handed out as it should be fits the size field.        *)
LEMMA AskedFits ==
    ASSUME TypeOK, NEW t \in Tasks, NEW a, NEW n, Hand(t, a, n), ~unchecked'
    PROVE  /\ asked[t] \in 1..(Half - 1) /\ asked[t] \in 1..heap_remaining /\ n = asked[t]
           /\ heap_remaining' = heap_remaining - asked[t]
<1>1. asked[t] \in -1..(Half - 1) /\ Half \in Nat /\ heap_remaining \in 0..(Wide - 1)
      /\ Wide \in Nat
    BY SizeAssumption DEF TypeOK, NoRequest
<1>2. asked[t] \in 1..heap_remaining /\ n = asked[t]
    BY DEF Hand
<1>3. heap_remaining' = (heap_remaining - asked[t]) % Wide
    BY DEF Hand
<1>4. heap_remaining - asked[t] \in 0..(Wide - 1)
    BY <1>1, <1>2
<1>5. \A r \in 0..(Wide - 1) : r % Wide = r
    BY SizeAssumption
<1> QED
    BY <1>1, <1>2, <1>3, <1>4, <1>5

(* An empty word is no marker's. *)
LEMMA EmptyOutside ==
    ASSUME NEW M, NEW ad, Sound(M, ad), NEW c, cell[c] = Empty
    PROVE  c \notin M
BY ListTypes DEF Sound

(* One more block of n words is held. *)
NewBlock(own, n, own2) == \E b : b \notin own /\ b.size = n /\ own2 = own \cup {b}

(* The block of n words at a is handed out, where no allocated marker is. *)
Given(M, ad, a, n) ==
    /\ \A d \in M : ~IsFree(cell[d]) => ad[d] # a
    /\ owned' = owned \cup {[addr |-> a, size |-> n]}

(* A block at an address no allocated marker has is a new one. *)
LEMMA FreshBlock ==
    ASSUME NEW M, NEW ad, Owned(cell, M, ad, owned), NEW a, NEW n,
           Given(M, ad, a, n)
    PROVE  NewBlock(owned, n, owned')
<1>1. PICK b : b = [addr |-> a, size |-> n]
    OBVIOUS
<1>2. b.addr = a /\ b.size = n
    BY <1>1
<1>3. \A d : Block(cell, ad, d).addr = ad[d]
    BY DEF Block
<1>4. b \notin owned
    BY <1>2, <1>3 DEF Owned, Given
<1> QED
    BY <1>1, <1>2, <1>4 DEF NewBlock, Given

(* A free marker that fits is split or handed out whole. *)
LEMMA SearchKeeps ==
    ASSUME IndInv, ready, NEW t \in Tasks, search_free_marker(t), ~unchecked'
    PROVE  /\ Kept' /\ NewBlock(owned, asked[t], owned')
           /\ asked[t] \in 1..heap_remaining /\ heap_remaining' = heap_remaining - asked[t]
<1> DEFINE n == asked[t]
           X == Fitting(n)
           i == Min(X)
           c == Visit[i]
           splits == Size(cell[c]) # n /\ SplitCells # {}
<1>1. PICK M, ad : Sound(M, ad)
    BY DEF IndInv, Kept
<1>2. /\ X # {}
      /\ splits => cell' = Split(c, Max(SplitCells), n) /\ blist_size' = blist_size + 1
      /\ ~splits => /\ cell' = [cell EXCEPT ![c] = [half |-> Size(cell[c]), off |-> cell[c].off]]
                    /\ blist_size' = blist_size
      /\ owned' = owned \cup {[addr |-> Tracked[i], size |-> n]}
      /\ fsll_end' = fsll_end
      /\ Hand(t, Tracked[i], IF splits THEN n ELSE Size(cell[c]))
    BY DEF search_free_marker, Hand
<1>3. X \in SUBSET (1..blist_size) /\ X \in SUBSET Nat
  <2>1. blist_size \in Nat
      BY DEF IndInv, TypeOK
  <2> QED
      BY <2>1 DEF Fitting
<1>4. i \in X
    BY <1>2, <1>3, MinIsLeast
<1>5. i \in 1..blist_size /\ IsFree(cell[c]) /\ Size(cell[c]) >= n
    BY <1>4 DEF Fitting
<1>6. /\ n \in 1..(Half - 1) /\ n \in 1..heap_remaining /\ heap_remaining' = heap_remaining - n
      /\ splits \/ Size(cell[c]) = n
  <2>1. TypeOK
      BY DEF IndInv
  <2>2. PICK w : w = IF splits THEN n ELSE Size(cell[c])
      OBVIOUS
  <2>3. Hand(t, Tracked[i], w)
      BY <1>2, <2>2
  <2>4. /\ n \in 1..(Half - 1) /\ n \in 1..heap_remaining /\ w = n
        /\ heap_remaining' = heap_remaining - n
      BY <2>1, <2>3, AskedFits
  <2> QED
      BY <2>2, <2>4
<1> HIDE DEF X, i, n
<1>7. M # {} /\ Meets(M, fsll_end, ad, blist_size)
  <2>1. blist_size # 0
      BY <1>5
  <2> QED
      BY <1>1, <2>1, SoundWalk
<1>8. c \in M /\ Tracked[i] = ad[c]
    BY <1>5, <1>7 DEF Meets
<1> HIDE DEF c
<1>9. /\ List(cell, M, fsll_end, ad) /\ Joined(cell, M, fsll_end) /\ Owned(cell, M, ad, owned)
      /\ blist_size = Cardinality(M) /\ IsFiniteSet(M)
    BY <1>1, SoundWalk DEF Sound
<1>10. Size(cell[c]) \in Int /\ n \in Int /\ 0 < n /\ Size(cell[c]) < Half /\ HB \in Nat
       /\ cell[c] \in Words16 /\ cell \in [-1..HB -> Words16] /\ c \in -1..HB
  <2>1. cell \in [-1..HB -> Words16]
      BY <1>9 DEF List, Markings
  <2> QED
      BY <1>6, <1>8, <1>9, <2>1, ListTypes
<1>11. SplitCells \in SUBSET (0..HB)
    BY <1>10 DEF SplitCells
<1>12. NewBlock(owned, asked[t], owned')
  <2>1. \A d \in M : ~IsFree(cell[d]) => ad[d] # ad[c]
      BY <1>5, <1>8, <1>9, BlocksDiffer
  <2>2. owned' = owned \cup {[addr |-> ad[c], size |-> n]}
      BY <1>2, <1>8
  <2>3. Given(M, ad, ad[c], n)
      BY <2>1, <2>2 DEF Given
  <2>4. NewBlock(owned, n, owned')
      BY <1>9, <2>3, FreshBlock
  <2> QED
      BY <2>4 DEF n
<1>13. CASE splits
  <2> DEFINE s == Max(SplitCells)
  <2>1. s \in SplitCells
      BY <1>10, <1>11, <1>13, MaxIsIn
  <2>2. s \in 0..HB /\ s \notin M
      BY <1>1, <1>11, <2>1, EmptyOutside DEF SplitCells
  <2>3. n \in 1..(Size(cell[c]) - 1)
      BY <1>5, <1>10, <1>13
  <2>4. PICK M2 : M2 = M \cup {s}
      OBVIOUS
  <2>5. PICK ad2 : ad2 = [d \in M2 |-> IF d = s THEN ad[c] + n ELSE ad[d]]
      OBVIOUS
  <2>6. Parted(cell, M, ad, c, s, n, cell', M2, ad2)
      BY <1>2, <1>5, <1>8, <1>13, <2>2, <2>3, <2>4, <2>5 DEF Parted, Split, Succ, Nx
  <2> HIDE DEF s
  <2>7. /\ List(cell', M2, fsll_end, ad2)
        /\ Joined(cell', M2, fsll_end)
        /\ Owned(cell', M2, ad2, owned \cup {[addr |-> ad[c], size |-> n]})
      BY <1>9, <2>6, SplitKeeps
  <2>8. Cardinality(M2) = Cardinality(M) + 1
      BY <1>9, <2>2, <2>4, FS_AddElement
  <2>9. /\ owned' = owned \cup {[addr |-> ad[c], size |-> n]}
        /\ blist_size' = Cardinality(M2) /\ fsll_end' = fsll_end
      BY <1>2, <1>8, <1>9, <1>13, <2>8
  <2>10. Sound(M2, ad2)'
      BY <2>7, <2>9 DEF Sound
  <2> QED
      BY <1>6, <1>12, <2>10 DEF Kept, n
<1>14. CASE ~splits
  <2>1. Size(cell[c]) = n
      BY <1>6, <1>14
  <2>2. cell' = [cell EXCEPT ![c] = [half |-> n, off |-> cell[c].off]]
      BY <1>2, <1>14, <2>1
  <2>3. LET m == [half |-> n, off |-> cell[c].off]
        IN  m \in Words16 /\ Size(m) = n /\ ~IsFree(m)
    <3>1. n \in 0..(Half - 1) /\ cell[c].off \in -HB..HB
        BY <1>6, <1>10, MarkerFields
    <3> QED
        BY <3>1, AllocatedMarker
  <2>4. Remarked(cell, c, cell') /\ ~IsFree(cell'[c])
      BY <1>10, <2>1, <2>2, <2>3 DEF Remarked
  <2>5. /\ List(cell', M, fsll_end, ad)
        /\ Joined(cell', M, fsll_end)
        /\ Owned(cell', M, ad, owned \cup {Block(cell, ad, c)})
      BY <1>5, <1>8, <1>9, <2>4, TakeKeeps
  <2>6. /\ owned' = owned \cup {Block(cell, ad, c)}
        /\ blist_size' = Cardinality(M) /\ fsll_end' = fsll_end
      BY <1>2, <1>8, <1>9, <1>14, <2>1 DEF Block
  <2>7. Sound(M, ad)'
      BY <2>5, <2>6 DEF Sound
  <2> QED
      BY <1>6, <1>12, <2>7 DEF Kept, n
<1> QED
    BY <1>13, <1>14

(* No free marker fits: the first marker, or a new one behind the last. *)
LEMMA AddKeeps ==
    ASSUME IndInv, ready, NEW t \in Tasks, add_new_allocated_marker(t), NewCells # {},
           ~unchecked'
    PROVE  /\ Kept' /\ NewBlock(owned, asked[t], owned')
           /\ asked[t] \in 1..heap_remaining /\ heap_remaining' = heap_remaining - asked[t]
<1> DEFINE n == asked[t]
           c == Min(NewCells)
           e == fsll_end
<1>1. PICK M, ad : Sound(M, ad)
    BY DEF IndInv, Kept
<1>2. /\ cell' = [d \in DOMAIN cell |->
                    IF d = c THEN [half |-> n, off |-> 0]
                    ELSE IF d = e THEN [half |-> cell[d].half, off |-> d - c]
                    ELSE cell[d]]
      /\ fsll_end' = c
      /\ blist_size' = blist_size + 1
      /\ owned' = owned \cup {[addr |-> AddressOf(c), size |-> n]}
      /\ Hand(t, AddressOf(c), n)
    BY DEF add_new_allocated_marker, Hand, NewEnd
<1>3. HB \in Nat /\ HB \div 4 \in Nat /\ (HB \div 4) - 1 >= 0 /\ (HB \div 4) - 1 <= HB - 2
  <2>1. HB \in Nat \ {0} /\ HB % 4 = 0
      BY RegionAssumption
  <2> QED
      BY <2>1
<1>4. NewCells \in SUBSET Nat /\ \A d \in NewCells : d \in 0..HB /\ cell[d] = Empty
    BY <1>3 DEF NewCells
<1>5. c \in NewCells /\ \A d \in NewCells : c <= d
    BY <1>4, MinIsLeast
<1>6. c \in 0..HB /\ c \in -1..HB /\ cell[c] = Empty /\ c \notin M
  <2> HIDE DEF c
  <2>1. c \in 0..HB /\ cell[c] = Empty
      BY <1>4, <1>5
  <2>2. c \notin M
      BY <1>1, <2>1, EmptyOutside
  <2>3. c \in -1..HB
      BY <1>3, <2>1
  <2> QED
      BY <2>1, <2>2, <2>3
<1>7. n \in 1..(Half - 1) /\ n \in 1..heap_remaining /\ heap_remaining' = heap_remaining - n
    BY <1>2, AskedFits DEF IndInv
<1>8. /\ List(cell, M, e, ad) /\ Joined(cell, M, e) /\ Owned(cell, M, ad, owned)
      /\ blist_size = Cardinality(M) /\ IsFiniteSet(M) /\ cell \in [-1..HB -> Words16]
    BY <1>1, SoundWalk DEF Sound, List, Markings
<1>9. [half |-> n, off |-> 0] \in Words16
  <2>1. n \in 0..(Half - 1) /\ 0 \in -HB..HB
      BY <1>3, <1>7
  <2> QED
      BY <2>1, AllocatedMarker
<1> HIDE DEF n
<1>10. CASE M = {}
  <2>1. e = 0 /\ List(cell, {}, e, ad) /\ Owned(cell, {}, ad, owned)
      BY <1>8, <1>10 DEF List, Chain
  <2>2. c = 0
    <3>1. 0 \in 0..(HB - 2) /\ 0 \in 0..((HB \div 4) - 1)
        BY <1>3
    <3>2. cell[0] = Empty
        BY <1>8, <1>10, <3>1 DEF List, Markings
    <3>3. 0 \in NewCells
        BY <3>1, <3>2 DEF NewCells
    <3>4. c <= 0 /\ c \in Nat
        BY <1>4, <1>5, <3>3
    <3> QED
        BY <3>4
  <2>3. AddressOf(c) = 0
    <3> DEFINE j == Min({k \in 1..MaxWalk : Visit[k] = 0})
    <3>1. MaxWalk \in Nat /\ 1 \in 1..MaxWalk /\ Visit[1] = 0 /\ Tracked[1] = 0
        BY <1>3, WalkSteps
    <3>2. /\ {k \in 1..MaxWalk : Visit[k] = 0} \in SUBSET Nat
          /\ 1 \in {k \in 1..MaxWalk : Visit[k] = 0}
        BY <3>1
    <3>3. j \in {k \in 1..MaxWalk : Visit[k] = 0} /\ j <= 1
        BY <3>2, MinIsLeast
    <3>4. j = 1
        BY <3>1, <3>3
    <3> QED
        BY <2>1, <2>2, <3>1, <3>4 DEF AddressOf
  <2> HIDE DEF c, e
  <2>4. PICK w : w = [half |-> n, off |-> 0]
      OBVIOUS
  <2>5. cell'[0] = w /\ \A d \in -1..HB : d # 0 => cell'[d] = cell[d]
      BY <1>2, <1>6, <1>8, <2>1, <2>2, <2>4
  <2>6. cell' \in [-1..HB -> Words16]
      BY <1>2, <1>8, <1>9, <2>1, <2>2
  <2>7. PICK ad2 : ad2 = [d \in {0} |-> 0]
      OBVIOUS
  <2>8. /\ List(cell', {0}, 0, ad2)
        /\ Joined(cell', {0}, 0)
        /\ Owned(cell', {0}, ad2, owned \cup {[addr |-> 0, size |-> n]})
      BY <1>7, <2>1, <2>4, <2>5, <2>6, <2>7, FirstKeeps
  <2>9. Cardinality({0}) = 1 /\ blist_size = 0
      BY <1>8, <1>10, FS_Singleton, FS_EmptySet
  <2>10. /\ owned' = owned \cup {[addr |-> 0, size |-> n]}
         /\ blist_size' = Cardinality({0}) /\ fsll_end' = 0
      BY <1>2, <2>2, <2>3, <2>9
  <2>11. Sound({0}, ad2)'
      BY <2>8, <2>10 DEF Sound
  <2>12. NewBlock(owned, asked[t], owned')
    <3>1. \A d \in M : ~IsFree(cell[d]) => ad[d] # 0
        BY <1>10
    <3>2. Given(M, ad, 0, n)
        BY <2>10, <3>1 DEF Given
    <3>3. NewBlock(owned, n, owned')
        BY <1>8, <3>2, FreshBlock
    <3> QED
        BY <3>3 DEF n
  <2> QED
      BY <1>7, <2>11, <2>12 DEF Kept, n
<1>11. CASE M # {}
  <2>1. Meets(M, e, ad, blist_size)
      BY <1>1, <1>11, SoundWalk
  <2>2. AddressOf(c) = End(cell, ad, e)
      BY <1>6, <1>8, <1>11, <2>1, AddressIs
  <2>3. e \in M /\ e \in 0..HB /\ e \in -1..HB /\ e # c /\ cell[e] \in Words16
    <3>1. e \in M
        BY <1>8, <1>11 DEF List, Chain
    <3> QED
        BY <1>6, <1>8, <3>1, ListTypes
  <2> HIDE DEF c, e
  <2>4. [half |-> cell[e].half, off |-> e - c] \in Words16
    <3>1. e - c \in -HB..HB
        BY <1>3, <1>6, <2>3
    <3> QED
        BY <2>3, <3>1 DEF Words16
  <2>5. cell' \in [-1..HB -> Words16]
      BY <1>2, <1>8, <1>9, <2>3, <2>4
  <2>6. /\ cell'[c] = [half |-> n, off |-> 0]
        /\ cell'[e] = [half |-> cell[e].half, off |-> e - c]
        /\ \A d \in -1..HB : d # c /\ d # e => cell'[d] = cell[d]
      BY <1>2, <1>6, <1>8, <2>3
  <2>7. PICK M2 : M2 = M \cup {c}
      OBVIOUS
  <2>8. PICK ad2 : ad2 = [d \in M2 |-> IF d = c THEN End(cell, ad, e) ELSE ad[d]]
      OBVIOUS
  <2>9. Extended(cell, M, e, ad, c, n, cell', M2, ad2)
      BY <1>6, <1>7, <2>5, <2>6, <2>7, <2>8 DEF Extended
  <2>10. /\ List(cell', M2, c, ad2)
         /\ Joined(cell', M2, c)
         /\ Owned(cell', M2, ad2, owned \cup {[addr |-> End(cell, ad, e), size |-> n]})
      BY <1>8, <1>11, <2>9, AppendKeeps
  <2>11. Cardinality(M2) = Cardinality(M) + 1
      BY <1>6, <1>8, <2>7, FS_AddElement
  <2>12. /\ owned' = owned \cup {[addr |-> End(cell, ad, e), size |-> n]}
         /\ blist_size' = Cardinality(M2) /\ fsll_end' = c
      BY <1>2, <1>8, <2>2, <2>11
  <2>13. Sound(M2, ad2)'
      BY <2>10, <2>12 DEF Sound
  <2>14. NewBlock(owned, asked[t], owned')
    <3>1. ASSUME NEW d \in M PROVE ad[d] # End(cell, ad, e)
      <4>1. /\ ad[d] \in Nat /\ Size(cell[d]) \in Int /\ 0 < Size(cell[d])
            /\ ad[e] \in Nat /\ Size(cell[e]) \in Int
          BY <1>8, <2>3, ListTypes
      <4>2. ad[d] + Size(cell[d]) <= ad[e] + Size(cell[e])
          BY <1>8 DEF List, Apart, End
      <4> QED
          BY <4>1, <4>2 DEF End
    <3>2. Given(M, ad, End(cell, ad, e), n)
        BY <2>12, <3>1 DEF Given
    <3>3. NewBlock(owned, n, owned')
        BY <1>8, <3>2, FreshBlock
    <3> QED
        BY <3>3 DEF n
  <2> QED
      BY <1>7, <2>13, <2>14 DEF Kept, n
<1> QED
    BY <1>10, <1>11

-----------------------------------------------------------------------------
(* Release *)

(* The cells fr hold a list in which marker c is free, and what it stands   *)
(* for is no longer held.                                                   *)
IsFreed(M, ad, c, fr, M1, ad1) ==
    /\ List(fr, M1, fsll_end, ad1)
    /\ Owned(fr, M1, ad1, owned \ {Block(cell, ad, c)})
    /\ Joined(fr, M1, fsll_end) /\ IsFree(fr[c])
    /\ Elsewhere(cell, M1, c, fr)
    /\ c \in M1 /\ M1 \in SUBSET M
    /\ R3(c) \in Int /\ (R3(c) < 2 * Half => R3(c) = Half + Size(fr[c]))
    /\ Cardinality(M1) = IF Clubs(c) THEN blist_size - 1 ELSE blist_size
    /\ \A p \in M \ {fsll_end} : Nx(cell, p) = c => p \in M1

(* The region once marker c, which is not the last, is free. *)
LEMMA FreedIs ==
    ASSUME NEW M, NEW ad, Sound(M, ad),
           NEW c \in M \ {fsll_end}, ~IsFree(cell[c]), NEW fr, fr = Freed(c)
    PROVE  \E M1, ad1 : IsFreed(M, ad, c, fr, M1, ad1)
<1> DEFINE e == fsll_end
           x == Nx(cell, c)
           b == Block(cell, ad, c)
<1>1. /\ List(cell, M, e, ad) /\ Joined(cell, M, e) /\ Owned(cell, M, ad, owned)
      /\ blist_size = Cardinality(M) /\ IsFiniteSet(M) /\ cell \in [-1..HB -> Words16]
    BY SoundWalk DEF Sound, List, Markings
<1>2. x \in M \ {0, c} /\ cell[c].off # 0 /\ Succ(c) = x
    BY <1>1, ListLinks DEF Succ, Nx
<1>3. /\ HB \in Nat /\ Half \in Nat /\ c \in 0..HB /\ x \in 0..HB /\ c \in -1..HB /\ x \in -1..HB
      /\ c \in Int /\ x \in Int
      /\ cell[c] \in Words16 /\ cell[x] \in Words16
      /\ Size(cell[c]) \in Int /\ 0 < Size(cell[c]) /\ Size(cell[c]) < Half
      /\ Size(cell[x]) \in Int /\ 0 < Size(cell[x])
      /\ cell[c].off \in -HB..HB /\ cell[x].off \in Int
  <2>1. c \in M /\ x \in M
      BY <1>2
  <2>2. cell[c] \in Words16
      BY <1>1, <2>1, ListTypes
  <2>3. cell[c].off \in -HB..HB
      BY <2>2, MarkerFields
  <2> HIDE DEF x
  <2> QED
      BY <1>1, <2>1, <2>3, ListTypes
<1>4. \A p \in M \ {e} : Nx(cell, p) = c => p # x
  <2>1. ad[x] = ad[c] + Size(cell[c]) /\ ad[c] \in Nat /\ ad[x] \in Nat
    <3>1. c \in M /\ x \in M
        BY <1>2
    <3>2. ad[c] \in Nat /\ ad[x] \in Nat
        BY <1>1, <3>1, ListTypes
    <3> QED
        BY <1>1, <3>2 DEF List, Chain, End
  <2>2. ASSUME NEW p \in M \ {e}, Nx(cell, p) = c PROVE p # x
    <3>1. ad[c] = ad[p] + Size(cell[p])
        BY <1>1, <2>2 DEF List, Chain, End
    <3>2. ad[p] \in Nat /\ Size(cell[p]) \in Int /\ 0 < Size(cell[p])
        BY <1>1, <2>2, ListTypes
    <3> HIDE DEF x
    <3> QED
        BY <1>3, <2>1, <3>1, <3>2
  <2> QED
      BY <2>2
<1>5. PICK u : u = [half |-> Half + Size(cell[c]), off |-> cell[c].off]
    OBVIOUS
<1>6. u \in Words16 /\ IsFree(u) /\ Size(u) = Size(cell[c]) /\ u.off = cell[c].off
  <2>1. Size(cell[c]) \in 0..(Half - 1)
      BY <1>3
  <2> QED
      BY <1>3, <1>5, <2>1, FreeMarker
<1>7. CASE ~Clubs(c)
  <2>1. R3(c) \in Int /\ (R3(c) < 2 * Half => R3(c) = Half + Size(cell[c]))
    <3>1. CASE IsFree(cell[x])
      <4>1. R3(c) = Half + Size(cell[c]) + Size(cell[x])
          BY <1>2, <3>1 DEF R3
      <4>2. ~(Size(cell[c]) + Size(cell[x]) < Half)
          BY <1>2, <1>7, <3>1 DEF Clubs
      <4> HIDE DEF x
      <4> QED
          BY <1>3, <4>1, <4>2
    <3>2. CASE ~IsFree(cell[x])
      <4>1. R3(c) = Half + Size(cell[c]) + 0
          BY <1>2, <3>2 DEF R3
      <4> HIDE DEF x
      <4> QED
          BY <1>3, <4>1
    <3> QED
        BY <3>1, <3>2
  <2>2. fr = [cell EXCEPT ![c] = u]
      BY <1>2, <1>5, <1>7 DEF Freed
  <2>3. fr[c] = u /\ Remarked(cell, c, fr)
      BY <1>1, <1>3, <1>6, <2>2 DEF Remarked
  <2>4. /\ List(fr, M, e, ad)
        /\ Owned(fr, M, ad, owned \ {b})
        /\ Joined(fr, M, e) /\ IsFree(fr[c])
        /\ Elsewhere(cell, M, c, fr)
    <3>1. c \in M \ {e} /\ IsFree(fr[c])
        BY <1>6, <2>3
    <3> HIDE DEF x
    <3> QED
        BY <1>1, <2>3, <3>1, FreeAlone
  <2>5. Size(fr[c]) = Size(cell[c])
      BY <1>6, <2>3
  <2> QED
      BY <1>1, <1>7, <2>1, <2>4, <2>5 DEF IsFreed
<1>8. CASE Clubs(c)
  <2>1. IsFree(cell[x]) /\ Size(cell[c]) + Size(cell[x]) < Half
      BY <1>2, <1>8 DEF Clubs
  <2>2. R3(c) = Half + (Size(cell[c]) + Size(cell[x]))
    <3>1. R3(c) = Half + Size(cell[c]) + Size(cell[x])
        BY <1>2, <2>1 DEF R3
    <3> HIDE DEF x
    <3> QED
        BY <1>3, <3>1
  <2>3. PICK w : w = [half |-> Half + (Size(cell[c]) + Size(cell[x])), off |-> c - x + cell[x].off]
      OBVIOUS
  <2>4. x \in M \ {e} /\ Nx(cell, x) \in 0..HB /\ Nx(cell, x) = x - cell[x].off
    <3>1. x # e
        BY <1>1, <2>1 DEF List, Chain, Joined
    <3>2. Nx(cell, x) \in M
        BY <1>1, <1>2, <3>1, ListLinks
    <3> QED
        BY <1>1, <1>2, <3>1, <3>2, ListTypes DEF Nx
  <2>5. w \in Words16 /\ IsFree(w) /\ Size(w) = Size(cell[c]) + Size(cell[x])
        /\ w.off = c - Nx(cell, x)
    <3> HIDE DEF x
    <3>1. Size(cell[c]) + Size(cell[x]) \in 0..(Half - 1)
        BY <1>3, <2>1
    <3>2. c - x + cell[x].off = c - Nx(cell, x) /\ c - x + cell[x].off \in -HB..HB
        BY <1>3, <2>4
    <3> QED
        BY <2>3, <3>1, <3>2, FreeMarker
  <2>6. fr = [cell EXCEPT ![c] = w, ![x] = Empty]
      BY <1>2, <1>8, <2>3, <2>2 DEF Freed
  <2>7. /\ fr \in [-1..HB -> Words16] /\ fr[c] = w /\ fr[x] = Empty
        /\ \A d \in -1..HB : d # c /\ d # x => fr[d] = cell[d]
    <3> HIDE DEF x
    <3> QED
        BY <1>1, <1>2, <1>3, <2>5, <2>6, EmptyWord
  <2>8. PICK M1 : M1 = M \ {x}
      OBVIOUS
  <2>9. PICK ad1 : ad1 = [d \in M1 |-> ad[d]]
      OBVIOUS
  <2>10. Clubbed(cell, M, e, ad, c, x, u, fr, M1, ad1)
      BY <1>2, <1>6, <2>1, <2>5, <2>7, <2>8, <2>9 DEF Clubbed
  <2>11. /\ List(fr, M1, e, ad1)
         /\ Owned(fr, M1, ad1, owned \ {b})
         /\ Joined(fr, M1, e)
         /\ Elsewhere(cell, M1, c, fr)
    <3> HIDE DEF x
    <3> QED
        BY <1>1, <2>10, FreeClubbed
  <2>12. Cardinality(M1) = blist_size - 1
      BY <1>1, <1>2, <2>8, FS_RemoveElement
  <2>13. Size(fr[c]) = Size(cell[c]) + Size(cell[x])
      BY <2>5, <2>7
  <2>14. \A p \in M \ {e} : Nx(cell, p) = c => p \in M1
      BY <1>4, <2>8
  <2>15. c \in M1 /\ M1 \in SUBSET M /\ IsFree(fr[c])
      BY <1>2, <2>5, <2>7, <2>8
  <2>16. R3(c) \in Int /\ R3(c) = Half + Size(fr[c])
    <3>1. R3(c) \in Int
      <4> HIDE DEF x
      <4> QED
          BY <1>3, <2>2
    <3> QED
        BY <2>13, <2>2, <3>1
  <2> QED
      BY <1>8, <2>11, <2>12, <2>14, <2>15, <2>16 DEF IsFreed
<1> QED
    BY <1>7, <1>8

(* What release_allocated_marker does with the marker c of the block, when  *)
(* it leaves in the marker before it what should be there.                  *)
ReleaseOf(c) ==
    LET p == Pred(c)
        freed == Freed(c)
        deleted == c # 0 /\ freed[c] = Empty
        joins == c # 0 /\ ~deleted /\ IsFree(cell[p])
        left == IF cell[c].off = 0 \/ Clubs(c) THEN blist_size - 1 ELSE blist_size
    IN  /\ deleted => /\ cell' = [freed EXCEPT ![p] = [half |-> freed[p].half, off |-> 0]]
                      /\ fsll_end' = p /\ ~IsFree(cell[p])
        /\ ~deleted => fsll_end' = fsll_end
        /\ joins => cell' = [freed EXCEPT
                              ![p] = [half |-> (R3(c) + Size(cell[p])) % (2 * Half),
                                      off |-> p - c + freed[c].off],
                              ![c] = Empty]
        /\ joins => ~(R3(c) + Size(cell[p]) >= 2 * Half)
        /\ ~deleted /\ ~joins => cell' = freed
        /\ blist_size' = IF joins THEN left - 1 ELSE left

(* A release finds the marker of the block that is given back. *)
LEMMA ReleaseFinds ==
    ASSUME NEW M, NEW ad, Sound(M, ad), NEW b \in owned, heap_release(b), ~unchecked'
    PROVE  \E c \in M : /\ ~IsFree(cell[c]) /\ b = Block(cell, ad, c)
                        /\ ReleaseOf(c)
                        /\ heap_remaining' = (heap_remaining + Size(cell[c])) % Wide
                        /\ owned' = owned \ {b} /\ UNCHANGED <<ready, asked>>
                        /\ ~unchecked
<1>1. PICK c \in M : ~IsFree(cell[c]) /\ b = Block(cell, ad, c)
    BY DEF Sound, Owned
<1>2. M # {} /\ b.addr = ad[c]
    BY <1>1 DEF Block
<1>3. List(cell, M, fsll_end, ad) /\ Meets(M, fsll_end, ad, blist_size) /\ blist_size \in Nat
  <2>1. blist_size \in 0..(HB + 1) /\ HB \in Nat
      BY SoundWalk, RegionAssumption
  <2>2. blist_size \in Nat
      BY <2>1
  <2> QED
      BY <1>2, <2>2, SoundWalk DEF Sound
<1>4. /\ \E i \in 1..blist_size : Tracked[i] = b.addr
      /\ Visit[Min({i \in 1..blist_size : Tracked[i] = b.addr})] = c
    BY <1>2, <1>3, PlaceOfBlock
<1>5. release_allocated_marker(b.addr)
    BY <1>4 DEF heap_release, svc_service_gheap_release
<1>6. ReleaseOf(c) /\ heap_remaining' = (heap_remaining + Size(cell[c])) % Wide /\ ~unchecked
    BY <1>4, <1>5 DEF release_allocated_marker, ReleaseOf
<1> QED
    BY <1>1, <1>6 DEF heap_release

(* The last marker is deleted. *)
LEMMA ReleaseLast ==
    ASSUME NEW M, NEW ad, Sound(M, ad), NEW c \in M, c = fsll_end, ReleaseOf(c),
           owned' = owned \ {Block(cell, ad, c)}
    PROVE  Kept'
<1>1. /\ List(cell, M, c, ad) /\ Joined(cell, M, c) /\ Owned(cell, M, ad, owned)
      /\ blist_size = Cardinality(M) /\ IsFiniteSet(M) /\ cell \in [-1..HB -> Words16]
    BY SoundWalk DEF Sound, List, Markings
<1>2. cell[c].off = 0 /\ c \in -1..HB /\ Empty \in Words16
    BY <1>1, ListTypes, EmptyWord DEF List, Chain
<1>3. Freed(c) = [cell EXCEPT ![c] = Empty]
    BY <1>2 DEF Freed
<1>4. PICK fr : fr = Freed(c)
    OBVIOUS
<1>5. fr \in [-1..HB -> Words16] /\ fr[c] = Empty /\ \A d \in -1..HB : d # c => fr[d] = cell[d]
    BY <1>1, <1>2, <1>3, <1>4
<1>6. CASE c = 0
  <2>1. M = {0}
      BY <1>1, <1>6, OnlyMarker
  <2>2. cell' = [cell EXCEPT ![0] = Empty] /\ fsll_end' = 0 /\ blist_size' = blist_size - 1
      BY <1>2, <1>3, <1>6 DEF ReleaseOf
  <2>3. PICK cl2 : cl2 = cell'
      OBVIOUS
  <2>4. PICK ad2 : ad2 = [d \in {} |-> 0]
      OBVIOUS
  <2>5. List(cell, {0}, 0, ad) /\ Joined(cell, {0}, 0) /\ Owned(cell, {0}, ad, owned)
      BY <1>1, <1>6, <2>1
  <2>6. /\ List(cell', {}, 0, ad2)
        /\ Joined(cell', {}, 0)
        /\ Owned(cell', {}, ad2, owned \ {Block(cell, ad, 0)})
      BY <2>2, <2>4, <2>5, LastKeeps
  <2>7. Cardinality({}) = 0 /\ blist_size = 1
      BY <1>1, <2>1, FS_EmptySet, FS_Singleton
  <2>8. blist_size' = Cardinality({}) /\ fsll_end' = 0 /\ owned' = owned \ {Block(cell, ad, 0)}
      BY <1>6, <2>2, <2>7
  <2>9. Sound({}, ad2)'
      BY <2>6, <2>8 DEF Sound
  <2> QED
      BY <2>9 DEF Kept
<1>7. CASE c # 0
  <2> DEFINE p == Pred(c)
  <2>1. p \in M \ {c} /\ Nx(cell, p) = c
    <3>1. Meets(M, fsll_end, ad, blist_size)
      <4>1. M # {}
          OBVIOUS
      <4> QED
          BY <4>1, SoundWalk
    <3> QED
        BY <1>1, <1>7, <3>1, PredIs
  <2>2. /\ cell' = [fr EXCEPT ![p] = [half |-> fr[p].half, off |-> 0]]
        /\ fsll_end' = p /\ blist_size' = blist_size - 1 /\ ~IsFree(cell[p])
      BY <1>2, <1>4, <1>5, <1>7 DEF ReleaseOf
  <2> HIDE DEF p
  <2>3. p \in -1..HB /\ cell[p] \in Words16 /\ fr[p] = cell[p]
      BY <1>1, <1>5, <2>1, ListTypes
  <2>4. [half |-> cell[p].half, off |-> 0] \in Words16
      BY <2>3, RegionAssumption DEF Words16
  <2>5. Shortened(cell, M, c, p, cell')
      BY <1>2, <1>5, <2>1, <2>2, <2>3, <2>4 DEF Shortened
  <2>6. PICK M2 : M2 = M \ {c}
      OBVIOUS
  <2>7. PICK ad2 : ad2 = [d \in M2 |-> ad[d]]
      OBVIOUS
  <2>8. /\ List(cell', M2, p, ad2)
        /\ Joined(cell', M2, p)
        /\ Owned(cell', M2, ad2, owned \ {Block(cell, ad, c)})
    <3>1. List(cell, M, c, ad) /\ Joined(cell, M, c) /\ Owned(cell, M, ad, owned)
        BY <1>1
    <3> QED
        BY ONLY <2>5, <2>6, <2>7, <3>1, CutKeeps
  <2>9. Cardinality(M2) = Cardinality(M) - 1
      BY <1>1, <2>6, FS_RemoveElement
  <2>10. Sound(M2, ad2)'
      BY <1>1, <2>2, <2>8, <2>9 DEF Sound
  <2> QED
      BY <2>10 DEF Kept
<1> QED
    BY <1>6, <1>7

(* Another marker is freed and joined with its free neighbours. *)
LEMMA ReleaseMiddle ==
    ASSUME NEW M, NEW ad, Sound(M, ad),
           NEW c \in M \ {fsll_end}, ~IsFree(cell[c]), ReleaseOf(c),
           owned' = owned \ {Block(cell, ad, c)}
    PROVE  Kept'
<1> DEFINE e == fsll_end
           p == Pred(c)
           left == IF Clubs(c) THEN blist_size - 1 ELSE blist_size
<1>1. /\ List(cell, M, e, ad) /\ Meets(M, e, ad, blist_size) /\ cell \in [-1..HB -> Words16]
      /\ IsFiniteSet(M)
  <2>1. M # {}
      OBVIOUS
  <2> QED
      BY <2>1, SoundWalk DEF Sound, List, Markings
<1>2. PICK fr : fr = Freed(c)
    OBVIOUS
<1>3. PICK M1, ad1 : IsFreed(M, ad, c, fr, M1, ad1)
    BY <1>2, FreedIs
<1>4. /\ List(fr, M1, e, ad1)
      /\ Owned(fr, M1, ad1, owned \ {Block(cell, ad, c)})
      /\ Joined(fr, M1, e) /\ IsFree(fr[c])
      /\ Elsewhere(cell, M1, c, fr)
      /\ c \in M1 /\ M1 \in SUBSET M
      /\ R3(c) \in Int /\ (R3(c) < 2 * Half => R3(c) = Half + Size(fr[c]))
      /\ Cardinality(M1) = left
      /\ \A q \in M \ {e} : Nx(cell, q) = c => q \in M1
    BY <1>3 DEF IsFreed
<1>5. /\ cell[c].off # 0 /\ HB \in Nat /\ Half \in Nat \ {0}
      /\ c \in -1..HB /\ c \in 0..HB /\ c \in Int
      /\ fr \in [-1..HB -> Words16] /\ IsFree(fr[c]) /\ fr[c] # Empty
      /\ fr[c].off \in Int /\ Nx(fr, c) \in 0..HB
      /\ Size(fr[c]) \in Int /\ 0 < Size(fr[c])
  <2>1. cell[c].off # 0
      BY <1>1, ListLinks
  <2>2. c \in M1 \ {e} /\ Nx(fr, c) \in M1
      BY <1>4, ListLinks
  <2>3. Half \in Nat \ {0} /\ IsFree(fr[c]) /\ fr \in [-1..HB -> Words16]
      BY <1>4, SizeAssumption DEF List, Markings
  <2> QED
      BY <1>4, <2>1, <2>2, <2>3, ListTypes
<1>6. /\ fsll_end' = e
      /\ c # 0 /\ IsFree(cell[p]) =>
           /\ cell' = [fr EXCEPT ![p] = [half |-> (R3(c) + Size(cell[p])) % (2 * Half),
                                         off |-> p - c + fr[c].off],
                                 ![c] = Empty]
           /\ blist_size' = left - 1
           /\ ~(R3(c) + Size(cell[p]) >= 2 * Half)
      /\ ~(c # 0 /\ IsFree(cell[p])) => cell' = fr /\ blist_size' = left
    BY <1>2, <1>5 DEF ReleaseOf
<1> HIDE DEF left
<1>7. c # 0 => p \in M \ {e} /\ Nx(cell, p) = c
    BY <1>1, PredIs
<1> HIDE DEF p
<1>8. CASE c # 0 /\ IsFree(cell[p])
  <2>1. p \in M1 \ {e, c}
    <3>1. p # c
        BY <1>1, <1>7, <1>8, ListLinks
    <3> QED
        BY <1>4, <1>7, <1>8, <3>1
  <2>2. fr[p] = cell[p] /\ Nx(fr, p) = c
      BY <1>4, <1>7, <1>8, <2>1 DEF Elsewhere
  <2>3. p \in -1..HB /\ p \in 0..HB /\ Size(cell[p]) \in Int /\ 0 < Size(cell[p]) /\ p \in Int
      BY <1>1, <1>7, <1>8, ListTypes
  <2>4. PICK z : z = Size(cell[p]) + Size(fr[c])
      OBVIOUS
  <2>5. R3(c) = Half + Size(fr[c]) /\ R3(c) + Size(cell[p]) < 2 * Half
    <3>1. ~(R3(c) + Size(cell[p]) >= 2 * Half)
        BY <1>6, <1>8
    <3>2. R3(c) < 2 * Half /\ R3(c) + Size(cell[p]) < 2 * Half
        BY <1>4, <1>5, <2>3, <3>1
    <3> QED
        BY <1>4, <3>2
  <2>6. z \in 0..(Half - 1)
      BY <1>5, <2>3, <2>4, <2>5
  <2>7. (R3(c) + Size(cell[p])) % (2 * Half) = Half + z
    <3>1. R3(c) + Size(cell[p]) = Half + z
        BY <1>5, <2>3, <2>4, <2>5
    <3>2. Half + z \in 0..(2 * Half - 1) /\ 2 * Half \in Nat \ {0}
        BY <1>5, <2>6
    <3>3. \A k \in Nat \ {0} : \A r \in 0..(k - 1) : r % k = r
        OBVIOUS
    <3> QED
        BY <3>1, <3>2, <3>3
  <2>8. p - c + fr[c].off = p - Nx(fr, c) /\ p - Nx(fr, c) \in -HB..HB
    <3>1. Nx(fr, c) = c - fr[c].off
        BY DEF Nx
    <3> QED
        BY <1>5, <2>3, <3>1, SMTT(30)
  <2>9. PICK w : w = [half |-> Half + z, off |-> p - Nx(fr, c)]
      OBVIOUS
  <2>10. w \in Words16 /\ IsFree(w) /\ Size(w) = z /\ w.off = p - Nx(fr, c)
      BY <2>6, <2>8, <2>9, FreeMarker
  <2>11. cell' = [fr EXCEPT ![p] = w, ![c] = Empty]
      BY <1>6, <1>8, <2>7, <2>8, <2>9
  <2>12. PICK M2 : M2 = M1 \ {c}
      OBVIOUS
  <2>13. PICK ad2 : ad2 = [d \in M2 |-> ad1[d]]
      OBVIOUS
  <2>14. /\ cell' \in [-1..HB -> Words16] /\ cell'[p] = w /\ cell'[c] = Empty
         /\ \A d \in -1..HB : d # p /\ d # c => cell'[d] = fr[d]
      BY <1>5, <2>1, <2>3, <2>10, <2>11, EmptyWord
  <2>15. Merged(fr, M1, e, ad1, p, c, cell', M2, ad2)
      BY <1>4, <1>5, <1>8, <2>1, <2>2, <2>4, <2>10, <2>12, <2>13, <2>14 DEF Merged
  <2>16. /\ List(cell', M2, e, ad2)
         /\ Joined(cell', M2, e)
         /\ Owned(cell', M2, ad2, owned \ {Block(cell, ad, c)})
      BY <1>4, <2>15, FreeJoined
  <2>17. Cardinality(M2) = left - 1
    <3>1. IsFiniteSet(M1)
        BY <1>1, <1>4, FS_Subset
    <3> QED
        BY <1>4, <2>12, <3>1, FS_RemoveElement
  <2>18. Sound(M2, ad2)'
      BY <1>6, <1>8, <2>16, <2>17 DEF Sound
  <2> QED
      BY <2>18 DEF Kept
<1>9. CASE ~(c # 0 /\ IsFree(cell[p]))
  <2>1. Sound(M1, ad1)'
      BY <1>4, <1>6, <1>9 DEF Sound
  <2> QED
      BY <2>1 DEF Kept
<1> QED
    BY <1>8, <1>9

-----------------------------------------------------------------------------
(* The words that are held *)

(* The words of a set of blocks, as RemainingExact counts them. *)
Held(S) == FoldSet(LAMBDA b, sum : sum + b.size, 0, S)

(* The sums FoldSet computes for the subsets of S: all of them, and those   *)
(* with at most n members.                                                  *)
First(s) == CHOOSE x \in s : TRUE
Adds(g, s) == IF s = {} THEN 0 ELSE g[s \ {First(s)}] + First(s).size
Small(S, n) == {s \in SUBSET S : Cardinality(s) <= n}
Sums(g, S) == g = [s \in SUBSET S |-> Adds(g, s)]
SmallSums(g, S, n) == g = [s \in Small(S, n) |-> Adds(g, s)]

(* A subset without one of its members is a smaller subset. *)
LEMMA Smaller ==
    ASSUME NEW S, IsFiniteSet(S), NEW s \in SUBSET S
    PROVE  /\ Cardinality(s) \in Nat /\ (s = {} <=> Cardinality(s) = 0)
           /\ \A x \in s : /\ s \ {x} \in SUBSET S
                           /\ Cardinality(s \ {x}) = Cardinality(s) - 1
<1>1. IsFiniteSet(s)
    BY FS_Subset
<1>2. Cardinality(s) \in Nat /\ (s = {} <=> Cardinality(s) = 0)
    BY <1>1, FS_CardinalityType, FS_EmptySet
<1>3. \A x \in s : Cardinality(s \ {x}) = Cardinality(s) - 1
    BY <1>1, FS_RemoveElement
<1> QED
    BY <1>2, <1>3

(* The first member of a set that is not empty is a member. *)
LEMMA FirstIn == \A s : s # {} => First(s) \in s
BY DEF First

(* The sums of the subsets with at most n members exist. *)
LEMMA SmallSumsExist ==
    ASSUME NEW S, IsFiniteSet(S), NEW N \in Nat
    PROVE  \E g : SmallSums(g, S, N)
<1> DEFINE X == {n \in Nat : ~ \E g : SmallSums(g, S, n)}
<1> SUFFICES ASSUME X # {} PROVE FALSE
    OBVIOUS
<1>1. PICK m \in X : \A k \in X : m <= k
    BY LeastNat
<1>2. m # 0
  <2>1. \A s \in Small(S, 0) : s = {}
      BY Smaller DEF Small
  <2>2. PICK f : f = [s \in Small(S, 0) |-> 0]
      OBVIOUS
  <2>3. [s \in Small(S, 0) |-> Adds(f, s)] = [s \in Small(S, 0) |-> 0]
      BY <2>1 DEF Adds
  <2>4. SmallSums(f, S, 0)
      BY <2>2, <2>3 DEF SmallSums
  <2> QED
      BY <2>4
<1>3. m \in Nat /\ m - 1 \in Nat /\ m - 1 \notin X
  <2>1. m \in Nat /\ m - 1 \in Nat /\ ~(m <= m - 1)
      BY <1>2
  <2> HIDE DEF X
  <2> QED
      BY <1>1, <2>1
<1>4. PICK g : SmallSums(g, S, m - 1)
    BY <1>3
<1>5. PICK f : f = [s \in Small(S, m) |-> Adds(g, s)]
    OBVIOUS
<1>6. \A s \in Small(S, m - 1) : s \in Small(S, m) /\ f[s] = g[s]
  <2>1. \A s \in Small(S, m - 1) : s \in Small(S, m)
      BY <1>3, Smaller DEF Small
  <2> QED
      BY <1>4, <1>5, <2>1 DEF SmallSums
<1>7. ASSUME NEW s \in Small(S, m) PROVE Adds(f, s) = Adds(g, s)
  <2>1. CASE s = {}
      BY <2>1 DEF Adds
  <2>2. CASE s # {}
    <3>1. First(s) \in s /\ s \in SUBSET S /\ Cardinality(s) <= m
        BY <2>2, FirstIn DEF Small
    <3>2. /\ s \ {First(s)} \in SUBSET S
          /\ Cardinality(s) \in Nat /\ Cardinality(s \ {First(s)}) = Cardinality(s) - 1
        BY <3>1, Smaller
    <3>3. Cardinality(s \ {First(s)}) <= m - 1
        BY <1>3, <3>1, <3>2
    <3>4. s \ {First(s)} \in Small(S, m - 1)
        BY <3>2, <3>3 DEF Small
    <3> QED
        BY <1>6, <3>4 DEF Adds
  <2> QED
      BY <2>1, <2>2
<1>8. SmallSums(f, S, m)
    BY <1>5, <1>7 DEF SmallSums
<1> QED
    BY <1>8

(* So do those of all subsets. *)
LEMMA SumsExist ==
    ASSUME NEW S, IsFiniteSet(S)
    PROVE  \E g : Sums(g, S)
<1>1. Cardinality(S) \in Nat
    BY FS_CardinalityType
<1>2. PICK g : SmallSums(g, S, Cardinality(S))
    BY <1>1, SmallSumsExist
<1>3. Small(S, Cardinality(S)) = SUBSET S
    BY FS_Subset DEF Small
<1> QED
    BY <1>2, <1>3 DEF SmallSums, Sums

(* FoldSet returns one of them. *)
LEMMA HeldIs ==
    ASSUME NEW S, IsFiniteSet(S)
    PROVE  \E g : Sums(g, S) /\ Held(S) = g[S]
<1> DEFINE h == CHOOSE g : Sums(g, S)
<1>1. Sums(h, S)
    BY SumsExist, Zenon
<1>2. Held(S) = h[S]
    BY DEF Held, FoldSet, MapThenFoldSet, Sums, Adds, First
<1> QED
    BY <1>1, <1>2

(* The sums do not depend on the order in which the members are added. *)
LEMMA SumsAdd ==
    ASSUME NEW S, IsFiniteSet(S), \A x \in S : x.size \in Int, NEW g, Sums(g, S)
    PROVE  \A s \in SUBSET S : g[s] \in Int /\ \A x \in s : g[s] = g[s \ {x}] + x.size
<1> DEFINE Good(s) == g[s] \in Int /\ \A x \in s : g[s] = g[s \ {x}] + x.size
           X == {n \in Nat : \E s \in SUBSET S : Cardinality(s) = n /\ ~Good(s)}
<1>1. SUFFICES X = {}
    BY Smaller
<1> SUFFICES ASSUME X # {} PROVE FALSE
    OBVIOUS
<1>2. PICK m \in X : \A k \in X : m <= k
    BY LeastNat
<1>3. PICK s \in SUBSET S : Cardinality(s) = m /\ ~Good(s)
    OBVIOUS
<1>4. ASSUME NEW t \in SUBSET S, Cardinality(t) < m PROVE Good(t)
  <2>1. Cardinality(t) \in Nat /\ ~(m <= Cardinality(t))
      BY <1>4, Smaller
  <2> HIDE DEF Good
  <2>2. Cardinality(t) \notin X
      BY <1>2, <2>1
  <2> QED
      BY <2>1, <2>2
<1>5. g[s] = Adds(g, s)
    BY DEF Sums
<1>6. CASE s = {}
    BY <1>3, <1>5, <1>6 DEF Adds
<1>7. CASE s # {}
  <2>1. PICK y : y = First(s)
      OBVIOUS
  <2>2. y \in s /\ y.size \in Int /\ g[s] = g[s \ {y}] + y.size
      BY <1>5, <1>7, <2>1, FirstIn DEF Adds
  <2>3. m \in Nat /\ \A x \in s : s \ {x} \in SUBSET S /\ Cardinality(s \ {x}) = m - 1
      BY <1>3, Smaller
  <2>4. \A x \in s : Good(s \ {x})
    <3>1. \A x \in s : s \ {x} \in SUBSET S /\ Cardinality(s \ {x}) < m
        BY <2>3
    <3> HIDE DEF Good
    <3> QED
        BY <1>4, <3>1
  <2>5. PICK k : k = g[s \ {y}]
      OBVIOUS
  <2>6. k \in Int /\ g[s] = k + y.size
      BY <2>2, <2>4, <2>5
  <2>7. ASSUME NEW x \in s, x # y PROVE g[s] = g[s \ {x}] + x.size
    <3>1. (s \ {x}) \ {y} = (s \ {y}) \ {x} /\ y \in s \ {x} /\ x \in s \ {y}
        BY <2>2, <2>7
    <3>2. PICK r : r = (s \ {x}) \ {y}
        OBVIOUS
    <3>3. g[r] \in Int
      <4>1. r \in SUBSET S
          BY <3>2
      <4>2. Cardinality(r) = Cardinality(s \ {x}) - 1
        <5>1. PICK u : u = s \ {x}
            OBVIOUS
        <5>2. u \in SUBSET S /\ y \in u /\ r = u \ {y}
            BY <3>1, <3>2, <5>1
        <5>3. \A z \in u : Cardinality(u \ {z}) = Cardinality(u) - 1
            BY <5>2, Smaller
        <5> QED
            BY <5>1, <5>2, <5>3, Zenon
      <4>3. Cardinality(r) < m
          BY <2>3, <4>2
      <4> QED
          BY <1>4, <4>1, <4>3
    <3>4. g[s \ {x}] = g[r] + y.size
        BY <2>4, <3>1, <3>2
    <3>5. k = g[r] + x.size
        BY <2>2, <2>4, <2>5, <3>1, <3>2
    <3>6. x.size \in Int
        OBVIOUS
    <3> QED
        BY <2>2, <2>6, <3>3, <3>4, <3>5, <3>6
  <2>8. Good(s)
    <3>1. g[s] \in Int
        BY <2>2, <2>6
    <3> QED
        BY <2>2, <2>7, <3>1
  <2> QED
      BY <1>3, <2>8
<1> QED
    BY <1>6, <1>7

(* The sums for a set and for a larger one agree. *)
LEMMA SumsAgree ==
    ASSUME NEW S, NEW T, IsFiniteSet(T), S \in SUBSET T, NEW g, Sums(g, S), NEW h, Sums(h, T)
    PROVE  \A s \in SUBSET S : g[s] = h[s]
<1> DEFINE X == {n \in Nat : \E s \in SUBSET S : Cardinality(s) = n /\ g[s] # h[s]}
<1>0. IsFiniteSet(S) /\ \A s \in SUBSET S : s \in SUBSET T
    BY FS_Subset
<1>1. SUFFICES X = {}
    BY <1>0, Smaller
<1> SUFFICES ASSUME X # {} PROVE FALSE
    OBVIOUS
<1>2. PICK m \in X : \A k \in X : m <= k
    BY LeastNat
<1>3. PICK s \in SUBSET S : Cardinality(s) = m /\ g[s] # h[s]
    OBVIOUS
<1>4. g[s] = Adds(g, s) /\ h[s] = Adds(h, s)
    BY <1>0 DEF Sums
<1>5. s # {}
    BY <1>3, <1>4 DEF Adds
<1>6. PICK y : y = First(s)
    OBVIOUS
<1>7. y \in s /\ g[s] = g[s \ {y}] + y.size /\ h[s] = h[s \ {y}] + y.size
    BY <1>4, <1>5, <1>6, FirstIn DEF Adds
<1>8. s \ {y} \in SUBSET S /\ m \in Nat /\ Cardinality(s \ {y}) = m - 1
    BY <1>0, <1>3, <1>7, Smaller
<1>9. Cardinality(s \ {y}) \in Nat /\ ~(m <= Cardinality(s \ {y}))
    BY <1>0, <1>8, Smaller
<1>10. Cardinality(s \ {y}) \notin X
  <2> HIDE DEF X
  <2> QED
      BY <1>2, <1>9
<1> QED
    BY <1>3, <1>7, <1>8, <1>9, <1>10

(* No block has no words. *)
LEMMA HeldEmpty == Held({}) = 0
<1>1. IsFiniteSet({})
    BY FS_EmptySet
<1>2. PICK g : Sums(g, {}) /\ Held({}) = g[{}]
    BY <1>1, HeldIs
<1>3. g[{}] = Adds(g, {})
    BY <1>2 DEF Sums
<1> QED
    BY <1>2, <1>3 DEF Adds

(* One more block adds its words. *)
LEMMA HeldAdds ==
    ASSUME NEW S, IsFiniteSet(S), NEW b, b \notin S, \A x \in S \cup {b} : x.size \in Int
    PROVE  Held(S) \in Int /\ Held(S \cup {b}) = Held(S) + b.size
<1>1. PICK T : T = S \cup {b}
    OBVIOUS
<1>2. IsFiniteSet(T) /\ S \in SUBSET T /\ T \in SUBSET T /\ b \in T /\ T \ {b} = S
    BY <1>1, FS_AddElement
<1>3. PICK g : Sums(g, S) /\ Held(S) = g[S]
    BY HeldIs
<1>4. PICK h : Sums(h, T) /\ Held(T) = h[T]
    BY <1>2, HeldIs
<1>5. \A s \in SUBSET S : g[s] = h[s]
    BY <1>2, <1>3, <1>4, SumsAgree
<1>6. h[S] \in Int /\ h[T] = h[T \ {b}] + b.size
    BY <1>1, <1>2, <1>4, SumsAdd
<1> QED
    BY <1>1, <1>2, <1>3, <1>4, <1>5, <1>6

-----------------------------------------------------------------------------
(* Every step *)

(* A remainder is smaller than what it is taken by. *)
LEMMA RemainderFits == \A a \in Int : a % Wide \in 0..(Wide - 1)
BY SizeAssumption

(* What a step does to the blocks that are held and to their account. *)
Booked ==
    \/ ready' = ready /\ owned' = owned /\ heap_remaining' = heap_remaining
    \/ owned = {} /\ owned' = {} /\ heap_remaining' = Total
    \/ /\ ready' = ready
       /\ \E b : /\ b \notin owned /\ b.size \in 1..heap_remaining /\ owned' = owned \cup {b}
                 /\ heap_remaining' = heap_remaining - b.size
    \/ /\ ready' = ready
       /\ \E b \in owned : /\ owned' = owned \ {b}
                           /\ heap_remaining' = (heap_remaining + b.size) % Wide

(* Before heap_init. *)
LEMMA InitIs == Init => IndInv
<1> SUFFICES ASSUME Init PROVE IndInv
    OBVIOUS
<1>1. HB \in Nat /\ HB >= 1 /\ Half \in Nat \ {0} /\ Wide \in Nat \ {0}
    BY RegionAssumption, SizeAssumption
<1>2. Empty \in Words16 /\ Junk \in Words16
    BY <1>1, EmptyWord DEF Words16, Junk
<1>3. cell \in [-1..HB -> Words16]
    BY <1>2 DEF Init
<1>4. 0 \in 0..HB /\ 0 \in 0..MaxWalk /\ 0 \in 0..(Wide - 1) /\ NoRequest \in NoRequest..(Half - 1)
    BY <1>1 DEF MaxWalk, NoRequest
<1>5. asked \in [Tasks -> NoRequest..(Half - 1)]
    BY <1>4 DEF Init
<1>6. TypeOK
    BY <1>3, <1>4, <1>5 DEF Init, TypeOK
<1> QED
    BY <1>6 DEF Init, IndInv, Untouched

(* heap_init leaves an empty list. *)
LEMMA InitKeeps ==
    ASSUME IndInv, heap_init
    PROVE  IndInv'
<1>1. /\ TypeOK /\ owned = {} /\ ready' = TRUE
      /\ cell' = [c \in -1..HB |-> IF c <= HB - 2 THEN Empty ELSE cell[c]]
      /\ fsll_end' = 0 /\ blist_size' = 0 /\ heap_remaining' = Total
      /\ asked' = asked /\ owned' = {} /\ unchecked' = unchecked
    BY DEF IndInv, Untouched, heap_init
<1>2. HB \in Nat /\ Total \in 0..(Wide - 1)
    BY RegionAssumption, SizeAssumption
<1>3. cell' \in [-1..HB -> Words16]
    BY <1>1, EmptyWord DEF TypeOK
<1>4. PICK ad : ad = [d \in {} |-> 0]
    OBVIOUS
<1>5. Markings(cell', {}, ad)
  <2>1. \A d \in 0..(HB - 2) : d \in -1..HB /\ d <= HB - 2
      BY <1>2
  <2>2. \A d \in 0..(HB - 2) : cell'[d] = Empty
      BY <1>1, <2>1
  <2> QED
      BY <1>3, <1>4, <2>2 DEF Markings
<1>6. List(cell', {}, 0, ad) /\ Joined(cell', {}, 0) /\ Owned(cell', {}, ad, {})
    BY <1>5 DEF List, Chain, Apart, Joined, Owned
<1>7. Cardinality({}) = 0
    BY FS_EmptySet
<1>8. Sound({}, ad)'
    BY <1>1, <1>6, <1>7 DEF Sound
<1>9. Kept'
    BY <1>8 DEF Kept
<1>10. TypeOK'
    BY <1>1, <1>2, <1>3 DEF TypeOK, MaxWalk
<1> QED
    BY <1>1, <1>9, <1>10 DEF IndInv

(* A request of heap_allocate that passes the checks. *)
LEMMA AskKeeps ==
    ASSUME IndInv, NEW t \in Tasks, NEW bytes \in Requests, heap_allocate(t, bytes)
    PROVE  IndInv'
<1>1. /\ ready /\ Words(bytes) < Half /\ asked' = [asked EXCEPT ![t] = Words(bytes)]
      /\ UNCHANGED <<ready, cell, fsll_end, blist_size, heap_remaining, owned, unchecked>>
    BY DEF heap_allocate
<1>2. Words(bytes) \in NoRequest..(Half - 1)
  <2>1. bytes \in Nat /\ Wide \in Nat \ {0} /\ Half \in Nat
      BY RequestsAssumption, SizeAssumption
  <2>2. (bytes + 3) \div 4 \in Int
      BY <2>1
  <2>3. Words(bytes) \in 0..(Wide - 1)
      BY <2>2, RemainderFits DEF Words
  <2> QED
      BY <1>1, <2>1, <2>3 DEF NoRequest
<1>3. TypeOK'
    BY <1>1, <1>2 DEF IndInv, TypeOK
<1>4. Kept'
    BY <1>1 DEF IndInv, Kept, Sound
<1> QED
    BY <1>1, <1>3, <1>4 DEF IndInv

(* The history of a step is a truth value. *)
LEMMA UncheckedTyped ==
    ASSUME TypeOK, [Next]_vars
    PROVE  unchecked' \in BOOLEAN
<1>1. unchecked \in BOOLEAN
    BY DEF TypeOK
<1>2. CASE heap_init
    BY <1>1, <1>2 DEF heap_init
<1>3. ASSUME NEW t \in Tasks, NEW bytes \in Requests, heap_allocate(t, bytes)
      PROVE  unchecked' \in BOOLEAN
    BY <1>1, <1>3 DEF heap_allocate
<1>4. ASSUME NEW t \in Tasks, svc_service_gheap_allocate(t)
      PROVE  unchecked' \in BOOLEAN
    BY <1>1, <1>4 DEF svc_service_gheap_allocate, search_free_marker, add_new_allocated_marker, Hand
<1>5. ASSUME NEW b \in owned, heap_release(b)
      PROVE  unchecked' \in BOOLEAN
    BY <1>1, <1>5 DEF heap_release, svc_service_gheap_release, release_allocated_marker
<1>6. CASE UNCHANGED vars
    BY <1>1, <1>6 DEF vars
<1> QED
    BY <1>2, <1>3, <1>4, <1>5, <1>6 DEF Next

(* The service's allocation keeps the list and adds at most one block.      *)
LEMMA AllocateKeeps ==
    ASSUME IndInv, NEW t \in Tasks, svc_service_gheap_allocate(t), ~unchecked',
           unchecked' \in BOOLEAN
    PROVE  IndInv' /\ Booked
<1>1. asked[t] # NoRequest /\ ready /\ ready' = ready
  <2>1. asked[t] # NoRequest
      BY DEF svc_service_gheap_allocate
  <2>2. ready
      BY <2>1 DEF IndInv, Untouched
  <2> QED
      BY <2>1, <2>2 DEF svc_service_gheap_allocate, search_free_marker, add_new_allocated_marker
<1>2. asked' = [asked EXCEPT ![t] = NoRequest]
    BY DEF svc_service_gheap_allocate, search_free_marker, add_new_allocated_marker, Hand
<1>3. /\ Kept'
      /\ \/ owned' = owned /\ heap_remaining' = heap_remaining
         \/ /\ NewBlock(owned, asked[t], owned') /\ asked[t] \in 1..heap_remaining
            /\ heap_remaining' = heap_remaining - asked[t]
  <2>1. CASE search_free_marker(t)
      BY <1>1, <2>1, SearchKeeps
  <2>2. CASE add_new_allocated_marker(t) /\ NewCells # {}
      BY <1>1, <2>2, AddKeeps
  <2>3. CASE add_new_allocated_marker(t) /\ NewCells = {}
    <3>1. UNCHANGED <<cell, fsll_end, blist_size, heap_remaining, owned>>
        BY <2>3 DEF add_new_allocated_marker
    <3>2. Kept
        BY <1>1 DEF IndInv
    <3> QED
        BY <3>1, <3>2 DEF Kept, Sound
  <2> QED
      BY <2>1, <2>2, <2>3 DEF svc_service_gheap_allocate
<1>4. TypeOK'
  <2>1. (cell \in [-1..HB -> Words16] /\ fsll_end \in 0..HB /\ blist_size \in 0..MaxWalk)'
    <3>1. (Kept => cell \in [-1..HB -> Words16] /\ fsll_end \in 0..HB
                     /\ blist_size \in 0..MaxWalk)'
        BY KeptTypes, PTL
    <3> QED
        BY <1>3, <3>1
  <2>2. heap_remaining \in 0..(Wide - 1) /\ ready \in BOOLEAN /\ Half \in Nat \ {0}
        /\ asked \in [Tasks -> NoRequest..(Half - 1)] /\ Wide \in Nat
      BY SizeAssumption DEF IndInv, TypeOK
  <2>3. heap_remaining' \in 0..(Wide - 1)
      BY <1>3, <2>2
  <2>4. asked' \in [Tasks -> NoRequest..(Half - 1)]
    <3>1. NoRequest \in NoRequest..(Half - 1)
        BY <2>2 DEF NoRequest
    <3> QED
        BY <1>2, <2>2, <3>1
  <2> QED
      BY <1>1, <2>1, <2>2, <2>3, <2>4 DEF TypeOK
<1>5. Booked
    BY <1>1, <1>3 DEF Booked, NewBlock
<1> QED
    BY <1>1, <1>3, <1>4, <1>5 DEF IndInv

(* So does its release. *)
LEMMA ReleaseKeeps ==
    ASSUME IndInv, NEW b \in owned, heap_release(b), ~unchecked', unchecked' \in BOOLEAN
    PROVE  IndInv' /\ Booked
<1>1. ready
    BY DEF IndInv, Untouched
<1>2. PICK M, ad : Sound(M, ad)
    BY <1>1 DEF IndInv, Kept
<1>3. PICK c \in M : /\ ~IsFree(cell[c]) /\ b = Block(cell, ad, c)
                     /\ ReleaseOf(c)
                     /\ heap_remaining' = (heap_remaining + Size(cell[c])) % Wide
                     /\ owned' = owned \ {b} /\ UNCHANGED <<ready, asked>>
    BY <1>2, ReleaseFinds
<1>4. Kept'
  <2>1. CASE c = fsll_end
      BY <1>2, <1>3, <2>1, ReleaseLast
  <2>2. CASE c # fsll_end
      BY <1>2, <1>3, <2>2, ReleaseMiddle
  <2> QED
      BY <2>1, <2>2
<1>5. TypeOK'
  <2>1. (cell \in [-1..HB -> Words16] /\ fsll_end \in 0..HB /\ blist_size \in 0..MaxWalk)'
    <3>1. (Kept => cell \in [-1..HB -> Words16] /\ fsll_end \in 0..HB
                     /\ blist_size \in 0..MaxWalk)'
        BY KeptTypes, PTL
    <3> QED
        BY <1>4, <3>1
  <2>2. heap_remaining' \in 0..(Wide - 1)
    <3>1. Size(cell[c]) \in Int
        BY <1>2, ListTypes DEF Sound
    <3>2. heap_remaining \in Int
        BY DEF IndInv, TypeOK
    <3>3. heap_remaining + Size(cell[c]) \in Int
        BY <3>1, <3>2
    <3> QED
        BY <1>3, <3>3, RemainderFits
  <2> QED
      BY <1>3, <2>1, <2>2 DEF IndInv, TypeOK
<1>6. Booked
    BY <1>3 DEF Booked, Block
<1> QED
    BY <1>1, <1>3, <1>4, <1>5, <1>6 DEF IndInv

(* Every step the code should take keeps the invariant and changes what is  *)
(* held by one block at most.                                               *)
LEMMA StepKeeps ==
    ASSUME IndInv, [Next]_vars, ~unchecked'
    PROVE  IndInv' /\ Booked
<1>1. unchecked' \in BOOLEAN
    BY UncheckedTyped DEF IndInv
<1>2. CASE heap_init
  <2>1. owned = {} /\ owned' = {} /\ heap_remaining' = Total
      BY <1>2 DEF heap_init, IndInv, Untouched
  <2> QED
      BY <1>2, <2>1, InitKeeps DEF Booked
<1>3. ASSUME NEW t \in Tasks, NEW bytes \in Requests, heap_allocate(t, bytes)
      PROVE  IndInv' /\ Booked
  <2>1. Booked
      BY <1>3 DEF heap_allocate, Booked
  <2> QED
      BY <1>3, <2>1, AskKeeps
<1>4. ASSUME NEW t \in Tasks, svc_service_gheap_allocate(t)
      PROVE  IndInv' /\ Booked
    BY <1>4, <1>1, AllocateKeeps
<1>5. ASSUME NEW b \in owned, heap_release(b)
      PROVE  IndInv' /\ Booked
    BY <1>5, <1>1, ReleaseKeeps
<1>6. CASE UNCHANGED vars
  <2>1. UNCHANGED <<ready, cell, fsll_end, blist_size, heap_remaining, asked, owned, unchecked>>
      BY <1>6 DEF vars
  <2>2. Booked
      BY <2>1 DEF Booked
  <2> QED
      BY <2>1, <2>2 DEF IndInv, TypeOK, Kept, Sound, Untouched
<1> QED
    BY <1>2, <1>3, <1>4, <1>5, <1>6 DEF Next

(* Nothing takes a void promise back. *)
LEMMA UncheckedStays ==
    ASSUME unchecked, [Next]_vars
    PROVE  unchecked'
<1>1. CASE heap_init
    BY <1>1 DEF heap_init
<1>2. ASSUME NEW t \in Tasks, NEW bytes \in Requests, heap_allocate(t, bytes)
      PROVE  unchecked'
    BY <1>2 DEF heap_allocate
<1>3. ASSUME NEW t \in Tasks, svc_service_gheap_allocate(t)
      PROVE  unchecked'
    BY <1>3 DEF svc_service_gheap_allocate, search_free_marker, add_new_allocated_marker, Hand
<1>4. ASSUME NEW b \in owned, heap_release(b)
      PROVE  unchecked'
    BY <1>4 DEF heap_release, svc_service_gheap_release, release_allocated_marker
<1>5. CASE UNCHANGED vars
    BY <1>5 DEF vars
<1> QED
    BY <1>1, <1>2, <1>3, <1>4, <1>5 DEF Next

(* Nothing is void that was not.                                            *)
LEMMA UncheckedKept ==
    ASSUME ~unchecked, ~unchecked', TypeOK, TypeOK'
    PROVE  unchecked' = unchecked
BY DEF TypeOK

(* The account: what heap_remaining lacks of the whole heap is held.        *)
Counted ==
    /\ IsFiniteSet(owned)
    /\ \A b \in owned : b.size \in Nat
    /\ \A S \in SUBSET owned : Held(S) \in Nat
    /\ ready => heap_remaining = Total - Held(owned)

(* A step keeps the account. *)
LEMMA StepCounts ==
    ASSUME Counted, Booked, heap_remaining \in 0..(Wide - 1), ready \/ owned = {}
    PROVE  Counted'
<1>1. CASE ready' = ready /\ owned' = owned /\ heap_remaining' = heap_remaining
    BY <1>1 DEF Counted
<1>2. CASE owned = {} /\ owned' = {} /\ heap_remaining' = Total
  <2>1. Held(owned') = 0 /\ IsFiniteSet(owned') /\ SUBSET owned' = {{}} /\ Total \in Nat
      BY <1>2, HeldEmpty, FS_EmptySet, SizeAssumption
  <2> QED
      BY <1>2, <2>1, HeldEmpty DEF Counted
<1>3. ASSUME ready' = ready, NEW b, b \notin owned, b.size \in 1..heap_remaining,
             owned' = owned \cup {b}, heap_remaining' = heap_remaining - b.size
      PROVE  Counted'
  <2>1. IsFiniteSet(owned') /\ (\A d \in owned' : d.size \in Nat) /\ b.size \in Nat
      BY <1>3, FS_AddElement DEF Counted
  <2>2. ASSUME NEW S \in SUBSET owned
        PROVE  Held(S) \in Nat /\ Held(S \cup {b}) = Held(S) + b.size
    <3>1. IsFiniteSet(S) /\ b \notin S /\ \A d \in S \cup {b} : d.size \in Int
        BY <1>3, <2>1, FS_Subset DEF Counted
    <3> QED
        BY <3>1, HeldAdds DEF Counted
  <2>3. ASSUME NEW S \in SUBSET owned' PROVE Held(S) \in Nat
    <3>1. CASE b \notin S
        BY <1>3, <2>2, <3>1
    <3>2. CASE b \in S
      <4>1. PICK R : R = S \ {b}
          OBVIOUS
      <4>2. R \in SUBSET owned /\ S = R \cup {b}
          BY <1>3, <3>2, <4>1
      <4>3. Held(R) \in Nat /\ Held(S) = Held(R) + b.size
          BY <2>2, <4>2
      <4> QED
          BY <2>1, <4>3
    <3> QED
        BY <3>1, <3>2
  <2>4. ready => heap_remaining' = Total - Held(owned')
    <3>1. Held(owned) \in Nat /\ Held(owned') = Held(owned) + b.size /\ Total \in Nat
        BY <1>3, <2>2, SizeAssumption
    <3>2. ready => heap_remaining = Total - Held(owned)
        BY DEF Counted
    <3> QED
        BY <1>3, <2>1, <3>1, <3>2
  <2> QED
      BY <1>3, <2>1, <2>3, <2>4 DEF Counted
<1>4. ASSUME ready' = ready, NEW b \in owned, owned' = owned \ {b},
             heap_remaining' = (heap_remaining + b.size) % Wide
      PROVE  Counted'
  <2>1. IsFiniteSet(owned') /\ (\A d \in owned' : d.size \in Nat) /\ b \notin owned'
        /\ b.size \in Nat /\ ready
      BY <1>4, FS_RemoveElement DEF Counted
  <2>2. \A S \in SUBSET owned' : Held(S) \in Nat
      BY <1>4 DEF Counted
  <2>3. owned = owned' \cup {b} /\ \A d \in owned' \cup {b} : d.size \in Int
      BY <1>4, <2>1
  <2>4. Held(owned') \in Nat /\ Held(owned) = Held(owned') + b.size
      BY <2>1, <2>2, <2>3, HeldAdds
  <2>5. heap_remaining + b.size = Total - Held(owned')
    <3>1. heap_remaining = Total - Held(owned) /\ Total \in Nat
        BY <2>1, SizeAssumption DEF Counted
    <3> QED
        BY <2>1, <2>4, <3>1
  <2>6. heap_remaining + b.size \in 0..(Wide - 1)
    <3>1. Total \in 0..(Wide - 1) /\ Wide \in Nat
        BY SizeAssumption
    <3> QED
        BY <2>1, <2>4, <2>5, <3>1
  <2>7. \A r \in 0..(Wide - 1) : r % Wide = r
      BY SizeAssumption
  <2> QED
      BY <1>4, <2>1, <2>2, <2>5, <2>6, <2>7 DEF Counted
<1> QED
    BY <1>1, <1>2, <1>3, <1>4 DEF Booked

-----------------------------------------------------------------------------
(* Theorems *)

(* Until a step the code should have refused, the invariant holds: fsll_end *)
(* and blist_size describe a list of disjoint blocks, the callers'.         *)
THEOREM HeapInvariant == Spec => [](~unchecked => IndInv)
<1>1. Init => (~unchecked => IndInv)
    BY InitIs
<1>2. (~unchecked => IndInv) /\ [Next]_vars => (~unchecked => IndInv)'
    BY StepKeeps, UncheckedStays
<1> QED
    BY <1>1, <1>2, PTL DEF Spec

(* Nothing is held at first. *)
LEMMA NothingHeld == Init => Allocated = {}
<1> SUFFICES ASSUME Init PROVE Allocated = {}
    OBVIOUS
<1>1. 1..blist_size = {}
    BY DEF Init
<1> QED
    BY <1>1 DEF Allocated

(* The blocks that are held lie apart. *)
LEMMA HeldApart == IndInv => \A b, d \in owned : b # d => A!Disjoint(b, d)
<1> SUFFICES ASSUME IndInv, NEW b \in owned, NEW d \in owned, b # d
             PROVE  A!Disjoint(b, d)
    OBVIOUS
<1>1. PICK M, ad : Sound(M, ad)
    BY DEF IndInv, Untouched, Kept
<1>2. PICK c \in M : b = Block(cell, ad, c)
    BY <1>1 DEF Sound, Owned
<1>3. PICK e \in M : d = Block(cell, ad, e)
    BY <1>1 DEF Sound, Owned
<1>4. c # e
    BY <1>2, <1>3
<1>5. ad[c] + Size(cell[c]) <= ad[e] \/ ad[e] + Size(cell[e]) <= ad[c]
    BY <1>1, <1>4 DEF Sound, List, Apart, End
<1> QED
    BY <1>2, <1>3, <1>5 DEF A!Disjoint, Block

(* Every step is one of the allocator or a stutter.                         *)
LEMMA StepAllocates ==
    ASSUME ~unchecked => IndInv, [Next]_vars
    PROVE  [A!Next]_<<Allocated, unchecked>>
<1>1. CASE unchecked'
    BY <1>1 DEF A!Next
<1>2. CASE ~unchecked'
  <2>1. IndInv /\ IndInv' /\ Booked /\ ~unchecked
      BY <1>2, StepKeeps, UncheckedStays
  <2>2. Allocated = owned
      BY <2>1, KeptAgrees
  <2>3. Allocated' = owned'
    <3>1. (IndInv => Allocated = owned)'
        BY KeptAgrees, PTL
    <3> QED
        BY <2>1, <3>1
  <2>4. \A b, d \in owned' : b # d => A!Disjoint(b, d)
    <3>1. (IndInv => \A b, d \in owned : b # d => A!Disjoint(b, d))'
        BY HeldApart, PTL
    <3> QED
        BY <2>1, <3>1
  <2>5. CASE owned' = owned
    <3>1. unchecked' = unchecked
        BY <1>2, <2>1, UncheckedKept DEF IndInv
    <3> QED
        BY <2>2, <2>3, <2>5, <3>1
  <2>6. ASSUME NEW b, owned' = owned \cup {b}, b \notin owned, b.size > 0
        PROVE  A!Alloc
    <3>1. b \in Allocated' \ Allocated /\ Allocated' = Allocated \cup {b}
        BY <2>2, <2>3, <2>6
    <3>2. \A d \in Allocated : A!Disjoint(b, d)
        BY <2>2, <2>4, <2>6
    <3> QED
        BY <2>6, <3>1, <3>2 DEF A!Alloc
  <2>7. ASSUME NEW b \in owned, owned' = owned \ {b}
        PROVE  A!Release
      BY <2>2, <2>3, <2>7 DEF A!Release
  <2>8. \/ owned' = owned
        \/ \E b : b \notin owned /\ b.size > 0 /\ owned' = owned \cup {b}
        \/ \E b \in owned : owned' = owned \ {b}
    <3>1. \A x \in 1..heap_remaining : x > 0
        OBVIOUS
    <3> QED
        BY <2>1, <3>1 DEF Booked
  <2> QED
      BY <1>2, <2>1, <2>5, <2>6, <2>7, <2>8 DEF A!Next
<1> QED
    BY <1>1, <1>2

(* The variables of the heap keep their types: no size or count outgrows    *)
(* its field, until a step the code should have refused.                    *)
THEOREM HeapTyped == Spec => [](~unchecked => TypeOK)
<1>1. (~unchecked => IndInv) => (~unchecked => TypeOK)
    BY DEF IndInv
<1> QED
    BY <1>1, HeapInvariant, PTL

(* fsll_end and blist_size describe one list, and no word of the region     *)
(* outside it is taken, however search_free_marker splits and               *)
(* release_allocated_marker joins, until a step the code should have        *)
(* refused.                                                                 *)
THEOREM ListStaysSound == Spec => []ListSound
BY HeapInvariant, KeptIsSound, PTL

(* The markers of the list that are not free are exactly the blocks the     *)
(* callers were given by gheap_allocate and have not released, until a step *)
(* the code should have refused.                                            *)
THEOREM OwnersStayAgreed == Spec => []OwnersAgree
<1>1. (~unchecked => IndInv) => OwnersAgree
    BY KeptAgrees DEF OwnersAgree
<1> QED
    BY <1>1, HeapInvariant, PTL

(* heap_remaining is the number of words nobody holds, until a step the     *)
(* code should have refused; one of these is the request that passed its    *)
(* check before another caller took the words.                              *)
THEOREM RemainingStaysExact == Spec => []RemainingExact
<1>1. Init => (~unchecked => Counted)
  <2> SUFFICES ASSUME Init PROVE Counted
      OBVIOUS
  <2>1. owned = {} /\ ~ready /\ SUBSET owned = {{}}
      BY DEF Init
  <2> QED
      BY <2>1, FS_EmptySet, HeldEmpty DEF Counted
<1>2. (~unchecked => IndInv) /\ [Next]_vars /\ (~unchecked => Counted) => (~unchecked => Counted)'
  <2> SUFFICES ASSUME ~unchecked => IndInv, [Next]_vars, ~unchecked => Counted, ~unchecked'
               PROVE  Counted'
      OBVIOUS
  <2>1. IndInv /\ Counted /\ Booked
      BY StepKeeps, UncheckedStays
  <2>2. heap_remaining \in 0..(Wide - 1) /\ (ready \/ owned = {})
      BY <2>1 DEF IndInv, TypeOK, Untouched
  <2> QED
      BY <2>1, <2>2, StepCounts
<1>3. (~unchecked => IndInv) /\ (~unchecked => Counted) => RemainingExact
  <2> SUFFICES ASSUME IndInv, Counted PROVE RemainingExact
      BY DEF RemainingExact
  <2>1. Allocated = owned
      BY KeptAgrees
  <2>2. ready => heap_remaining = Total - Held(Allocated)
      BY <2>1 DEF Counted
  <2> QED
      BY <2>2 DEF RemainingExact, Held
<1> QED
    BY <1>1, <1>2, <1>3, HeapInvariant, PTL DEF Spec

(* gheap_allocate hands out words nobody holds and gheap_release takes back *)
(* exactly the block it names, until a step the code should have refused:   *)
(* the marker list implements the allocator.                                *)
THEOREM HeapImplementsAllocator == Spec => ImplementsAllocator
<1>1. Init => A!Init
    BY NothingHeld DEF Init, A!Init
<1>2. (~unchecked => IndInv) /\ [Next]_vars => [A!Next]_<<Allocated, unchecked>>
    BY StepAllocates
<1> QED
    BY <1>1, <1>2, HeapInvariant, PTL DEF Spec, ImplementsAllocator, A!Spec

=============================================================================
