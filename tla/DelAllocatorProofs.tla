------------------------- MODULE DelAllocatorProofs -------------------------
(***************************************************************************)
(* Proofs about MCAllocators, for any number of slabs, any requests and    *)
(* any capacity: no two allocations overlap, none outlives its slab, the   *)
(* two free lists agree, and an idle slab is one free middle again, which  *)
(* is why allocate_slab may erase it without looking at free_by_size_.     *)
(*                                                                         *)
(* The argument: every unit outside the middles belongs to a block, and no *)
(* free block touches another one or a middle.  So the unit next to a free *)
(* block belongs to an allocation, and a slab without allocations has no   *)
(* free block.  This is Tiled, stated for any slabs S with their sizes and *)
(* ends, allocations L and free blocks F, because a step may allocate a    *)
(* slab and cut a block from it at once.                                   *)
(*                                                                         *)
(* Both allocators of a device implement a heap.  What remains for that is *)
(* that reserved() and allocated() are sums of what they have and have     *)
(* lent: a dptr is new (DptrIsNew), and the slabs that go are counted.     *)
(***************************************************************************)
EXTENDS MCAllocators, FiniteSetTheorems, TLAPS

Tiled(S, sz, l, r, L, F) ==
    /\ S \subseteq SlabIds
    /\ sz \in [SlabIds -> Nat] /\ l \in [SlabIds -> Nat] /\ r \in [SlabIds -> Nat]
    /\ L \subseteq BlockType /\ F \subseteq BlockType
    /\ \A s \in S : l[s] <= r[s] /\ r[s] <= sz[s]
    /\ \A b \in L \cup F : /\ b.slab \in S
                           /\ End(b) <= l[b.slab] \/ b.offset >= r[b.slab]
                           /\ End(b) <= sz[b.slab]
    /\ L \cap F = {}
    /\ \A b, c \in L \cup F : b # c => Apart(b, c)
    /\ \A s \in S : \A x \in Nat :
          x < sz[s] /\ (x < l[s] \/ x >= r[s]) =>
              \E b \in L \cup F : b.slab = s /\ b.offset <= x /\ x < End(b)
    /\ \A f, g \in F : f.slab = g.slab => End(f) # g.offset
    /\ \A f \in F : End(f) # l[f.slab] /\ f.offset # r[f.slab]

(* The slabs to come are empty.                                            *)
Unborn == \A s \in SlabIds : s > born => left[s] = 0

Counted == \A s \in SlabIds : active[s] = Cardinality(On(live, s))

IInv ==
    /\ TypeOK
    /\ IsFiniteSet(live)
    /\ Unborn
    /\ Counted
    /\ FreeListsAgree
    /\ Tiled(slabs, size, left, right, live, free)

----------------------------------------------------------------------------
(* What Tiled says of one block, one slab and two blocks.                  *)

LEMMA BlockFacts ==
    ASSUME NEW b \in BlockType
    PROVE  /\ b.slab \in SlabIds /\ b.offset \in Nat /\ b.size \in Nat \ {0}
           /\ End(b) = b.offset + b.size /\ End(b) \in Nat /\ b.offset < End(b)
BY DEF BlockType, End

LEMMA KnownBlock ==
    ASSUME NEW S, NEW sz, NEW l, NEW r, NEW L, NEW F, Tiled(S, sz, l, r, L, F),
           NEW b \in L \cup F
    PROVE  /\ b \in BlockType /\ b.slab \in SlabIds /\ b.slab \in S
           /\ b.offset \in Nat /\ b.size \in Nat \ {0}
           /\ End(b) = b.offset + b.size /\ End(b) \in Nat /\ b.offset < End(b)
           /\ End(b) <= l[b.slab] \/ b.offset >= r[b.slab]
           /\ End(b) <= sz[b.slab]
<1>1. /\ b \in BlockType /\ b.slab \in S
      /\ End(b) <= l[b.slab] \/ b.offset >= r[b.slab]
      /\ End(b) <= sz[b.slab]
  BY DEF Tiled
<1> QED
  BY <1>1, BlockFacts

LEMMA KnownSlab ==
    ASSUME NEW S, NEW sz, NEW l, NEW r, NEW L, NEW F, Tiled(S, sz, l, r, L, F),
           NEW s \in S
    PROVE  /\ s \in SlabIds
           /\ l[s] \in Nat /\ r[s] \in Nat /\ sz[s] \in Nat
           /\ l[s] <= r[s] /\ r[s] <= sz[s]
BY DEF Tiled

LEMMA KnownApart ==
    ASSUME NEW S, NEW sz, NEW l, NEW r, NEW L, NEW F, Tiled(S, sz, l, r, L, F),
           NEW b \in L \cup F, NEW c \in L \cup F, b # c, b.slab = c.slab
    PROVE  /\ End(b) <= c.offset \/ End(c) <= b.offset
           /\ b \in F /\ c \in F => End(b) < c.offset \/ End(c) < b.offset
<1>1. End(b) <= c.offset \/ End(c) <= b.offset
  BY DEF Tiled, Apart
<1>2. b \in F /\ c \in F => End(b) # c.offset /\ End(c) # b.offset
  BY DEF Tiled
<1>3. b.offset \in Nat /\ c.offset \in Nat /\ End(b) \in Nat /\ End(c) \in Nat
  BY KnownBlock
<1> QED
  BY <1>1, <1>2, <1>3

LEMMA KnownCover ==
    ASSUME NEW S, NEW sz, NEW l, NEW r, NEW L, NEW F, Tiled(S, sz, l, r, L, F),
           NEW s \in S, NEW x \in Nat, x < sz[s], x < l[s] \/ x >= r[s]
    PROVE  \E b \in L \cup F : b.slab = s /\ b.offset <= x /\ x < End(b)
BY DEF Tiled

(* A slab without allocations has no block: the units next to a free one   *)
(* would have to belong to another block.                                  *)
LEMMA IdleEmpty ==
    ASSUME NEW S, NEW sz, NEW l, NEW r, NEW L, NEW F, Tiled(S, sz, l, r, L, F),
           NEW s \in S, \A b \in L : b.slab # s
    PROVE  (\A f \in F : f.slab # s) /\ l[s] = 0 /\ r[s] = sz[s]
<1>1. /\ l[s] \in Nat /\ r[s] \in Nat /\ sz[s] \in Nat
      /\ l[s] <= r[s] /\ r[s] <= sz[s]
  BY KnownSlab
<1>2. ASSUME NEW x \in Nat, x < sz[s], x < l[s] \/ x >= r[s]
      PROVE  \E b \in F : b.slab = s /\ b.offset <= x /\ x < End(b)
  BY <1>2, KnownCover
<1>3. ASSUME NEW f \in F, f.slab = s PROVE FALSE
  <2>1. /\ f.offset \in Nat /\ End(f) \in Nat /\ f.offset < End(f)
        /\ End(f) <= l[s] \/ f.offset >= r[s]
        /\ End(f) <= sz[s]
    BY <1>3, KnownBlock
  <2>2. End(f) # l[s] /\ f.offset # r[s]
    BY <1>3 DEF Tiled
  <2>3. ASSUME NEW b \in F, b.slab = s, b # f
        PROVE  /\ b.offset \in Nat /\ End(b) \in Nat /\ b.offset < End(b)
               /\ End(b) < f.offset \/ End(f) < b.offset
    BY <1>3, <2>3, KnownBlock, KnownApart
  <2>4. CASE End(f) <= l[s]
    <3>1. End(f) < l[s] /\ End(f) < sz[s]
      BY <1>1, <2>1, <2>2, <2>4
    <3>2. PICK b \in F : b.slab = s /\ b.offset <= End(f) /\ End(f) < End(b)
      BY <1>2, <2>1, <3>1
    <3> QED
      BY <2>1, <2>3, <3>2
  <2>5. CASE f.offset >= r[s]
    <3>1. f.offset - 1 \in Nat /\ f.offset - 1 >= r[s] /\ f.offset - 1 < sz[s]
      BY <1>1, <2>1, <2>2, <2>5
    <3>2. PICK b \in F : b.slab = s /\ b.offset <= f.offset - 1 /\ f.offset - 1 < End(b)
      BY <1>2, <3>1
    <3>3. b # f
      BY <2>1, <3>2
    <3> QED
      BY <2>1, <2>3, <3>2, <3>3
  <2> QED
    BY <2>1, <2>4, <2>5
<1>4. ASSUME NEW x \in Nat, x < sz[s], x < l[s] \/ x >= r[s] PROVE FALSE
  BY <1>2, <1>3, <1>4
<1>5. l[s] = 0 /\ r[s] = sz[s]
  BY <1>1, <1>4
<1> QED
  BY <1>3, <1>5

----------------------------------------------------------------------------
(* How the tiling changes.                                                 *)

(* A block of n units at o is cut from the left or the right end of the    *)
(* middle of slab s, whose ends are then l2 and r2.                        *)
Cut(s, n, l, r, o, l2, r2) ==
    /\ l2 \in [SlabIds -> Nat] /\ r2 \in [SlabIds -> Nat]
    /\ \A t \in SlabIds : t # s => l2[t] = l[t] /\ r2[t] = r[t]
    /\ \/ o = l[s] /\ l2[s] = l[s] + n /\ r2[s] = r[s]
       \/ o = r[s] - n /\ l2[s] = l[s] /\ r2[s] = r[s] - n

LEMMA BumpTiled ==
    ASSUME NEW S, NEW sz, NEW l, NEW r, NEW L, NEW F, Tiled(S, sz, l, r, L, F),
           NEW s \in S, NEW n \in Nat \ {0}, n <= r[s] - l[s],
           NEW o, NEW l2, NEW r2, Cut(s, n, l, r, o, l2, r2),
           NEW b, b = Block(s, o, n)
    PROVE  b \in BlockType /\ b \notin L /\ Tiled(S, sz, l2, r2, L \cup {b}, F)
<1>1. /\ s \in SlabIds /\ l[s] \in Nat /\ r[s] \in Nat /\ sz[s] \in Nat
      /\ l[s] <= r[s] /\ r[s] <= sz[s]
  BY KnownSlab
<1>2. /\ b \in BlockType /\ b.slab = s /\ b.offset \in Nat /\ End(b) = b.offset + n
      /\ b.offset = o
  <2>1. o \in Nat
    BY <1>1 DEF Cut
  <2> QED
    BY <1>1, <2>1 DEF BlockType, Block, End
<1>3. ASSUME NEW c \in L \cup F, c.slab = s
      PROVE  /\ c # b
             /\ End(b) <= c.offset \/ End(c) <= b.offset
             /\ End(c) <= l[s] \/ c.offset >= r[s]
             /\ c.offset \in Nat /\ End(c) \in Nat /\ c.offset < End(c)
  <2>1. /\ c.offset \in Nat /\ End(c) \in Nat /\ c.offset < End(c)
        /\ End(c) <= l[s] \/ c.offset >= r[s]
    BY <1>3, KnownBlock
  <2>2. b.offset >= l[s] /\ End(b) <= r[s] /\ b.offset < End(b)
    BY <1>1, <1>2 DEF Cut
  <2>3. c # b
    BY <1>1, <1>2, <2>1, <2>2
  <2> QED
    BY <1>1, <1>2, <2>1, <2>2, <2>3
<1>4. b \notin L /\ b \notin F
  BY <1>2, <1>3
<1>5. /\ l2 \in [SlabIds -> Nat] /\ r2 \in [SlabIds -> Nat]
      /\ \/ o = l[s] /\ l2[s] = l[s] + n /\ r2[s] = r[s]
         \/ o = r[s] - n /\ l2[s] = l[s] /\ r2[s] = r[s] - n
      /\ \A t \in SlabIds : t # s => l2[t] = l[t] /\ r2[t] = r[t]
  BY DEF Cut
<1>6. \A t \in S : l2[t] <= r2[t] /\ r2[t] <= sz[t]
  <2> TAKE t \in S
  <2>1. t \in SlabIds /\ l[t] <= r[t] /\ r[t] <= sz[t]
    BY KnownSlab
  <2> QED
    BY <1>1, <1>5, <2>1
<1>7. \A c \in L \cup {b} \cup F : /\ c.slab \in S
                                   /\ End(c) <= l2[c.slab] \/ c.offset >= r2[c.slab]
                                   /\ End(c) <= sz[c.slab]
  <2> TAKE c \in L \cup {b} \cup F
  <2>1. CASE c = b
    BY <1>1, <1>2, <1>5, <2>1
  <2>2. CASE c # b /\ c.slab = s
    BY <1>1, <1>3, <1>5, <2>2, KnownBlock
  <2>3. CASE c # b /\ c.slab # s
    BY <1>5, <2>3, KnownBlock
  <2> QED
    BY <2>1, <2>2, <2>3
<1>8. \A c, e \in L \cup {b} \cup F : c # e => Apart(c, e)
  BY <1>2, <1>3 DEF Tiled, Apart
<1>9. ASSUME NEW t \in S, NEW x \in Nat, x < sz[t], x < l2[t] \/ x >= r2[t]
      PROVE  \E c \in L \cup {b} \cup F : c.slab = t /\ c.offset <= x /\ x < End(c)
  <2>1. t \in SlabIds /\ l[t] \in Nat /\ r[t] \in Nat
    BY KnownSlab
  <2>2. CASE x < l[t] \/ x >= r[t]
    BY <1>9, <2>2, KnownCover
  <2>3. CASE ~(x < l[t] \/ x >= r[t])
    BY <1>1, <1>2, <1>5, <1>9, <2>1, <2>3
  <2> QED
    BY <2>2, <2>3
<1>10. ASSUME NEW f \in F PROVE End(f) # l2[f.slab] /\ f.offset # r2[f.slab]
  <2>1. f.slab \in SlabIds /\ End(f) # l[f.slab] /\ f.offset # r[f.slab]
    BY KnownBlock DEF Tiled
  <2>2. CASE f.slab # s
    BY <1>5, <2>1, <2>2
  <2>3. CASE f.slab = s
    BY <1>1, <1>3, <1>5, <2>1, <2>3
  <2> QED
    BY <2>2, <2>3
<1>11. Tiled(S, sz, l2, r2, L \cup {b}, F)
  BY <1>2, <1>4, <1>5, <1>6, <1>7, <1>8, <1>9, <1>10 DEF Tiled
<1> QED
  BY <1>2, <1>4, <1>11

(* A free block is cut in two, and the first part is allocated.            *)
LEMMA SplitTiled ==
    ASSUME NEW S, NEW sz, NEW l, NEW r, NEW L, NEW F, Tiled(S, sz, l, r, L, F),
           NEW b \in F, NEW n \in Nat \ {0}, n <= b.size,
           NEW t, t = Block(b.slab, b.offset, n)
    PROVE  /\ t \in BlockType /\ t \notin L
           /\ Tiled(S, sz, l, r, L \cup {t}, (F \ {b}) \cup Remainder(b, n))
<1> DEFINE F2 == (F \ {b}) \cup Remainder(b, n)
<1>1. /\ b \in BlockType /\ b.slab \in SlabIds /\ b.slab \in S
      /\ b.offset \in Nat /\ b.size \in Nat \ {0}
      /\ End(b) = b.offset + b.size /\ End(b) \in Nat
      /\ End(b) <= l[b.slab] \/ b.offset >= r[b.slab]
      /\ End(b) <= sz[b.slab]
  BY KnownBlock
<1>2. /\ t \in BlockType /\ t.slab = b.slab /\ t.offset = b.offset
      /\ End(t) = b.offset + n
  BY <1>1 DEF BlockType, Block, End
<1>3. ASSUME NEW c \in Remainder(b, n)
      PROVE  /\ c \in BlockType /\ c.slab = b.slab /\ c.offset = b.offset + n
             /\ End(c) = End(b) /\ n < b.size
  BY <1>1 DEF Remainder, BlockType, Block, End
<1>4. n < b.size => \E c \in Remainder(b, n) : TRUE
  BY DEF Remainder
<1>5. \A c, e \in Remainder(b, n) : c = e
  BY DEF Remainder
<1>6. ASSUME NEW c \in (L \cup F) \ {b}, c.slab = b.slab
      PROVE  /\ c.offset \in Nat /\ End(c) \in Nat /\ c.offset < End(c)
             /\ End(c) <= b.offset \/ End(b) <= c.offset
             /\ c \in F => End(c) < b.offset \/ End(b) < c.offset
  BY <1>6, KnownBlock, KnownApart
<1>7. t \notin L /\ t \notin F2
  <2>1. t \notin (L \cup F) \ {b}
    BY <1>1, <1>2, <1>6
  <2>2. b \notin L
    BY DEF Tiled
  <2>3. t \notin Remainder(b, n)
    BY <1>1, <1>2, <1>3
  <2> QED
    BY <2>1, <2>2, <2>3
<1>8. L \cap F2 = {}
  <2>1. ASSUME NEW c \in L, c \in Remainder(b, n) PROVE FALSE
    <3>1. c # b
      BY DEF Tiled
    <3> QED
      BY <1>1, <1>3, <1>6, <2>1, <3>1
  <2> QED
    BY <2>1 DEF Tiled
<1>9. \A c \in L \cup {t} \cup F2 : /\ c.slab \in S
                                    /\ End(c) <= l[c.slab] \/ c.offset >= r[c.slab]
                                    /\ End(c) <= sz[c.slab]
  <2> TAKE c \in L \cup {t} \cup F2
  <2>1. CASE c \in L \cup F
    BY <2>1, KnownBlock
  <2>2. l[b.slab] \in Nat /\ r[b.slab] \in Nat /\ sz[b.slab] \in Nat
    BY <1>1, KnownSlab
  <2>3. CASE c = t
    BY <1>1, <1>2, <2>2, <2>3
  <2>4. CASE c \in Remainder(b, n)
    BY <1>1, <1>3, <2>2, <2>4
  <2> QED
    BY <2>1, <2>3, <2>4
<1>10. \A c, e \in L \cup {t} \cup F2 : c # e => Apart(c, e)
  <2>1. ASSUME NEW c \in (L \cup F) \ {b}, NEW e \in {t} \cup Remainder(b, n)
        PROVE  Apart(c, e) /\ Apart(e, c)
    <3>1. CASE c.slab # b.slab
      BY <1>2, <1>3, <2>1, <3>1 DEF Apart
    <3>2. CASE c.slab = b.slab
      <4>1. /\ e.slab = b.slab /\ e.offset \in Nat /\ End(e) \in Nat
            /\ b.offset <= e.offset /\ End(e) <= End(b)
        BY <1>1, <1>2, <1>3, <2>1
      <4> QED
        BY <1>1, <1>6, <2>1, <3>2, <4>1 DEF Apart
    <3> QED
      BY <3>1, <3>2
  <2>2. ASSUME NEW c \in Remainder(b, n) PROVE Apart(c, t) /\ Apart(t, c)
    BY <1>1, <1>2, <1>3, <2>2 DEF Apart
  <2>3. \A c, e \in (L \cup F) \ {b} : c # e => Apart(c, e)
    BY DEF Tiled
  <2>4. L \cup {t} \cup F2 = ((L \cup F) \ {b}) \cup {t} \cup Remainder(b, n)
    BY DEF Tiled
  <2> QED
    BY <1>5, <2>1, <2>2, <2>3, <2>4
<1>11. ASSUME NEW s \in S, NEW x \in Nat, x < sz[s], x < l[s] \/ x >= r[s]
       PROVE  \E c \in L \cup {t} \cup F2 : c.slab = s /\ c.offset <= x /\ x < End(c)
  <2>1. PICK c \in L \cup F : c.slab = s /\ c.offset <= x /\ x < End(c)
    BY <1>11, KnownCover
  <2>2. CASE c # b
    BY <2>1, <2>2
  <2>3. CASE c = b /\ x < b.offset + n
    BY <1>1, <1>2, <2>1, <2>3
  <2>4. CASE c = b /\ ~(x < b.offset + n)
    BY <1>1, <1>3, <1>4, <2>1, <2>4
  <2> QED
    BY <2>2, <2>3, <2>4
<1>12. \A f, g \in F2 : f.slab = g.slab => End(f) # g.offset
  <2> SUFFICES ASSUME NEW f \in F2, NEW g \in F2, f.slab = g.slab
               PROVE  End(f) # g.offset
    OBVIOUS
  <2>1. CASE f \in F \ {b} /\ g \in F \ {b}
    BY <2>1 DEF Tiled
  <2>2. CASE f \in Remainder(b, n) /\ g \in Remainder(b, n)
    BY <1>1, <1>3, <2>2
  <2>3. CASE f \in F \ {b} /\ g \in Remainder(b, n)
    BY <1>1, <1>3, <1>6, <2>3
  <2>4. CASE f \in Remainder(b, n) /\ g \in F \ {b}
    BY <1>1, <1>3, <1>6, <2>4
  <2> QED
    BY <2>1, <2>2, <2>3, <2>4
<1>13. \A f \in F2 : End(f) # l[f.slab] /\ f.offset # r[f.slab]
  <2> TAKE f \in F2
  <2>1. CASE f \in F
    BY <2>1 DEF Tiled
  <2>2. CASE f \in Remainder(b, n)
    <3>1. End(b) # l[b.slab]
      BY DEF Tiled
    <3>2. l[b.slab] \in Nat /\ r[b.slab] \in Nat /\ l[b.slab] <= r[b.slab]
      BY <1>1, KnownSlab
    <3> QED
      BY <1>1, <1>3, <2>2, <3>1, <3>2
  <2> QED
    BY <2>1, <2>2
<1>14. F2 \subseteq BlockType /\ L \cup {t} \subseteq BlockType /\ (L \cup {t}) \cap F2 = {}
  BY <1>2, <1>3, <1>7, <1>8 DEF Tiled
<1> HIDE DEF F2
<1>15. /\ S \subseteq SlabIds
       /\ sz \in [SlabIds -> Nat] /\ l \in [SlabIds -> Nat] /\ r \in [SlabIds -> Nat]
       /\ \A s \in S : l[s] <= r[s] /\ r[s] <= sz[s]
  BY DEF Tiled
<1>16. Tiled(S, sz, l, r, L \cup {t}, F2)
  BY <1>9, <1>10, <1>11, <1>12, <1>13, <1>14, <1>15 DEF Tiled
<1> QED
  BY <1>2, <1>7, <1>16 DEF F2

(* Slabs without allocations are dropped.                                  *)
LEMMA DropTiled ==
    ASSUME NEW S, NEW sz, NEW l, NEW r, NEW L, NEW F, Tiled(S, sz, l, r, L, F),
           NEW D, \A b \in L : b.slab \notin D
    PROVE  Tiled(S \ D, sz, l, r, L, F) /\ \A f \in F : f.slab \notin D
<1>1. \A f \in F : f.slab \notin D
  <2> SUFFICES ASSUME NEW f \in F, f.slab \in D PROVE FALSE
    OBVIOUS
  <2>1. f.slab \in S
    BY KnownBlock
  <2> QED
    BY <2>1, IdleEmpty
<1>2. \A b \in L \cup F : /\ b.slab \in S \ D
                          /\ End(b) <= l[b.slab] \/ b.offset >= r[b.slab]
                          /\ End(b) <= sz[b.slab]
  BY <1>1, KnownBlock
<1>3. ASSUME NEW s \in S \ D, NEW x \in Nat, x < sz[s], x < l[s] \/ x >= r[s]
      PROVE  \E b \in L \cup F : b.slab = s /\ b.offset <= x /\ x < End(b)
  BY <1>3, KnownCover
<1> QED
  BY <1>1, <1>2, <1>3 DEF Tiled

(* A slab is added, with all of it in the middle.                          *)
LEMMA AddTiled ==
    ASSUME NEW S, NEW sz, NEW l, NEW r, NEW L, NEW F, Tiled(S, sz, l, r, L, F),
           NEW k \in SlabIds \ S, l[k] = 0, NEW m \in Nat
    PROVE  Tiled(S \cup {k}, [sz EXCEPT ![k] = m], l, [r EXCEPT ![k] = m], L, F)
<1> DEFINE sz2 == [sz EXCEPT ![k] = m]
           r2 == [r EXCEPT ![k] = m]
<1>1. /\ sz2 \in [SlabIds -> Nat] /\ r2 \in [SlabIds -> Nat] /\ sz2[k] = m /\ r2[k] = m
      /\ \A s \in SlabIds : s # k => sz2[s] = sz[s] /\ r2[s] = r[s]
  BY DEF Tiled
<1> HIDE DEF sz2, r2
<1>2. \A b \in L \cup F : b.slab \in S /\ b.slab # k /\ b.slab \in SlabIds
  BY KnownBlock
<1>3. \A s \in S : s \in SlabIds /\ s # k
  BY KnownSlab
<1>4. Tiled(S \cup {k}, sz2, l, r2, L, F)
  <2>1. \A s \in S \cup {k} : l[s] <= r2[s] /\ r2[s] <= sz2[s]
    BY <1>1, <1>3 DEF Tiled
  <2>2. \A b \in L \cup F : /\ b.slab \in S \cup {k}
                            /\ End(b) <= l[b.slab] \/ b.offset >= r2[b.slab]
                            /\ End(b) <= sz2[b.slab]
    BY <1>1, <1>2, KnownBlock
  <2>3. ASSUME NEW s \in S \cup {k}, NEW x \in Nat, x < sz2[s], x < l[s] \/ x >= r2[s]
        PROVE  \E b \in L \cup F : b.slab = s /\ b.offset <= x /\ x < End(b)
    BY <1>1, <1>3, <2>3, KnownCover
  <2>4. \A f \in F : End(f) # l[f.slab] /\ f.offset # r2[f.slab]
    BY <1>1, <1>2 DEF Tiled
  <2> QED
    BY <1>1, <2>1, <2>2, <2>3, <2>4 DEF Tiled
<1> QED
  BY <1>4 DEF sz2, r2

Above(F, b) == {f \in F : f.slab = b.slab /\ f.offset = End(b)}
Below(F, b) == {f \in F : f.slab = b.slab /\ End(f) = b.offset}
Reaches(hi, A, b)     == (A = {} /\ hi = End(b)) \/ (\E f \in A : hi = End(f))
ReachesDown(lo, B, b) == (B = {} /\ lo = b.offset) \/ (\E f \in B : lo = f.offset)

(* A block that is given back, with the free blocks A right after it and B *)
(* right before it, fills [lo, hi), and nothing else reaches into that.    *)
LEMMA Merged ==
    ASSUME NEW S, NEW sz, NEW l, NEW r, NEW L, NEW F, Tiled(S, sz, l, r, L, F),
           NEW b \in L,
           NEW A, A = Above(F, b), NEW B, B = Below(F, b),
           NEW hi, Reaches(hi, A, b), NEW lo, ReachesDown(lo, B, b)
    PROVE  /\ lo \in Nat /\ hi \in Nat /\ lo <= b.offset /\ End(b) <= hi /\ lo < hi
           /\ hi <= l[b.slab] \/ lo >= r[b.slab]
           /\ hi <= sz[b.slab]
           /\ \A c \in ((L \ {b}) \cup F) \ (A \cup B) : c.slab = b.slab =>
                 /\ End(c) <= lo \/ hi <= c.offset
                 /\ c \in F => End(c) < lo \/ hi < c.offset
           /\ \A c \in {b} \cup A \cup B : c.slab = b.slab /\ lo <= c.offset /\ End(c) <= hi
<1> DEFINE s == b.slab
<1>1. /\ b \in L \cup F /\ s \in S
      /\ b.offset \in Nat /\ End(b) \in Nat /\ b.offset < End(b)
      /\ End(b) <= l[s] \/ b.offset >= r[s]
      /\ End(b) <= sz[s]
  BY KnownBlock
<1>2. l[s] \in Nat /\ r[s] \in Nat /\ sz[s] \in Nat /\ l[s] <= r[s] /\ r[s] <= sz[s]
  BY <1>1, KnownSlab
<1>3. ASSUME NEW c \in L \cup F, c.slab = s
      PROVE  /\ c.offset \in Nat /\ End(c) \in Nat /\ c.offset < End(c)
             /\ End(c) <= l[s] \/ c.offset >= r[s]
             /\ End(c) <= sz[s]
             /\ c \in F => End(c) # l[s] /\ c.offset # r[s]
             /\ c # b => End(c) <= b.offset \/ End(b) <= c.offset
             /\ c \in F => c # b
  <2>1. c \in F => End(c) # l[s] /\ c.offset # r[s] /\ c # b
    BY <1>3 DEF Tiled
  <2>2. c # b => End(c) <= b.offset \/ End(b) <= c.offset
    BY <1>1, <1>3, KnownApart
  <2> QED
    BY <1>3, <2>1, <2>2, KnownBlock
<1>4. ASSUME NEW c \in L \cup F, NEW e \in L \cup F, c.slab = s, e.slab = s, c # e
      PROVE  /\ End(c) <= e.offset \/ End(e) <= c.offset
             /\ c \in F /\ e \in F => End(c) < e.offset \/ End(e) < c.offset
  BY <1>4, KnownApart
<1> HIDE DEF s
<1>5. /\ \A f \in A : f \in F /\ f.slab = s /\ f.offset = End(b)
      /\ \A f \in B : f \in F /\ f.slab = s /\ End(f) = b.offset
      /\ \A f \in F : f.slab = s /\ f.offset = End(b) => f \in A
      /\ \A f \in F : f.slab = s /\ End(f) = b.offset => f \in B
  BY DEF s, Above, Below
<1>6. \A f, g \in A : f = g
  BY <1>1, <1>3, <1>4, <1>5
<1>7. \A f, g \in B : f = g
  BY <1>1, <1>3, <1>4, <1>5
<1>8. /\ hi \in Nat /\ End(b) <= hi /\ hi <= sz[s] /\ (End(b) <= l[s] => hi <= l[s])
      /\ \A f \in A : End(f) = hi
  <2>1. CASE A = {} /\ hi = End(b)
    BY <1>1, <2>1
  <2>2. ASSUME NEW f \in A, hi = End(f)
        PROVE  /\ hi \in Nat /\ End(b) <= hi /\ hi <= sz[s] /\ (End(b) <= l[s] => hi <= l[s])
               /\ \A g \in A : End(g) = hi
    <3>1. f \in L \cup F /\ f \in F /\ f.slab = s /\ f.offset = End(b)
      BY <1>5
    <3>2. \A g \in A : End(g) = hi
      BY <1>6, <2>2
    <3> QED
      BY <1>1, <1>2, <1>3, <2>2, <3>1, <3>2
  <2> QED
    BY <2>1, <2>2 DEF Reaches
<1>9. /\ lo \in Nat /\ lo <= b.offset /\ (b.offset >= r[s] => lo >= r[s])
      /\ \A f \in B : f.offset = lo
  <2>1. CASE B = {} /\ lo = b.offset
    BY <1>1, <2>1
  <2>2. ASSUME NEW f \in B, lo = f.offset
        PROVE  /\ lo \in Nat /\ lo <= b.offset /\ (b.offset >= r[s] => lo >= r[s])
               /\ \A g \in B : g.offset = lo
    <3>1. f \in L \cup F /\ f \in F /\ f.slab = s /\ End(f) = b.offset
      BY <1>5
    <3>2. \A g \in B : g.offset = lo
      BY <1>7, <2>2
    <3> QED
      BY <1>1, <1>2, <1>3, <2>2, <3>1, <3>2
  <2> QED
    BY <2>1, <2>2 DEF ReachesDown
<1>10. ASSUME NEW c \in ((L \ {b}) \cup F) \ (A \cup B), c.slab = s
       PROVE  /\ End(c) <= lo \/ hi <= c.offset
              /\ c \in F => End(c) < lo \/ hi < c.offset
  <2>1. /\ c \in L \cup F /\ c # b /\ c.offset \in Nat /\ End(c) \in Nat
        /\ c.offset < End(c)
        /\ End(c) <= b.offset \/ End(b) <= c.offset
    BY <1>3, <1>10
  <2>2. CASE End(b) <= c.offset
    <3>1. CASE A = {} /\ hi = End(b)
      <4>1. c \in F => c.offset # End(b)
        BY <1>5, <1>10
      <4> QED
        BY <1>1, <2>1, <2>2, <3>1, <4>1
    <3>2. ASSUME NEW f \in A, hi = End(f)
          PROVE  /\ End(c) <= lo \/ hi <= c.offset
                 /\ c \in F => End(c) < lo \/ hi < c.offset
      <4>1. f \in L \cup F /\ f \in F /\ f.slab = s /\ f.offset = End(b) /\ f # c
        BY <1>5, <1>10
      <4>2. /\ End(f) <= c.offset \/ End(c) <= f.offset
            /\ c \in F => End(f) < c.offset \/ End(c) < f.offset
        BY <1>4, <1>10, <2>1, <4>1
      <4> QED
        BY <1>1, <1>8, <2>1, <2>2, <3>2, <4>1, <4>2
    <3> QED
      BY <3>1, <3>2 DEF Reaches
  <2>3. CASE End(c) <= b.offset
    <3>1. CASE B = {} /\ lo = b.offset
      <4>1. c \in F => End(c) # b.offset
        BY <1>5, <1>10
      <4> QED
        BY <1>1, <2>1, <2>3, <3>1, <4>1
    <3>2. ASSUME NEW f \in B, lo = f.offset
          PROVE  /\ End(c) <= lo \/ hi <= c.offset
                 /\ c \in F => End(c) < lo \/ hi < c.offset
      <4>1. f \in L \cup F /\ f \in F /\ f.slab = s /\ End(f) = b.offset /\ f # c
        BY <1>5, <1>10
      <4>2. /\ End(f) <= c.offset \/ End(c) <= f.offset
            /\ c \in F => End(f) < c.offset \/ End(c) < f.offset
        BY <1>4, <1>10, <2>1, <4>1
      <4> QED
        BY <1>1, <1>9, <2>1, <2>3, <3>2, <4>1, <4>2
    <3> QED
      BY <3>1, <3>2 DEF ReachesDown
  <2> QED
    BY <2>1, <2>2, <2>3
<1>11. ASSUME NEW c \in {b} \cup A \cup B
       PROVE  c.slab = s /\ lo <= c.offset /\ End(c) <= hi
  <2>1. CASE c = b
    BY <1>1, <1>8, <1>9, <2>1 DEF s
  <2>2. CASE c \in A
    BY <1>1, <1>5, <1>8, <1>9, <2>2
  <2>3. CASE c \in B
    BY <1>1, <1>5, <1>8, <1>9, <2>3
  <2> QED
    BY <2>1, <2>2, <2>3
<1>12. hi <= l[s] \/ lo >= r[s]
  BY <1>1, <1>8, <1>9
<1>13. lo < hi
  BY <1>1, <1>8, <1>9
<1> QED
  BY <1>8, <1>9, <1>10, <1>11, <1>12, <1>13 DEF s

(* The merged block [lo, hi) becomes part of the middle of slab s if it     *)
(* touches it, whose ends are then l2 and r2, and a free block otherwise.  *)
Restore(s, lo, hi, l, r, l2, r2, N) ==
    /\ l2 \in [SlabIds -> Nat] /\ r2 \in [SlabIds -> Nat]
    /\ \A t \in SlabIds : t # s => l2[t] = l[t] /\ r2[t] = r[t]
    /\ \/ hi = l[s] /\ l2[s] = lo /\ r2[s] = r[s] /\ N = {}
       \/ hi # l[s] /\ lo = r[s] /\ l2[s] = l[s] /\ r2[s] = hi /\ N = {}
       \/ /\ hi # l[s] /\ lo # r[s] /\ l2[s] = l[s] /\ r2[s] = r[s]
          /\ N = {Block(s, lo, hi - lo)}

LEMMA ReclaimTiled ==
    ASSUME NEW S, NEW sz, NEW l, NEW r, NEW L, NEW F, Tiled(S, sz, l, r, L, F),
           NEW b \in L,
           NEW A, A = Above(F, b), NEW B, B = Below(F, b),
           NEW hi, Reaches(hi, A, b), NEW lo, ReachesDown(lo, B, b),
           NEW l2, NEW r2, NEW N, Restore(b.slab, lo, hi, l, r, l2, r2, N)
    PROVE  Tiled(S, sz, l2, r2, L \ {b}, (F \ (A \cup B)) \cup N)
<1> DEFINE s == b.slab
           m == Block(s, lo, hi - lo)
           Rest == ((L \ {b}) \cup F) \ (A \cup B)
           F2 == (F \ (A \cup B)) \cup N
<1>1. /\ lo \in Nat /\ hi \in Nat /\ lo < hi
      /\ hi <= l[s] \/ lo >= r[s]
      /\ hi <= sz[s]
  BY Merged
<1>2. ASSUME NEW c \in Rest, c.slab = s
      PROVE  /\ End(c) <= lo \/ hi <= c.offset
             /\ c \in F => End(c) < lo \/ hi < c.offset
  BY <1>2, Merged
<1>3. \A c \in {b} \cup A \cup B : c.slab = s /\ lo <= c.offset /\ End(c) <= hi
  BY Merged
<1>4. s \in S /\ s \in SlabIds
  BY KnownBlock
<1>5. l[s] \in Nat /\ r[s] \in Nat /\ sz[s] \in Nat /\ l[s] <= r[s] /\ r[s] <= sz[s]
  BY <1>4, KnownSlab
<1>6. m \in BlockType /\ m.slab = s /\ m.offset = lo /\ End(m) = hi
  BY <1>1, <1>4 DEF Block, End, BlockType
<1>7. /\ l2 \in [SlabIds -> Nat] /\ r2 \in [SlabIds -> Nat]
      /\ \A t \in SlabIds : t # s => l2[t] = l[t] /\ r2[t] = r[t]
      /\ \/ hi = l[s] /\ l2[s] = lo /\ r2[s] = r[s] /\ N = {}
         \/ hi # l[s] /\ lo = r[s] /\ l2[s] = l[s] /\ r2[s] = hi /\ N = {}
         \/ hi # l[s] /\ lo # r[s] /\ l2[s] = l[s] /\ r2[s] = r[s] /\ N = {m}
  BY DEF Restore
<1>8. Rest \subseteq L \cup F /\ (L \ {b}) \cup F2 = Rest \cup N
      /\ L \ {b} \subseteq Rest /\ F2 \subseteq (Rest \cap F) \cup N
      /\ A \subseteq F /\ B \subseteq F /\ L \cap F = {}
  BY DEF Tiled, Above, Below
<1>9. L \cup F = Rest \cup ({b} \cup A \cup B)
  BY <1>8
<1> HIDE DEF s, m, Rest, F2
<1>10. ASSUME NEW c \in Rest
       PROVE  /\ c.slab \in S /\ c.slab \in SlabIds
              /\ c.offset \in Nat /\ End(c) \in Nat /\ c.offset < End(c)
              /\ End(c) <= l[c.slab] \/ c.offset >= r[c.slab]
              /\ End(c) <= sz[c.slab]
  BY <1>8, <1>10, KnownBlock
<1>11. \A t \in S : l2[t] <= r2[t] /\ r2[t] <= sz[t]
  <2> TAKE t \in S
  <2>1. t \in SlabIds /\ l[t] <= r[t] /\ r[t] <= sz[t]
    BY KnownSlab
  <2> QED
    BY <1>1, <1>5, <1>7, <2>1
<1>12. ASSUME NEW c \in Rest \cup N
       PROVE  /\ c.slab \in S
              /\ End(c) <= l2[c.slab] \/ c.offset >= r2[c.slab]
              /\ End(c) <= sz[c.slab]
  <2>1. CASE c \in Rest /\ c.slab # s
    BY <1>7, <1>10, <2>1
  <2>2. CASE c \in Rest /\ c.slab = s
    BY <1>1, <1>2, <1>5, <1>7, <1>10, <2>2
  <2>3. CASE c \in N
    BY <1>1, <1>4, <1>5, <1>6, <1>7, <2>3
  <2> QED
    BY <1>12, <2>1, <2>2, <2>3
<1>13. ASSUME NEW c \in Rest PROVE c # m /\ Apart(c, m) /\ Apart(m, c)
  <2>1. CASE c.slab = s
    BY <1>1, <1>2, <1>6, <1>10, <2>1 DEF Apart
  <2>2. CASE c.slab # s
    BY <1>6, <2>2 DEF Apart
  <2> QED
    BY <2>1, <2>2
<1>14. \A c, e \in Rest \cup N : c # e => Apart(c, e)
  <2>1. \A c, e \in Rest : c # e => Apart(c, e)
    BY <1>8 DEF Tiled
  <2>2. \A c \in N : c = m
    BY <1>7
  <2> QED
    BY <1>13, <2>1, <2>2
<1>15. (L \ {b}) \cap F2 = {}
  BY <1>7, <1>8, <1>13
<1>16. ASSUME NEW t \in S, NEW x \in Nat, x < sz[t], x < l2[t] \/ x >= r2[t]
       PROVE  \E c \in Rest \cup N : c.slab = t /\ c.offset <= x /\ x < End(c)
  <2>1. t \in SlabIds /\ l[t] \in Nat /\ r[t] \in Nat
    BY KnownSlab
  <2>2. x < l[t] \/ x >= r[t]
    BY <1>1, <1>5, <1>7, <1>16, <2>1
  <2>3. PICK c \in L \cup F : c.slab = t /\ c.offset <= x /\ x < End(c)
    BY <1>16, <2>2, KnownCover
  <2>4. CASE c \in {b} \cup A \cup B
    <3>1. t = s /\ lo <= x /\ x < hi
      <4>1. c.offset \in Nat /\ End(c) \in Nat
        BY KnownBlock
      <4> QED
        BY <1>1, <1>3, <2>3, <2>4, <4>1
    <3>2. N = {m}
      BY <1>1, <1>5, <1>7, <1>16, <3>1
    <3> QED
      BY <1>6, <3>1, <3>2
  <2> QED
    BY <1>9, <2>3, <2>4
<1>17. ASSUME NEW f \in F2, NEW g \in F2, f.slab = g.slab PROVE End(f) # g.offset
  <2>1. CASE f \in Rest \cap F /\ g \in Rest \cap F
    BY <1>17, <2>1 DEF Tiled
  <2>2. CASE f \in N /\ g \in N
    BY <1>1, <1>6, <1>7, <2>2
  <2>3. CASE f \in Rest \cap F /\ g \in N
    <3>1. g = m /\ f.slab = s
      BY <1>6, <1>7, <1>17, <2>3
    <3> QED
      BY <1>1, <1>2, <1>6, <1>10, <2>3, <3>1
  <2>4. CASE f \in N /\ g \in Rest \cap F
    <3>1. f = m /\ g.slab = s
      BY <1>6, <1>7, <1>17, <2>4
    <3> QED
      BY <1>1, <1>2, <1>6, <1>10, <2>4, <3>1
  <2> QED
    BY <1>8, <2>1, <2>2, <2>3, <2>4
<1>18. ASSUME NEW f \in F2 PROVE End(f) # l2[f.slab] /\ f.offset # r2[f.slab]
  <2>1. CASE f \in Rest \cap F /\ f.slab # s
    BY <1>7, <1>10, <2>1 DEF Tiled
  <2>2. CASE f \in Rest \cap F /\ f.slab = s
    <3>1. End(f) # l[s] /\ f.offset # r[s]
      BY <2>2 DEF Tiled
    <3> QED
      BY <1>1, <1>2, <1>5, <1>7, <1>10, <2>2, <3>1
  <2>3. CASE f \in N
    BY <1>6, <1>7, <2>3
  <2> QED
    BY <1>8, <2>1, <2>2, <2>3
<1>19. F2 \subseteq BlockType /\ L \ {b} \subseteq BlockType
  BY <1>6, <1>7, <1>8 DEF Tiled
<1>20. S \subseteq SlabIds /\ sz \in [SlabIds -> Nat]
  BY DEF Tiled
<1>21. Tiled(S, sz, l2, r2, L \ {b}, F2)
  BY <1>7, <1>8, <1>11, <1>12, <1>14, <1>15, <1>16, <1>17, <1>18, <1>19, <1>20 DEF Tiled
<1> QED
  BY <1>21 DEF F2

----------------------------------------------------------------------------
(* How the counters change.                                                *)

LEMMA CountAdd ==
    ASSUME NEW L, IsFiniteSet(L), NEW b, b \notin L
    PROVE  /\ IsFiniteSet(L \cup {b})
           /\ \A s : Cardinality(On(L \cup {b}, s)) =
                        Cardinality(On(L, s)) + (IF b.slab = s THEN 1 ELSE 0)
           /\ \A s : Cardinality(On(L, s)) \in Nat
<1>1. \A s : IsFiniteSet(On(L, s)) /\ b \notin On(L, s)
  BY FS_Subset DEF On
<1>2. \A s : Cardinality(On(L, s) \cup {b}) = Cardinality(On(L, s)) + 1
  BY <1>1, FS_AddElement
<1>3. \A s : Cardinality(On(L, s)) \in Nat
  BY <1>1, FS_CardinalityType
<1>4. ASSUME NEW s
      PROVE  Cardinality(On(L \cup {b}, s)) =
                 Cardinality(On(L, s)) + (IF b.slab = s THEN 1 ELSE 0)
  <2>1. CASE b.slab = s
    <3>1. On(L \cup {b}, s) = On(L, s) \cup {b}
      BY <2>1 DEF On
    <3> QED
      BY <1>2, <2>1, <3>1
  <2>2. CASE b.slab # s
    <3>1. On(L \cup {b}, s) = On(L, s)
      BY <2>2 DEF On
    <3> QED
      BY <1>3, <2>2, <3>1
  <2> QED
    BY <2>1, <2>2
<1>5. IsFiniteSet(L \cup {b})
  BY FS_AddElement
<1> QED
  BY <1>3, <1>4, <1>5

LEMMA CountRemove ==
    ASSUME NEW L, IsFiniteSet(L), NEW b \in L
    PROVE  /\ IsFiniteSet(L \ {b})
           /\ \A s : Cardinality(On(L \ {b}, s)) =
                        Cardinality(On(L, s)) - (IF b.slab = s THEN 1 ELSE 0)
           /\ \A s : Cardinality(On(L, s)) \in Nat
           /\ Cardinality(On(L, b.slab)) >= 1
<1> DEFINE K == L \ {b}
<1>1. IsFiniteSet(K) /\ b \notin K /\ K \cup {b} = L
  BY FS_Subset
<1> HIDE DEF K
<1>2. /\ \A s : Cardinality(On(K \cup {b}, s)) =
                   Cardinality(On(K, s)) + (IF b.slab = s THEN 1 ELSE 0)
      /\ \A s : Cardinality(On(K, s)) \in Nat
  BY <1>1, CountAdd
<1>3. /\ \A s : Cardinality(On(L, s)) =
                   Cardinality(On(K, s)) + (IF b.slab = s THEN 1 ELSE 0)
      /\ \A s : Cardinality(On(K, s)) \in Nat
  BY <1>1, <1>2
<1>4. /\ \A s : Cardinality(On(K, s)) =
                   Cardinality(On(L, s)) - (IF b.slab = s THEN 1 ELSE 0)
      /\ \A s : Cardinality(On(L, s)) \in Nat
      /\ Cardinality(On(L, b.slab)) >= 1
  BY <1>3
<1> QED
  BY <1>1, <1>4 DEF K

(* create_dptr keeps the counters right.                                   *)
LEMMA DptrStep ==
    ASSUME IInv, NEW b \in BlockType, b \notin live, CreateDptr(b, active)
    PROVE  /\ IsFiniteSet(live)' /\ Counted'
           /\ active' \in [SlabIds -> Nat] /\ allocated' \in Int /\ live' = live \cup {b}
<1>1. /\ IsFiniteSet(live') /\ live' = live \cup {b}
      /\ \A s \in SlabIds : /\ Cardinality(On(live', s)) =
                                  Cardinality(On(live, s)) + (IF b.slab = s THEN 1 ELSE 0)
                            /\ active[s] = Cardinality(On(live, s))
  BY CountAdd DEF IInv, CreateDptr, Counted
<1>2. /\ active' = [active EXCEPT ![b.slab] = @ + 1] /\ active \in [SlabIds -> Nat]
      /\ allocated' = allocated + b.size /\ allocated \in Int
      /\ b.slab \in SlabIds /\ b.size \in Nat
  BY BlockFacts DEF IInv, CreateDptr, TypeOK
<1>3. active' \in [SlabIds -> Nat] /\ allocated' \in Int
  BY <1>2
<1>4. \A s \in SlabIds : active'[s] = active[s] + (IF b.slab = s THEN 1 ELSE 0)
  BY <1>2
<1>5. Counted'
  BY <1>1, <1>2, <1>4 DEF Counted, On
<1> QED
  BY <1>1, <1>3, <1>5

(* A slab without active allocations has no block.                         *)
LEMMA IdleHasNone ==
    ASSUME IInv, NEW s \in Idle
    PROVE  /\ s \in SlabIds /\ s \in slabs
           /\ \A b \in live \cup free : b.slab # s
           /\ left[s] = 0 /\ right[s] = size[s]
<1>1. s \in slabs /\ s \in SlabIds /\ active[s] = 0
  BY KnownSlab DEF Idle, IInv
<1>2. On(live, s) = {}
  <2>1. IsFiniteSet(On(live, s))
    BY FS_Subset DEF On, IInv
  <2> QED
    BY <1>1, <2>1, FS_EmptySet DEF IInv, Counted
<1>3. \A b \in live : b.slab # s
  BY <1>2 DEF On
<1>4. (\A f \in free : f.slab # s) /\ left[s] = 0 /\ right[s] = size[s]
  BY <1>1, <1>3, IdleEmpty DEF IInv
<1> QED
  BY <1>1, <1>3, <1>4

----------------------------------------------------------------------------
(* The invariant is inductive: one lemma per operation.                    *)

LEMMA InitIInv == Init => IInv
<1> SUFFICES ASSUME Init PROVE IInv
  OBVIOUS
<1> USE DelAllocatorAssumption
<1>1. TypeOK /\ Unborn /\ FreeListsAgree
  BY DEF Init, TypeOK, Unborn, FreeListsAgree, SlabIds
<1>2. IsFiniteSet(live)
  BY FS_EmptySet DEF Init
<1>3. Counted
  <2>1. \A s : On(live, s) = {}
    BY DEF Init, On
  <2> QED
    BY <2>1, FS_EmptySet DEF Counted, Init
<1>4. Tiled(slabs, size, left, right, live, free)
  BY DEF Init, Tiled
<1> QED
  BY <1>1, <1>2, <1>3, <1>4 DEF IInv

LEMMA TakeFreeStep ==
    ASSUME IInv, NEW b \in freeMap, NEW n \in Nat \ {0}, n <= b.size, TakeFree(b, n)
    PROVE  IInv'
<1> DEFINE t == Block(b.slab, b.offset, n)
           R == Remainder(b, n)
<1>1. b \in free /\ Tiled(slabs, size, left, right, live, free)
  BY DEF IInv, FreeListsAgree
<1>2. /\ t \in BlockType /\ t \notin live
      /\ Tiled(slabs, size, left, right, live \cup {t}, (free \ {b}) \cup R)
  BY <1>1, SplitTiled
<1>3. CreateDptr(t, active)
  BY DEF TakeFree
<1>4. /\ IsFiniteSet(live)' /\ Counted'
      /\ active' \in [SlabIds -> Nat] /\ allocated' \in Int /\ live' = live \cup {t}
  BY <1>2, <1>3, DptrStep
<1>5. /\ free' = (free \ {b}) \cup R /\ freeMap' = (freeMap \ {b}) \cup R
      /\ born' = born /\ slabs' = slabs /\ size' = size
      /\ left' = left /\ right' = right /\ side' = side
  BY DEF TakeFree, slabVars
<1> HIDE DEF t, R
<1>6. Tiled(slabs, size, left, right, live, free)'
  BY <1>2, <1>4, <1>5
<1>7. TypeOK'
  BY <1>4, <1>5, <1>6 DEF IInv, TypeOK, Tiled, FreeListsAgree
<1> QED
  BY <1>4, <1>5, <1>6, <1>7 DEF IInv, Unborn, FreeListsAgree

(* Bump allocation, on a tiling whose right ends r may be those of a slab  *)
(* that this very step has allocated.                                      *)
LEMMA BumpStep ==
    ASSUME IInv, NEW S, NEW sz, NEW r \in [SlabIds -> Nat],
           Tiled(S, sz, left, r, live, free),
           NEW s \in S, NEW n \in Nat \ {0}, n <= r[s] - left[s],
           Bump(s, n, left, r, active)
    PROVE  /\ IsFiniteSet(live)' /\ Counted'
           /\ active' \in [SlabIds -> Nat] /\ allocated' \in Int
           /\ Tiled(S, sz, left', right', live', free)
           /\ \A k \in SlabIds : k # s => left'[k] = left[k]
<1> DEFINE o == IF side = 0 THEN left[s] ELSE r[s] - n
           t == Block(s, o, n)
<1>1. /\ side \in {0, 1} /\ s \in SlabIds /\ left \in [SlabIds -> Nat]
      /\ left[s] \in Nat /\ r[s] \in Nat
  BY KnownSlab DEF IInv, TypeOK
<1>2. /\ left' = [left EXCEPT ![s] = IF side = 0 THEN @ + n ELSE @]
      /\ right' = [r EXCEPT ![s] = IF side = 0 THEN @ ELSE @ - n]
      /\ CreateDptr(t, active)
  BY DEF Bump
<1>3. Cut(s, n, left, r, o, left', right')
  <2>1. CASE side = 0
    BY <1>1, <1>2, <2>1 DEF Cut
  <2>2. CASE side = 1
    BY <1>1, <1>2, <2>2 DEF Cut
  <2> QED
    BY <1>1, <2>1, <2>2
<1> HIDE DEF o
<1>4. t \in BlockType /\ t \notin live /\ Tiled(S, sz, left', right', live \cup {t}, free)
  BY <1>3, BumpTiled
<1> HIDE DEF t
<1>5. /\ IsFiniteSet(live)' /\ Counted'
      /\ active' \in [SlabIds -> Nat] /\ allocated' \in Int /\ live' = live \cup {t}
  BY <1>2, <1>4, DptrStep
<1>6. \A k \in SlabIds : k # s => left'[k] = left[k]
  BY <1>3 DEF Cut
<1> QED
  BY <1>4, <1>5, <1>6

LEMMA MiddleStep ==
    ASSUME IInv, NEW n \in Nat \ {0}, AllocateMiddle(n)
    PROVE  IInv'
<1>1. PICK s \in slabs : HasSpace(s, n) /\ Bump(s, n, left, right, active)
  BY DEF AllocateMiddle
<1>2. Tiled(slabs, size, left, right, live, free) /\ n <= right[s] - left[s]
      /\ right \in [SlabIds -> Nat] /\ s \in 1..born /\ born \in Nat
  <2>1. born \in Nat /\ slabs \subseteq 1..born /\ right \in [SlabIds -> Nat]
        /\ left \in [SlabIds -> Nat]
    BY DEF IInv, TypeOK
  <2>2. Tiled(slabs, size, left, right, live, free)
    BY DEF IInv
  <2>3. s \in SlabIds
    BY <2>2, KnownSlab
  <2> QED
    BY <1>1, <2>1, <2>2, <2>3 DEF HasSpace
<1>3. /\ IsFiniteSet(live)' /\ Counted'
      /\ active' \in [SlabIds -> Nat] /\ allocated' \in Int
      /\ Tiled(slabs, size, left', right', live', free)
      /\ \A k \in SlabIds : k # s => left'[k] = left[k]
  BY <1>1, <1>2, BumpStep
<1>4. /\ free' = free /\ freeMap' = freeMap /\ side' = side
      /\ born' = born /\ slabs' = slabs /\ size' = size
  BY DEF AllocateMiddle, slabVars
<1>5. Tiled(slabs, size, left, right, live, free)'
  BY <1>3, <1>4
<1>6. TypeOK'
  BY <1>3, <1>4, <1>5 DEF IInv, TypeOK, Tiled
<1>7. Unborn'
  BY <1>2, <1>3, <1>4 DEF IInv, Unborn, SlabIds
<1> QED
  BY <1>3, <1>4, <1>5, <1>6, <1>7 DEF IInv, FreeListsAgree

(* Dropping the idle slabs loses no block, so the free lists still agree.  *)
LEMMA DropStep ==
    ASSUME IInv, DropIdle
    PROVE  /\ free' = free /\ freeMap' = free /\ side' = side
           /\ Tiled(slabs \ Idle, size, left, right, live, free)
<1>1. \A b \in live : b.slab \notin Idle
  BY IdleHasNone
<1>2. Tiled(slabs \ Idle, size, left, right, live, free) /\ \A f \in free : f.slab \notin Idle
  BY <1>1, DropTiled DEF IInv
<1> QED
  BY <1>2 DEF DropIdle, IInv, FreeListsAgree

(* A new slab, as far as allocate and ensure share it.                     *)
LEMMA NewSlabStep ==
    ASSUME IInv, NEW m \in 1..Capacity, NewSlab(m)
    PROVE  /\ free' = free /\ freeMap' = free /\ side' = side
           /\ born' = born + 1 /\ born' \in 0..MaxSlabs /\ born' \in SlabIds
           /\ slabs' \subseteq 1..born' /\ born' \in slabs'
           /\ left[born'] = 0 /\ right \in [SlabIds -> Nat] /\ m \in Nat
           /\ Tiled(slabs', size', left, [right EXCEPT ![born'] = m], live, free)
<1> USE DelAllocatorAssumption
<1>1. /\ free' = free /\ freeMap' = free /\ side' = side
      /\ Tiled(slabs \ Idle, size, left, right, live, free)
  BY DropStep DEF NewSlab
<1>2. /\ born' = born + 1 /\ born' \in 0..MaxSlabs /\ born' \in SlabIds
      /\ born' \notin slabs \ Idle /\ left[born'] = 0 /\ m \in Nat
  BY DEF NewSlab, IInv, TypeOK, SlabIds, Unborn
<1>3. slabs' = (slabs \ Idle) \cup {born'} /\ size' = [size EXCEPT ![born'] = m]
  BY <1>2 DEF NewSlab
<1>4. slabs' \subseteq 1..born'
  <2>1. born \in Nat /\ slabs \subseteq 1..born
    BY DEF IInv, TypeOK
  <2>2. \A k \in slabs : k \in 1..(born + 1)
    BY <2>1
  <2>3. born + 1 \in 1..(born + 1)
    BY <2>1
  <2> QED
    BY <1>2, <1>3, <2>2, <2>3
<1>5. Tiled(slabs', size', left, [right EXCEPT ![born'] = m], live, free)
  BY <1>1, <1>2, <1>3, AddTiled
<1> QED
  BY <1>1, <1>2, <1>3, <1>4, <1>5 DEF IInv, TypeOK

LEMMA AllocateNewSlabStep ==
    ASSUME IInv, NEW n \in Nat \ {0}, AllocateNewSlab(n)
    PROVE  IInv'
<1> DEFINE k == born + 1
<1>1. PICK m \in 1..Capacity :
         /\ m = NewSlabSize(n)
         /\ NewSlab(m)
         /\ Bump(k, n, left, [right EXCEPT ![k] = m], active)
  BY DEF AllocateNewSlab
<1>2. m \in Nat /\ n <= m
  BY <1>1, DelAllocatorAssumption DEF NewSlabSize
<1>3. /\ free' = free /\ freeMap' = free /\ side' = side
      /\ born' = k /\ born' \in 0..MaxSlabs /\ k \in SlabIds
      /\ slabs' \subseteq 1..born' /\ k \in slabs'
      /\ left[k] = 0 /\ right \in [SlabIds -> Nat]
      /\ Tiled(slabs', size', left, [right EXCEPT ![k] = m], live, free)
  BY <1>1, NewSlabStep
<1> DEFINE r == [right EXCEPT ![k] = m]
<1>4. r \in [SlabIds -> Nat] /\ r[k] = m /\ n <= r[k] - left[k]
  BY <1>2, <1>3
<1> HIDE DEF r, k
<1>5. Tiled(slabs', size', left, r, live, free) /\ Bump(k, n, left, r, active)
  BY <1>1, <1>3 DEF r, k
<1>6. /\ IsFiniteSet(live)' /\ Counted'
      /\ active' \in [SlabIds -> Nat] /\ allocated' \in Int
      /\ Tiled(slabs', size', left', right', live', free)
      /\ \A i \in SlabIds : i # k => left'[i] = left[i]
  BY <1>3, <1>4, <1>5, BumpStep
<1>7. Tiled(slabs, size, left, right, live, free)'
  BY <1>3, <1>6
<1>8. TypeOK'
  BY <1>3, <1>6, <1>7 DEF IInv, TypeOK, Tiled
<1>9. Unborn'
  <2>1. ASSUME NEW i \in SlabIds, i > born' PROVE left'[i] = 0
    <3>1. i > born /\ i # k
      BY <1>3, <2>1 DEF k, IInv, TypeOK, SlabIds
    <3> QED
      BY <1>6, <3>1 DEF IInv, Unborn
  <2> QED
    BY <2>1 DEF Unborn
<1> QED
  BY <1>3, <1>6, <1>7, <1>8, <1>9 DEF IInv, FreeListsAgree

LEMMA EnsureNewSlabStep ==
    ASSUME IInv, NEW n \in Nat \ {0}, EnsureNewSlab(n)
    PROVE  IInv'
<1>1. PICK m \in 1..Capacity :
         NewSlab(m) /\ right' = [right EXCEPT ![born + 1] = m]
  BY DEF EnsureNewSlab
<1>2. /\ free' = free /\ freeMap' = free /\ side' = side
      /\ born' = born + 1 /\ born' \in 0..MaxSlabs
      /\ slabs' \subseteq 1..born'
      /\ Tiled(slabs', size', left, [right EXCEPT ![born'] = m], live, free)
  BY <1>1, NewSlabStep
<1>3. left' = left /\ active' = active /\ live' = live /\ allocated' = allocated
  BY DEF EnsureNewSlab
<1>4. Tiled(slabs, size, left, right, live, free)'
  BY <1>1, <1>2, <1>3
<1>5. TypeOK'
  BY <1>2, <1>3, <1>4 DEF IInv, TypeOK, Tiled
<1>6. Unborn'
  BY <1>2, <1>3 DEF IInv, Unborn, TypeOK, SlabIds
<1> QED
  BY <1>2, <1>3, <1>4, <1>5, <1>6 DEF IInv, FreeListsAgree, Counted

LEMMA RefusedStep ==
    ASSUME IInv, SlabRefused
    PROVE  IInv'
<1>1. /\ free' = free /\ freeMap' = free /\ side' = side
      /\ Tiled(slabs \ Idle, size, left, right, live, free)
  BY DropStep DEF SlabRefused
<1>2. /\ slabs' = slabs \ Idle /\ born' = born /\ size' = size /\ left' = left
      /\ right' = right /\ active' = active /\ live' = live /\ allocated' = allocated
  BY DEF SlabRefused
<1>3. Tiled(slabs, size, left, right, live, free)'
  BY <1>1, <1>2
<1>4. TypeOK'
  BY <1>1, <1>2 DEF IInv, TypeOK
<1> QED
  BY <1>1, <1>2, <1>3, <1>4 DEF IInv, FreeListsAgree, Counted, Unborn

LEMMA EvictStep ==
    ASSUME IInv, EvictUnused
    PROVE  IInv'
<1>1. \A b \in live \cup free : b.slab \notin Idle
  BY IdleHasNone
<1>2. Tiled(slabs \ Idle, size, left, right, live, free)
  BY <1>1, DropTiled DEF IInv
<1>3. free' = free /\ freeMap' = free
  BY <1>1 DEF EvictUnused, IInv, FreeListsAgree
<1>4. /\ slabs' = slabs \ Idle /\ born' = born /\ size' = size /\ left' = left
      /\ right' = right /\ active' = active /\ live' = live /\ allocated' = allocated
      /\ side' = side
  BY DEF EvictUnused
<1>5. Tiled(slabs, size, left, right, live, free)'
  BY <1>2, <1>3, <1>4
<1>6. TypeOK'
  BY <1>3, <1>4 DEF IInv, TypeOK
<1> QED
  BY <1>3, <1>4, <1>5, <1>6 DEF IInv, FreeListsAgree, Counted, Unborn

LEMMA ClearStep ==
    ASSUME IInv, Clear
    PROVE  IInv'
<1>1. slabs \subseteq Idle
  BY DEF Clear, Idle
<1>2. live = {}
  <2>1. \A b \in live : b.slab \in slabs
    BY KnownBlock DEF IInv
  <2> QED
    BY <1>1, <2>1, IdleHasNone
<1>3. /\ slabs' = {} /\ free' = {} /\ freeMap' = {} /\ allocated' = 0
      /\ born' = born /\ size' = size /\ left' = left /\ right' = right
      /\ active' = active /\ live' = live /\ side' = side
  BY DEF Clear
<1>4. Tiled(slabs, size, left, right, live, free)'
  BY <1>2, <1>3 DEF IInv, TypeOK, Tiled
<1>5. TypeOK'
  BY <1>3 DEF IInv, TypeOK
<1> QED
  BY <1>3, <1>4, <1>5 DEF IInv, FreeListsAgree, Counted, Unborn

LEMMA ReclaimStep ==
    ASSUME IInv, NEW b \in live, Reclaim(b)
    PROVE  IInv'
<1> DEFINE s == b.slab
           A == After(b)
           B == Before(b)
           lo == Coalesce(b).offset
           hi == End(Coalesce(b))
           atLeft == hi = left[s]
           atRight == ~atLeft /\ lo = right[s]
           N == IF atLeft \/ atRight THEN {} ELSE {Coalesce(b)}
<1>1. Tiled(slabs, size, left, right, live, free)
  BY DEF IInv
<1>2. /\ b \in BlockType /\ s \in SlabIds /\ s \in slabs /\ b.offset \in Nat
      /\ End(b) \in Nat /\ b.size \in Nat
  BY <1>1, KnownBlock
<1>3. A = Above(free, b) /\ B = Below(free, b) /\ A \subseteq free /\ B \subseteq free
  BY DEF After, Before, Above, Below
<1>4. Reaches(hi, A, b) /\ ReachesDown(lo, B, b) /\ Coalesce(b) = Block(s, lo, hi - lo)
  <2> DEFINE down == IF B = {} THEN b.offset ELSE (CHOOSE f \in B : TRUE).offset
             up == IF A = {} THEN End(b) ELSE End(CHOOSE f \in A : TRUE)
  <2>1. Coalesce(b) = Block(s, down, up - down)
    BY DEF Coalesce
  <2>2. /\ A # {} => (CHOOSE f \in A : TRUE) \in A
        /\ B # {} => (CHOOSE f \in B : TRUE) \in B
    OBVIOUS
  <2>3. Reaches(up, A, b) /\ ReachesDown(down, B, b)
    BY <2>2 DEF Reaches, ReachesDown
  <2>4. up \in Nat /\ down \in Nat
    <3>1. \A f \in free : f.offset \in Nat /\ End(f) \in Nat
      BY <1>1, KnownBlock
    <3> QED
      BY <1>2, <1>3, <2>2, <3>1
  <2> HIDE DEF down, up
  <2>5. lo = down /\ hi = up
    BY <2>1, <2>4 DEF Block, End
  <2> QED
    BY <2>1, <2>3, <2>5
<1>5. /\ live' = live \ {b} /\ active' = [active EXCEPT ![s] = @ - 1]
      /\ allocated' = allocated - b.size
      /\ left' = [left EXCEPT ![s] = IF atLeft THEN lo ELSE @]
      /\ right' = [right EXCEPT ![s] = IF atRight THEN hi ELSE @]
      /\ free' = (free \ (A \cup B)) \cup N
      /\ freeMap' = (freeMap \ (A \cup B)) \cup N
      /\ born' = born /\ slabs' = slabs /\ size' = size /\ side' = side
  BY DEF Reclaim, slabVars
<1>6. /\ left \in [SlabIds -> Nat] /\ right \in [SlabIds -> Nat]
      /\ active \in [SlabIds -> Nat] /\ allocated \in Int
      /\ freeMap = free
  BY DEF IInv, TypeOK, FreeListsAgree
<1> HIDE DEF s, A, B, lo, hi
<1>7. lo \in Nat /\ hi \in Nat
  BY <1>1, <1>3, <1>4, Merged DEF s
<1>8. Restore(s, lo, hi, left, right, left', right', N)
  <2>1. CASE atLeft
    BY <1>2, <1>5, <1>6, <1>7, <2>1 DEF Restore
  <2>2. CASE atRight
    BY <1>2, <1>5, <1>6, <1>7, <2>2 DEF Restore
  <2>3. CASE ~atLeft /\ ~atRight
    BY <1>2, <1>4, <1>5, <1>6, <1>7, <2>3 DEF Restore
  <2> QED
    BY <2>1, <2>2, <2>3
<1> HIDE DEF N
<1>9. Tiled(slabs, size, left', right', live \ {b}, (free \ (A \cup B)) \cup N)
  BY <1>1, <1>3, <1>4, <1>8, ReclaimTiled DEF s
<1>10. Tiled(slabs, size, left, right, live, free)'
  BY <1>5, <1>9
<1>11. IsFiniteSet(live)' /\ Counted' /\ active' \in [SlabIds -> Nat]
  <2>1. /\ IsFiniteSet(live')
        /\ \A k \in SlabIds : Cardinality(On(live', k)) =
                                  Cardinality(On(live, k)) - (IF s = k THEN 1 ELSE 0)
        /\ Cardinality(On(live, s)) >= 1
    BY <1>5, CountRemove DEF IInv, s
  <2>2. \A k \in SlabIds : active[k] = Cardinality(On(live, k))
    BY DEF IInv, Counted
  <2>3. active[s] \in Nat /\ active[s] >= 1
    BY <1>2, <1>6, <2>1, <2>2
  <2>4. active' \in [SlabIds -> Nat]
    <3>1. active[s] - 1 \in Nat
      BY <2>3
    <3> QED
      BY <1>5, <1>6, <3>1
  <2>5. \A k \in SlabIds : active'[k] = active[k] - (IF s = k THEN 1 ELSE 0)
    BY <1>2, <1>5, <1>6
  <2>6. \A k \in SlabIds : active'[k] = Cardinality(On(live', k))
    BY <2>1, <2>2, <2>5
  <2> QED
    BY <2>1, <2>4, <2>6 DEF Counted, On
<1>12. Unborn'
  <2>1. s <= born /\ s \in Nat /\ born \in Nat
    BY <1>2 DEF IInv, TypeOK
  <2>2. \A k \in SlabIds : k # s => left'[k] = left[k]
    BY <1>8 DEF Restore
  <2> QED
    BY <1>5, <2>1, <2>2 DEF IInv, Unborn, SlabIds
<1>13. TypeOK'
  <2>1. allocated' \in Int
    BY <1>2, <1>5, <1>6
  <2>2. /\ left' \in [SlabIds -> Nat] /\ right' \in [SlabIds -> Nat]
        /\ live' \subseteq BlockType /\ free' \subseteq BlockType
    BY <1>10 DEF Tiled
  <2> QED
    BY <1>5, <1>6, <1>11, <2>1, <2>2 DEF IInv, TypeOK
<1> QED
  BY <1>5, <1>6, <1>10, <1>11, <1>12, <1>13 DEF IInv, FreeListsAgree

LEMMA FlipStep ==
    ASSUME IInv, Flip
    PROVE  IInv'
<1>1. /\ side' \in {0, 1}
      /\ slabs' = slabs /\ born' = born /\ size' = size /\ left' = left
      /\ right' = right /\ active' = active /\ live' = live
      /\ free' = free /\ freeMap' = freeMap /\ allocated' = allocated
  BY DEF Flip, slabVars, IInv, TypeOK
<1>2. Tiled(slabs, size, left, right, live, free)'
  BY <1>1 DEF IInv
<1>3. TypeOK'
  BY <1>1 DEF IInv, TypeOK
<1> QED
  BY <1>1, <1>2, <1>3 DEF IInv, FreeListsAgree, Counted, Unborn

LEMMA BestFitFacts ==
    ASSUME NEW n, NEW b \in BestFit(n)
    PROVE  b \in freeMap /\ n <= b.size
<1>1. b \in freeMap /\ b.size >= n
  BY DEF BestFit
<1> QED
  BY <1>1

LEMMA InductiveStep == IInv /\ [Next]_vars => IInv'
<1> SUFFICES ASSUME IInv, [Next]_vars PROVE IInv'
  OBVIOUS
<1>1. ASSUME NEW n \in 1..MaxRequest PROVE n \in Nat \ {0}
  BY DelAllocatorAssumption
<1>2. ASSUME NEW n \in 1..MaxRequest, AllocateExact(n) \/ AllocateSplit(n) PROVE IInv'
  <2>1. PICK b \in BestFit(n) : TakeFree(b, n)
    BY <1>2 DEF AllocateExact, AllocateSplit
  <2> QED
    BY <1>1, <2>1, BestFitFacts, TakeFreeStep
<1>3. ASSUME NEW n \in 1..MaxRequest, AllocateMiddle(n) PROVE IInv'
  BY <1>1, <1>3, MiddleStep
<1>4. ASSUME NEW n \in 1..MaxRequest, AllocateNewSlab(n) PROVE IInv'
  BY <1>1, <1>4, AllocateNewSlabStep
<1>5. ASSUME NEW n \in 1..MaxRequest, EnsureNewSlab(n) PROVE IInv'
  BY <1>1, <1>5, EnsureNewSlabStep
<1>6. ASSUME NEW n \in 1..MaxRequest, AllocateFails(n) \/ EnsureFails(n) PROVE IInv'
  BY <1>6, RefusedStep DEF AllocateFails, EnsureFails
<1>7. ASSUME NEW b \in live, Reclaim(b) PROVE IInv'
  BY <1>7, ReclaimStep
<1>8. CASE Flip
  BY <1>8, FlipStep
<1>9. CASE Clear
  BY <1>9, ClearStep
<1>10. CASE EvictUnused
  BY <1>10, EvictStep
<1>11. CASE UNCHANGED vars
  BY <1>11 DEF vars, slabVars, IInv, TypeOK, Unborn, Counted, On, FreeListsAgree, Tiled
<1> QED
  BY <1>2, <1>3, <1>4, <1>5, <1>6, <1>7, <1>8, <1>9, <1>10, <1>11 DEF Next

LEMMA Invariant == Spec => []IInv
BY InitIInv, InductiveStep, PTL DEF Spec

----------------------------------------------------------------------------
(* Sums over finite sets.  A set of subsets that holds a subset as soon as *)
(* it holds it without any one of its elements holds all of them; by it a  *)
(* function of the subsets that adds one element at a time exists, and is  *)
(* the only one, which makes the folds of the models sums.                 *)

LEMMA SubsetInduction ==
    ASSUME NEW S, IsFiniteSet(S), NEW G,
           \A T \in SUBSET S : (\A x \in T : T \ {x} \in G) => T \in G
    PROVE  \A T \in SUBSET S : T \in G
<1> SUFFICES ASSUME NEW U \in SUBSET S, U \notin G PROVE FALSE
  OBVIOUS
<1> DEFINE Bad == {T \in SUBSET S : T \notin G}
<1>1. FiniteSubsetsOf(S) = SUBSET S
  BY FS_FiniteSubsetsOfFinite
<1>2. IsWellFoundedOn(StrictSubsetOrdering(S), SUBSET S)
  <2>1. IsWellFoundedOn(StrictSubsetOrdering(S), FiniteSubsetsOf(S))
    BY FS_StrictSubsetOrderingWellFounded
  <2> QED
    BY <1>1, <2>1
<1>3. Bad \subseteq SUBSET S /\ Bad # {}
  OBVIOUS
<1>4. PICK T \in Bad : \A V \in Bad : ~(<<V, T>> \in StrictSubsetOrdering(S))
  <2> HIDE DEF Bad
  <2> QED
    BY <1>2, <1>3, WFMin
<1>5. ASSUME NEW x \in T PROVE T \ {x} \in G
  <2>1. T \ {x} \in SUBSET S /\ T \ {x} # T
    OBVIOUS
  <2>2. <<T \ {x}, T>> \in StrictSubsetOrdering(S)
    BY <2>1 DEF StrictSubsetOrdering
  <2> QED
    BY <1>4, <2>1, <2>2
<1> QED
  BY <1>5

Additive(A, g, S) ==
    /\ A \in [SUBSET S -> Int] /\ A[{}] = 0
    /\ \A T \in SUBSET S : \A x \in T : A[T] = A[T \ {x}] + g[x]

LEMMA AdditiveExists ==
    ASSUME NEW S, IsFiniteSet(S), NEW g \in [S -> Int]
    PROVE  \E A : Additive(A, g, S)
<1> DEFINE G == {T \in SUBSET S : \E A : Additive(A, g, T)}
<1> SUFFICES ASSUME NEW T \in SUBSET S, \A x \in T : T \ {x} \in G PROVE T \in G
  <2>1. \A T \in SUBSET S : (\A x \in T : T \ {x} \in G) => T \in G
    OBVIOUS
  <2> HIDE DEF G
  <2>2. \A T \in SUBSET S : T \in G
    BY <2>1, SubsetInduction
  <2>3. S \in G
    BY <2>2
  <2> QED
    BY <2>3 DEF G
<1>1. CASE T = {}
  <2> DEFINE Z == [U \in SUBSET {} |-> 0]
  <2>1. Z \in [SUBSET {} -> Int] /\ Z[{}] = 0
    OBVIOUS
  <2> HIDE DEF Z
  <2>2. Additive(Z, g, {})
    BY <2>1 DEF Additive
  <2> QED
    BY <1>1, <2>2
<1>2. ASSUME NEW x \in T PROVE T \in G
  <2> DEFINE R == T \ {x}
  <2>1. PICK A : Additive(A, g, R)
    OBVIOUS
  <2> DEFINE A2 == [U \in SUBSET T |-> IF x \in U THEN A[U \ {x}] + g[x] ELSE A[U]]
  <2>2. \A U \in SUBSET T : /\ x \in U => A2[U] = A[U \ {x}] + g[x]
                            /\ x \notin U => A2[U] = A[U]
    OBVIOUS
  <2>3. A2 \in [SUBSET T -> Int]
    <3>1. g[x] \in Int
      OBVIOUS
    <3>2. \A U \in SUBSET T : (x \in U => U \ {x} \in SUBSET R) /\ (x \notin U => U \in SUBSET R)
      OBVIOUS
    <3> QED
      BY <2>1, <3>1, <3>2 DEF Additive
  <2> HIDE DEF A2
  <2>4. A2[{}] = 0
    BY <2>1, <2>2 DEF Additive
  <2>5. ASSUME NEW U \in SUBSET T, NEW y \in U PROVE A2[U] = A2[U \ {y}] + g[y]
    <3>1. CASE y = x
      <4>1. A2[U] = A[U \ {x}] + g[x] /\ A2[U \ {x}] = A[U \ {x}]
        BY <2>2, <3>1
      <4> QED
        BY <3>1, <4>1
    <3>2. CASE y # x /\ x \notin U
      <4>1. A2[U] = A[U] /\ A2[U \ {y}] = A[U \ {y}] /\ U \in SUBSET R
        BY <2>2, <3>2
      <4> QED
        BY <2>1, <4>1 DEF Additive
    <3>3. CASE y # x /\ x \in U
      <4>1. /\ A2[U] = A[U \ {x}] + g[x]
            /\ A2[U \ {y}] = A[(U \ {y}) \ {x}] + g[x]
        BY <2>2, <3>3
      <4>2. U \ {x} \in SUBSET R /\ y \in U \ {x} /\ (U \ {y}) \ {x} = (U \ {x}) \ {y}
        BY <3>3
      <4>5. A2[U \ {y}] = A[(U \ {x}) \ {y}] + g[x]
        BY <4>1, <4>2
      <4>3. A[U \ {x}] = A[(U \ {x}) \ {y}] + g[y]
        BY <2>1, <4>2 DEF Additive
      <4>4. A[(U \ {x}) \ {y}] \in Int /\ g[x] \in Int /\ g[y] \in Int
        <5>1. (U \ {x}) \ {y} \in SUBSET R
          BY <4>2
        <5> QED
          BY <2>1, <5>1 DEF Additive
      <4> QED
        BY <4>1, <4>3, <4>4, <4>5
    <3> QED
      BY <3>1, <3>2, <3>3
  <2>6. Additive(A2, g, T)
    BY <2>3, <2>4, <2>5 DEF Additive
  <2> QED
    BY <2>6
<1> QED
  BY <1>1, <1>2


(* Sums over the same elements are the same.                               *)
LEMMA AdditiveUnique ==
    ASSUME NEW S, NEW T, NEW U, IsFiniteSet(U), U \subseteq S, U \subseteq T, NEW g,
           NEW A, NEW B, Additive(A, g, S), Additive(B, g, T)
    PROVE  A[U] = B[U]
<1> DEFINE G == {V \in SUBSET U : A[V] = B[V]}
<1>1. ASSUME NEW V \in SUBSET U, \A x \in V : V \ {x} \in G PROVE V \in G
  <2>1. CASE V = {}
    BY <2>1 DEF Additive
  <2>2. ASSUME NEW x \in V PROVE A[V] = B[V]
    <3>1. A[V] = A[V \ {x}] + g[x] /\ B[V] = B[V \ {x}] + g[x]
      BY DEF Additive
    <3>2. A[V \ {x}] = B[V \ {x}]
      BY <1>1
    <3> QED
      BY <3>1, <3>2
  <2> QED
    BY <2>1, <2>2
<1>2. \A V \in SUBSET U : V \in G
  <2> HIDE DEF G
  <2> QED
    BY <1>1, SubsetInduction
<1> QED
  BY <1>2

(* The sum of the numbers that g gives the elements of S.                  *)
SumOf(g, S) == (CHOOSE A : Additive(A, g, S))[S]

LEMMA AdditiveIsSum ==
    ASSUME NEW S, IsFiniteSet(S), NEW g, NEW A, Additive(A, g, S)
    PROVE  \A T \in SUBSET S : SumOf(g, T) = A[T] /\ A[T] \in Int
<1> TAKE T \in SUBSET S
<1> DEFINE A1 == [U \in SUBSET T |-> A[U]]
<1>1. Additive(A1, g, T)
  <2>1. \A U \in SUBSET T : A1[U] = A[U] /\ U \in SUBSET S
    OBVIOUS
  <2>2. A1 \in [SUBSET T -> Int]
    BY DEF Additive
  <2> HIDE DEF A1
  <2>3. A1[{}] = 0
    BY <2>1 DEF Additive
  <2>4. ASSUME NEW U \in SUBSET T, NEW y \in U PROVE A1[U] = A1[U \ {y}] + g[y]
    <3>1. A[U] = A[U \ {y}] + g[y] /\ U \ {y} \in SUBSET T
      BY <2>1 DEF Additive
    <3> QED
      BY <2>1, <3>1
  <2> QED
    BY <2>2, <2>3, <2>4 DEF Additive
<1> HIDE DEF A1
<1>2. Additive(CHOOSE F : Additive(F, g, T), g, T)
  BY <1>1
<1> DEFINE F == CHOOSE F : Additive(F, g, T)
<1>3. SumOf(g, T) = F[T]
  BY DEF SumOf
<1>4. Additive(F, g, T)
  BY <1>2
<1> HIDE DEF F
<1>5. IsFiniteSet(T)
  BY FS_Subset
<1>6. F[T] = A[T]
  <2>1. T \subseteq T /\ T \subseteq S
    OBVIOUS
  <2> QED
    BY <1>4, <1>5, <2>1, AdditiveUnique
<1> QED
  BY <1>3, <1>6 DEF Additive

LEMMA SumEmpty == ASSUME NEW g PROVE SumOf(g, {}) = 0
<1> DEFINE Z == [U \in SUBSET {} |-> 0]
<1>1. Z \in [SUBSET {} -> Int] /\ Z[{}] = 0
  OBVIOUS
<1> HIDE DEF Z
<1>2. Additive(Z, g, {})
  BY <1>1 DEF Additive
<1>3. SumOf(g, {}) = Z[{}]
  BY <1>2, FS_EmptySet, AdditiveIsSum
<1> QED
  BY <1>1, <1>3

LEMMA SumRemove ==
    ASSUME NEW S, IsFiniteSet(S), NEW D, S \subseteq D, NEW g \in [D -> Int], NEW x \in S
    PROVE  /\ SumOf(g, S) = SumOf(g, S \ {x}) + g[x]
           /\ SumOf(g, S) \in Int /\ SumOf(g, S \ {x}) \in Int
<1> DEFINE h == [y \in S |-> g[y]]
<1>1. h \in [S -> Int] /\ \A y \in S : h[y] = g[y]
  OBVIOUS
<1> HIDE DEF h
<1>2. PICK A : Additive(A, h, S)
  BY <1>1, AdditiveExists
<1>3. Additive(A, g, S)
  BY <1>1, <1>2 DEF Additive
<1>4. /\ SumOf(g, S) = A[S] /\ SumOf(g, S \ {x}) = A[S \ {x}]
      /\ A[S] \in Int /\ A[S \ {x}] \in Int
  <2>1. S \in SUBSET S /\ S \ {x} \in SUBSET S
    OBVIOUS
  <2> QED
    BY <1>3, <2>1, AdditiveIsSum
<1> QED
  BY <1>3, <1>4 DEF Additive

LEMMA SumType ==
    ASSUME NEW S, IsFiniteSet(S), NEW D, S \subseteq D, NEW g \in [D -> Int]
    PROVE  SumOf(g, S) \in Int
<1>1. CASE S = {}
  BY <1>1, SumEmpty
<1>2. ASSUME NEW x \in S PROVE SumOf(g, S) \in Int
  BY SumRemove
<1> QED
  BY <1>1, <1>2

LEMMA SumAdd ==
    ASSUME NEW S, IsFiniteSet(S), NEW D, S \subseteq D, NEW g \in [D -> Int],
           NEW x \in D, x \notin S
    PROVE  SumOf(g, S \cup {x}) = SumOf(g, S) + g[x]
<1>1. IsFiniteSet(S \cup {x}) /\ x \in S \cup {x} /\ S \cup {x} \subseteq D
  BY FS_AddElement
<1>2. (S \cup {x}) \ {x} = S
  OBVIOUS
<1>3. SumOf(g, S \cup {x}) = SumOf(g, (S \cup {x}) \ {x}) + g[x]
  BY <1>1, SumRemove
<1> QED
  BY <1>2, <1>3

(* Sums depend on the numbers of their elements only, under any names.     *)
LEMMA SumImage ==
    ASSUME NEW S, IsFiniteSet(S), NEW D, S \subseteq D, NEW g \in [D -> Int],
           NEW E, NEW h \in [E -> Int], NEW m \in [S -> E],
           \A x, y \in S : x # y => m[x] # m[y], \A x \in S : h[m[x]] = g[x]
    PROVE  SumOf(h, {m[x] : x \in S}) = SumOf(g, S)
<1> DEFINE Im(T) == {m[x] : x \in T}
           G == {T \in SUBSET S : IsFiniteSet(Im(T)) /\ SumOf(h, Im(T)) = SumOf(g, T)}
<1>1. ASSUME NEW T \in SUBSET S, \A x \in T : T \ {x} \in G PROVE T \in G
  <2>1. CASE T = {}
    BY <2>1, SumEmpty, FS_EmptySet
  <2>2. ASSUME NEW x \in T PROVE T \in G
    <3>1. Im(T) = Im(T \ {x}) \cup {m[x]} /\ m[x] \notin Im(T \ {x}) /\ m[x] \in E
          /\ Im(T \ {x}) \subseteq E
      OBVIOUS
    <3>2. IsFiniteSet(Im(T \ {x})) /\ SumOf(h, Im(T \ {x})) = SumOf(g, T \ {x})
      BY <1>1
    <3> HIDE DEF Im
    <3>3. PICK J : J = Im(T \ {x})
      OBVIOUS
    <3>4. IsFiniteSet(J) /\ J \subseteq E /\ m[x] \in E /\ m[x] \notin J /\ Im(T) = J \cup {m[x]}
      BY <3>1, <3>2, <3>3
    <3>5. IsFiniteSet(J \cup {m[x]})
      BY <3>4, FS_AddElement
    <3>6. SumOf(h, J \cup {m[x]}) = SumOf(h, J) + h[m[x]]
      BY <3>4, SumAdd
    <3>7. IsFiniteSet(T) /\ T \subseteq D
      BY FS_Subset
    <3>8. SumOf(g, T) = SumOf(g, T \ {x}) + g[x]
      BY <3>7, SumRemove
    <3> QED
      BY <3>2, <3>3, <3>4, <3>5, <3>6, <3>8
  <2> QED
    BY <2>1, <2>2
<1>2. \A T \in SUBSET S : T \in G
  <2> HIDE DEF G
  <2> QED
    BY <1>1, SubsetInduction
<1>3. S \in G
  BY <1>2
<1> QED
  BY <1>3

LEMMA SumSame ==
    ASSUME NEW S, IsFiniteSet(S), NEW D, S \subseteq D, NEW g \in [D -> Int],
           NEW h \in [D -> Int], \A x \in S : h[x] = g[x]
    PROVE  SumOf(h, S) = SumOf(g, S)
<1> DEFINE m == [x \in S |-> x]
<1>1. m \in [S -> D] /\ \A x \in S : m[x] = x
  OBVIOUS
<1>2. {m[x] : x \in S} = S
  BY <1>1
<1> HIDE DEF m
<1>3. SumOf(h, {m[x] : x \in S}) = SumOf(g, S)
  BY <1>1, SumImage
<1> QED
  BY <1>2, <1>3

LEMMA SumWithout ==
    ASSUME NEW S, IsFiniteSet(S), NEW D, S \subseteq D, NEW g \in [D -> Int], NEW R \in SUBSET S
    PROVE  SumOf(g, S \ R) = SumOf(g, S) - SumOf(g, R)
<1> DEFINE G == {T \in SUBSET R : SumOf(g, S \ T) = SumOf(g, S) - SumOf(g, T)}
<1>1. ASSUME NEW T \in SUBSET R, \A x \in T : T \ {x} \in G PROVE T \in G
  <2>1. CASE T = {}
    <3>1. S \ T = S
      BY <2>1
    <3> QED
      BY <2>1, <3>1, SumEmpty, SumType
  <2>2. ASSUME NEW x \in T PROVE T \in G
    <3>1. SumOf(g, S \ (T \ {x})) = SumOf(g, S) - SumOf(g, T \ {x})
      BY <1>1
    <3>2. SumOf(g, T) = SumOf(g, T \ {x}) + g[x] /\ SumOf(g, T \ {x}) \in Int
      BY SumRemove, FS_Subset
    <3>3. PICK V : V = S \ (T \ {x})
      OBVIOUS
    <3>4. x \in V /\ IsFiniteSet(V) /\ V \subseteq D /\ V \ {x} = S \ T
      BY <3>3, FS_Subset
    <3>5. SumOf(g, V) = SumOf(g, V \ {x}) + g[x] /\ SumOf(g, V \ {x}) \in Int
      BY <3>4, SumRemove
    <3>6. SumOf(g, S \ T) \in Int /\ SumOf(g, V) = SumOf(g, S \ T) + g[x]
      BY <3>4, <3>5
    <3>7. g[x] \in Int /\ SumOf(g, S) \in Int
      BY SumType
    <3> QED
      BY <3>1, <3>2, <3>3, <3>6, <3>7
  <2> QED
    BY <2>1, <2>2
<1>2. \A T \in SUBSET R : T \in G
  <2> HIDE DEF G
  <2> QED
    BY <1>1, SubsetInduction, FS_Subset
<1>3. R \in G
  BY <1>2
<1> QED
  BY <1>3

(* A fold over a set that takes one element after the other, whichever it  *)
(* chooses, is well defined and yields the sum.                            *)
Folded(F, first, g, S) ==
    F = [T \in SUBSET S |-> IF T = {} THEN 0 ELSE g[first[T]] + F[T \ {first[T]}]]

LEMMA FoldExists ==
    ASSUME NEW S, IsFiniteSet(S), NEW g \in [S -> Int],
           NEW first, \A T \in SUBSET S : T # {} => first[T] \in T
    PROVE  \E F : Folded(F, first, g, S)
<1>1. PICK A : Additive(A, g, S)
  BY AdditiveExists
<1>2. A \in [SUBSET S -> Int] /\ A[{}] = 0
  BY <1>1 DEF Additive
<1>3. ASSUME NEW T \in SUBSET S, T # {} PROVE A[T] = g[first[T]] + A[T \ {first[T]}]
  <2>1. first[T] \in T
    BY <1>3
  <2>2. A[T] = A[T \ {first[T]}] + g[first[T]]
    BY <1>1, <2>1 DEF Additive
  <2>3. T \ {first[T]} \in SUBSET S /\ first[T] \in S
    BY <2>1
  <2>4. A[T \ {first[T]}] \in Int /\ g[first[T]] \in Int
    BY <1>2, <2>3
  <2> QED
    BY <2>2, <2>4
<1>4. Folded(A, first, g, S)
  BY <1>2, <1>3 DEF Folded
<1> QED
  BY <1>4

LEMMA FoldIsSum ==
    ASSUME NEW S, IsFiniteSet(S), NEW g \in [S -> Int],
           NEW first, \A T \in SUBSET S : T # {} => first[T] \in T,
           NEW F, Folded(F, first, g, S)
    PROVE  F[S] = SumOf(g, S)
<1> DEFINE G == {T \in SUBSET S : F[T] = SumOf(g, T)}
<1>1. ASSUME NEW T \in SUBSET S, \A x \in T : T \ {x} \in G PROVE T \in G
  <2>1. F[T] = IF T = {} THEN 0 ELSE g[first[T]] + F[T \ {first[T]}]
    BY DEF Folded
  <2>2. CASE T = {}
    BY <2>1, <2>2, SumEmpty
  <2>3. CASE T # {}
    <3>1. first[T] \in T /\ IsFiniteSet(T)
      BY <2>3, FS_Subset
    <3>2. F[T \ {first[T]}] = SumOf(g, T \ {first[T]})
      BY <1>1, <3>1
    <3>3. SumOf(g, T) = SumOf(g, T \ {first[T]}) + g[first[T]]
          /\ SumOf(g, T \ {first[T]}) \in Int
      BY <3>1, SumRemove
    <3>4. g[first[T]] \in Int
      BY <3>1
    <3> QED
      BY <2>1, <2>3, <3>2, <3>3, <3>4
  <2> QED
    BY <2>2, <2>3
<1>2. \A T \in SUBSET S : T \in G
  <2> HIDE DEF G
  <2> QED
    BY <1>1, SubsetInduction
<1> QED
  BY <1>2

Chosen(S) == [T \in SUBSET S |-> CHOOSE x \in T : TRUE]

LEMMA ChosenIn == ASSUME NEW S PROVE \A T \in SUBSET S : T # {} => Chosen(S)[T] \in T
BY DEF Chosen

(* The sums of the models.                                                 *)
LEMMA TotalIsSum ==
    ASSUME NEW B, IsFiniteSet(B), \A b \in B : b.size \in Int
    PROVE  SlabHeap!Total(B) = SumOf([b \in B |-> b.size], B)
<1> DEFINE first(s) == CHOOSE x \in s : TRUE
           iter[s \in SUBSET B] == IF s = {} THEN 0 ELSE first(s).size + iter[s \ {first(s)}]
           g == [b \in B |-> b.size]
<1>1. SlabHeap!Total(B) = iter[B]
  BY DEF SlabHeap!Total, SlabHeap!MapThenSumSet, SlabHeap!MapThenFoldSet
<1>2. g \in [B -> Int]
  OBVIOUS
<1>3. ASSUME NEW F
      PROVE  Folded(F, Chosen(B), g, B)
             <=> F = [s \in SUBSET B |-> IF s = {} THEN 0 ELSE first(s).size + F[s \ {first(s)}]]
  <2>1. \A s \in SUBSET B : s # {} => /\ Chosen(B)[s] = first(s)
                                      /\ g[Chosen(B)[s]] = first(s).size
    BY DEF Chosen
  <2> HIDE DEF first, g
  <2> QED
    BY <2>1 DEF Folded
<1>4. \E F : Folded(F, Chosen(B), g, B)
  <2> HIDE DEF g
  <2> QED
    BY <1>2, ChosenIn, FoldExists
<1>5. Folded(iter, Chosen(B), g, B)
  <2> HIDE DEF first, g
  <2>1. \E F : F = [s \in SUBSET B |-> IF s = {} THEN 0 ELSE first(s).size + F[s \ {first(s)}]]
    BY <1>3, <1>4
  <2>2. iter = [s \in SUBSET B |-> IF s = {} THEN 0 ELSE first(s).size + iter[s \ {first(s)}]]
    BY <2>1 DEF iter
  <2> QED
    BY <1>3, <2>2
<1>6. iter[B] = SumOf(g, B)
  <2> HIDE DEF iter, g
  <2> QED
    BY <1>2, <1>5, ChosenIn, FoldIsSum
<1> QED
  BY <1>1, <1>6

(* The numbers that g gives elements outside of S do not matter.           *)
LEMMA SumAgree ==
    ASSUME NEW S, IsFiniteSet(S), NEW D, S \subseteq D, NEW g \in [D -> Int]
    PROVE  SumOf([x \in S |-> g[x]], S) = SumOf(g, S)
<1> DEFINE h == [x \in S |-> g[x]]
<1>1. h \in [S -> Int] /\ \A y \in S : h[y] = g[y]
  OBVIOUS
<1> HIDE DEF h
<1>2. PICK A : Additive(A, h, S)
  BY <1>1, AdditiveExists
<1>3. Additive(A, g, S)
  BY <1>1, <1>2 DEF Additive
<1>4. S \in SUBSET S
  OBVIOUS
<1>5. SumOf(h, S) = A[S] /\ SumOf(g, S) = A[S]
  BY <1>2, <1>3, <1>4, AdditiveIsSum
<1> QED
  BY <1>5 DEF h

LEMMA FreedIsSum ==
    ASSUME IsFiniteSet(Idle), Idle \subseteq SlabIds, size \in [SlabIds -> Nat]
    PROVE  Freed = SumOf(size, Idle)
<1> DEFINE first(s) == CHOOSE x \in s : TRUE
           iter[s \in SUBSET Idle] == IF s = {} THEN 0 ELSE size[first(s)] + iter[s \ {first(s)}]
           g == [k \in Idle |-> size[k]]
<1>1. Freed = iter[Idle]
  BY DEF Freed, SizeOf, MapThenSumSet, MapThenFoldSet
<1>2. g \in [Idle -> Int]
  OBVIOUS
<1>3. ASSUME NEW F
      PROVE  Folded(F, Chosen(Idle), g, Idle)
             <=> F = [s \in SUBSET Idle |-> IF s = {} THEN 0 ELSE size[first(s)] + F[s \ {first(s)}]]
  <2>1. \A s \in SUBSET Idle : s # {} => /\ Chosen(Idle)[s] = first(s)
                                         /\ g[Chosen(Idle)[s]] = size[first(s)]
    BY DEF Chosen
  <2> HIDE DEF first, g
  <2> QED
    BY <2>1 DEF Folded
<1>4. \E F : Folded(F, Chosen(Idle), g, Idle)
  <2> HIDE DEF g
  <2> QED
    BY <1>2, ChosenIn, FoldExists
<1>5. Folded(iter, Chosen(Idle), g, Idle)
  <2> HIDE DEF first, g
  <2>1. \E F : F = [s \in SUBSET Idle |-> IF s = {} THEN 0 ELSE size[first(s)] + F[s \ {first(s)}]]
    BY <1>3, <1>4
  <2>2. iter = [s \in SUBSET Idle |-> IF s = {} THEN 0 ELSE size[first(s)] + iter[s \ {first(s)}]]
    BY <2>1 DEF iter
  <2> QED
    BY <1>3, <2>2
<1>6. iter[Idle] = SumOf(g, Idle)
  <2> HIDE DEF iter, g
  <2> QED
    BY <1>2, <1>5, ChosenIn, FoldIsSum
<1>7. SumOf(g, Idle) = SumOf(size, Idle)
  BY <1>2, SumAgree
<1> QED
  BY <1>1, <1>6, <1>7

----------------------------------------------------------------------------
(* The workspace allocator and the sums it keeps.                          *)

weight == [b \in BlockType |-> b.size]

Sums == reserved = SumOf(size, slabs) /\ allocated = SumOf(weight, live)

LEMMA Sizes ==
    ASSUME IInv
    PROVE  /\ weight \in [BlockType -> Int] /\ live \subseteq BlockType /\ IsFiniteSet(live)
           /\ size \in [SlabIds -> Int] /\ slabs \subseteq SlabIds /\ IsFiniteSet(slabs)
           /\ Idle \subseteq SlabIds /\ IsFiniteSet(Idle) /\ Idle \subseteq slabs
<1>1. weight \in [BlockType -> Int]
  BY DEF weight, BlockType
<1>2. born \in Nat /\ slabs \subseteq 1..born /\ slabs \subseteq SlabIds
  BY DelAllocatorAssumption DEF IInv, TypeOK, Tiled
<1>3. IsFiniteSet(slabs)
  <2>1. IsFiniteSet(1..born)
    BY <1>2, FS_Interval
  <2> QED
    BY <1>2, <2>1, FS_Subset
<1>4. Idle \subseteq slabs /\ IsFiniteSet(Idle)
  BY <1>3, FS_Subset DEF Idle
<1> QED
  BY <1>1, <1>2, <1>3, <1>4 DEF IInv, TypeOK

(* The dptr that create_dptr makes is a new one: otherwise its slab would  *)
(* count one too many.                                                     *)
LEMMA DptrIsNew ==
    ASSUME IInv, IInv', NEW b, CreateDptr(b, active)
    PROVE  /\ b \notin live /\ b \in BlockType /\ live' = live \cup {b}
           /\ Sums => allocated' = SumOf(weight, live')
<1>1. /\ live' = live \cup {b} /\ active' = [active EXCEPT ![b.slab] = @ + 1]
      /\ allocated' = allocated + b.size
  BY DEF CreateDptr
<1>2. b \in BlockType /\ b.slab \in SlabIds
  <2>1. live' \subseteq BlockType
    BY DEF IInv, TypeOK
  <2> QED
    BY <1>1, <2>1, BlockFacts
<1>3. b \notin live
  <2> SUFFICES ASSUME b \in live PROVE FALSE
    OBVIOUS
  <2>1. live' = live
    BY <1>1
  <2>2. /\ active'[b.slab] = Cardinality(On(live', b.slab))
        /\ active[b.slab] = Cardinality(On(live, b.slab))
    BY <1>2 DEF IInv, Counted
  <2>3. active \in [SlabIds -> Nat]
    BY DEF IInv, TypeOK
  <2> QED
    BY <1>1, <1>2, <2>1, <2>2, <2>3
<1>4. SumOf(weight, live \cup {b}) = SumOf(weight, live) + weight[b]
  BY <1>2, <1>3, Sizes, SumAdd
<1>5. weight[b] = b.size
  BY <1>2 DEF weight
<1> QED
  BY <1>1, <1>2, <1>3, <1>4, <1>5 DEF Sums

LEMMA ReclaimSums ==
    ASSUME IInv, Sums, NEW b \in live, Reclaim(b)
    PROVE  Sums'
<1>1. /\ live' = live \ {b} /\ allocated' = allocated - b.size
      /\ slabs' = slabs /\ size' = size /\ reserved' = reserved
  BY DEF Reclaim, slabVars
<1>2. /\ SumOf(weight, live) = SumOf(weight, live \ {b}) + weight[b]
      /\ SumOf(weight, live \ {b}) \in Int
  BY Sizes, SumRemove
<1>3. weight[b] = b.size /\ b.size \in Nat
  BY Sizes, BlockFacts DEF weight
<1>4. weight' = weight
  BY DEF weight
<1>5. allocated' = SumOf(weight, live')
  BY <1>1, <1>2, <1>3 DEF Sums
<1> QED
  BY <1>1, <1>4, <1>5 DEF Sums

(* What the slabs hold when the idle ones are given back.                  *)
LEMMA DropSums ==
    ASSUME IInv, Sums
    PROVE  SumOf(size, slabs \ Idle) = reserved - Freed /\ Freed \in Int /\ reserved \in Int
<1>1. Freed = SumOf(size, Idle)
  BY Sizes, FreedIsSum DEF IInv, TypeOK
<1>2. SumOf(size, slabs \ Idle) = SumOf(size, slabs) - SumOf(size, Idle)
  <2>1. Idle \in SUBSET slabs /\ IsFiniteSet(slabs) /\ slabs \subseteq SlabIds
        /\ size \in [SlabIds -> Int]
    BY Sizes
  <2> HIDE DEF Idle
  <2> QED
    BY <2>1, SumWithout
<1>3. SumOf(size, slabs) \in Int /\ SumOf(size, Idle) \in Int
  BY Sizes, SumType
<1> QED
  BY <1>1, <1>2, <1>3 DEF Sums

LEMMA NewSlabSums ==
    ASSUME IInv, Sums, NEW m \in 1..Capacity, NewSlab(m)
    PROVE  reserved' = SumOf(size', slabs')
<1>1. PICK k : k = born + 1
  OBVIOUS
<1>2. /\ born' = k /\ k \in SlabIds /\ m \in Nat
  BY <1>1, NewSlabStep
<1>3. /\ slabs' = (slabs \ Idle) \cup {k} /\ size' = [size EXCEPT ![k] = m]
      /\ reserved' = reserved - Freed + m
  BY <1>1 DEF NewSlab
<1>4. k \notin slabs \ Idle
  BY <1>1 DEF IInv, TypeOK
<1>5. PICK R : R = slabs \ Idle
  OBVIOUS
<1>6. IsFiniteSet(R) /\ R \subseteq SlabIds /\ k \notin R
  BY <1>4, <1>5, Sizes, FS_Subset
<1>7. /\ size' \in [SlabIds -> Int] /\ size'[k] = m /\ size \in [SlabIds -> Int]
      /\ \A s \in R : size'[s] = size[s]
  BY <1>2, <1>3, <1>6, Sizes
<1>8. SumOf(size', R) = SumOf(size, R)
  BY <1>6, <1>7, SumSame
<1>9. SumOf(size', R \cup {k}) = SumOf(size', R) + size'[k]
  BY <1>2, <1>6, <1>7, SumAdd
<1>10. SumOf(size, R) = reserved - Freed
  BY <1>5, DropSums
<1> QED
  BY <1>3, <1>5, <1>7, <1>8, <1>9, <1>10

LEMMA StepSums ==
    ASSUME IInv, IInv', Sums, [Next]_vars
    PROVE  Sums'
<1>0. weight' = weight
  BY DEF weight
<1>1. ASSUME NEW b, CreateDptr(b, active), UNCHANGED <<slabs, size, reserved>> PROVE Sums'
  BY <1>0, <1>1, DptrIsNew DEF Sums
<1>2. ASSUME NEW m \in 1..Capacity, NewSlab(m), UNCHANGED <<live, allocated>> PROVE Sums'
  BY <1>0, <1>2, NewSlabSums DEF Sums
<1>3. ASSUME slabs' = slabs \ Idle, reserved' = reserved - Freed, UNCHANGED <<size, live, allocated>>
      PROVE  Sums'
  BY <1>0, <1>3, DropSums DEF Sums
<1>4. ASSUME UNCHANGED <<slabs, size, reserved, live, allocated>> PROVE Sums'
  BY <1>0, <1>4 DEF Sums
<1>5. ASSUME NEW n \in 1..MaxRequest, AllocateExact(n) \/ AllocateSplit(n) PROVE Sums'
  BY <1>1, <1>5 DEF AllocateExact, AllocateSplit, TakeFree, slabVars
<1>6. ASSUME NEW n \in 1..MaxRequest, AllocateMiddle(n) PROVE Sums'
  BY <1>1, <1>6 DEF AllocateMiddle, Bump, slabVars
<1>7. ASSUME NEW n \in 1..MaxRequest, AllocateNewSlab(n) PROVE Sums'
  <2>1. PICK m \in 1..Capacity :
           NewSlab(m) /\ Bump(born + 1, n, left, [right EXCEPT ![born + 1] = m], active)
    BY <1>7 DEF AllocateNewSlab
  <2>2. PICK b : CreateDptr(b, active)
    BY <2>1 DEF Bump
  <2> QED
    BY <1>0, <2>1, <2>2, NewSlabSums, DptrIsNew DEF Sums
<1>8. ASSUME NEW n \in 1..MaxRequest, EnsureNewSlab(n) PROVE Sums'
  BY <1>2, <1>8 DEF EnsureNewSlab
<1>9. ASSUME NEW n \in 1..MaxRequest, AllocateFails(n) \/ EnsureFails(n) PROVE Sums'
  BY <1>3, <1>9 DEF AllocateFails, EnsureFails, SlabRefused
<1>10. CASE EvictUnused
  BY <1>3, <1>10 DEF EvictUnused
<1>11. CASE Clear
  <2>1. live' = {} /\ slabs' = {} /\ reserved' = 0 /\ allocated' = 0
    <3>1. slabs' = {} /\ reserved' = 0 /\ allocated' = 0 /\ live' = live
      BY <1>11 DEF Clear
    <3>2. \A b \in live' : b.slab \in slabs'
      BY DEF IInv, Tiled
    <3> QED
      BY <3>1, <3>2
  <2> QED
    BY <2>1, SumEmpty DEF Sums
<1>12. ASSUME NEW b \in live, Reclaim(b) PROVE Sums'
  BY <1>12, ReclaimSums
<1>13. CASE Flip
  BY <1>4, <1>13 DEF Flip, slabVars
<1>14. CASE UNCHANGED vars
  BY <1>4, <1>14 DEF vars, slabVars
<1> QED
  BY <1>5, <1>6, <1>7, <1>8, <1>9, <1>10, <1>11, <1>12, <1>13, <1>14 DEF Next

LEMMA SlabInvariant == Spec => [](IInv /\ Sums)
<1>1. Init => Sums
  <2> SUFFICES ASSUME Init PROVE Sums
    OBVIOUS
  <2>1. slabs = {} /\ live = {} /\ reserved = 0 /\ allocated = 0
    BY DEF Init
  <2> QED
    BY <2>1, SumEmpty DEF Sums
<1>2. IInv /\ IInv' /\ Sums /\ [Next]_vars => Sums'
  BY StepSums
<1> QED
  BY <1>1, <1>2, InitIInv, InductiveStep, PTL DEF Spec

(* The slabs and dptrs as the heap sees them.                              *)
Memory == {[base |-> s, size |-> size[s]] : s \in slabs}
Dptrs  == {[base |-> b.slab, offset |-> b.offset, size |-> b.size] : b \in live}

LEMMA MemoryTotal ==
    ASSUME IInv
    PROVE  SlabHeap!Total(Memory) = SumOf(size, slabs)
<1> DEFINE m == [s \in slabs |-> [base |-> s, size |-> size[s]]]
<1>1. Memory = {m[s] : s \in slabs}
  BY DEF Memory
<1>2. /\ m \in [slabs -> Memory]
      /\ \A s, t \in slabs : s # t => m[s] # m[t]
      /\ \A s \in slabs : m[s].size = size[s]
      /\ \A r \in Memory : \E s \in slabs : m[s] = r
  BY DEF Memory
<1>3. IsFiniteSet(Memory)
  <2>1. m \in Surjection(slabs, Memory)
    BY <1>2 DEF Surjection
  <2> HIDE DEF m
  <2> QED
    BY <2>1, Sizes, FS_Surjection
<1> DEFINE h == [r \in Memory |-> r.size]
<1>4. h \in [Memory -> Int] /\ \A s \in slabs : h[m[s]] = size[s]
  <2>1. \A s \in slabs : size[s] \in Int
    BY Sizes
  <2>2. \A r \in Memory : r.size \in Int
    BY <1>2, <2>1
  <2> HIDE DEF m
  <2> QED
    BY <1>2, <2>2
<1>5. SlabHeap!Total(Memory) = SumOf(h, Memory)
  <2>1. \A r \in Memory : r.size \in Int
    BY Sizes DEF Memory
  <2> QED
    BY <1>3, <2>1, TotalIsSum
<1>6. SumOf(h, {m[s] : s \in slabs}) = SumOf(size, slabs)
  <2>1. IsFiniteSet(slabs) /\ slabs \subseteq SlabIds /\ size \in [SlabIds -> Int]
    BY Sizes
  <2> HIDE DEF m, h
  <2>2. /\ m \in [slabs -> Memory] /\ h \in [Memory -> Int]
        /\ \A x, y \in slabs : x # y => m[x] # m[y]
        /\ \A x \in slabs : h[m[x]] = size[x]
    BY <1>2, <1>4
  <2> QED
    BY <2>1, <2>2, SumImage
<1> QED
  BY <1>1, <1>5, <1>6

LEMMA SlabSound ==
    ASSUME IInv, Sums
    PROVE  SlabHeap!Sound
<1>1. \A r, s \in Memory : r.base = s.base => r = s
  BY DEF Memory
<1>2. ASSUME NEW b \in Dptrs PROVE \E r \in Memory : r.base = b.base /\ b.offset + b.size <= r.size
  <2>1. PICK c \in live : b = [base |-> c.slab, offset |-> c.offset, size |-> c.size]
    BY DEF Dptrs
  <2>2. c.slab \in slabs /\ c.offset + c.size <= size[c.slab]
    BY KnownBlock DEF IInv
  <2>3. PICK r : r = [base |-> c.slab, size |-> size[c.slab]]
    OBVIOUS
  <2>4. r \in Memory
    BY <2>2, <2>3 DEF Memory
  <2> QED
    BY <2>1, <2>2, <2>3, <2>4
<1>3. ASSUME NEW b \in Dptrs, NEW c \in Dptrs, b # c PROVE SlabHeap!Disjoint(b, c)
  <2>1. PICK x \in live : b = [base |-> x.slab, offset |-> x.offset, size |-> x.size]
    BY DEF Dptrs
  <2>2. PICK y \in live : c = [base |-> y.slab, offset |-> y.offset, size |-> y.size]
    BY DEF Dptrs
  <2>3. x # y
    BY <1>3, <2>1, <2>2
  <2>4. Apart(x, y)
    BY <2>3 DEF IInv, Tiled
  <2> QED
    BY <2>1, <2>2, <2>4 DEF Apart, End, SlabHeap!Disjoint
<1>4. reserved = SlabHeap!Total(Memory)
  BY MemoryTotal DEF Sums
<1> QED
  BY <1>1, <1>2, <1>3, <1>4 DEF SlabHeap!Sound, Memory, Dptrs

----------------------------------------------------------------------------
(* The steps of the workspace allocator, as a heap takes them.             *)

(* A slab stays, with its size, while a dptr is on it.                     *)
LEMMA SlabSteady ==
    ASSUME IInv, \A s \in slabs \ Idle : s \in slabs' /\ size'[s] = size[s]
    PROVE  SlabHeap!Steady
<1> SUFFICES ASSUME NEW r \in Memory, NEW b \in Dptrs, b.base = r.base PROVE r \in Memory'
  BY DEF SlabHeap!Steady, Memory, Dptrs
<1>1. PICK s \in slabs : r = [base |-> s, size |-> size[s]]
  BY DEF Memory
<1>2. PICK c \in live : b.base = c.slab
  BY DEF Dptrs
<1>3. s \notin Idle
  BY <1>1, <1>2, IdleHasNone
<1>4. s \in slabs' /\ size'[s] = size[s]
  BY <1>3
<1> QED
  BY <1>1, <1>4 DEF Memory

LEMMA SlabTakes ==
    ASSUME IInv, IInv', NEW b, CreateDptr(b, active)
    PROVE  SlabHeap!Take
<1>1. /\ b \notin live /\ b \in BlockType /\ live' = live \cup {b}
      /\ allocated' = allocated + b.size
  BY DptrIsNew DEF CreateDptr
<1>2. PICK d : d = [base |-> b.slab, offset |-> b.offset, size |-> b.size]
  OBVIOUS
<1>3. d \notin Dptrs
  <2> SUFFICES ASSUME NEW c \in live,
                      d = [base |-> c.slab, offset |-> c.offset, size |-> c.size]
               PROVE  FALSE
    BY DEF Dptrs
  <2>1. c \in BlockType
    BY Sizes
  <2>2. b = c
    BY <1>1, <1>2, <2>1 DEF BlockType
  <2> QED
    BY <1>1, <2>2
<1>4. Dptrs' = Dptrs \cup {d}
  BY <1>1, <1>2 DEF Dptrs
<1>5. d.size = b.size
  BY <1>2
<1> QED
  BY <1>1, <1>3, <1>4, <1>5 DEF SlabHeap!Take, Dptrs

LEMMA SlabGives ==
    ASSUME IInv, NEW b \in live, Reclaim(b)
    PROVE  SlabHeap!Give
<1>1. /\ live' = live \ {b} /\ allocated' = allocated - b.size
      /\ slabs' = slabs /\ size' = size /\ reserved' = reserved
  BY DEF Reclaim, slabVars
<1>2. PICK d : d = [base |-> b.slab, offset |-> b.offset, size |-> b.size]
  OBVIOUS
<1>3. \A c \in live : [base |-> c.slab, offset |-> c.offset, size |-> c.size] = d => c = b
  <2>1. \A c \in live : c \in BlockType
    BY Sizes
  <2> QED
    BY <1>2, <2>1 DEF BlockType
<1>4. d \in Dptrs /\ d.size = b.size
  BY <1>2 DEF Dptrs
<1>5. Dptrs' = Dptrs \ {d}
  BY <1>1, <1>2, <1>3 DEF Dptrs
<1>6. Memory' = Memory
  BY <1>1 DEF Memory
<1> QED
  BY <1>1, <1>4, <1>5, <1>6 DEF SlabHeap!Give, Dptrs, Memory

LEMMA SlabTidies ==
    ASSUME UNCHANGED <<live, allocated>>
    PROVE  SlabHeap!Tidy
BY DEF SlabHeap!Tidy

LEMMA SlabStep ==
    ASSUME IInv, IInv', Sums, [Next]_vars, SlabHeap!Sound'
    PROVE  [SlabHeap!HeapNext]_(SlabHeap!heapVars)
<1> SUFFICES ASSUME ~ UNCHANGED vars
             PROVE  SlabHeap!Steady /\ (SlabHeap!Take \/ SlabHeap!Give \/ SlabHeap!Tidy)
  BY DEF SlabHeap!HeapNext, SlabHeap!heapVars, vars, slabVars
<1>1. ASSUME UNCHANGED <<slabs, size>> PROVE SlabHeap!Steady
  BY <1>1, SlabSteady
<1>2. ASSUME slabs' = slabs \ Idle, UNCHANGED size PROVE SlabHeap!Steady
  BY <1>2, SlabSteady
<1>3. ASSUME NEW m \in 1..Capacity, NewSlab(m) PROVE SlabHeap!Steady
  <2>1. /\ slabs' = (slabs \ Idle) \cup {born + 1} /\ size' = [size EXCEPT ![born + 1] = m]
        /\ size \in [SlabIds -> Int] /\ slabs \subseteq SlabIds
    BY <1>3, Sizes DEF NewSlab
  <2>2. \A s \in slabs : s # born + 1
    BY DEF IInv, TypeOK
  <2>3. \A s \in slabs \ Idle : s \in slabs' /\ size'[s] = size[s]
    BY <2>1, <2>2
  <2> QED
    BY <2>3, SlabSteady
<1>4. ASSUME NEW n \in 1..MaxRequest, AllocateExact(n) \/ AllocateSplit(n)
      PROVE  SlabHeap!Steady /\ SlabHeap!Take
  BY <1>1, <1>4, SlabTakes DEF AllocateExact, AllocateSplit, TakeFree, slabVars
<1>5. ASSUME NEW n \in 1..MaxRequest, AllocateMiddle(n) PROVE SlabHeap!Steady /\ SlabHeap!Take
  BY <1>1, <1>5, SlabTakes DEF AllocateMiddle, Bump, slabVars
<1>6. ASSUME NEW n \in 1..MaxRequest, AllocateNewSlab(n) PROVE SlabHeap!Steady /\ SlabHeap!Take
  <2>1. PICK m \in 1..Capacity :
           NewSlab(m) /\ Bump(born + 1, n, left, [right EXCEPT ![born + 1] = m], active)
    BY <1>6 DEF AllocateNewSlab
  <2>2. PICK b : CreateDptr(b, active)
    BY <2>1 DEF Bump
  <2> QED
    BY <1>3, <2>1, <2>2, SlabTakes
<1>7. ASSUME NEW n \in 1..MaxRequest, EnsureNewSlab(n) PROVE SlabHeap!Steady /\ SlabHeap!Tidy
  BY <1>3, <1>7, SlabTidies DEF EnsureNewSlab
<1>8. ASSUME NEW n \in 1..MaxRequest, AllocateFails(n) \/ EnsureFails(n)
      PROVE  SlabHeap!Steady /\ SlabHeap!Tidy
  BY <1>2, <1>8, SlabTidies DEF AllocateFails, EnsureFails, SlabRefused
<1>9. ASSUME NEW b \in live, Reclaim(b) PROVE SlabHeap!Steady /\ SlabHeap!Give
  BY <1>1, <1>9, SlabGives DEF Reclaim, slabVars
<1>10. CASE EvictUnused
  BY <1>2, <1>10, SlabTidies DEF EvictUnused
<1>11. CASE Clear
  <2>1. slabs = Idle /\ live' = live /\ allocated' = 0
    BY <1>11 DEF Clear, Idle
  <2>2. SlabHeap!Steady
    BY <2>1, SlabSteady
  <2>3. live = {}
    <3>1. \A b \in live : b.slab \in slabs
      BY DEF IInv, Tiled
    <3>2. \A b \in live : b.slab \notin Idle
      BY IdleHasNone
    <3> QED
      BY <2>1, <3>1, <3>2
  <2>4. allocated = 0
    BY <2>3, SumEmpty DEF Sums
  <2> QED
    BY <2>1, <2>2, <2>4, SlabTidies
<1>12. CASE Flip
  BY <1>1, <1>12, SlabTidies DEF Flip, slabVars
<1> QED
  BY <1>4, <1>5, <1>6, <1>7, <1>8, <1>9, <1>10, <1>11, <1>12 DEF Next

LEMMA SlabImplements == Spec => SlabHeap!HeapSpec
<1>1. Init => SlabHeap!HeapInit
  BY DEF Init, SlabHeap!HeapInit
<1>2. IInv /\ Sums => SlabHeap!Sound
  BY SlabSound
<1>3. IInv /\ IInv' /\ Sums /\ SlabHeap!Sound' /\ [Next]_vars
          => [SlabHeap!HeapNext]_(SlabHeap!heapVars)
  BY SlabStep
<1> QED
  BY <1>1, <1>2, <1>3, SlabInvariant, PTL DEF Spec, SlabHeap!HeapSpec

----------------------------------------------------------------------------
(* The pool: a block that is free, or in use, is backed by memory of its   *)
(* own address, and a free one is as large as what backs it.               *)

PoolInv ==
    /\ IsFiniteSet(backend_allocs)
    /\ backend_allocs \subseteq [ptr : Addresses, capacity : Nat]
    /\ free_blocks \subseteq [size : Nat, ptr : Addresses]
    /\ outstanding \subseteq [ptr : Addresses, size : Nat]
    /\ \A a, b \in backend_allocs : a.ptr = b.ptr => a = b
    /\ \A d, e \in outstanding : d.ptr = e.ptr => d = e
    /\ \A d \in outstanding : \E a \in backend_allocs : a.ptr = d.ptr /\ d.size <= a.capacity
    /\ \A f \in free_blocks : [ptr |-> f.ptr, capacity |-> f.size] \in backend_allocs
    /\ \A f \in free_blocks, d \in outstanding : f.ptr # d.ptr

LEMMA InitPoolInv == PoolInit => PoolInv
BY FS_EmptySet DEF PoolInit, PoolInv

(* What a request finds free is backed, fits, and is in no one's hands.    *)
LEMMA LowerBoundFacts ==
    ASSUME PoolInv, NEW n, NEW f \in LowerBound(n)
    PROVE  /\ f \in free_blocks /\ n <= f.size
           /\ f = [size |-> f.size, ptr |-> f.ptr] /\ f.ptr \in Addresses /\ f.size \in Nat
           /\ [ptr |-> f.ptr, capacity |-> f.size] \in backend_allocs
           /\ \A d \in outstanding : f.ptr # d.ptr
<1>1. f \in free_blocks /\ f.size >= n
  BY DEF LowerBound
<1>2. f \in [size : Nat, ptr : Addresses]
  BY <1>1 DEF PoolInv
<1> QED
  BY <1>1, <1>2 DEF PoolInv

(* What the backend lends lies at an address that nothing has.             *)
LEMMA BackendFacts ==
    ASSUME PoolInv, NEW n \in 1..PoolRequest, NEW a \in Backend(n)
    PROVE  /\ n \in Nat /\ a.ptr \in Addresses /\ a = [ptr |-> a.ptr, capacity |-> n]
           /\ \A b \in backend_allocs : b.ptr # a.ptr
           /\ \A f \in free_blocks : f.ptr # a.ptr
           /\ \A d \in outstanding : d.ptr # a.ptr
           /\ IsFiniteSet(backend_allocs \cup {a})
           /\ backend_allocs \cup {a} \subseteq [ptr : Addresses, capacity : Nat]
<1>1. n \in Nat
  BY PoolAssumption
<1>2. PICK p \in Addresses : At(p) = {} /\ a = [ptr |-> p, capacity |-> n]
  BY DEF Backend
<1>3. \A b \in backend_allocs : b.ptr # a.ptr
  BY <1>2 DEF At
<1>4. \A f \in free_blocks : \E b \in backend_allocs : b.ptr = f.ptr
  <2> TAKE f \in free_blocks
  <2>1. PICK b : b = [ptr |-> f.ptr, capacity |-> f.size]
    OBVIOUS
  <2> QED
    BY <2>1 DEF PoolInv
<1>5. \A d \in outstanding : \E b \in backend_allocs : b.ptr = d.ptr
  BY DEF PoolInv
<1>6. IsFiniteSet(backend_allocs \cup {a})
  BY FS_AddElement DEF PoolInv
<1> QED
  BY <1>1, <1>2, <1>3, <1>4, <1>5, <1>6 DEF PoolInv

LEMMA PoolStep == PoolInv /\ [PoolNext]_poolVars => PoolInv'
<1> SUFFICES ASSUME PoolInv, [PoolNext]_poolVars PROVE PoolInv'
  OBVIOUS
<1>1. ASSUME NEW n \in 1..PoolRequest, AllocatePooled(n) PROVE PoolInv'
  <2>1. PICK f \in LowerBound(n) :
           /\ free_blocks' = free_blocks \ {f}
           /\ outstanding' = outstanding \cup {[ptr |-> f.ptr, size |-> n]}
           /\ backend_allocs' = backend_allocs
    BY <1>1 DEF AllocatePooled, CreatePooled
  <2>2. n \in Nat
    BY PoolAssumption
  <2>3. PICK d : d = [ptr |-> f.ptr, size |-> n]
    OBVIOUS
  <2>4. d \in [ptr : Addresses, size : Nat] /\ d.ptr = f.ptr /\ d.size = n
    BY <2>2, <2>3, LowerBoundFacts
  <2>5. \A e \in outstanding : e.ptr # d.ptr
    BY <2>4, LowerBoundFacts
  <2>6. \E a \in backend_allocs : a.ptr = d.ptr /\ d.size <= a.capacity
    <3>1. PICK a : a = [ptr |-> f.ptr, capacity |-> f.size]
      OBVIOUS
    <3> QED
      BY <2>4, <3>1, LowerBoundFacts
  <2>7. \A g \in free_blocks : g # f => g.ptr # d.ptr
    <3> SUFFICES ASSUME NEW g \in free_blocks, g.ptr = f.ptr PROVE g = f
      BY <2>4
    <3>1. PICK a : a = [ptr |-> g.ptr, capacity |-> g.size]
      OBVIOUS
    <3>2. PICK b : b = [ptr |-> f.ptr, capacity |-> f.size]
      OBVIOUS
    <3>3. a = b
      BY <3>1, <3>2, LowerBoundFacts DEF PoolInv
    <3>4. g = [size |-> g.size, ptr |-> g.ptr]
      BY DEF PoolInv
    <3> QED
      BY <3>1, <3>2, <3>3, <3>4, LowerBoundFacts
  <2> QED
    BY <2>1, <2>3, <2>4, <2>5, <2>6, <2>7 DEF PoolInv
<1>2. ASSUME NEW n \in 1..PoolRequest, AllocateFromBackend(n) PROVE PoolInv'
  <2>1. PICK a \in Backend(n) :
           /\ backend_allocs' = backend_allocs \cup {a}
           /\ outstanding' = outstanding \cup {[ptr |-> a.ptr, size |-> n]}
           /\ free_blocks' = free_blocks
    BY <1>2 DEF AllocateFromBackend, CreatePooled
  <2>2. PICK d : d = [ptr |-> a.ptr, size |-> n]
    OBVIOUS
  <2>3. /\ d \in [ptr : Addresses, size : Nat] /\ d.ptr = a.ptr /\ d.size <= a.capacity
        /\ \A b \in backend_allocs : b.ptr # a.ptr
        /\ \A f \in free_blocks : f.ptr # d.ptr
        /\ \A e \in outstanding : e.ptr # d.ptr
        /\ IsFiniteSet(backend_allocs')
        /\ backend_allocs' \subseteq [ptr : Addresses, capacity : Nat]
    <3>1. /\ n \in Nat /\ a.ptr \in Addresses /\ a.capacity = n
          /\ \A b \in backend_allocs : b.ptr # a.ptr
          /\ \A f \in free_blocks : f.ptr # a.ptr
          /\ \A e \in outstanding : e.ptr # a.ptr
          /\ IsFiniteSet(backend_allocs \cup {a})
          /\ backend_allocs \cup {a} \subseteq [ptr : Addresses, capacity : Nat]
      BY BackendFacts
    <3> QED
      BY <2>1, <2>2, <3>1
  <2> QED
    BY <2>1, <2>2, <2>3 DEF PoolInv
<1>3. ASSUME NEW n \in 1..PoolRequest, EnsurePooled(n) PROVE PoolInv'
  <2>1. PICK a \in Backend(n) :
           /\ backend_allocs' = backend_allocs \cup {a}
           /\ free_blocks' = free_blocks \cup {[size |-> n, ptr |-> a.ptr]}
           /\ outstanding' = outstanding
    BY <1>3 DEF EnsurePooled
  <2>2. PICK g : g = [size |-> n, ptr |-> a.ptr]
    OBVIOUS
  <2>3. /\ g \in [size : Nat, ptr : Addresses] /\ g.ptr = a.ptr
        /\ [ptr |-> g.ptr, capacity |-> g.size] = a
        /\ \A b \in backend_allocs : b.ptr # a.ptr
        /\ \A e \in outstanding : g.ptr # e.ptr
        /\ IsFiniteSet(backend_allocs')
        /\ backend_allocs' \subseteq [ptr : Addresses, capacity : Nat]
    <3>1. /\ n \in Nat /\ a.ptr \in Addresses /\ a = [ptr |-> a.ptr, capacity |-> n]
          /\ \A b \in backend_allocs : b.ptr # a.ptr
          /\ \A e \in outstanding : e.ptr # a.ptr
          /\ IsFiniteSet(backend_allocs \cup {a})
          /\ backend_allocs \cup {a} \subseteq [ptr : Addresses, capacity : Nat]
      BY BackendFacts
    <3> QED
      BY <2>1, <2>2, <3>1
  <2> QED
    BY <2>1, <2>2, <2>3 DEF PoolInv
<1>4. ASSUME NEW d \in outstanding, ReclaimPooled(d) PROVE PoolInv'
  <2>1. PICK a \in backend_allocs : a.ptr = d.ptr /\ d.size <= a.capacity
    BY DEF PoolInv
  <2>2. At(d.ptr) = {a}
    BY <2>1 DEF At, PoolInv
  <2>3. PICK g : g = [size |-> a.capacity, ptr |-> a.ptr]
    OBVIOUS
  <2>4. /\ outstanding' = outstanding \ {d} /\ free_blocks' = free_blocks \cup {g}
        /\ backend_allocs' = backend_allocs
    BY <1>4, <2>2, <2>3 DEF ReclaimPooled
  <2>5. /\ g \in [size : Nat, ptr : Addresses] /\ g.ptr = d.ptr
        /\ [ptr |-> g.ptr, capacity |-> g.size] = a
    <3>1. a \in [ptr : Addresses, capacity : Nat]
      BY DEF PoolInv
    <3> QED
      BY <2>1, <2>3, <3>1
  <2>6. \A e \in outstanding \ {d} : g.ptr # e.ptr
    BY <2>5 DEF PoolInv
  <2> QED
    BY <2>4, <2>5, <2>6 DEF PoolInv
<1>5. CASE ClearPooled
  <2>1. /\ backend_allocs' = Cleared /\ free_blocks' = {} /\ outstanding' = outstanding
        /\ Cleared \subseteq backend_allocs
    BY <1>5 DEF ClearPooled, Cleared
  <2>2. IsFiniteSet(Cleared)
    BY <2>1, FS_Subset DEF PoolInv
  <2>3. \A d \in outstanding : \E a \in Cleared : a.ptr = d.ptr /\ d.size <= a.capacity
    BY DEF PoolInv, Cleared
  <2> QED
    BY <2>1, <2>2, <2>3 DEF PoolInv
<1>6. CASE UNCHANGED poolVars
  BY <1>6 DEF poolVars, PoolInv
<1> QED
  BY <1>1, <1>2, <1>3, <1>4, <1>5, <1>6 DEF PoolNext

(* What the backend has lent is the sum of the capacities, also as the     *)
(* heap counts it.                                                         *)
PoolMemory == {[base |-> a.ptr, size |-> a.capacity] : a \in backend_allocs}
PoolDptrs  == {[base |-> d.ptr, offset |-> 0, size |-> d.size] : d \in outstanding}

Capacities(B) == MapThenSumSet(LAMBDA a : a.capacity, B)
Lent == Capacities(backend_allocs)

LEMMA LentIsSum ==
    ASSUME PoolInv
    PROVE  MapThenSumSet(LAMBDA a : a.capacity, backend_allocs)
               = SumOf([a \in backend_allocs |-> a.capacity], backend_allocs)
<1> DEFINE B == backend_allocs
           first(s) == CHOOSE x \in s : TRUE
           iter[s \in SUBSET B] == IF s = {} THEN 0 ELSE first(s).capacity + iter[s \ {first(s)}]
           g == [a \in B |-> a.capacity]
<1>1. MapThenSumSet(LAMBDA a : a.capacity, B) = iter[B]
  BY DEF MapThenSumSet, MapThenFoldSet
<1>2. g \in [B -> Int] /\ IsFiniteSet(B)
  BY DEF PoolInv
<1>3. ASSUME NEW F
      PROVE  Folded(F, Chosen(B), g, B)
             <=> F = [s \in SUBSET B |-> IF s = {} THEN 0 ELSE first(s).capacity + F[s \ {first(s)}]]
  <2>1. \A s \in SUBSET B : s # {} => /\ Chosen(B)[s] = first(s)
                                      /\ g[Chosen(B)[s]] = first(s).capacity
    BY DEF Chosen
  <2> HIDE DEF first, g
  <2> QED
    BY <2>1 DEF Folded
<1>4. \E F : Folded(F, Chosen(B), g, B)
  <2> HIDE DEF g
  <2> QED
    BY <1>2, ChosenIn, FoldExists
<1>5. Folded(iter, Chosen(B), g, B)
  <2> HIDE DEF first, g
  <2>1. \E F : F = [s \in SUBSET B |-> IF s = {} THEN 0 ELSE first(s).capacity + F[s \ {first(s)}]]
    BY <1>3, <1>4
  <2>2. iter = [s \in SUBSET B |-> IF s = {} THEN 0 ELSE first(s).capacity + iter[s \ {first(s)}]]
    BY <2>1 DEF iter
  <2> QED
    BY <1>3, <2>2
<1>6. iter[B] = SumOf(g, B)
  <2> HIDE DEF iter, g
  <2> QED
    BY <1>2, <1>5, ChosenIn, FoldIsSum
<1> QED
  BY <1>1, <1>6

LEMMA PoolTotalIsSum ==
    ASSUME NEW B, IsFiniteSet(B), \A b \in B : b.size \in Int
    PROVE  PoolHeap!Total(B) = SumOf([b \in B |-> b.size], B)
<1>1. PoolHeap!Total(B) = SlabHeap!Total(B)
  BY DEF PoolHeap!Total, PoolHeap!MapThenSumSet, PoolHeap!MapThenFoldSet,
         SlabHeap!Total, SlabHeap!MapThenSumSet, SlabHeap!MapThenFoldSet
<1> QED
  BY <1>1, TotalIsSum

LEMMA PoolMemoryTotal ==
    ASSUME PoolInv
    PROVE  PoolHeap!Total(PoolMemory)
               = SumOf([a \in backend_allocs |-> a.capacity], backend_allocs)
<1> DEFINE m == [a \in backend_allocs |-> [base |-> a.ptr, size |-> a.capacity]]
           g == [a \in backend_allocs |-> a.capacity]
           h == [r \in PoolMemory |-> r.size]
<1>1. PoolMemory = {m[a] : a \in backend_allocs}
  BY DEF PoolMemory
<1>2. /\ m \in [backend_allocs -> PoolMemory]
      /\ \A a, b \in backend_allocs : a # b => m[a] # m[b]
      /\ \A a \in backend_allocs : m[a].size = a.capacity
      /\ \A r \in PoolMemory : \E a \in backend_allocs : m[a] = r
  BY DEF PoolMemory, PoolInv
<1>3. IsFiniteSet(backend_allocs) /\ IsFiniteSet(PoolMemory)
  <2>1. m \in Surjection(backend_allocs, PoolMemory)
    BY <1>2 DEF Surjection
  <2>2. IsFiniteSet(backend_allocs)
    BY DEF PoolInv
  <2> HIDE DEF m
  <2> QED
    BY <2>1, <2>2, FS_Surjection
<1>4. /\ g \in [backend_allocs -> Int] /\ h \in [PoolMemory -> Int]
      /\ \A a \in backend_allocs : h[m[a]] = g[a]
  <2>1. \A a \in backend_allocs : a.capacity \in Int
    BY DEF PoolInv
  <2>2. \A r \in PoolMemory : r.size \in Int
    BY <1>2, <2>1
  <2> HIDE DEF m
  <2> QED
    BY <1>2, <2>1, <2>2
<1>5. PoolHeap!Total(PoolMemory) = SumOf(h, PoolMemory)
  <2>1. \A r \in PoolMemory : r.size \in Int
    BY DEF PoolMemory, PoolInv
  <2> QED
    BY <1>3, <2>1, PoolTotalIsSum
<1>6. SumOf(h, {m[a] : a \in backend_allocs}) = SumOf(g, backend_allocs)
  <2>1. backend_allocs \subseteq backend_allocs
    OBVIOUS
  <2> HIDE DEF m, h, g
  <2>2. /\ m \in [backend_allocs -> PoolMemory] /\ h \in [PoolMemory -> Int]
        /\ g \in [backend_allocs -> Int] /\ IsFiniteSet(backend_allocs)
        /\ \A x, y \in backend_allocs : x # y => m[x] # m[y]
        /\ \A x \in backend_allocs : h[m[x]] = g[x]
    BY <1>2, <1>3, <1>4
  <2> QED
    BY <2>1, <2>2, SumImage
<1> QED
  BY <1>1, <1>5, <1>6

LEMMA PoolSound ==
    ASSUME PoolInv
    PROVE  PoolHeap!Sound
<1>1. \A r, s \in PoolMemory : r.base = s.base => r = s
  BY DEF PoolMemory, PoolInv
<1>2. ASSUME NEW b \in PoolDptrs
      PROVE  \E r \in PoolMemory : r.base = b.base /\ b.offset + b.size <= r.size
  <2>1. PICK d \in outstanding : b = [base |-> d.ptr, offset |-> 0, size |-> d.size]
    BY DEF PoolDptrs
  <2>2. PICK a \in backend_allocs : a.ptr = d.ptr /\ d.size <= a.capacity
    BY DEF PoolInv
  <2>3. PICK r : r = [base |-> a.ptr, size |-> a.capacity]
    OBVIOUS
  <2>4. r \in PoolMemory /\ d.size \in Nat
    BY <2>3 DEF PoolMemory, PoolInv
  <2> QED
    BY <2>1, <2>2, <2>3, <2>4
<1>3. ASSUME NEW b \in PoolDptrs, NEW c \in PoolDptrs, b # c PROVE b.base # c.base
  BY <1>3 DEF PoolDptrs, PoolInv
<1>4. MapThenSumSet(LAMBDA a : a.capacity, backend_allocs) = PoolHeap!Total(PoolMemory)
  BY LentIsSum, PoolMemoryTotal
<1> QED
  BY <1>1, <1>2, <1>3, <1>4 DEF PoolHeap!Sound, PoolHeap!Disjoint, PoolMemory, PoolDptrs

LEMMA PoolSteady ==
    ASSUME PoolInv,
           \A a \in backend_allocs : (\E d \in outstanding : d.ptr = a.ptr) => a \in backend_allocs'
    PROVE  PoolHeap!Steady
<1> SUFFICES ASSUME NEW r \in PoolMemory, NEW b \in PoolDptrs, b.base = r.base
             PROVE  r \in PoolMemory'
  BY DEF PoolHeap!Steady, PoolMemory, PoolDptrs
<1>1. PICK a \in backend_allocs : r = [base |-> a.ptr, size |-> a.capacity]
  BY DEF PoolMemory
<1>2. PICK d \in outstanding : b.base = d.ptr
  BY DEF PoolDptrs
<1>3. a \in backend_allocs'
  BY <1>1, <1>2
<1> QED
  BY <1>1, <1>3 DEF PoolMemory

LEMMA PoolTakes ==
    ASSUME NEW p, NEW n, \A d \in outstanding : d.ptr # p, CreatePooled(p, n)
    PROVE  PoolHeap!Take
<1>1. /\ outstanding' = outstanding \cup {[ptr |-> p, size |-> n]}
      /\ pool_allocated' = pool_allocated + n
  BY DEF CreatePooled
<1>2. PICK b : b = [base |-> p, offset |-> 0, size |-> n]
  OBVIOUS
<1>3. b.size = n /\ b.base = p
  BY <1>2
<1>4. b \notin PoolDptrs
  BY <1>3 DEF PoolDptrs
<1>5. PoolDptrs' = PoolDptrs \cup {b}
  <2>1. PICK e : e = [ptr |-> p, size |-> n]
    OBVIOUS
  <2>2. outstanding' = outstanding \cup {e} /\ b = [base |-> e.ptr, offset |-> 0, size |-> e.size]
    BY <1>1, <1>2, <2>1
  <2> QED
    BY <2>2 DEF PoolDptrs
<1> QED
  BY <1>1, <1>3, <1>4, <1>5 DEF PoolHeap!Take, PoolDptrs

LEMMA PoolGives ==
    ASSUME PoolInv, NEW d \in outstanding, ReclaimPooled(d)
    PROVE  PoolHeap!Give
<1>1. /\ outstanding' = outstanding \ {d} /\ pool_allocated' = pool_allocated - d.size
      /\ backend_allocs' = backend_allocs
  BY DEF ReclaimPooled
<1>2. PICK b : b = [base |-> d.ptr, offset |-> 0, size |-> d.size]
  OBVIOUS
<1>3. \A e \in outstanding : [base |-> e.ptr, offset |-> 0, size |-> e.size] = b => e = d
  BY <1>2 DEF PoolInv
<1>4. b \in PoolDptrs /\ b.size = d.size
  BY <1>2 DEF PoolDptrs
<1>5. PoolDptrs' = PoolDptrs \ {b}
  BY <1>1, <1>2, <1>3 DEF PoolDptrs
<1>6. PoolMemory' = PoolMemory
  BY <1>1 DEF PoolMemory
<1>7. Lent' = Lent
  BY <1>1 DEF Lent
<1> QED
  BY <1>1, <1>4, <1>5, <1>6, <1>7 DEF PoolHeap!Give, PoolDptrs, PoolMemory, Lent, Capacities

LEMMA PoolHeapStep ==
    ASSUME PoolInv, [PoolNext]_poolVars, PoolHeap!Sound'
    PROVE  [PoolHeap!HeapNext]_(PoolHeap!heapVars)
<1>1. CASE UNCHANGED poolVars
  <2>1. PoolMemory' = PoolMemory /\ PoolDptrs' = PoolDptrs /\ pool_allocated' = pool_allocated
    BY <1>1 DEF poolVars, PoolMemory, PoolDptrs
  <2>2. Lent' = Lent
    BY <1>1 DEF poolVars, Lent
  <2> QED
    BY <2>1, <2>2 DEF PoolHeap!heapVars, PoolMemory, PoolDptrs, Lent, Capacities
<1> SUFFICES ASSUME PoolNext
             PROVE  PoolHeap!Steady /\ (PoolHeap!Take \/ PoolHeap!Give \/ PoolHeap!Tidy)
  BY <1>1 DEF PoolHeap!HeapNext
<1>2. ASSUME backend_allocs \subseteq backend_allocs' PROVE PoolHeap!Steady
  BY <1>2, PoolSteady
<1>3. ASSUME NEW n \in 1..PoolRequest, AllocatePooled(n) PROVE PoolHeap!Steady /\ PoolHeap!Take
  <2>1. PICK f \in LowerBound(n) : CreatePooled(f.ptr, n) /\ backend_allocs' = backend_allocs
    BY <1>3 DEF AllocatePooled
  <2>2. \A d \in outstanding : d.ptr # f.ptr
    BY LowerBoundFacts
  <2> QED
    BY <1>2, <2>1, <2>2, PoolTakes
<1>4. ASSUME NEW n \in 1..PoolRequest, AllocateFromBackend(n)
      PROVE  PoolHeap!Steady /\ PoolHeap!Take
  <2>1. PICK a \in Backend(n) :
           CreatePooled(a.ptr, n) /\ backend_allocs' = backend_allocs \cup {a}
    BY <1>4 DEF AllocateFromBackend
  <2>2. \A d \in outstanding : d.ptr # a.ptr
    BY BackendFacts
  <2> QED
    BY <1>2, <2>1, <2>2, PoolTakes
<1>5. ASSUME NEW n \in 1..PoolRequest, EnsurePooled(n) PROVE PoolHeap!Steady /\ PoolHeap!Tidy
  <2>1. backend_allocs \subseteq backend_allocs' /\ UNCHANGED <<outstanding, pool_allocated>>
    BY <1>5 DEF EnsurePooled
  <2> QED
    BY <1>2, <2>1 DEF PoolHeap!Tidy
<1>6. ASSUME NEW d \in outstanding, ReclaimPooled(d) PROVE PoolHeap!Steady /\ PoolHeap!Give
  BY <1>2, <1>6, PoolGives DEF ReclaimPooled
<1>7. CASE ClearPooled
  <2>1. backend_allocs' = Cleared /\ UNCHANGED <<outstanding, pool_allocated>>
    BY <1>7 DEF ClearPooled
  <2>2. \A a \in backend_allocs : (\E d \in outstanding : d.ptr = a.ptr) => a \in Cleared
    BY DEF Cleared, PoolInv
  <2> QED
    BY <2>1, <2>2, PoolSteady DEF PoolHeap!Tidy
<1> QED
  BY <1>3, <1>4, <1>5, <1>6, <1>7 DEF PoolNext

LEMMA PoolImplements == PoolInit /\ [][PoolNext]_poolVars => PoolHeap!HeapSpec
<1>1. PoolInit => PoolHeap!HeapInit
  <2> SUFFICES ASSUME PoolInit PROVE PoolHeap!HeapInit
    OBVIOUS
  <2>1. backend_allocs = {} /\ outstanding = {} /\ pool_allocated = 0
    BY DEF PoolInit
  <2>2. SumOf([a \in backend_allocs |-> a.capacity], backend_allocs) = 0
    BY <2>1, SumEmpty
  <2>3. MapThenSumSet(LAMBDA a : a.capacity, backend_allocs) = 0
    BY <2>2, InitPoolInv, LentIsSum
  <2> QED
    BY <2>1, <2>3 DEF PoolHeap!HeapInit
<1>2. PoolInv => PoolHeap!Sound
  BY PoolSound
<1>3. PoolInv /\ PoolHeap!Sound' /\ [PoolNext]_poolVars
          => [PoolHeap!HeapNext]_(PoolHeap!heapVars)
  BY PoolHeapStep
<1> QED
  BY <1>1, <1>2, <1>3, InitPoolInv, PoolStep, PTL DEF PoolHeap!HeapSpec

----------------------------------------------------------------------------
(* The theorems.                                                           *)

(* Offsets and sizes stay in range whatever is allocated and reclaimed: no *)
(* slab's counter or end (Slab, del_allocator_v2.hpp:61) goes below zero.  *)
THEOREM TypeCorrect == Spec => []TypeOK
<1>1. IInv => TypeOK
  BY DEF IInv
<1> QED
  BY <1>1, Invariant, PTL

(* allocate (:115) never hands out a byte that another dptr or a free list *)
(* holds, whether it bumps an end, splits a block or takes an exact fit.   *)
THEOREM Disjoint == Spec => []NoOverlap
<1>1. IInv => NoOverlap
  BY DEF IInv, Tiled, NoOverlap, Blocks
<1> QED
  BY <1>1, Invariant, PTL

(* allocate_slab (:419) and evict_unused (:228) never free a slab under a  *)
(* dptr, and no rollback of reclaim (:343) returns its bytes to the middle.*)
THEOREM Held == Spec => []LiveMemoryHeld
<1>1. IInv => LiveMemoryHeld
  BY DEF IInv, Tiled, LiveMemoryHeld
<1> QED
  BY <1>1, Invariant, PTL

(* The two free lists hold the same blocks, although allocate_slab (:427)  *)
(* erases idle slabs without taking their blocks off free_by_size_.        *)
THEOREM ListsAgree == Spec => []FreeListsAgree
<1>1. IInv => FreeListsAgree
  BY DEF IInv
<1> QED
  BY <1>1, Invariant, PTL

(* The assertion of allocate_slab (:424), and more: a slab without active  *)
(* allocations is one free middle again, so nothing of it is fragmented.   *)
THEOREM IdleWhole == Spec => []IdleSlabIsWhole
<1>1. IInv => IdleSlabIsWhole
  <2> SUFFICES ASSUME IInv, NEW s \in Idle
               PROVE  On(free, s) = {} /\ left[s] = 0 /\ right[s] = size[s]
    BY DEF IdleSlabIsWhole
  <2> QED
    BY IdleHasNone DEF On
<1> QED
  BY <1>1, Invariant, PTL

(* Both allocators are heaps, for any requests and capacities: every block *)
(* lies in memory of the backend and apart from the others, allocate_slab  *)
(* (del_allocator_v2.hpp:419), evict_unused (:228) and the pool's clear    *)
(* (pool_allocator.hpp:70) give back no memory under a block, and          *)
(* reserved() and allocated() are exact after every step.                  *)
THEOREM Implements == MCSpec => ImplementsHeap
<1>1. MCInit => Init /\ PoolInit
  BY DEF MCInit
<1>2. [MCNext]_<<vars, poolVars, chosen>> => [Next]_vars /\ [PoolNext]_poolVars
  BY DEF MCNext
<1> QED
  BY <1>1, <1>2, SlabImplements, PoolImplements, PTL DEF MCSpec, ImplementsHeap, Spec
=============================================================================
