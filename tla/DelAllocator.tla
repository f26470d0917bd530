---------------------------- MODULE DelAllocator ----------------------------
(***************************************************************************)
(* The workspace allocator of the executors (device/del_allocator_v2.hpp): *)
(* a list of slabs, each handed out from both ends towards a free middle   *)
(* [left, right), with free lists for what is given back elsewhere.  One   *)
(* mutex serialises its operations, so each is one step.                   *)
(*                                                                         *)
(* Sizes and offsets are in units of DEFAULT_ALIGNMENT: a request of n     *)
(* bytes takes align_up(n) of them, and one of zero bytes changes nothing. *)
(* The list is ordered by slab number: a new slab gets the next one.  The  *)
(* addresses of the slabs are in no relation to that order.                *)
(***************************************************************************)
EXTENDS Integers, FiniteSets, FiniteSetsExt

CONSTANTS
    MaxSlabs,    \* bound: slabs ever allocated
    MaxRequest,  \* bound: units of one request
    Capacity     \* bound: units the backend allocator can hold at once

ASSUME DelAllocatorAssumption ==
    MaxSlabs \in Nat /\ MaxRequest \in Nat /\ Capacity \in Nat

VARIABLES
    born,       \* slabs allocated since the program began
    slabs,      \* slabs_
    size, left, right, active,  \* of each slab: its size, left_offset,
                                \* right_offset and active_allocations
    free,       \* the free_by_offset of all slabs
    freeMap,    \* free_by_size_
    live,       \* the outstanding dptrs, as the blocks their deleters reclaim
    side,       \* side_
    reserved, allocated

slabVars == <<born, slabs, size>>
vars == <<slabVars, left, right, active, free, freeMap, live, side, reserved, allocated>>

SlabIds == 1..MaxSlabs

Block(s, offset, n) == [slab |-> s, offset |-> offset, size |-> n]
End(b)              == b.offset + b.size
On(blocks, s)       == {b \in blocks : b.slab = s}

Init ==
    /\ born = 0 /\ slabs = {}
    /\ size = [s \in SlabIds |-> 0]
    /\ left = [s \in SlabIds |-> 0] /\ right = [s \in SlabIds |-> 0]
    /\ active = [s \in SlabIds |-> 0]
    /\ free = {} /\ freeMap = {} /\ live = {}
    /\ side \in {0, 1}
    /\ reserved = 0 /\ allocated = 0

----------------------------------------------------------------------------
(* allocate                                                                *)

(* Mutant: the allocation is not counted on its slab.                      *)
CreateDptrUncounted(b, activeNow) ==
    /\ active' = activeNow
    /\ live' = live \cup {b}
    /\ allocated' = allocated + b.size

(* create_dptr                                                             *)
CreateDptr(b, activeNow) ==
    /\ active' = [activeNow EXCEPT ![b.slab] = @ + 1]
    /\ live' = live \cup {b}
    /\ allocated' = allocated + b.size

(* Mutant: an exact fit leaves an empty remainder.                         *)
RemainderEmpty(b, n) ==
    IF b.size >= n THEN {Block(b.slab, b.offset + n, b.size - n)} ELSE {}

(* What is left of the free block b when n units are taken from its start. *)
Remainder(b, n) ==
    IF b.size > n THEN {Block(b.slab, b.offset + n, b.size - n)} ELSE {}

(* Mutant: the remainder is not entered into free_by_size_.                *)
TakeFreeUnlisted(b, n) ==
    /\ free' = (free \ {b}) \cup Remainder(b, n)
    /\ freeMap' = freeMap \ {b}
    /\ CreateDptr(Block(b.slab, b.offset, n), active)
    /\ UNCHANGED <<slabVars, left, right, side, reserved>>

(* Take n units from the start of the free block b.                        *)
TakeFree(b, n) ==
    /\ free' = (free \ {b}) \cup Remainder(b, n)
    /\ freeMap' = (freeMap \ {b}) \cup Remainder(b, n)
    /\ CreateDptr(Block(b.slab, b.offset, n), active)
    /\ UNCHANGED <<slabVars, left, right, side, reserved>>

(* *blocks.begin() of the least size that fits: on the slab with the least *)
(* address, which may be any, the block with the least offset.             *)
BestFit(n) ==
    {b \in freeMap :
        /\ b.size >= n
        /\ \A f \in freeMap : f.size >= n => b.size <= f.size
        /\ \A f \in freeMap : f.slab = b.slab /\ f.size = b.size => b.offset <= f.offset}

ExactMatch(n) == \E b \in BestFit(n) : b.size = n

HasSpace(s, n) == right[s] - left[s] >= n

(* Mutant: both ends are handed out at left_offset.                        *)
BumpLeftOnly(s, n, l, r, a) ==
    /\ left' = [l EXCEPT ![s] = IF side = 0 THEN @ + n ELSE @]
    /\ right' = [r EXCEPT ![s] = IF side = 0 THEN @ ELSE @ - n]
    /\ CreateDptr(Block(s, l[s], n), a)

(* Bump allocation in the middle of slab s, whose offsets are l and r.     *)
Bump(s, n, l, r, a) ==
    /\ left' = [l EXCEPT ![s] = IF side = 0 THEN @ + n ELSE @]
    /\ right' = [r EXCEPT ![s] = IF side = 0 THEN @ ELSE @ - n]
    /\ CreateDptr(Block(s, IF side = 0 THEN l[s] ELSE r[s] - n, n), a)

AllocateExact(n) ==
    \E b \in BestFit(n) : b.size = n /\ TakeFree(b, n)

(* The first slab with space in its middle.                                *)
AllocateMiddle(n) ==
    /\ ~ExactMatch(n)
    /\ \E s \in slabs :
          /\ HasSpace(s, n)
          /\ \A t \in slabs : HasSpace(t, n) => s <= t
          /\ Bump(s, n, left, right, active)
    /\ UNCHANGED <<slabVars, free, freeMap, side, reserved>>

AllocateSplit(n) ==
    /\ ~ExactMatch(n)
    /\ \A s \in slabs : ~HasSpace(s, n)
    /\ \E b \in BestFit(n) : TakeFree(b, n)

NoRoom(n) ==
    /\ \A s \in slabs : ~HasSpace(s, n)
    /\ BestFit(n) = {}

(* allocate_slab: the idle slabs go first, with the free_by_offset they     *)
(* hold, but what free_by_size_ has of them stays.  The new slab is at     *)
(* least as large as they were together.  The backend may refuse it: then  *)
(* the exception leaves the idle slabs freed.                              *)
Idle == {s \in slabs : active[s] = 0}

SizeOf(s) == size[s]
Freed     == MapThenSumSet(SizeOf, Idle)

DropIdle ==
    /\ free' = {b \in free : b.slab \notin Idle}
    /\ UNCHANGED <<freeMap, side>>

NewSlabSize(n) == IF n >= Freed THEN n ELSE Freed

NewSlab(m) ==
    /\ born < MaxSlabs
    /\ reserved - Freed + m <= Capacity
    /\ born' = born + 1
    /\ slabs' = (slabs \ Idle) \cup {born + 1}
    /\ size' = [size EXCEPT ![born + 1] = m]
    /\ reserved' = reserved - Freed + m
    /\ DropIdle

(* Mutant: the bytes of the freed slabs are still counted as reserved.     *)
SlabRefusedUncounted ==
    /\ slabs' = slabs \ Idle
    /\ DropIdle
    /\ UNCHANGED <<born, size, left, right, active, live, reserved, allocated>>

SlabRefused ==
    /\ slabs' = slabs \ Idle
    /\ reserved' = reserved - Freed
    /\ DropIdle
    /\ UNCHANGED <<born, size, left, right, active, live, allocated>>

AllocateNewSlab(n) ==
    /\ NoRoom(n)
    /\ \E m \in 1..Capacity :
          /\ m = NewSlabSize(n)
          /\ NewSlab(m)
          /\ Bump(born + 1, n, left, [right EXCEPT ![born + 1] = m], active)

AllocateFails(n) == NoRoom(n) /\ SlabRefused

----------------------------------------------------------------------------
(* reclaim, the deleter of a dptr                                          *)

After(b)  == {f \in free : f.slab = b.slab /\ f.offset = End(b)}

(* Mutant: nothing is coalesced backward.                                  *)
BeforeNone(b) == {}

Before(b) == {f \in free : f.slab = b.slab /\ End(f) = b.offset}

(* The block b together with the free blocks that touch it.                *)
Coalesce(b) ==
    LET lo == IF Before(b) = {} THEN b.offset ELSE (CHOOSE f \in Before(b) : TRUE).offset
        hi == IF After(b) = {} THEN End(b) ELSE End(CHOOSE f \in After(b) : TRUE)
    IN  Block(b.slab, lo, hi - lo)

(* Roll back an end of the middle that the block touches, or list it.      *)
Reclaim(b) ==
    LET s       == b.slab
        merged  == Coalesce(b)
        touched == After(b) \cup Before(b)
        atLeft  == End(merged) = left[s]
        atRight == ~atLeft /\ merged.offset = right[s]
        listed  == IF atLeft \/ atRight THEN {} ELSE {merged}
    IN  /\ b \in live
        /\ live' = live \ {b}
        /\ active' = [active EXCEPT ![s] = @ - 1]
        /\ allocated' = allocated - b.size
        /\ left' = [left EXCEPT ![s] = IF atLeft THEN merged.offset ELSE @]
        /\ right' = [right EXCEPT ![s] = IF atRight THEN End(merged) ELSE @]
        /\ free' = (free \ touched) \cup listed
        /\ freeMap' = (freeMap \ touched) \cup listed
        /\ UNCHANGED <<slabVars, side, reserved>>

----------------------------------------------------------------------------
(* The other operations                                                    *)

(* flip, or set_side to the other side.                                    *)
Flip ==
    /\ side' = 1 - side
    /\ UNCHANGED <<slabVars, left, right, active, free, freeMap, live, reserved, allocated>>

(* clear throws while some slab has active allocations.                    *)
Clear ==
    /\ slabs # {}
    /\ \A s \in slabs : active[s] = 0
    /\ slabs' = {} /\ free' = {} /\ freeMap' = {}
    /\ reserved' = 0 /\ allocated' = 0
    /\ UNCHANGED <<born, size, left, right, active, live, side>>

EvictUnused ==
    /\ Idle # {}
    /\ slabs' = slabs \ Idle
    /\ free' = {b \in free : b.slab \notin Idle}
    /\ freeMap' = freeMap \ {b \in free : b.slab \in Idle}
    /\ reserved' = reserved - Freed
    /\ UNCHANGED <<born, size, left, right, active, live, side, allocated>>

(* ensure allocates a slab unless there is room already.                   *)
EnsureNewSlab(n) ==
    /\ NoRoom(n)
    /\ \E m \in 1..Capacity :
          /\ m = NewSlabSize(n)
          /\ NewSlab(m)
          /\ right' = [right EXCEPT ![born + 1] = m]
    /\ UNCHANGED <<left, active, live, allocated>>

EnsureFails(n) == NoRoom(n) /\ SlabRefused

Next ==
    \/ \E n \in 1..MaxRequest :
          \/ AllocateExact(n) \/ AllocateMiddle(n) \/ AllocateSplit(n)
          \/ AllocateNewSlab(n) \/ AllocateFails(n)
          \/ EnsureNewSlab(n) \/ EnsureFails(n)
    \/ \E b \in live : Reclaim(b)
    \/ Flip \/ Clear \/ EvictUnused

Spec == Init /\ [][Next]_vars

----------------------------------------------------------------------------
(* Properties.                                                             *)

Blocks    == live \cup free
BlockType == [slab : SlabIds, offset : Nat, size : Nat \ {0}]

TypeOK ==
    /\ born \in 0..MaxSlabs /\ slabs \subseteq 1..born
    /\ size \in [SlabIds -> Nat]
    /\ left \in [SlabIds -> Nat] /\ right \in [SlabIds -> Nat]
    /\ active \in [SlabIds -> Nat]
    /\ free \subseteq BlockType /\ freeMap \subseteq BlockType
    /\ live \subseteq BlockType
    /\ side \in {0, 1}
    /\ allocated \in Int

(* No byte belongs to two dptrs, or to a dptr and a free list.             *)
Apart(b, c)  == b.slab # c.slab \/ End(b) <= c.offset \/ End(c) <= b.offset
NoOverlap ==
    /\ live \cap free = {}
    /\ \A b, c \in Blocks : b # c => Apart(b, c)

(* A dptr never outlives its slab: its memory lies on a slab that has not  *)
(* been erased, outside the middle that is still to be handed out.         *)
LiveMemoryHeld ==
    \A b \in live : /\ b.slab \in slabs
                    /\ End(b) <= left[b.slab] \/ b.offset >= right[b.slab]
                    /\ End(b) <= size[b.slab]

(* free_by_size_ and the free_by_offset of the slabs hold the same blocks, *)
(* so none is on a slab that allocate_slab has erased.                     *)
FreeListsAgree == freeMap = free

(* Coalescing and rolling back lose nothing: a slab without allocations is *)
(* one free middle again.  allocate_slab asserts a part of this: "Empty    *)
(* slab should have no free blocks".                                       *)
IdleSlabIsWhole ==
    \A s \in Idle : On(free, s) = {} /\ left[s] = 0 /\ right[s] = size[s]
=============================================================================
