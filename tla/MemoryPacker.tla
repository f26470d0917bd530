---------------------------- MODULE MemoryPacker ----------------------------
(***************************************************************************)
(* MemoryPacker::pack (nn/memory_packer.cpp): gives every allocation of a  *)
(* trace an offset in one block of memory, the largest first, each into    *)
(* the smallest gap that is free for as long as the allocation lives.      *)
(*                                                                         *)
(* Sizes are in units of the alignment.                                    *)
(***************************************************************************)
EXTENDS Integers, FiniteSets

VARIABLES
    todo,    \* the set of allocations to place: iid, size, start and end step
    placed   \* the set of those that have an offset

packerVars == <<todo, placed>>

Allocations(iids) == [iid : iids, size : Nat \ {0}, start : Nat, end : Nat]

PackInit ==
    /\ placed = {}
    /\ IsFiniteSet(todo) /\ \E iids : todo \subseteq Allocations(iids)

(* Mutant: what ends in a step makes room for what begins in it.           *)
ConcurrentUnlessTouching(a) == {p \in placed : a.start < p.end /\ a.end > p.start}

(* Those that live in a step in which a lives: both ends count.            *)
Concurrent(a) == {p \in placed : a.start <= p.end /\ a.end >= p.start}

Candidates == {0} \cup {p.offset + p.size : p \in placed}

(* The candidates at which a would overlap with nothing; the gap is then   *)
(* large enough, no size being zero.                                       *)
Free(a) ==
    {c \in Candidates :
        \A p \in Concurrent(a) : ~(c < p.offset + p.size /\ c + a.size > p.offset)}

(* The ends of the gap above a candidate, the nearest of which counts.     *)
Roofs(a, c) == {r \in {p.offset : p \in Concurrent(a)} : r >= c}

(* The gap above c is smaller; a gap without an end is larger than all.    *)
Tighter(a, c, d) == \E r \in Roofs(a, c) : \A s \in Roofs(a, d) : r - c < s - d

(* What the loop over the sorted candidates is left with: the smallest     *)
(* gap, and the lowest of those, or 0 if there is no candidate.            *)
BestOffset(a, c) ==
    IF Free(a) = {} THEN c = 0
    ELSE c \in Free(a) /\ \A d \in Free(a) \ {c} :
                              Tighter(a, c, d) \/ (c < d /\ ~Tighter(a, d, c))

(* The first in the order of sizes, of which std::sort leaves open how it  *)
(* goes on among equals; nothing below relies on the order.                *)
Largest(S) == CHOOSE a \in S : \A b \in S : a.size >= b.size

PlaceNext ==
    /\ todo # {}
    /\ LET a == Largest(todo)
       IN  \E c \in Candidates :
               /\ BestOffset(a, c)
               /\ placed' = placed \cup {[iid |-> a.iid, size |-> a.size, start |-> a.start,
                                          end |-> a.end, offset |-> c]}
    /\ todo' = todo \ {Largest(todo)}

PackSpec == PackInit /\ [][PlaceNext]_packerVars

(* Two buffers that are alive in the same step share no byte (the purpose  *)
(* of pack, memory_packer.cpp:62-98, with the fallback to offset 0).       *)
Apart(p, q) ==
    (\E s \in p.start..p.end : s \in q.start..q.end) =>
        p.offset + p.size <= q.offset \/ q.offset + q.size <= p.offset

NoOverlap == \A p, q \in placed : p # q => Apart(p, q)
=============================================================================
