-------------------------------- MODULE Heap --------------------------------
(***************************************************************************)
(* What an allocator promises its callers: blocks that share no byte, in   *)
(* memory of the backend that stays as long as a block is taken from it,   *)
(* and exact sums of both.  Which block a caller gets is left open, as are *)
(* the times at which memory is asked for and given back.                  *)
(***************************************************************************)
EXTENDS Integers, FiniteSets, FiniteSetsExt

VARIABLES
    backing,  \* what the backend has lent: records of base and size
    taken,    \* the blocks in the hands of callers: base, offset and size
    lent,     \* reserved(): the sum of the first
    used      \* allocated(): the sum of the others

heapVars == <<backing, taken, lent, used>>

Total(blocks) == MapThenSumSet(LAMBDA b : b.size, blocks)

Disjoint(b, c) ==
    b.base # c.base \/ b.offset + b.size <= c.offset \/ c.offset + c.size <= b.offset

Sound ==
    /\ \A r, s \in backing : r.base = s.base => r = s
    /\ \A b \in taken : \E r \in backing : r.base = b.base /\ b.offset + b.size <= r.size
    /\ \A b, c \in taken : b # c => Disjoint(b, c)
    /\ lent = Total(backing)

HeapInit == backing = {} /\ taken = {} /\ lent = 0 /\ used = 0

(* The memory under a block that is taken is not given back.               *)
Steady == \A r \in backing : (\E b \in taken : b.base = r.base) => r \in backing'

Take == \E b \in taken' \ taken :
           /\ taken' = taken \cup {b}
           /\ used' = used + b.size
Give == \E b \in taken \ taken' :
           /\ taken' = taken \ {b}
           /\ used' = used - b.size
           /\ UNCHANGED <<backing, lent>>
Tidy == UNCHANGED <<taken, used>>

HeapNext == Steady /\ Sound' /\ (Take \/ Give \/ Tidy)

HeapSpec == HeapInit /\ [][HeapNext]_heapVars
=============================================================================
