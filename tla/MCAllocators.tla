---------------------------- MODULE MCAllocators ----------------------------
(***************************************************************************)
(* The two allocators of a device, each against what an allocator promises.*)
(* They share nothing but the backend, so that it is enough to look at one *)
(* at a time; which one is chosen at the start.                            *)
(***************************************************************************)
EXTENDS DelAllocator, PoolAllocator

VARIABLE chosen

MCInit == Init /\ PoolInit /\ chosen \in {"workspace", "pool"}
MCNext ==
    \/ chosen = "workspace" /\ Next /\ UNCHANGED <<poolVars, chosen>>
    \/ chosen = "pool" /\ PoolNext /\ UNCHANGED <<vars, chosen>>
MCSpec == MCInit /\ [][MCNext]_<<vars, poolVars, chosen>>

SlabHeap == INSTANCE Heap WITH
    backing <- {[base |-> s, size |-> size[s]] : s \in slabs},
    taken   <- {[base |-> b.slab, offset |-> b.offset, size |-> b.size] : b \in live},
    lent    <- reserved,
    used    <- allocated

PoolHeap == INSTANCE Heap WITH
    backing <- {[base |-> a.ptr, size |-> a.capacity] : a \in backend_allocs},
    taken   <- {[base |-> d.ptr, offset |-> 0, size |-> d.size] : d \in outstanding},
    lent    <- MapThenSumSet(LAMBDA a : a.capacity, backend_allocs),
    used    <- pool_allocated

(* Both allocators implement a heap: no byte has two owners, no memory is  *)
(* given back under a block, although both free idle memory in the middle  *)
(* of allocate, ensure and clear, and reserved() and allocated() are exact,*)
(* also after the backend has refused.                                     *)
ImplementsHeap == SlabHeap!HeapSpec /\ PoolHeap!HeapSpec
=============================================================================
