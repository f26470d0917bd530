---------------------------- MODULE PoolAllocator ----------------------------
(***************************************************************************)
(* The allocator of tensors (device/pool_allocator.hpp): memory of the     *)
(* backend is handed out whole, kept when it comes back, and handed out    *)
(* again for requests that fit.  One mutex serialises its operations.      *)
(* Requests of zero bytes change nothing, as does one that the backend     *)
(* refuses with an exception; hooks and the peak are left out.             *)
(***************************************************************************)
EXTENDS Integers, FiniteSets, FiniteSetsExt

CONSTANTS
    Addresses,    \* where the backend's memory may lie
    PoolRequest,  \* bound: units of one request
    PoolCapacity  \* bound: units the backend can lend at once

ASSUME PoolAssumption == PoolRequest \in Nat /\ PoolCapacity \in Nat

VARIABLES
    backend_allocs,  \* backend_allocs_: the memory at each address, by its capacity
    free_blocks,     \* free_blocks_: records of a size and a pointer
    outstanding,     \* the dptrs in use, with the size that was asked for
    pool_allocated   \* allocated_

poolVars == <<backend_allocs, free_blocks, outstanding, pool_allocated>>

PoolInit ==
    /\ backend_allocs = {} /\ free_blocks = {} /\ outstanding = {}
    /\ pool_allocated = 0

At(ptr) == {a \in backend_allocs : a.ptr = ptr}

(* lower_bound: among blocks of one size any may come first.               *)
LowerBound(n) ==
    {f \in free_blocks : f.size >= n /\ \A g \in free_blocks : g.size >= n => f.size <= g.size}

(* DeviceAllocator::allocate: an address that is not in use, maybe one that *)
(* was given back before.                                                  *)
Backend(n) ==
    IF MapThenSumSet(LAMBDA a : a.capacity, backend_allocs) + n > PoolCapacity THEN {}
    ELSE {[ptr |-> p, capacity |-> n] : p \in {q \in Addresses : At(q) = {}}}

CreatePooled(ptr, n) ==
    /\ outstanding' = outstanding \cup {[ptr |-> ptr, size |-> n]}
    /\ pool_allocated' = pool_allocated + n

AllocatePooled(n) ==
    \E f \in LowerBound(n) :
        /\ free_blocks' = free_blocks \ {f}
        /\ CreatePooled(f.ptr, n)
        /\ UNCHANGED backend_allocs

AllocateFromBackend(n) ==
    /\ LowerBound(n) = {}
    /\ \E a \in Backend(n) :
          /\ backend_allocs' = backend_allocs \cup {a}
          /\ CreatePooled(a.ptr, n)
    /\ UNCHANGED free_blocks

EnsurePooled(n) ==
    /\ LowerBound(n) = {}
    /\ \E a \in Backend(n) :
          /\ backend_allocs' = backend_allocs \cup {a}
          /\ free_blocks' = free_blocks \cup {[size |-> n, ptr |-> a.ptr]}
    /\ UNCHANGED <<outstanding, pool_allocated>>

(* The deleter of a dptr: the block comes back as large as it was lent.    *)
ReclaimPooled(d) ==
    /\ outstanding' = outstanding \ {d}
    /\ pool_allocated' = pool_allocated - d.size
    /\ free_blocks' = free_blocks \cup
          (IF At(d.ptr) = {} THEN {[size |-> d.size, ptr |-> d.ptr]}
           ELSE {[size |-> a.capacity, ptr |-> a.ptr] : a \in At(d.ptr)})
    /\ UNCHANGED backend_allocs

(* Mutant: what is in use is given back to the backend, too.               *)
ClearedAll == {}

(* What clear leaves of the backend's memory.                              *)
Cleared == {a \in backend_allocs : \A f \in free_blocks : f.ptr # a.ptr}

(* clear and evict_unused                                                  *)
ClearPooled ==
    /\ backend_allocs' = Cleared
    /\ free_blocks' = {}
    /\ UNCHANGED <<outstanding, pool_allocated>>

PoolNext ==
    \/ \E n \in 1..PoolRequest : AllocatePooled(n) \/ AllocateFromBackend(n) \/ EnsurePooled(n)
    \/ \E d \in outstanding : ReclaimPooled(d)
    \/ ClearPooled
=============================================================================
