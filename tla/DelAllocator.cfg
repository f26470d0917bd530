\* Four slabs in a program's life, requests of one to three units; for the pool
\* two addresses fewer than the units it may be lent.
SPECIFICATION MCSpec
CONSTANTS
    MaxSlabs = 4
    MaxRequest = 3
    Capacity = 6
    Addresses = {p1, p2, p3}
    PoolRequest = 3
    PoolCapacity = 5
INVARIANTS
    TypeOK
    NoOverlap
    LiveMemoryHeld
    FreeListsAgree
    IdleSlabIsWhole
PROPERTY
    ImplementsHeap
