\* The sentence of batch_prefetcher.hpp:5 about an exception of get_batch.
SPECIFICATION FairSpec
CONSTANTS
    PrefetchDepth = 2
    Batches = 3
    Passes = 1
INVARIANTS
    ErrorInItsPlace
CHECK_DEADLOCK FALSE
