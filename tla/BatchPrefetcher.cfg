\* A queue of two slots, passes of three batches, and two restarts.
SPECIFICATION FairSpec
CONSTANTS
    PrefetchDepth = 2
    Batches = 3
    Passes = 3
INVARIANTS
    OrderKept
    DatasetAlone
PROPERTIES
    ImplementsReading
    CallsReturn
\* The training ends.
CHECK_DEADLOCK FALSE
