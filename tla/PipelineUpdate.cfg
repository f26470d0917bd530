\* No timeouts: the second update_parameters returns on the acknowledgements
\* of the first, which nobody dequeued.
SPECIFICATION Spec
CONSTANTS
    NumWorkers = 2
    Microbatches = 1
    Epochs = 1
    TrainBatches = 2
    ValBatches = 0
    AccSteps = 1
    Timeouts = FALSE
INVARIANT
    UpdateIsBarrier
CHECK_DEADLOCK FALSE
