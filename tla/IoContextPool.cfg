\* The thread that accepts connections and one that connects or sends.
SPECIFICATION Spec
CONSTANTS
    Threads = {accepting, sending}
    NumContexts = 4
    MaxIndex = 8
INVARIANTS
    IndexInList
\* The bound on the index may stop a thread.
CHECK_DEADLOCK FALSE
