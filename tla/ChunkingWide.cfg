\* Messages that are longer than an offset can say.
SPECIFICATION Spec
CONSTANTS
    MaxLength = 20
    BlockSizes = {4}
    OffsetBits = 4
INVARIANTS
    EveryByteOnce
CHECK_DEADLOCK FALSE
