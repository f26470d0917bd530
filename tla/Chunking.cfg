\* Messages of up to 16 bytes, whose offsets fit into 4 bits.
SPECIFICATION Spec
CONSTANTS
    MaxLength = 16
    BlockSizes = {2, 3, 4, 5, 16, 17}
    OffsetBits = 4
INVARIANTS
    EveryByteOnce
\* A message is complete at last.
CHECK_DEADLOCK FALSE
