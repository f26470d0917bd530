------------------------------- MODULE Chunking -------------------------------
(***************************************************************************)
(* Slicing a message into packets and putting it together again            *)
(* (BlockSlicer and RawAggregator of distributed/chunking.hpp).  A packet  *)
(* carries 64-bit lengths, but an offset of OffsetBits = 32 bits, used for *)
(* the span it is taken from and for the span it is written to; the        *)
(* number is a constant so that messages can reach beyond it.              *)
(***************************************************************************)
EXTENDS Integers, FiniteSets

CONSTANTS
    MaxLength,   \* bound: length of a message
    BlockSizes,  \* block_size_ of the slicers
    OffsetBits   \* width of PacketHeader::packet_offset

ASSUME ChunkingAssumption ==
    MaxLength \in Nat /\ BlockSizes \subseteq Nat \ {0} /\ OffsetBits \in Nat

VARIABLES
    length,     \* capacity of the serialized message
    blockSize,
    onTheWay,   \* packets not received yet
    received,   \* received_packets
    copies      \* how often each byte of the buffer was written

vars == <<length, blockSize, onTheWay, received, copies>>

TotalPackets(len, block) == (len + block - 1) \div block

PacketLength(len, block, i) ==
    IF i = TotalPackets(len, block) - 1 THEN len - i * block ELSE block

(* Mutant: the offset is computed from the length of this packet.          *)
SliceOverlapping(len, block) ==
    {[number |-> i, offset |-> (i * PacketLength(len, block, i)) % 2^OffsetBits,
      length |-> PacketLength(len, block, i)] : i \in 0..(TotalPackets(len, block) - 1)}

Slice(len, block) ==
    {[number |-> i, offset |-> (i * block) % 2^OffsetBits,
      length |-> PacketLength(len, block, i)] : i \in 0..(TotalPackets(len, block) - 1)}

Init ==
    /\ length \in 1..MaxLength /\ blockSize \in BlockSizes
    /\ onTheWay = Slice(length, blockSize)
    /\ received = 0
    /\ copies = [x \in 0..(length - 1) |-> 0]

(* fetch_packet, the read into its span, and commit_packet.                *)
Receive(p) ==
    /\ onTheWay' = onTheWay \ {p}
    /\ received' = received + 1
    /\ copies' = [x \in DOMAIN copies |->
                     IF p.offset <= x /\ x < p.offset + p.length THEN copies[x] + 1 ELSE copies[x]]
    /\ UNCHANGED <<length, blockSize>>

Next == \E p \in onTheWay : Receive(p)

Spec == Init /\ [][Next]_vars

----------------------------------------------------------------------------
Complete == received = TotalPackets(length, blockSize)

(* dptr::span throws when a packet reaches past the end of the message.    *)
SpansInside == \A p \in onTheWay : p.length > 0 /\ p.offset + p.length <= length

(* "Returns true if this packet completes the message and the message is   *)
(* ready to be processed" (chunking.hpp:35): once the aggregator takes a   *)
(* message for complete, every byte of its buffer has been written, and    *)
(* exactly once, whatever the order of the packets; and no packet reaches  *)
(* past it on the way.                                                     *)
EveryByteOnce ==
    /\ SpansInside
    /\ Complete => \A x \in DOMAIN copies : copies[x] = 1
=============================================================================
