---------------------------- MODULE ChunkingProofs ----------------------------
(***************************************************************************)
(* Proofs about Chunking, for messages and blocks of any size, as long as  *)
(* the offsets can say where a packet belongs: the packets of a message    *)
(* cover it, each byte once, in whatever order they arrive.                *)
(***************************************************************************)
EXTENDS Chunking, FiniteSetTheorems, TLAPS

(* Every place in a message can be told in an offset.                      *)
Fits == \E p \in Nat : p = 2^OffsetBits /\ MaxLength <= p

(* The arithmetic of blocks.                                               *)
LEMMA Blocks ==
    ASSUME NEW len \in Nat \ {0}, NEW block \in Nat \ {0}
    PROVE  /\ TotalPackets(len, block) \in Nat \ {0}
           /\ (TotalPackets(len, block) - 1) * block < len
           /\ len <= TotalPackets(len, block) * block
<1>1. PICK q : q = (len + block - 1) \div block
  OBVIOUS
<1>2. PICK r : r = (len + block - 1) % block
  OBVIOUS
<1>3. q \in Int /\ r \in 0..(block - 1) /\ len + block - 1 = block * q + r
  BY <1>1, <1>2
<1>4. (q - 1) * block = q * block - block /\ q * block = block * q
  BY <1>3
<1>5. (q - 1) * block < len /\ len <= q * block
  BY <1>3, <1>4
<1>6. q >= 1
  <2> SUFFICES ASSUME q <= 0 PROVE FALSE
    BY <1>3
  <2>1. q * block <= 0
    BY <1>3
  <2> QED
    BY <1>3, <1>5, <2>1
<1> QED
  BY <1>1, <1>3, <1>5, <1>6 DEF TotalPackets

(* Multiples of the block size are in the order of their factors.          *)
LEMMA Multiples ==
    ASSUME NEW block \in Nat \ {0}, NEW i \in Int, NEW j \in Int, i < j
    PROVE  i * block + block <= j * block
<1>1. PICK d \in Nat : j = i + 1 + d
  <2>1. j - i - 1 \in Nat /\ j = i + 1 + (j - i - 1)
    OBVIOUS
  <2> QED
    BY <2>1
<1>2. j * block = i * block + block + d * block
  BY <1>1
<1>3. d * block >= 0
  OBVIOUS
<1> QED
  BY <1>2, <1>3

(* The packet that carries the byte x of a message.                        *)
LEMMA Carried ==
    ASSUME NEW len \in Nat \ {0}, NEW block \in Nat \ {0}, NEW x \in 0..(len - 1)
    PROVE  \E i \in 0..(TotalPackets(len, block) - 1) : i * block <= x /\ x < i * block + block
<1>1. PICK i : i = x \div block
  OBVIOUS
<1>2. PICK r : r = x % block
  OBVIOUS
<1>3. i \in Int /\ r \in 0..(block - 1) /\ x = block * i + r
  BY <1>1, <1>2
<1>4. block * i = i * block /\ i * block \in Int
  BY <1>3
<1>5. i * block <= x /\ x < i * block + block
  BY <1>3, <1>4
<1>6. i >= 0
  <2> SUFFICES ASSUME i < 0 PROVE FALSE
    BY <1>3
  <2>1. i * block + block <= 0 * block
    BY <1>3, Multiples
  <2> QED
    BY <1>4, <1>5, <2>1
<1>7. PICK t \in Nat : t = TotalPackets(len, block) /\ len <= t * block
  BY Blocks
<1>8. i < t
  <2> SUFFICES ASSUME t <= i PROVE FALSE
    BY <1>3, <1>7
  <2>1. t * block <= i * block
    <3>1. CASE t = i
      BY <1>4, <3>1
    <3>2. CASE t < i
      <4>1. t * block + block <= i * block /\ t * block \in Int
        BY <1>3, <1>7, <3>2, Multiples
      <4> QED
        BY <1>4, <4>1
    <3> QED
      BY <1>3, <1>7, <3>1, <3>2
  <2>2. t * block \in Int
    BY <1>7
  <2> QED
    BY <1>4, <1>5, <1>7, <2>1, <2>2
<1> QED
  BY <1>3, <1>5, <1>6, <1>7, <1>8

(* The i-th packet, as its header describes it.                            *)
Packet(len, block, i) ==
    [number |-> i, offset |-> (i * block) % 2^OffsetBits, length |-> PacketLength(len, block, i)]

(* While offsets fit, the i-th packet lies where it was cut from: at a     *)
(* multiple of the block size, up to the next one or the end.              *)
LEMMA PacketPlace ==
    ASSUME Fits, NEW len \in 1..MaxLength, NEW block \in Nat \ {0},
           NEW i \in 0..(TotalPackets(len, block) - 1)
    PROVE  /\ Packet(len, block, i).number = i
           /\ Packet(len, block, i).offset = i * block
           /\ i * block \in Nat
           /\ Packet(len, block, i).length \in Nat \ {0}
           /\ i * block + Packet(len, block, i).length
                  = IF i * block + block <= len THEN i * block + block ELSE len
           /\ i * block < len
<1> USE ChunkingAssumption
<1>1. PICK t \in Nat \ {0} : /\ t = TotalPackets(len, block)
                             /\ (t - 1) * block < len /\ len <= t * block
  <2>1. len \in Nat \ {0}
    OBVIOUS
  <2> QED
    BY <2>1, Blocks
<1>2. i \in Nat /\ i < t /\ t - 1 \in Nat
  BY <1>1
<1>3. PICK a \in Nat : a = i * block
  BY <1>2
<1>4. PICK z \in Nat : z = (t - 1) * block
  BY <1>2
<1>5. t * block = z + block
  BY <1>1, <1>4
<1>6. CASE i = t - 1
  <2>1. a = z /\ z < len /\ len <= a + block
    BY <1>1, <1>3, <1>4, <1>5, <1>6
  <2>2. PacketLength(len, block, i) = len - a
    BY <1>1, <1>3, <1>6 DEF PacketLength
  <2>3. PICK p \in Nat : p = 2^OffsetBits /\ MaxLength <= p
    BY DEF Fits
  <2>4. a % p = a
    <3>1. a < p /\ p > 0
      BY <2>1, <2>3, <1>6
    <3> QED
      BY <3>1
  <2> QED
    BY <1>3, <1>6, <2>1, <2>2, <2>3, <2>4 DEF Packet
<1>7. CASE i < t - 1
  <2>1. a + block <= z
    BY <1>1, <1>2, <1>3, <1>4, <1>7, Multiples
  <2>2. PacketLength(len, block, i) = block
    BY <1>1, <1>2, <1>7 DEF PacketLength
  <2>3. a + block < len
    BY <1>1, <1>4, <2>1
  <2>4. PICK p \in Nat : p = 2^OffsetBits /\ MaxLength <= p
    BY DEF Fits
  <2>5. a % p = a
    <3>1. a < p /\ p > 0
      BY <2>3, <2>4
    <3> QED
      BY <3>1
  <2> QED
    BY <1>3, <2>2, <2>3, <2>4, <2>5 DEF Packet
<1> QED
  BY <1>2, <1>6, <1>7

LEMMA SliceIsPackets ==
    ASSUME NEW len, NEW block
    PROVE  Slice(len, block) = {Packet(len, block, i) : i \in 0..(TotalPackets(len, block) - 1)}
BY DEF Slice, Packet

LEMMA SliceSize ==
    ASSUME NEW len \in Nat \ {0}, NEW block \in Nat \ {0}
    PROVE  /\ IsFiniteSet(Slice(len, block))
           /\ Cardinality(Slice(len, block)) = TotalPackets(len, block)
<1>1. PICK t \in Nat \ {0} : t = TotalPackets(len, block)
  BY Blocks
<1> DEFINE S == Slice(len, block)
           m == [i \in 0..(t - 1) |-> Packet(len, block, i)]
<1>2. m \in Surjection(0..(t - 1), S)
  BY <1>1, SliceIsPackets DEF Surjection
<1>3. \A i, j \in 0..(t - 1) : m[i] = m[j] => i = j
  BY DEF Packet
<1>4. IsFiniteSet(0..(t - 1)) /\ Cardinality(0..(t - 1)) = t
  BY FS_Interval
<1> HIDE DEF m, S
<1>5. m \in Injection(0..(t - 1), S)
  BY <1>2, <1>3 DEF Surjection, Injection, IsInjective
<1>6. IsFiniteSet(S) /\ Cardinality(S) = Cardinality(0..(t - 1))
  BY <1>2, <1>4, <1>5, FS_Surjection
<1> QED
  BY <1>1, <1>4, <1>6 DEF S

----------------------------------------------------------------------------
(* A byte is written when the packet that carries it is received.          *)

Written ==
    \A x \in 0..(length - 1) : \A i \in 0..(TotalPackets(length, blockSize) - 1) :
        i * blockSize <= x /\ x < i * blockSize + blockSize =>
            copies[x] = IF Packet(length, blockSize, i) \in onTheWay THEN 0 ELSE 1

IInv ==
    /\ length \in 1..MaxLength /\ blockSize \in BlockSizes
    /\ onTheWay \subseteq Slice(length, blockSize)
    /\ received \in Nat /\ received + Cardinality(onTheWay) = TotalPackets(length, blockSize)
    /\ copies \in [0..(length - 1) -> Nat]
    /\ Written

LEMMA Types ==
    ASSUME IInv
    PROVE  /\ length \in Nat \ {0} /\ blockSize \in Nat \ {0}
           /\ TotalPackets(length, blockSize) \in Nat
           /\ IsFiniteSet(onTheWay) /\ Cardinality(onTheWay) \in Nat
<1>1. length \in Nat \ {0} /\ blockSize \in Nat \ {0}
  BY ChunkingAssumption DEF IInv
<1>2. IsFiniteSet(onTheWay)
  BY <1>1, SliceSize, FS_Subset DEF IInv
<1> QED
  BY <1>1, <1>2, Blocks, FS_CardinalityType

LEMMA InitIInv == Init => IInv
<1> SUFFICES ASSUME Init PROVE IInv
  OBVIOUS
<1>1. length \in Nat \ {0} /\ blockSize \in Nat \ {0} /\ length \in 1..MaxLength
      /\ blockSize \in BlockSizes
  BY ChunkingAssumption DEF Init
<1>2. /\ onTheWay = Slice(length, blockSize) /\ received = 0
      /\ copies = [x \in 0..(length - 1) |-> 0]
  BY DEF Init
<1>3. \A i \in 0..(TotalPackets(length, blockSize) - 1) : Packet(length, blockSize, i) \in onTheWay
  BY <1>2, SliceIsPackets
<1>4. Cardinality(onTheWay) = TotalPackets(length, blockSize)
      /\ TotalPackets(length, blockSize) \in Nat
  BY <1>1, <1>2, SliceSize, Blocks
<1>5. Written
  BY <1>2, <1>3 DEF Written
<1> QED
  BY <1>1, <1>2, <1>4, <1>5 DEF IInv

LEMMA ReceiveStep ==
    ASSUME Fits, IInv, NEW p \in onTheWay, Receive(p)
    PROVE  IInv'
<1>1. /\ onTheWay' = onTheWay \ {p} /\ received' = received + 1
      /\ length' = length /\ blockSize' = blockSize
      /\ copies' = [x \in DOMAIN copies |->
                       IF p.offset <= x /\ x < p.offset + p.length THEN copies[x] + 1 ELSE copies[x]]
  BY DEF Receive
<1>2. PICK len \in 1..MaxLength : len = length
  BY DEF IInv
<1>3. PICK block \in Nat \ {0} : block = blockSize
  BY Types
<1>4. PICK t \in Nat : t = TotalPackets(len, block)
  BY <1>2, <1>3, Types
<1>5. PICK j \in 0..(t - 1) : p = Packet(len, block, j)
  BY <1>2, <1>3, <1>4, SliceIsPackets DEF IInv
<1>6. PICK a \in Nat : a = j * block
  OBVIOUS
<1>7. /\ p.offset = a /\ p.length \in Nat \ {0}
      /\ a + p.length = IF a + block <= len THEN a + block ELSE len
  BY <1>4, <1>5, <1>6, PacketPlace
<1>8. IsFiniteSet(onTheWay) /\ Cardinality(onTheWay \ {p}) = Cardinality(onTheWay) - 1
      /\ Cardinality(onTheWay) \in Nat
  BY Types, FS_RemoveElement
<1>9. copies \in [0..(len - 1) -> Nat] /\ copies' \in [0..(len - 1) -> Nat]
  <2>1. copies \in [0..(len - 1) -> Nat]
    BY <1>2 DEF IInv
  <2> QED
    BY <1>1, <2>1
<1>10. ASSUME NEW x \in 0..(len - 1), NEW i \in 0..(t - 1), i * block <= x, x < i * block + block
       PROVE  copies'[x] = IF Packet(len, block, i) \in onTheWay' THEN 0 ELSE 1
  <2>1. copies[x] = IF Packet(len, block, i) \in onTheWay THEN 0 ELSE 1
    BY <1>2, <1>3, <1>4, <1>10 DEF IInv, Written
  <2>2. CASE i = j
    <3>1. p.offset <= x /\ x < p.offset + p.length
      BY <1>6, <1>7, <1>10, <2>2
    <3>2. copies'[x] = copies[x] + 1
      BY <1>1, <1>9, <3>1
    <3> QED
      BY <1>1, <1>5, <2>1, <2>2, <3>2
  <2>3. CASE i # j
    <3>1. Packet(len, block, i) # p
      BY <1>5, <2>3 DEF Packet
    <3>2. PICK b \in Nat : b = i * block
      OBVIOUS
    <3>3. b + block <= a \/ a + block <= b
      <4>1. i \in Int /\ j \in Int /\ (i < j \/ j < i)
        BY <2>3
      <4> QED
        BY <1>6, <3>2, <4>1, Multiples
    <3>4. ~(p.offset <= x /\ x < p.offset + p.length)
      BY <1>7, <1>10, <3>2, <3>3
    <3>5. copies'[x] = copies[x]
      BY <1>1, <1>9, <3>4
    <3> QED
      BY <1>1, <2>1, <3>1, <3>5
  <2> QED
    BY <2>2, <2>3
<1>11. Written'
  BY <1>1, <1>2, <1>3, <1>4, <1>10 DEF Written
<1>12. received' \in Nat /\ received' + Cardinality(onTheWay') = t
  BY <1>1, <1>2, <1>3, <1>4, <1>8 DEF IInv
<1> QED
  BY <1>1, <1>2, <1>3, <1>4, <1>9, <1>11, <1>12 DEF IInv

LEMMA IInvSound ==
    ASSUME Fits, IInv
    PROVE  EveryByteOnce
<1>1. PICK len \in 1..MaxLength : len = length /\ len \in Nat \ {0}
  BY Types DEF IInv
<1>2. PICK block \in Nat \ {0} : block = blockSize
  BY Types
<1>3. SpansInside
  <2> SUFFICES ASSUME NEW p \in onTheWay PROVE p.length > 0 /\ p.offset + p.length <= len
    BY <1>1 DEF SpansInside
  <2>1. PICK i \in 0..(TotalPackets(len, block) - 1) : p = Packet(len, block, i)
    BY <1>1, <1>2, SliceIsPackets DEF IInv
  <2>2. PICK a \in Nat : a = i * block
    BY <2>1, PacketPlace
  <2>3. /\ p.offset = a /\ p.length \in Nat \ {0}
        /\ a + p.length = IF a + block <= len THEN a + block ELSE len
    BY <2>1, <2>2, PacketPlace
  <2> QED
    BY <2>3
<1>4. ASSUME Complete, NEW x \in 0..(len - 1) PROVE copies[x] = 1
  <2>1. Cardinality(onTheWay) = 0
    BY <1>4, Types DEF IInv, Complete
  <2>2. onTheWay = {}
    BY <2>1, Types, FS_EmptySet
  <2>3. PICK i \in 0..(TotalPackets(len, block) - 1) :
           i * block <= x /\ x < i * block + block
    BY <1>1, Carried
  <2> QED
    BY <1>1, <1>2, <2>2, <2>3 DEF IInv, Written
<1>5. DOMAIN copies = 0..(len - 1)
  BY <1>1 DEF IInv
<1> QED
  BY <1>3, <1>4, <1>5 DEF EveryByteOnce

(* BlockSlicer (chunking.hpp:46) and RawAggregator (:102): when the last   *)
(* packet has come, each byte of the message was written once and no       *)
(* packet reached outside of it, for every length that an offset can tell, *)
(* every block size and every order.  A longer message is not put together *)
(* (the run chunking_wide).                                                *)
THEOREM Reassembled == Fits /\ Spec => []EveryByteOnce
<1> SUFFICES ASSUME Fits PROVE Spec => []EveryByteOnce
  OBVIOUS
<1>1. IInv /\ [Next]_vars => IInv'
  <2>1. ASSUME IInv, UNCHANGED vars PROVE IInv'
    BY <2>1 DEF IInv, Written, vars
  <2> QED
    BY <2>1, ReceiveStep DEF Next
<1>2. IInv => EveryByteOnce
  BY IInvSound
<1> QED
  BY <1>1, <1>2, InitIInv, PTL DEF Spec
=============================================================================
