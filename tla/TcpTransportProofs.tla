-------------------------- MODULE TcpTransportProofs --------------------------
(***************************************************************************)
(* Proofs about TcpTransport, for any number of messages, packets,         *)
(* channels, and broken or polled ones.  The sending side: the stream of a *)
(* channel has one writer, and no packet is left behind in its queue.  The *)
(* receiving side: each message is put together once, from all of its      *)
(* packets, and the whole implements MessageDelivery.                      *)
(***************************************************************************)
EXTENDS TcpTransport, FiniteSetTheorems, SequenceTheorems, TLAPS

SenderType ==
    /\ registered \in Seq(Channels)
    /\ spc \in [Messages -> {"ready", "enqueue", "spawn", "sent"}]
    /\ channels \in [Messages -> Seq(Channels)]
    /\ left \in [Messages -> Nat]
    /\ queue \in [Channels -> Seq(Packets)]
    /\ isWriting \in [Channels -> BOOLEAN]
    /\ via \in [Packets -> 0..NumChannels]
    /\ writer \in [Packets -> {"none", "spawned", "pop", "write", "release", "over"}]
    /\ broken \subseteq Channels /\ polled \subseteq Channels

(* What start_send is about to do is possible, and the packets it has not  *)
(* dealt out have no coroutine yet.                                        *)
Dealing ==
    \A m \in Messages :
        /\ spc[m] = "ready" => left[m] = NumPackets[m]
        /\ spc[m] \in {"enqueue", "spawn"} =>
              left[m] \in 1..NumPackets[m] /\ channels[m] # <<>>
        /\ spc[m] = "spawn" => via[LastPacket(m)] = ChannelFor(m)
        /\ \A i \in 1..NumPackets[m] : i <= left[m] => writer[<<m, i>>] = "none"

(* is_writing_ says that a coroutine of the channel is at work; there is   *)
(* only one.                                                               *)
Working(p, c) == via[p] = c /\ writer[p] \in {"pop", "write", "release"}

Locked == \A c \in Channels : isWriting[c] <=> \E p \in Packets : Working(p, c)
Alone  == \A c \in Channels : \A p, q \in Packets : Working(p, c) /\ Working(q, c) => p = q

(* Somebody will look into the queue of channel c.                         *)
Served(c) ==
    \/ \E p \in Packets : via[p] = c /\ writer[p] \in {"spawned", "pop", "write"}
    \/ \E m \in Messages : spc[m] = "spawn" /\ ChannelFor(m) = c

Healthy == Channels \ (broken \cup polled)

AllServed == \A c \in Healthy : queue[c] # <<>> => Served(c)

(* A coroutine belongs to a channel.                                       *)
Placed == \A p \in Packets : writer[p] # "none" => via[p] \in Channels

IInv == SenderType /\ Dealing /\ Placed /\ Locked /\ Alone /\ AllServed

----------------------------------------------------------------------------
(* Helpers.                                                                *)

LEMMA PacketFacts ==
    /\ \A m \in Messages : NumPackets[m] \in Nat \ {0}
    /\ \A m \in Messages : \A i \in 1..NumPackets[m] : <<m, i>> \in Packets
    /\ \A p \in Packets : \E m \in Messages : \E i \in 1..NumPackets[m] : p = <<m, i>>
<1>1. \A m \in Messages : NumPackets[m] \in Nat \ {0}
  BY TransportAssumption
<1>2. \A m \in Messages : \A i \in 1..NumPackets[m] : <<m, i>> \in Packets
  BY DEF Packets
<1>3. \A p \in Packets : \E m \in Messages : \E i \in 1..NumPackets[m] : p = <<m, i>>
  BY DEF Packets
<1> QED
  BY <1>1, <1>2, <1>3

(* A dealt packet goes to a channel that exists.                           *)
LEMMA ChannelForIsChannel ==
    ASSUME SenderType, Dealing, NEW m \in Messages, spc[m] \in {"enqueue", "spawn"}
    PROVE  ChannelFor(m) \in Channels /\ LastPacket(m) \in Packets
<1>1. /\ left[m] \in 1..NumPackets[m] /\ NumPackets[m] \in Nat
      /\ channels[m] \in Seq(Channels) /\ channels[m] # <<>>
  BY PacketFacts DEF SenderType, Dealing
<1>2. Len(channels[m]) \in Nat \ {0}
  BY <1>1, EmptySeq
<1>3. ((NumPackets[m] - left[m]) % Len(channels[m])) + 1 \in 1..Len(channels[m])
  BY <1>1, <1>2
<1>4. ChannelFor(m) \in Channels
  BY <1>1, <1>3, ElementOfSeq DEF ChannelFor
<1> QED
  BY <1>1, <1>4, PacketFacts DEF LastPacket

(* Erasing a channel leaves a list of channels.                            *)
LEMMA UnregisterType ==
    ASSUME registered \in Seq(Channels), NEW c \in Channels, Unregister(c)
    PROVE  registered' \in Seq(Channels)
<1>1. CASE c \notin ToSet(registered)
  BY <1>1 DEF Unregister
<1>2. CASE c \in ToSet(registered)
  <2>1. \E i \in 1..Len(registered) : registered[i] = c
    BY <1>2, LenProperties DEF ToSet
  <2>2. Place(c) \in 1..Len(registered)
    BY <2>1 DEF Place
  <2>3. Len(registered) \in Nat /\ \A i \in 1..Len(registered) : registered[i] \in Channels
    BY LenProperties, ElementOfSeq
  <2>4. SubSeq(registered, 1, Place(c) - 1) \in Seq(Channels)
    BY <2>2, <2>3, SubSeqProperties
  <2>5. SubSeq(registered, Place(c) + 1, Len(registered)) \in Seq(Channels)
    BY <2>2, <2>3, SubSeqProperties
  <2>6. RemoveAt(registered, Place(c)) \in Seq(Channels)
    BY <2>4, <2>5, ConcatProperties DEF RemoveAt
  <2> QED
    BY <1>2, <2>6 DEF Unregister
<1> QED
  BY <1>1, <1>2

----------------------------------------------------------------------------
(* One lemma per step of start_send.                                       *)

LEMMA LookUpKeeps ==
    ASSUME IInv, NEW m \in Messages, LookUp(m)
    PROVE  IInv'
<1> USE DEF IInv
<1>1. SenderType'
  BY DEF SenderType, LookUp, afterSend
<1>2. Dealing'
  <2> SUFFICES ASSUME NEW n \in Messages PROVE
          /\ spc'[n] = "ready" => left'[n] = NumPackets[n]
          /\ spc'[n] \in {"enqueue", "spawn"} =>
                left'[n] \in 1..NumPackets[n] /\ channels'[n] # <<>>
          /\ spc'[n] = "spawn" => via'[LastPacket(n)'] = ChannelFor(n)'
          /\ \A i \in 1..NumPackets[n] : i <= left'[n] => writer'[<<n, i>>] = "none"
    BY DEF Dealing
  <2>1. left' = left /\ via' = via /\ writer' = writer
    BY DEF LookUp
  <2>2. CASE n = m
    <3>1. NumPackets[m] \in Nat \ {0} /\ left[m] = NumPackets[m]
      BY PacketFacts DEF Dealing, LookUp
    <3>2. spc'[m] \in {"sent", "enqueue"} /\ channels'[m] = registered
          /\ (spc'[m] = "enqueue" => registered # <<>>)
      BY DEF LookUp, SenderType
    <3> QED
      BY <2>1, <2>2, <3>1, <3>2 DEF Dealing
  <2>3. CASE n # m
    <3>1. spc'[n] = spc[n] /\ channels'[n] = channels[n]
      BY <2>3 DEF LookUp, SenderType
    <3>2. LastPacket(n)' = LastPacket(n) /\ ChannelFor(n)' = ChannelFor(n)
      BY <2>1, <3>1 DEF LastPacket, ChannelFor
    <3> QED
      BY <2>1, <3>1, <3>2 DEF Dealing
  <2> QED
    BY <2>2, <2>3
<1>3. Locked' /\ Placed'
  BY DEF LookUp, Locked, Working, Placed
<1>4. Alone'
  BY DEF LookUp, Alone, Working
<1>5. AllServed'
  <2> SUFFICES ASSUME NEW c \in Healthy', queue'[c] # <<>> PROVE Served(c)'
    BY DEF AllServed
  <2>1. c \in Healthy /\ queue[c] # <<>>
    BY DEF LookUp, afterSend, Healthy
  <2>2. Served(c)
    BY <2>1 DEF AllServed
  <2>3. \A n \in Messages : spc[n] = "spawn" =>
            n # m /\ spc'[n] = "spawn" /\ ChannelFor(n)' = ChannelFor(n)
    BY DEF LookUp, SenderType, ChannelFor
  <2>4. via' = via /\ writer' = writer
    BY DEF LookUp
  <2> QED
    BY <2>2, <2>3, <2>4 DEF Served
<1> QED
  BY <1>1, <1>2, <1>3, <1>4, <1>5

LEMMA EnqueueKeeps ==
    ASSUME IInv, NEW m \in Messages, Enqueue(m)
    PROVE  IInv'
<1> DEFINE c == ChannelFor(m)
           p == LastPacket(m)
<1>1. /\ c \in Channels /\ p \in Packets
      /\ spc[m] = "enqueue" /\ left[m] \in 1..NumPackets[m] /\ writer[p] = "none"
  <2>1. spc[m] = "enqueue" /\ left[m] \in 1..NumPackets[m] /\ NumPackets[m] \in Nat
    BY PacketFacts DEF Enqueue, IInv, Dealing
  <2> QED
    BY <2>1, ChannelForIsChannel DEF IInv, Dealing, LastPacket
<1>2. /\ queue' = [queue EXCEPT ![c] = Append(@, p)]
      /\ via' = [via EXCEPT ![p] = c]
      /\ spc' = [spc EXCEPT ![m] = "spawn"]
      /\ UNCHANGED <<registered, channels, left, isWriting, writer, broken, polled>>
  BY DEF Enqueue, afterSend
<1>3. \A n \in Messages : ChannelFor(n)' = ChannelFor(n) /\ LastPacket(n)' = LastPacket(n)
  BY <1>2 DEF ChannelFor, LastPacket
<1>4. ChannelFor(m)' = c /\ LastPacket(m)' = p
  BY <1>3
<1> HIDE DEF c, p
<1>5. SenderType'
  <2>1. queue' \in [Channels -> Seq(Packets)]
    <3>1. queue[c] \in Seq(Packets)
      BY <1>1 DEF IInv, SenderType
    <3>2. Append(queue[c], p) \in Seq(Packets)
      BY <1>1, <3>1
    <3> QED
      BY <1>2, <3>2 DEF IInv, SenderType
  <2>2. via' \in [Packets -> 0..NumChannels]
    BY <1>1, <1>2 DEF IInv, SenderType, Channels
  <2> QED
    BY <1>2, <2>1, <2>2 DEF IInv, SenderType
<1>6. \A q \in Packets : writer'[q] = writer[q] /\ (writer[q] # "none" => via'[q] = via[q])
  BY <1>1, <1>2 DEF IInv, SenderType
<1>7. via'[p] = c
  BY <1>1, <1>2 DEF IInv, SenderType
<1>8. \A n \in Messages : spc'[n] = IF n = m THEN "spawn" ELSE spc[n]
  BY <1>2 DEF IInv, SenderType
<1>9. Dealing'
  <2> SUFFICES ASSUME NEW n \in Messages PROVE
          /\ spc'[n] = "ready" => left'[n] = NumPackets[n]
          /\ spc'[n] \in {"enqueue", "spawn"} =>
                left'[n] \in 1..NumPackets[n] /\ channels'[n] # <<>>
          /\ spc'[n] = "spawn" => via'[LastPacket(n)'] = ChannelFor(n)'
          /\ \A i \in 1..NumPackets[n] : i <= left'[n] => writer'[<<n, i>>] = "none"
    BY DEF Dealing
  <2>1. CASE n = m
    BY <2>1, <1>1, <1>2, <1>4, <1>7, <1>8 DEF IInv, Dealing
  <2>2. CASE n # m
    <3>1. LastPacket(n) # p
      BY <2>2 DEF p, LastPacket
    <3>2. spc[n] = "spawn" => via'[LastPacket(n)] = via[LastPacket(n)]
      BY <1>2, <3>1, ChannelForIsChannel DEF IInv, SenderType
    <3> QED
      BY <2>2, <1>2, <1>3, <1>8, <3>2 DEF IInv, Dealing
  <2> QED
    BY <2>1, <2>2
<1>10. \A q \in Packets, d \in Channels : Working(q, d)' <=> Working(q, d)
  BY <1>6 DEF Working
<1>11. Locked' /\ Alone' /\ Placed'
  BY <1>2, <1>6, <1>10 DEF IInv, Locked, Alone, Placed
<1>12. AllServed'
  <2> SUFFICES ASSUME NEW d \in Healthy', queue'[d] # <<>> PROVE Served(d)'
    BY DEF AllServed
  <2>1. CASE d = c
    BY <2>1, <1>4, <1>8 DEF Served
  <2>2. CASE d # c
    <3>1. queue'[d] = queue[d] /\ d \in Healthy
      BY <2>2, <1>2 DEF IInv, SenderType, Healthy
    <3>2. Served(d)
      BY <3>1 DEF IInv, AllServed
    <3> QED
      BY <3>2, <1>3, <1>6, <1>8 DEF Served
  <2> QED
    BY <2>1, <2>2
<1> QED
  BY <1>5, <1>9, <1>11, <1>12 DEF IInv

LEMMA SpawnKeeps ==
    ASSUME IInv, NEW m \in Messages, Spawn(m)
    PROVE  IInv'
<1> DEFINE c == ChannelFor(m)
           p == LastPacket(m)
<1>1. /\ c \in Channels /\ p \in Packets /\ p = <<m, left[m]>>
      /\ spc[m] = "spawn" /\ left[m] \in 1..NumPackets[m] /\ NumPackets[m] \in Nat
      /\ writer[p] = "none" /\ via[p] = c /\ channels[m] # <<>>
  <2>1. spc[m] = "spawn" /\ left[m] \in 1..NumPackets[m] /\ NumPackets[m] \in Nat
        /\ channels[m] # <<>>
    BY PacketFacts DEF Spawn, IInv, Dealing
  <2>2. c \in Channels /\ p \in Packets
    BY <2>1, ChannelForIsChannel DEF IInv
  <2>3. p = <<m, left[m]>>
    BY DEF LastPacket
  <2>4. writer[<<m, left[m]>>] = "none"
    BY <2>1 DEF IInv, Dealing
  <2>5. via[p] = c
    BY <2>1 DEF IInv, Dealing
  <2> QED
    BY <2>1, <2>2, <2>3, <2>4, <2>5
<1>2. /\ writer' = [writer EXCEPT ![p] = "spawned"]
      /\ left' = [left EXCEPT ![m] = @ - 1]
      /\ UNCHANGED <<registered, queue, isWriting, via, broken, polled>>
  BY DEF Spawn, afterSend
<1>3. \/ left[m] = 1 /\ spc' = [spc EXCEPT ![m] = "sent"] /\ channels' = [channels EXCEPT ![m] = <<>>]
      \/ left[m] # 1 /\ spc' = [spc EXCEPT ![m] = "enqueue"] /\ channels' = channels
  BY DEF Spawn
<1> HIDE DEF c, p
<1>4. SenderType'
  <2>1. left' \in [Messages -> Nat]
    <3>1. left[m] - 1 \in Nat
      BY <1>1
    <3> QED
      BY <1>2, <3>1 DEF IInv, SenderType
  <2>2. writer' \in [Packets -> {"none", "spawned", "pop", "write", "release", "over"}]
    BY <1>1, <1>2 DEF IInv, SenderType
  <2>3. channels' \in [Messages -> Seq(Channels)]
    <3>1. channels \in [Messages -> Seq(Channels)] /\ <<>> \in Seq(Channels)
      BY EmptySeq DEF IInv, SenderType
    <3>2. channels' = channels \/ channels' = [channels EXCEPT ![m] = <<>>]
      BY <1>3
    <3> QED
      BY <3>1, <3>2
  <2>4. spc' \in [Messages -> {"ready", "enqueue", "spawn", "sent"}]
    BY <1>3 DEF IInv, SenderType
  <2> QED
    BY <1>2, <2>1, <2>2, <2>3, <2>4 DEF IInv, SenderType
<1>5. \A n \in Messages : n # m =>
          spc'[n] = spc[n] /\ left'[n] = left[n] /\ channels'[n] = channels[n]
  BY <1>2, <1>3 DEF IInv, SenderType
<1>6. left'[m] = left[m] - 1 /\ spc'[m] \in {"sent", "enqueue"}
      /\ (spc'[m] = "enqueue" => left[m] # 1 /\ channels'[m] = channels[m])
  BY <1>2, <1>3 DEF IInv, SenderType
<1>7. \A q \in Packets : writer'[q] = IF q = p THEN "spawned" ELSE writer[q]
  BY <1>2 DEF IInv, SenderType
<1>8. \A n \in Messages : n # m =>
          ChannelFor(n)' = ChannelFor(n) /\ LastPacket(n)' = LastPacket(n)
  BY <1>5 DEF ChannelFor, LastPacket
<1>9. Dealing'
  <2> SUFFICES ASSUME NEW n \in Messages PROVE
          /\ spc'[n] = "ready" => left'[n] = NumPackets[n]
          /\ spc'[n] \in {"enqueue", "spawn"} =>
                left'[n] \in 1..NumPackets[n] /\ channels'[n] # <<>>
          /\ spc'[n] = "spawn" => via'[LastPacket(n)'] = ChannelFor(n)'
          /\ \A i \in 1..NumPackets[n] : i <= left'[n] => writer'[<<n, i>>] = "none"
    BY DEF Dealing
  <2>1. CASE n = m
    <3>1. \A i \in 1..NumPackets[m] : i <= left'[m] => <<m, i>> # p /\ writer[<<m, i>>] = "none"
      BY <1>1, <1>6 DEF IInv, Dealing
    <3>2. \A i \in 1..NumPackets[m] : i <= left'[m] => writer'[<<m, i>>] = "none"
      BY <3>1, <1>7, PacketFacts
    <3> QED
      BY <2>1, <3>2, <1>1, <1>6
  <2>2. CASE n # m
    <3>1. \A i \in 1..NumPackets[n] : <<n, i>> # p /\ <<n, i>> \in Packets
      BY <2>2, <1>1, PacketFacts
    <3>2. \A i \in 1..NumPackets[n] : writer'[<<n, i>>] = writer[<<n, i>>]
      BY <3>1, <1>7
    <3> QED
      BY <2>2, <3>2, <1>2, <1>5, <1>8 DEF IInv, Dealing
  <2> QED
    BY <2>1, <2>2
<1>10. \A q \in Packets, d \in Channels : Working(q, d)' <=> Working(q, d)
  BY <1>1, <1>2, <1>7 DEF Working
<1>11. Locked' /\ Alone' /\ Placed'
  BY <1>1, <1>2, <1>7, <1>10 DEF IInv, Locked, Alone, Placed
<1>12. AllServed'
  <2> SUFFICES ASSUME NEW d \in Healthy', queue'[d] # <<>> PROVE Served(d)'
    BY DEF AllServed
  <2>1. Served(d)
    BY <1>2 DEF IInv, AllServed, Healthy
  <2>2. CASE \E q \in Packets : via[q] = d /\ writer[q] \in {"spawned", "pop", "write"}
    BY <2>2, <1>2, <1>7 DEF Served
  <2>3. CASE \E n \in Messages : spc[n] = "spawn" /\ ChannelFor(n) = d
    <3>1. PICK n \in Messages : spc[n] = "spawn" /\ ChannelFor(n) = d
      BY <2>3
    <3>2. CASE n = m
      BY <3>1, <3>2, <1>1, <1>2, <1>7 DEF Served, c
    <3>3. CASE n # m
      BY <3>1, <3>3, <1>5, <1>8 DEF Served
    <3> QED
      BY <3>2, <3>3
  <2> QED
    BY <2>1, <2>2, <2>3 DEF Served
<1> QED
  BY <1>4, <1>9, <1>11, <1>12 DEF IInv

----------------------------------------------------------------------------
(* The steps of write_packets.  They move one coroutine, and touch nothing *)
(* of start_send.                                                          *)

Moves(p, to) ==
    /\ writer' = [writer EXCEPT ![p] = to]
    /\ UNCHANGED <<spc, channels, left, via, broken, polled>>

LEMMA MoveKeeps ==
    ASSUME IInv, NEW p \in Packets, writer[p] # "none",
           NEW to \in {"spawned", "pop", "write", "release", "over"}, Moves(p, to)
    PROVE  /\ writer' \in [Packets -> {"none", "spawned", "pop", "write", "release", "over"}]
           /\ Dealing' /\ Placed' /\ via[p] \in Channels
           /\ \A q \in Packets : writer'[q] = IF q = p THEN to ELSE writer[q]
           /\ \A n \in Messages : ChannelFor(n)' = ChannelFor(n)
<1>1. writer' \in [Packets -> {"none", "spawned", "pop", "write", "release", "over"}]
  BY DEF Moves, IInv, SenderType
<1>2. \A q \in Packets : writer'[q] = IF q = p THEN to ELSE writer[q]
  BY DEF Moves, IInv, SenderType
<1>3. \A n \in Messages : ChannelFor(n)' = ChannelFor(n) /\ LastPacket(n)' = LastPacket(n)
  BY DEF Moves, ChannelFor, LastPacket
<1>4. Dealing'
  <2>1. \A n \in Messages : \A i \in 1..NumPackets[n] :
            i <= left[n] => writer'[<<n, i>>] = "none"
    BY <1>2, PacketFacts DEF IInv, Dealing
  <2> QED
    BY <2>1, <1>3 DEF IInv, Dealing, Moves
<1>5. Placed' /\ via[p] \in Channels
  BY <1>2 DEF IInv, Placed, Moves
<1> QED
  BY <1>1, <1>2, <1>3, <1>4, <1>5

LEMMA AcquireKeeps ==
    ASSUME IInv, NEW p \in Packets, NEW c \in Channels, via[p] = c, Acquire(p)
    PROVE  IInv'
<1> DEFINE to == IF isWriting[c] THEN "over" ELSE "pop"
<1>1. /\ writer[p] = "spawned" /\ ExecutorFree(c)
      /\ isWriting' = [isWriting EXCEPT ![c] = TRUE]
      /\ Moves(p, to) /\ UNCHANGED <<registered, queue>>
      /\ to \in {"spawned", "pop", "write", "release", "over"}
  BY DEF Acquire, afterSend, Moves
<1> HIDE DEF to
<1>2. /\ writer' \in [Packets -> {"none", "spawned", "pop", "write", "release", "over"}]
      /\ Dealing' /\ Placed'
      /\ \A q \in Packets : writer'[q] = IF q = p THEN to ELSE writer[q]
      /\ \A n \in Messages : ChannelFor(n)' = ChannelFor(n)
  BY <1>1, MoveKeeps
<1>3. SenderType'
  BY <1>1, <1>2 DEF IInv, SenderType, Moves
<1>4. /\ \A d \in Channels : d # c => isWriting'[d] = isWriting[d]
      /\ isWriting'[c] = TRUE
  BY <1>1, <1>2 DEF IInv, SenderType
<1>5. CASE isWriting[c]
  <2>1. to = "over"
    BY <1>5 DEF to
  <2>2. \A q \in Packets, d \in Channels : Working(q, d)' <=> Working(q, d)
    BY <1>1, <1>2, <2>1 DEF Working, Moves
  <2>3. PICK q \in Packets : Working(q, c)
    BY <1>2, <1>5 DEF IInv, Locked
  <2>4. Locked'
    <3> SUFFICES ASSUME NEW d \in Channels
                 PROVE  isWriting'[d] <=> \E r \in Packets : Working(r, d)'
      BY DEF Locked
    <3>1. CASE d = c
      BY <3>1, <1>4, <2>2, <2>3
    <3>2. CASE d # c
      BY <3>2, <1>4, <2>2 DEF IInv, Locked
    <3> QED
      BY <3>1, <3>2
  <2>5. Alone'
    BY <2>2 DEF IInv, Alone
  <2>6. c \notin polled => writer[q] = "write" /\ q # p
    BY <1>1, <2>3 DEF Working, ExecutorFree, Coroutines
  <2>7. c \notin polled => Served(c)'
    BY <1>1, <1>2, <2>3, <2>6 DEF Served, Working, Moves
  <2>8. AllServed'
    <3> SUFFICES ASSUME NEW d \in Healthy', queue'[d] # <<>>
                 PROVE  Served(d)'
      BY DEF AllServed
    <3>1. Served(d)
      BY <1>1 DEF IInv, AllServed, Healthy, Moves
    <3>2. CASE d = c
      BY <1>1, <2>7, <3>2 DEF Healthy, Moves
    <3>3. CASE d # c
      BY <1>1, <1>2, <3>1, <3>3 DEF Served, Moves
    <3> QED
      BY <3>2, <3>3
  <2> QED
    BY <1>2, <1>3, <2>4, <2>5, <2>8 DEF IInv
<1>6. CASE ~isWriting[c]
  <2>1. to = "pop"
    BY <1>6 DEF to
  <2>2. \A q \in Packets, d \in Channels :
            Working(q, d)' <=> Working(q, d) \/ (q = p /\ d = c)
    BY <1>1, <1>2, <2>1 DEF Working, Moves
  <2>3. \A q \in Packets : ~Working(q, c)
    BY <1>6 DEF IInv, Locked
  <2>4. Locked'
    <3> SUFFICES ASSUME NEW d \in Channels
                 PROVE  isWriting'[d] <=> \E r \in Packets : Working(r, d)'
      BY DEF Locked
    <3>1. CASE d = c
      BY <3>1, <1>4, <2>2
    <3>2. CASE d # c
      BY <3>2, <1>4, <2>2 DEF IInv, Locked
    <3> QED
      BY <3>1, <3>2
  <2>5. Alone'
    BY <2>2, <2>3 DEF IInv, Alone
  <2>6. AllServed'
    <3> SUFFICES ASSUME NEW d \in Healthy', queue'[d] # <<>>
                 PROVE  Served(d)'
      BY DEF AllServed
    <3>1. Served(d)
      BY <1>1 DEF IInv, AllServed, Healthy, Moves
    <3> QED
      BY <1>1, <1>2, <2>1, <3>1 DEF Served, Moves
  <2> QED
    BY <1>2, <1>3, <2>4, <2>5, <2>6 DEF IInv
<1> QED
  BY <1>5, <1>6

(* A coroutine that goes on working, with the lock as it was.              *)
LEMMA WorksOn ==
    ASSUME IInv, NEW p \in Packets, NEW c \in Channels, via[p] = c,
           NEW to \in {"pop", "write", "release"}, Moves(p, to),
           writer[p] \in {"pop", "write", "release"}, isWriting' = isWriting
    PROVE  Locked' /\ Alone'
<1>1. \A q \in Packets : writer'[q] = IF q = p THEN to ELSE writer[q]
  BY MoveKeeps
<1>2. via' = via
  BY DEF Moves
<1>3. \A q \in Packets, d \in Channels : Working(q, d)' <=> Working(q, d)
  BY <1>1, <1>2 DEF Working
<1>4. Locked'
  BY <1>3 DEF IInv, Locked
<1>5. Alone'
  BY <1>3 DEF IInv, Alone
<1> QED
  BY <1>4, <1>5

(* Other channels are served as before when a coroutine of c moves, and c  *)
(* is when the coroutine is still going to look into the queue.            *)
LEMMA StillServed ==
    ASSUME IInv, NEW p \in Packets, NEW c \in Channels, via[p] = c,
           NEW to \in {"spawned", "pop", "write", "release", "over"}, Moves(p, to),
           writer[p] # "none", NEW d \in Channels, Served(d),
           d # c \/ to \in {"pop", "write"} \/ writer[p] = "release"
    PROVE  Served(d)'
<1>1. /\ \A q \in Packets : writer'[q] = IF q = p THEN to ELSE writer[q]
      /\ \A n \in Messages : ChannelFor(n)' = ChannelFor(n)
  BY MoveKeeps
<1>2. via' = via /\ spc' = spc
  BY DEF Moves
<1> QED
  BY <1>1, <1>2 DEF Served

LEMMA PopKeeps ==
    ASSUME IInv, NEW p \in Packets, NEW c \in Channels, via[p] = c, Pop(p)
    PROVE  IInv'
<1>1. CASE queue[c] = <<>>
  <2>1. /\ writer[p] = "pop" /\ Moves(p, "release")
        /\ UNCHANGED <<registered, queue, isWriting>>
    BY <1>1 DEF Pop, Moves
  <2>2. /\ writer' \in [Packets -> {"none", "spawned", "pop", "write", "release", "over"}]
        /\ Dealing' /\ Placed'
    BY <2>1, MoveKeeps
  <2>3. SenderType'
    BY <2>1, <2>2 DEF IInv, SenderType, Moves
  <2>4. Locked' /\ Alone'
    BY <2>1, WorksOn
  <2>5. AllServed'
    <3> SUFFICES ASSUME NEW d \in Healthy', queue'[d] # <<>>
                 PROVE  Served(d)'
      BY DEF AllServed
    <3>1. Served(d) /\ d # c
      BY <1>1, <2>1 DEF IInv, AllServed, Healthy, Moves
    <3> QED
      BY <2>1, <3>1, StillServed DEF Healthy
  <2> QED
    BY <2>2, <2>3, <2>4, <2>5 DEF IInv
<1>2. CASE queue[c] # <<>>
  <2>1. /\ writer[p] = "pop" /\ Moves(p, "write")
        /\ queue' = [queue EXCEPT ![c] = Tail(@)]
        /\ UNCHANGED <<registered, isWriting>>
    BY <1>2 DEF Pop, Moves
  <2>2. /\ writer' \in [Packets -> {"none", "spawned", "pop", "write", "release", "over"}]
        /\ Dealing' /\ Placed'
    BY <2>1, MoveKeeps
  <2>3. queue' \in [Channels -> Seq(Packets)]
    <3>1. queue[c] \in Seq(Packets) /\ queue \in [Channels -> Seq(Packets)]
      BY DEF IInv, SenderType
    <3>2. Tail(queue[c]) \in Seq(Packets)
      BY <1>2, <3>1, HeadTailProperties
    <3> QED
      BY <2>1, <3>1, <3>2
  <2>4. SenderType'
    BY <2>1, <2>2, <2>3 DEF IInv, SenderType, Moves
  <2>5. Locked' /\ Alone'
    BY <2>1, WorksOn
  <2>6. AllServed'
    <3> SUFFICES ASSUME NEW d \in Healthy', queue'[d] # <<>>
                 PROVE  Served(d)'
      BY DEF AllServed
    <3>1. d \in Healthy /\ queue[d] # <<>>
      BY <1>2, <2>1 DEF IInv, SenderType, Moves, Healthy
    <3>2. Served(d)
      BY <3>1 DEF IInv, AllServed
    <3> QED
      BY <2>1, <3>2, StillServed DEF Healthy
  <2> QED
    BY <2>2, <2>4, <2>5, <2>6 DEF IInv
<1> QED
  BY <1>1, <1>2

LEMMA WrittenKeeps ==
    ASSUME IInv, NEW p \in Packets, NEW c \in Channels, via[p] = c, Written(p)
    PROVE  IInv'
<1>1. /\ writer[p] = "write" /\ Moves(p, "pop")
      /\ UNCHANGED <<registered, queue, isWriting>>
  BY DEF Written, Moves, afterSend
<1>2. /\ writer' \in [Packets -> {"none", "spawned", "pop", "write", "release", "over"}]
      /\ Dealing' /\ Placed'
  BY <1>1, MoveKeeps
<1>3. SenderType'
  BY <1>1, <1>2 DEF IInv, SenderType, Moves
<1>4. Locked' /\ Alone'
  BY <1>1, WorksOn
<1>5. AllServed'
  <2> SUFFICES ASSUME NEW d \in Healthy', queue'[d] # <<>>
               PROVE  Served(d)'
    BY DEF AllServed
  <2>1. Served(d)
    BY <1>1 DEF IInv, AllServed, Healthy, Moves
  <2> QED
    BY <1>1, <2>1, StillServed DEF Healthy
<1> QED
  BY <1>2, <1>3, <1>4, <1>5 DEF IInv

LEMMA WriteFailsKeeps ==
    ASSUME IInv, NEW p \in Packets, NEW c \in Channels, via[p] = c, WriteFails(p)
    PROVE  IInv'
<1>1. /\ writer[p] = "write" /\ Moves(p, "release") /\ c \in broken
      /\ Unregister(c) /\ UNCHANGED <<queue, isWriting>>
  BY DEF WriteFails, Moves, afterSend
<1>2. /\ writer' \in [Packets -> {"none", "spawned", "pop", "write", "release", "over"}]
      /\ Dealing' /\ Placed'
  BY <1>1, MoveKeeps
<1>3. registered' \in Seq(Channels)
  BY <1>1, UnregisterType DEF IInv, SenderType
<1>4. SenderType'
  BY <1>1, <1>2, <1>3 DEF IInv, SenderType, Moves
<1>5. Locked' /\ Alone'
  BY <1>1, WorksOn
<1>6. AllServed'
  <2> SUFFICES ASSUME NEW d \in Healthy', queue'[d] # <<>>
               PROVE  Served(d)'
    BY DEF AllServed
  <2>1. Served(d) /\ d # c
    BY <1>1 DEF IInv, AllServed, Healthy, Moves
  <2> QED
    BY <1>1, <2>1, StillServed DEF Healthy
<1> QED
  BY <1>2, <1>4, <1>5, <1>6 DEF IInv

LEMMA ReleaseKeeps ==
    ASSUME IInv, NEW p \in Packets, NEW c \in Channels, via[p] = c, Release(p)
    PROVE  IInv'
<1>1. /\ writer[p] = "release" /\ Moves(p, "over")
      /\ isWriting' = [isWriting EXCEPT ![c] = FALSE]
      /\ UNCHANGED <<registered, queue>>
  BY DEF Release, Moves, afterSend
<1>2. /\ writer' \in [Packets -> {"none", "spawned", "pop", "write", "release", "over"}]
      /\ Dealing' /\ Placed'
      /\ \A q \in Packets : writer'[q] = IF q = p THEN "over" ELSE writer[q]
  BY <1>1, MoveKeeps
<1>3. SenderType'
  BY <1>1, <1>2 DEF IInv, SenderType, Moves
<1>4. /\ \A d \in Channels : d # c => isWriting'[d] = isWriting[d]
      /\ isWriting'[c] = FALSE
  BY <1>1 DEF IInv, SenderType
<1>5. \A q \in Packets, d \in Channels : Working(q, d)' <=> Working(q, d) /\ q # p
  BY <1>1, <1>2 DEF Working, Moves
<1>6. \A q \in Packets : Working(q, c) => q = p
  BY <1>1 DEF IInv, Alone, Working
<1>7. \A d \in Channels : d # c => ~Working(p, d)
  BY DEF Working
<1>8. Locked'
  <2> SUFFICES ASSUME NEW d \in Channels
               PROVE  isWriting'[d] <=> \E r \in Packets : Working(r, d)'
    BY DEF Locked
  <2>1. CASE d = c
    BY <2>1, <1>4, <1>5, <1>6
  <2>2. CASE d # c
    BY <2>2, <1>4, <1>5, <1>7 DEF IInv, Locked
  <2> QED
    BY <2>1, <2>2
<1>9. Alone'
  BY <1>5 DEF IInv, Alone
<1>10. AllServed'
  <2> SUFFICES ASSUME NEW d \in Healthy', queue'[d] # <<>>
               PROVE  Served(d)'
    BY DEF AllServed
  <2>1. Served(d)
    BY <1>1 DEF IInv, AllServed, Healthy, Moves
  <2> QED
    BY <1>1, <2>1, StillServed DEF Healthy
<1> QED
  BY <1>2, <1>3, <1>8, <1>9, <1>10 DEF IInv

----------------------------------------------------------------------------
(* The other steps leave the coroutines alone.                             *)

Aside == UNCHANGED <<spc, channels, left, queue, isWriting, via, writer>>

LEMMA AsideKeeps ==
    ASSUME IInv, Aside, registered' \in Seq(Channels),
           broken' \subseteq Channels, broken \subseteq broken',
           polled' \subseteq Channels, polled \subseteq polled'
    PROVE  IInv'
<1> USE DEF Aside, IInv
<1>1. SenderType'
  BY DEF SenderType
<1>2. \A n \in Messages : ChannelFor(n)' = ChannelFor(n) /\ LastPacket(n)' = LastPacket(n)
  BY DEF ChannelFor, LastPacket
<1>3. Dealing'
  BY <1>2 DEF Dealing
<1>4. Placed' /\ Locked' /\ Alone'
  BY DEF Placed, Locked, Alone, Working
<1>5. AllServed'
  <2> SUFFICES ASSUME NEW d \in Healthy', queue'[d] # <<>>
               PROVE  Served(d)'
    BY DEF AllServed
  <2>1. Served(d)
    BY DEF AllServed, Healthy
  <2> QED
    BY <1>2, <2>1 DEF Served
<1> QED
  BY <1>1, <1>3, <1>4, <1>5

LEMMA SenderReadFailsKeeps ==
    ASSUME IInv, NEW c \in Channels, SenderReadFails(c)
    PROVE  IInv'
<1>1. Aside /\ Unregister(c) /\ broken' = broken /\ polled' = polled
  BY DEF SenderReadFails, Aside, afterSend
<1>2. registered' \in Seq(Channels)
  BY <1>1, UnregisterType DEF IInv, SenderType
<1> QED
  BY <1>1, <1>2, AsideKeeps DEF IInv, SenderType

LEMMA BreakKeeps ==
    ASSUME IInv, NEW c \in Channels, Break(c)
    PROVE  IInv'
<1>1. Aside /\ registered' = registered /\ broken' = broken \cup {c} /\ polled' = polled
  BY DEF Break, Aside, senderVars
<1> QED
  BY <1>1, AsideKeeps DEF IInv, SenderType

LEMMA PollKeeps ==
    ASSUME IInv, NEW c \in Channels, Poll(c)
    PROVE  IInv'
<1>1. Aside /\ registered' = registered /\ broken' = broken /\ polled' = polled \cup {c}
  BY DEF Poll, Aside, senderVars
<1> QED
  BY <1>1, AsideKeeps DEF IInv, SenderType

LEMMA ReceiveStepKeeps ==
    ASSUME IInv, NEW c \in Channels, ReceiveStep(c)
    PROVE  IInv'
<1>1. Aside /\ registered' = registered /\ broken' = broken /\ polled' = polled
  BY DEF ReceiveStep, FetchPacket, ReadBody, Commit, Finalize, ReadFails,
         beforeReceive, senderVars, Aside
<1> QED
  BY <1>1, AsideKeeps DEF IInv, SenderType

----------------------------------------------------------------------------
(* The inductive invariant and what follows from it.                       *)

LEMMA InitIInv == Init => IInv
<1> SUFFICES ASSUME Init PROVE IInv
  OBVIOUS
<1>1. SenderType
  <2>1. registered \in Seq(Channels)
    <3>1. NumChannels \in Nat
      BY TransportAssumption
    <3>2. registered \in [1..NumChannels -> Channels]
      BY DEF Init, Channels
    <3> QED
      BY <3>1, <3>2
  <2>2. channels \in [Messages -> Seq(Channels)] /\ queue \in [Channels -> Seq(Packets)]
    <3>1. <<>> \in Seq(Channels) /\ <<>> \in Seq(Packets)
      BY EmptySeq
    <3> QED
      BY <3>1 DEF Init
  <2>3. left \in [Messages -> Nat]
    BY TransportAssumption DEF Init
  <2>4. via \in [Packets -> 0..NumChannels]
    BY TransportAssumption DEF Init
  <2> QED
    BY <2>1, <2>2, <2>3, <2>4 DEF Init, SenderType
<1>2. Dealing
  BY PacketFacts DEF Init, Dealing
<1>3. Placed /\ Alone /\ AllServed
  BY DEF Init, Placed, Alone, Working, AllServed, Healthy
<1>4. Locked
  BY DEF Init, Locked, Working
<1> QED
  BY <1>1, <1>2, <1>3, <1>4 DEF IInv

LEMMA WriterStepKeeps ==
    ASSUME IInv, NEW p \in Packets, WriterStep(p)
    PROVE  IInv'
<1>1. writer[p] # "none"
  BY DEF WriterStep, Acquire, Pop, Written, WriteFails, Release
<1>2. via[p] \in Channels
  BY <1>1 DEF IInv, Placed
<1> QED
  BY <1>2, AcquireKeeps, PopKeeps, WrittenKeeps, WriteFailsKeeps, ReleaseKeeps
  DEF WriterStep

LEMMA InductiveStep == IInv /\ [Next]_vars => IInv'
<1> SUFFICES ASSUME IInv, [Next]_vars PROVE IInv'
  OBVIOUS
<1>1. CASE \E m \in Messages : SendStep(m)
  BY <1>1, LookUpKeeps, EnqueueKeeps, SpawnKeeps DEF SendStep
<1>2. CASE \E p \in Packets : WriterStep(p)
  BY <1>2, WriterStepKeeps
<1>3. CASE \E c \in Channels : SenderReadFails(c) \/ ReceiveStep(c) \/ Break(c) \/ Poll(c)
  BY <1>3, SenderReadFailsKeeps, ReceiveStepKeeps, BreakKeeps, PollKeeps
<1>4. CASE UNCHANGED vars
  <2>1. Aside /\ registered' = registered /\ broken' = broken /\ polled' = polled
    BY <1>4 DEF vars, senderVars, Aside
  <2> QED
    BY <2>1, AsideKeeps DEF IInv, SenderType
<1> QED
  BY <1>1, <1>2, <1>3, <1>4 DEF Next

LEMMA SpecIInv == Spec => []IInv
BY InitIInv, InductiveStep, PTL DEF Spec

(* However many messages are sent at once, over however many channels,     *)
(* broken or polled ones among them, at most one coroutine writes into the *)
(* stream of a channel (write_packets, TCPChannel::acquire_write).         *)
THEOREM OneWriterHolds == Spec => []OneWriter
<1>1. IInv => OneWriter
  BY DEF IInv, Alone, Working, OneWriter, Coroutines
<1> QED
  BY <1>1, SpecIInv, PTL

(* A coroutine that leaves because another one is writing never leaves a   *)
(* packet behind: as long as its channel is neither broken nor polled by a *)
(* thread that connects, each queued packet has a coroutine that takes it, *)
(* or that start_send is about to spawn.                                   *)
THEOREM NoPacketStrandedHolds == Spec => []NoPacketStranded
<1>1. IInv => NoPacketStranded
  BY DEF IInv, AllServed, Served, NoPacketStranded, Coroutines, Healthy
<1> QED
  BY <1>1, SpecIInv, PTL

----------------------------------------------------------------------------
(* The receiving side.  Every packet is in one place only: not dealt out,  *)
(* in a write queue, on the wire, in the hands of a receive_loop, counted, *)
(* or lost with its channel.                                               *)

ReceiverType ==
    /\ wire \in [Channels -> Seq(Packets)]
    /\ reader \in [Channels -> {"header", "body", "commit", "finalize", "closed"}]
    /\ header \in [Channels -> Packets \cup {NoPacket}]
    /\ DOMAIN states \subseteq Messages
    /\ \A m \in DOMAIN states : states[m] \in Nat
    /\ buffer \in [Messages -> SUBSET Nat]
    /\ \A m \in Messages : buffer[m] \subseteq 1..NumPackets[m]
    /\ delivered \in Seq(Messages \X SUBSET Nat)

(* Packets that are still to be dealt out have no channel.                 *)
Undealt ==
    /\ \A m \in Messages : left[m] <= NumPackets[m]
    /\ \A m \in Messages : \A i \in 1..NumPackets[m] :
          i <= left[m] /\ ~(spc[m] = "spawn" /\ i = left[m]) => via[<<m, i>>] = 0

Distinct(q) == \A i, j \in DOMAIN q : q[i] = q[j] => i = j
InWay(p, c) == p \in ToSet(queue[c]) \/ p \in ToSet(wire[c])
IsRead(p)   == p[2] \in buffer[p[1]]

OnTheWay ==
    \A c \in Channels :
        /\ Distinct(queue[c]) /\ Distinct(wire[c])
        /\ \A p \in Packets : /\ ~(p \in ToSet(queue[c]) /\ p \in ToSet(wire[c]))
                              /\ InWay(p, c) => via[p] = c /\ ~IsRead(p)

(* What a receive_loop works on.                                           *)
Holding(c) == reader[c] \in {"body", "commit", "finalize"}
InHand ==
    \A c \in Channels : Holding(c) =>
        /\ header[c] \in Packets /\ via[header[c]] = c /\ ~InWay(header[c], c)
        /\ Known(header[c][1])
        /\ IsRead(header[c]) <=> reader[c] # "body"

(* A packet that was read had been dealt out.                              *)
ReadDealt == \A p \in Packets : IsRead(p) => via[p] # 0

(* What commit_packet has counted.                                         *)
Committing(m, i) == \E c \in Channels : reader[c] = "commit" /\ header[c] = <<m, i>>
Counted(m) == {i \in buffer[m] : ~Committing(m, i)}
TakenUp    == {a[1] : a \in ToSet(delivered)}

Counting ==
    \A m \in Messages :
        /\ Known(m) => states[m] = Cardinality(Counted(m)) /\ m \notin TakenUp
        /\ ~Known(m) => buffer[m] = {} \/ buffer[m] = 1..NumPackets[m]
        /\ m \in TakenUp => buffer[m] = 1..NumPackets[m]

(* Who finalizes a message is the last to have anything of it.             *)
Finishing ==
    \A c \in Channels : reader[c] = "finalize" =>
        /\ Counted(header[c][1]) = 1..NumPackets[header[c][1]]
        /\ \A d \in Channels \ {c} : Holding(d) => header[d][1] # header[c][1]

RInv == ReceiverType /\ Undealt /\ OnTheWay /\ InHand /\ ReadDealt /\ Counting /\ Finishing

LEMMA PacketParts ==
    \A p \in Packets : /\ p[1] \in Messages /\ p[2] \in 1..NumPackets[p[1]]
                       /\ p = <<p[1], p[2]>>
<1> SUFFICES ASSUME NEW p \in Packets
             PROVE  p[1] \in Messages /\ p[2] \in 1..NumPackets[p[1]] /\ p = <<p[1], p[2]>>
  OBVIOUS
<1>1. PICK m \in Messages : \E i \in 1..NumPackets[m] : p = <<m, i>>
  BY PacketFacts
<1> QED
  BY <1>1

(* Queues without duplicates.                                              *)
LEMMA DistinctAppend ==
    ASSUME NEW q \in Seq(Packets), NEW p \in Packets
    PROVE  /\ ToSet(Append(q, p)) = ToSet(q) \cup {p}
           /\ Distinct(q) /\ p \notin ToSet(q) => Distinct(Append(q, p))
<1> DEFINE r == Append(q, p)
<1>1. /\ DOMAIN q = 1..Len(q) /\ Len(q) \in Nat
      /\ DOMAIN r = 1..(Len(q) + 1) /\ r[Len(q) + 1] = p
      /\ \A i \in 1..Len(q) : r[i] = q[i]
  OBVIOUS
<1> HIDE DEF r
<1>2. ToSet(r) = ToSet(q) \cup {p}
  BY <1>1 DEF ToSet
<1>3. ASSUME Distinct(q), p \notin ToSet(q), NEW i \in DOMAIN r, NEW j \in DOMAIN r, r[i] = r[j]
      PROVE  i = j
  <2>1. \A k \in 1..Len(q) : r[k] # p
    BY <1>1, <1>3 DEF ToSet
  <2>2. CASE i \in 1..Len(q) /\ j \in 1..Len(q)
    BY <1>1, <1>3, <2>2 DEF Distinct
  <2>3. CASE i = Len(q) + 1 \/ j = Len(q) + 1
    BY <1>1, <1>3, <2>1, <2>3
  <2> QED
    BY <1>1, <2>2, <2>3
<1>4. Distinct(q) /\ p \notin ToSet(q) => Distinct(r)
  BY <1>3 DEF Distinct
<1> QED
  BY <1>2, <1>4 DEF r

LEMMA DistinctTail ==
    ASSUME NEW q \in Seq(Packets), q # <<>>, Distinct(q)
    PROVE  /\ Head(q) \in Packets /\ Head(q) \in ToSet(q) /\ Tail(q) \in Seq(Packets)
           /\ ToSet(Tail(q)) \subseteq ToSet(q) /\ Head(q) \notin ToSet(Tail(q))
           /\ Distinct(Tail(q))
<1> DEFINE r == Tail(q)
<1>1. /\ DOMAIN q = 1..Len(q) /\ Len(q) \in Nat \ {0} /\ Head(q) = q[1] /\ Head(q) \in Packets
      /\ r \in Seq(Packets) /\ DOMAIN r = 1..(Len(q) - 1)
      /\ \A i \in 1..(Len(q) - 1) : r[i] = q[i + 1]
  OBVIOUS
<1> HIDE DEF r
<1>2. Head(q) \in ToSet(q) /\ ToSet(r) \subseteq ToSet(q)
  <2>1. 1 \in DOMAIN q /\ \A i \in DOMAIN r : i + 1 \in DOMAIN q /\ r[i] = q[i + 1]
    BY <1>1
  <2> QED
    BY <1>1, <2>1 DEF ToSet
<1>3. Head(q) \notin ToSet(r)
  <2> SUFFICES ASSUME NEW i \in DOMAIN r, r[i] = Head(q) PROVE FALSE
    BY DEF ToSet
  <2>1. i + 1 \in DOMAIN q /\ 1 \in DOMAIN q /\ q[i + 1] = q[1]
    BY <1>1
  <2>2. i + 1 = 1
    BY <2>1 DEF Distinct
  <2> QED
    BY <1>1, <2>2
<1>4. Distinct(r)
  <2> SUFFICES ASSUME NEW i \in DOMAIN r, NEW j \in DOMAIN r, r[i] = r[j] PROVE i = j
    BY DEF Distinct
  <2>1. i + 1 \in DOMAIN q /\ j + 1 \in DOMAIN q /\ q[i + 1] = q[j + 1]
    BY <1>1
  <2>2. i + 1 = j + 1
    BY <2>1 DEF Distinct
  <2> QED
    BY <1>1, <2>2
<1> QED
  BY <1>1, <1>2, <1>3, <1>4 DEF r

LEMMA DistinctPrefix ==
    ASSUME NEW q \in Seq(Packets), Distinct(q), NEW n \in 0..Len(q)
    PROVE  /\ SubSeq(q, 1, n) \in Seq(Packets) /\ ToSet(SubSeq(q, 1, n)) \subseteq ToSet(q)
           /\ Distinct(SubSeq(q, 1, n))
<1> DEFINE r == SubSeq(q, 1, n)
<1>1. /\ DOMAIN q = 1..Len(q) /\ Len(q) \in Nat
      /\ DOMAIN r = 1..n /\ n \in Nat /\ n <= Len(q) /\ r \in Seq(Packets)
      /\ \A i \in 1..n : r[i] = q[i]
  <2>1. \A i \in 1..n : q[i] \in Packets
    BY ElementOfSeq
  <2> QED
    BY <2>1, SubSeqProperties
<1> HIDE DEF r
<1>2. ToSet(r) \subseteq ToSet(q)
  BY <1>1 DEF ToSet
<1>3. Distinct(r)
  BY <1>1 DEF Distinct
<1> QED
  BY <1>1, <1>2, <1>3 DEF r

LEMMA FullSubset ==
    ASSUME NEW n \in Nat, NEW S, S \subseteq 1..n, Cardinality(S) = n
    PROVE  S = 1..n
<1>1. IsFiniteSet(1..n) /\ Cardinality(1..n) = n
  BY FS_Interval
<1> QED
  BY <1>1, FS_Subset

(* What was counted is a finite part of what was read.                     *)
LEMMA CountedFinite ==
    ASSUME ReceiverType, NEW m \in Messages
    PROVE  /\ Counted(m) \subseteq 1..NumPackets[m] /\ IsFiniteSet(Counted(m))
           /\ Cardinality(Counted(m)) \in Nat
           /\ Cardinality(Counted(m)) = NumPackets[m] => Counted(m) = 1..NumPackets[m]
<1>1. NumPackets[m] \in Nat \ {0}
  BY PacketFacts
<1>2. Counted(m) \subseteq 1..NumPackets[m]
  BY DEF ReceiverType, Counted
<1>3. IsFiniteSet(1..NumPackets[m]) /\ Cardinality(1..NumPackets[m]) = NumPackets[m]
  BY <1>1, FS_Interval
<1> QED
  BY <1>2, <1>3, FS_Subset, FS_CardinalityType

----------------------------------------------------------------------------
(* Steps of the sender, and losses.                                        *)

Unread == UNCHANGED <<reader, header, states, buffer, delivered>>

(* What does not depend on the queues and the wires.                       *)
LEMMA UnreadKeeps ==
    ASSUME RInv, Unread
    PROVE  Counting' /\ Finishing'
<1>1. \A m \in Messages : Counted(m)' = Counted(m)
  BY DEF Counted, Committing, Unread
<1>2. Counting'
  BY <1>1 DEF RInv, Counting, Known, TakenUp, Unread
<1>3. Finishing'
  <2> SUFFICES ASSUME NEW c \in Channels, reader[c] = "finalize"
               PROVE  /\ Counted(header[c][1])' = 1..NumPackets[header[c][1]]
                      /\ \A d \in Channels \ {c} : Holding(d) => header[d][1] # header[c][1]
    BY DEF Finishing, Unread, Holding
  <2>1. header[c][1] \in Messages
    BY PacketParts DEF RInv, InHand, Holding
  <2> QED
    BY <1>1, <2>1 DEF RInv, Finishing, Unread
<1> QED
  BY <1>2, <1>3

LEMMA QuietKeepsR ==
    ASSUME RInv, Unread, UNCHANGED <<queue, wire, via>>, Undealt'
    PROVE  RInv'
<1>1. ReceiverType'
  BY DEF RInv, ReceiverType, Unread
<1>2. OnTheWay'
  BY DEF RInv, OnTheWay, InWay, IsRead, Unread
<1>3. InHand'
  BY DEF RInv, InHand, Holding, InWay, IsRead, Known, Unread
<1>4. ReadDealt'
  BY DEF RInv, ReadDealt, IsRead, Unread
<1> QED
  BY <1>1, <1>2, <1>3, <1>4, UnreadKeeps DEF RInv

LEMMA LookUpKeepsR ==
    ASSUME IInv, RInv, NEW m \in Messages, LookUp(m)
    PROVE  RInv'
<1>1. /\ UNCHANGED <<left, via, queue, wire>> /\ Unread
      /\ \A n \in Messages : spc'[n] = "spawn" <=> spc[n] = "spawn"
  BY DEF LookUp, afterSend, receiverVars, Unread, IInv, SenderType
<1>2. Undealt'
  BY <1>1 DEF RInv, Undealt
<1> QED
  BY <1>1, <1>2, QuietKeepsR

LEMMA SpawnKeepsR ==
    ASSUME IInv, RInv, NEW m \in Messages, Spawn(m)
    PROVE  RInv'
<1>1. /\ UNCHANGED <<via, queue, wire>> /\ Unread
      /\ spc[m] = "spawn" /\ left' = [left EXCEPT ![m] = @ - 1]
      /\ \A n \in Messages \ {m} : spc'[n] = spc[n]
  BY DEF Spawn, afterSend, receiverVars, Unread, IInv, SenderType
<1>2. left \in [Messages -> Nat] /\ left[m] \in 1..NumPackets[m]
  BY <1>1 DEF IInv, SenderType, Dealing
<1>3. Undealt'
  <2> SUFFICES ASSUME NEW n \in Messages
               PROVE  /\ left'[n] <= NumPackets[n]
                      /\ \A i \in 1..NumPackets[n] :
                            i <= left'[n] /\ ~(spc'[n] = "spawn" /\ i = left'[n]) => via[<<n, i>>] = 0
    BY <1>1 DEF Undealt
  <2>0. NumPackets[n] \in Nat
    BY PacketFacts
  <2>1. CASE n # m
    BY <1>1, <1>2, <2>1 DEF RInv, Undealt
  <2>2. CASE n = m
    <3>1. left'[m] = left[m] - 1 /\ left[m] \in Nat /\ left[m] <= NumPackets[m]
      BY <1>1, <1>2, <2>0, <2>2
    <3>2. ASSUME NEW i \in 1..NumPackets[m], i <= left'[m] PROVE via[<<m, i>>] = 0
      <4>1. i <= left[m] /\ i # left[m]
        BY <2>0, <2>2, <3>1, <3>2
      <4> QED
        BY <4>1 DEF RInv, Undealt
    <3> QED
      BY <2>0, <2>2, <3>1, <3>2
  <2> QED
    BY <2>1, <2>2
<1> QED
  BY <1>1, <1>3, QuietKeepsR

(* A packet that is dealt out was nowhere before.                          *)
LEMMA EnqueueKeepsR ==
    ASSUME IInv, RInv, NEW m \in Messages, Enqueue(m)
    PROVE  RInv'
<1> DEFINE p == LastPacket(m)
           k == ChannelFor(m)
<1>1. /\ Unread /\ UNCHANGED <<wire, left>>
      /\ queue' = [queue EXCEPT ![k] = Append(@, p)]
      /\ via' = [via EXCEPT ![p] = k] /\ spc' = [spc EXCEPT ![m] = "spawn"]
      /\ spc[m] = "enqueue"
  BY DEF Enqueue, afterSend, receiverVars, Unread
<1>2. k \in Channels /\ p \in Packets /\ p = <<m, left[m]>> /\ left[m] \in 1..NumPackets[m]
  <2>1. left[m] \in 1..NumPackets[m] /\ left[m] \in Nat /\ channels[m] # <<>>
    BY <1>1 DEF IInv, SenderType, Dealing
  <2>2. k \in Channels
    BY <1>1, ChannelForIsChannel DEF IInv
  <2> QED
    BY <2>1, <2>2, PacketFacts DEF LastPacket
<1> HIDE DEF p, k
<1>3. via[p] = 0 /\ 0 \notin Channels
  BY <1>1, <1>2 DEF RInv, Undealt, Channels
<1>4. /\ ~IsRead(p) /\ \A c \in Channels : ~InWay(p, c)
      /\ \A c \in Channels : Holding(c) => header[c] # p
  BY <1>2, <1>3 DEF RInv, ReadDealt, OnTheWay, InHand
<1>5. /\ \A q \in Packets : q # p => via'[q] = via[q]
      /\ via'[p] = k /\ \A c \in Channels : c # k => queue'[c] = queue[c]
  BY <1>1, <1>2 DEF IInv, SenderType
<1>6. /\ ToSet(queue'[k]) = ToSet(queue[k]) \cup {p} /\ Distinct(queue'[k])
  <2>1. queue[k] \in Seq(Packets) /\ queue'[k] = Append(queue[k], p)
    BY <1>1, <1>2 DEF IInv, SenderType
  <2>2. Distinct(queue[k]) /\ p \notin ToSet(queue[k])
    BY <1>2, <1>4 DEF RInv, OnTheWay, InWay
  <2> QED
    BY <1>2, <2>1, <2>2, DistinctAppend
<1>7. ReceiverType'
  BY <1>1 DEF RInv, ReceiverType, Unread
<1>8. Undealt'
  <2> SUFFICES ASSUME NEW n \in Messages
               PROVE  /\ left[n] <= NumPackets[n]
                      /\ \A i \in 1..NumPackets[n] :
                            i <= left[n] /\ ~(spc'[n] = "spawn" /\ i = left[n]) => via'[<<n, i>>] = 0
    BY <1>1 DEF Undealt
  <2>1. ASSUME NEW i \in 1..NumPackets[n], i <= left[n], ~(spc'[n] = "spawn" /\ i = left[n])
        PROVE  via'[<<n, i>>] = 0
    <3>1. <<n, i>> \in Packets
      BY PacketFacts
    <3>2. <<n, i>> # p /\ ~(spc[n] = "spawn" /\ i = left[n])
      BY <1>1, <1>2, <2>1 DEF IInv, SenderType
    <3> QED
      BY <1>5, <2>1, <3>1, <3>2 DEF RInv, Undealt
  <2> QED
    BY <2>1 DEF RInv, Undealt
<1>9. OnTheWay'
  <2> SUFFICES ASSUME NEW c \in Channels
               PROVE  /\ Distinct(queue'[c]) /\ Distinct(wire[c])
                      /\ \A q \in Packets :
                            /\ ~(q \in ToSet(queue'[c]) /\ q \in ToSet(wire[c]))
                            /\ q \in ToSet(queue'[c]) \/ q \in ToSet(wire[c])
                                  => via'[q] = c /\ ~IsRead(q)
    BY <1>1 DEF OnTheWay, InWay, IsRead, Unread
  <2>1. ToSet(queue'[c]) \subseteq ToSet(queue[c]) \cup {p} /\ Distinct(queue'[c])
    BY <1>5, <1>6 DEF RInv, OnTheWay
  <2>2. p \notin ToSet(wire[c]) /\ (p \in ToSet(queue'[c]) => c = k)
    BY <1>4, <1>5, <1>6 DEF InWay
  <2>3. ASSUME NEW q \in Packets, q # p
        PROVE  /\ ~(q \in ToSet(queue'[c]) /\ q \in ToSet(wire[c]))
               /\ q \in ToSet(queue'[c]) \/ q \in ToSet(wire[c]) => via'[q] = c /\ ~IsRead(q)
    BY <1>5, <2>1, <2>3 DEF RInv, OnTheWay, InWay
  <2>4. Distinct(wire[c])
    BY DEF RInv, OnTheWay
  <2> QED
    BY <1>4, <1>5, <2>1, <2>2, <2>3, <2>4
<1>10. InHand'
  <2> SUFFICES ASSUME NEW c \in Channels, Holding(c)
               PROVE  via'[header[c]] = c /\ ~(header[c] \in ToSet(queue'[c]))
    BY <1>1 DEF RInv, InHand, Holding, InWay, IsRead, Known, Unread
  <2>1. header[c] \in Packets /\ via[header[c]] = c /\ header[c] # p
        /\ header[c] \notin ToSet(queue[c])
    BY <1>4 DEF RInv, InHand, InWay
  <2> QED
    BY <1>5, <1>6, <2>1
<1>11. ReadDealt'
  BY <1>1, <1>2, <1>3, <1>5 DEF RInv, ReadDealt, IsRead, Unread
<1> QED
  BY <1>1, <1>7, <1>8, <1>9, <1>10, <1>11, UnreadKeeps DEF RInv

LEMMA PopKeepsR ==
    ASSUME IInv, RInv, NEW p \in Packets, Pop(p)
    PROVE  RInv'
<1> DEFINE c == via[p]
           h == Head(queue[c])
<1>1. /\ Unread /\ UNCHANGED <<spc, left, via>> /\ writer[p] = "pop"
      /\ \/ UNCHANGED <<queue, wire>>
         \/ /\ queue[c] # <<>> /\ queue' = [queue EXCEPT ![c] = Tail(@)]
            /\ wire' = IF c \in broken THEN wire ELSE [wire EXCEPT ![c] = Append(@, h)]
  BY DEF Pop, receiverVars, Unread
<1>2. c \in Channels
  BY <1>1 DEF IInv, Placed
<1> HIDE DEF c
<1>3. Undealt'
  BY <1>1 DEF RInv, Undealt
<1>4. CASE UNCHANGED <<queue, wire>>
  BY <1>1, <1>3, <1>4, QuietKeepsR
<1>5. CASE /\ queue[c] # <<>> /\ queue' = [queue EXCEPT ![c] = Tail(@)]
           /\ wire' = IF c \in broken THEN wire ELSE [wire EXCEPT ![c] = Append(@, h)]
  <2>1. queue[c] \in Seq(Packets) /\ wire[c] \in Seq(Packets) /\ Distinct(queue[c])
        /\ Distinct(wire[c]) /\ queue'[c] = Tail(queue[c])
        /\ wire'[c] \in {wire[c], Append(wire[c], h)}
    BY <1>2, <1>5 DEF IInv, SenderType, RInv, ReceiverType, OnTheWay
  <2>2. /\ h \in Packets /\ h \in ToSet(queue[c])
        /\ ToSet(queue'[c]) \subseteq ToSet(queue[c]) /\ h \notin ToSet(queue'[c])
        /\ Distinct(queue'[c])
    BY <1>5, <2>1, DistinctTail
  <2>3. h \notin ToSet(wire[c])
    BY <1>2, <2>2 DEF RInv, OnTheWay
  <2> HIDE DEF h
  <2>4. /\ wire'[c] \in Seq(Packets) /\ Distinct(wire'[c])
        /\ ToSet(wire'[c]) \subseteq ToSet(wire[c]) \cup {h}
    <3>1. CASE wire'[c] = wire[c]
      BY <2>1, <3>1
    <3>2. CASE wire'[c] = Append(wire[c], h)
      BY <2>1, <2>2, <2>3, <3>2, DistinctAppend
    <3> QED
      BY <2>1, <3>1, <3>2
  <2>5. \A d \in Channels : d # c => queue'[d] = queue[d] /\ wire'[d] = wire[d]
    BY <1>5 DEF IInv, SenderType, RInv, ReceiverType
  <2>6. ReceiverType'
    <3>1. wire' = [wire EXCEPT ![c] = wire'[c]]
      BY <1>5 DEF RInv, ReceiverType
    <3>2. wire' \in [Channels -> Seq(Packets)]
      BY <1>2, <2>4, <3>1 DEF RInv, ReceiverType
    <3> QED
      BY <1>1, <3>2 DEF RInv, ReceiverType, Unread
  <2>7. \A d \in Channels : \A q \in Packets : InWay(q, d)' => InWay(q, d)
    BY <2>2, <2>4, <2>5 DEF InWay
  <2>8. OnTheWay'
    <3> SUFFICES ASSUME NEW d \in Channels
                 PROVE  /\ Distinct(queue'[d]) /\ Distinct(wire'[d])
                        /\ \A q \in Packets :
                              /\ ~(q \in ToSet(queue'[d]) /\ q \in ToSet(wire'[d]))
                              /\ InWay(q, d)' => via[q] = d /\ ~IsRead(q)
      BY <1>1 DEF OnTheWay, IsRead, Unread
    <3>1. CASE d = c
      BY <1>2, <2>2, <2>4, <2>7, <3>1 DEF RInv, OnTheWay
    <3>2. CASE d # c
      BY <2>5, <2>7, <3>2 DEF RInv, OnTheWay
    <3> QED
      BY <3>1, <3>2
  <2>9. InHand'
    BY <1>1, <2>7 DEF RInv, InHand, Holding, IsRead, Known, Unread
  <2>10. ReadDealt'
    BY <1>1 DEF RInv, ReadDealt, IsRead, Unread
  <2> QED
    BY <1>1, <1>3, <2>6, <2>8, <2>9, <2>10, UnreadKeeps DEF RInv
<1> QED
  BY <1>1, <1>4, <1>5

LEMMA BreakKeepsR ==
    ASSUME IInv, RInv, NEW c \in Channels, Break(c)
    PROVE  RInv'
<1>1. Unread /\ UNCHANGED <<spc, left, via, queue>>
  BY DEF Break, senderVars, receiverVars, Unread
<1>2. PICK n \in 0..Len(wire[c]) : wire' = [wire EXCEPT ![c] = SubSeq(@, 1, n)]
  BY DEF Break
<1>3. wire[c] \in Seq(Packets) /\ Distinct(wire[c]) /\ wire'[c] = SubSeq(wire[c], 1, n)
  BY <1>2 DEF RInv, ReceiverType, OnTheWay
<1>4. /\ wire'[c] \in Seq(Packets) /\ ToSet(wire'[c]) \subseteq ToSet(wire[c])
      /\ Distinct(wire'[c])
  BY <1>3, DistinctPrefix
<1>5. \A d \in Channels : d # c => wire'[d] = wire[d]
  BY <1>2 DEF RInv, ReceiverType
<1>6. wire' \in [Channels -> Seq(Packets)]
  BY <1>2, <1>3, <1>4 DEF RInv, ReceiverType
<1>7. ReceiverType' /\ Undealt' /\ ReadDealt'
  BY <1>1, <1>6 DEF RInv, ReceiverType, Undealt, ReadDealt, IsRead, Unread
<1>8. \A d \in Channels : ToSet(wire'[d]) \subseteq ToSet(wire[d]) /\ Distinct(wire'[d])
  BY <1>4, <1>5 DEF RInv, OnTheWay
<1>9. OnTheWay'
  BY <1>1, <1>8 DEF RInv, OnTheWay, InWay, IsRead, Unread
<1>10. InHand'
  BY <1>1, <1>8 DEF RInv, InHand, Holding, InWay, IsRead, Known, Unread
<1> QED
  BY <1>1, <1>7, <1>9, <1>10, UnreadKeeps DEF RInv

(* The other steps of the sender touch neither queues nor wires.           *)
LEMMA AsideKeepsR ==
    ASSUME RInv, Unread, UNCHANGED <<spc, left, via, queue, wire>>
    PROVE  RInv'
<1>1. Undealt'
  BY DEF RInv, Undealt
<1> QED
  BY <1>1, QuietKeepsR

LEMMA WriterStepKeepsR ==
    ASSUME IInv, RInv, NEW p \in Packets, WriterStep(p)
    PROVE  RInv'
<1>1. CASE Acquire(p) \/ Written(p) \/ WriteFails(p) \/ Release(p)
  BY <1>1, AsideKeepsR
     DEF Acquire, Written, WriteFails, Release, afterSend, receiverVars, Unread
<1> QED
  BY <1>1, PopKeepsR DEF WriterStep

----------------------------------------------------------------------------
(* Steps of the receiver.                                                  *)

(* The sender's side, which a receiver leaves alone, says where packets    *)
(* are.                                                                    *)
LEMMA BeforeKeeps ==
    ASSUME RInv, UNCHANGED beforeReceive
    PROVE  Undealt' /\ UNCHANGED <<queue, via>>
BY DEF RInv, Undealt, beforeReceive, senderVars

(* A packet in a hand is in no other.                                      *)
LEMMA OneHand ==
    ASSUME RInv
    PROVE  \A c, d \in Channels : Holding(c) /\ Holding(d) /\ header[c] = header[d] => c = d
BY DEF RInv, InHand

(* A packet on its way, or being read, belongs to a message that is not    *)
(* taken up, nor about to be.                                              *)
LEMMA UnreadNotDone ==
    ASSUME RInv, NEW p \in Packets, ~IsRead(p)
    PROVE  /\ p[1] \notin TakenUp
           /\ ~Known(p[1]) => buffer[p[1]] = {}
           /\ \A d \in Channels : reader[d] = "finalize" => header[d][1] # p[1]
<1>1. p[1] \in Messages /\ p[2] \in 1..NumPackets[p[1]]
  BY PacketParts
<1>2. buffer[p[1]] # 1..NumPackets[p[1]]
  BY <1>1 DEF IsRead
<1>3. ASSUME NEW d \in Channels, reader[d] = "finalize", header[d][1] = p[1] PROVE FALSE
  <2>1. Counted(p[1]) = 1..NumPackets[p[1]]
    BY <1>3 DEF RInv, Finishing
  <2> QED
    BY <1>1, <2>1 DEF Counted, IsRead
<1> QED
  BY <1>1, <1>2, <1>3 DEF RInv, Counting

LEMMA FetchPacketKeepsR ==
    ASSUME RInv, NEW c \in Channels, FetchPacket(c)
    PROVE  RInv'
<1> DEFINE p == Head(wire[c])
<1>1. /\ UNCHANGED beforeReceive /\ UNCHANGED <<buffer, delivered>>
      /\ reader[c] = "header" /\ wire[c] # <<>>
      /\ header' = [header EXCEPT ![c] = p]
      /\ wire' = [wire EXCEPT ![c] = Tail(@)]
      /\ states' = IF Known(p[1]) THEN states
                   ELSE [n \in DOMAIN states \cup {p[1]} |-> IF n = p[1] THEN 0 ELSE states[n]]
      /\ reader' = [reader EXCEPT ![c] = "body"]
  BY DEF FetchPacket
<1>2. /\ wire[c] \in Seq(Packets) /\ Distinct(wire[c]) /\ wire'[c] = Tail(wire[c])
  BY <1>1 DEF RInv, ReceiverType, OnTheWay
<1>3. /\ p \in Packets /\ p \in ToSet(wire[c]) /\ wire'[c] \in Seq(Packets)
      /\ ToSet(wire'[c]) \subseteq ToSet(wire[c]) /\ p \notin ToSet(wire'[c])
      /\ Distinct(wire'[c])
  BY <1>1, <1>2, DistinctTail
<1> HIDE DEF p
<1>4. UNCHANGED <<queue, via>> /\ Undealt'
  BY <1>1, BeforeKeeps
<1>5. via[p] = c /\ ~IsRead(p) /\ p \notin ToSet(queue[c])
  BY <1>3 DEF RInv, OnTheWay, InWay
<1>6. p[1] \in Messages /\ p[2] \in 1..NumPackets[p[1]]
  BY <1>3, PacketParts
<1>7. /\ p[1] \notin TakenUp
      /\ ~Known(p[1]) => buffer[p[1]] = {}
      /\ \A d \in Channels : reader[d] = "finalize" => header[d][1] # p[1]
  BY <1>3, <1>5, UnreadNotDone
<1>8. \A d \in Channels : d # c => /\ wire'[d] = wire[d] /\ header'[d] = header[d]
                                   /\ reader'[d] = reader[d]
  BY <1>1 DEF RInv, ReceiverType
<1>9. reader'[c] = "body" /\ header'[c] = p
  BY <1>1 DEF RInv, ReceiverType
<1>10. /\ DOMAIN states' = DOMAIN states \cup {p[1]}
       /\ \A n \in DOMAIN states : states'[n] = states[n]
       /\ ~Known(p[1]) => states'[p[1]] = 0
  BY <1>1 DEF Known
<1>11. ReceiverType'
  <2>1. wire' = [wire EXCEPT ![c] = wire'[c]]
    BY <1>1 DEF RInv, ReceiverType
  <2>2. wire' \in [Channels -> Seq(Packets)]
    BY <1>3, <2>1 DEF RInv, ReceiverType
  <2>3. /\ reader' \in [Channels -> {"header", "body", "commit", "finalize", "closed"}]
        /\ header' \in [Channels -> Packets \cup {NoPacket}]
    BY <1>1, <1>3 DEF RInv, ReceiverType
  <2>4. DOMAIN states' \subseteq Messages /\ \A n \in DOMAIN states' : states'[n] \in Nat
    BY <1>6, <1>10 DEF RInv, ReceiverType, Known
  <2> QED
    BY <1>1, <2>2, <2>3, <2>4 DEF RInv, ReceiverType
<1>12. \A d \in Channels : \A q \in Packets : InWay(q, d)' => InWay(q, d)
  BY <1>3, <1>4, <1>8 DEF InWay
<1>13. OnTheWay'
  <2> SUFFICES ASSUME NEW d \in Channels
               PROVE  /\ Distinct(queue[d]) /\ Distinct(wire'[d])
                      /\ \A q \in Packets : /\ ~(q \in ToSet(queue[d]) /\ q \in ToSet(wire'[d]))
                                            /\ InWay(q, d)' => via[q] = d /\ ~IsRead(q)
    BY <1>1, <1>4 DEF OnTheWay, IsRead
  <2>1. ToSet(wire'[d]) \subseteq ToSet(wire[d]) /\ Distinct(wire'[d])
    BY <1>3, <1>8 DEF RInv, OnTheWay
  <2> QED
    BY <1>12, <2>1 DEF RInv, OnTheWay
<1>14. InHand'
  <2> SUFFICES ASSUME NEW d \in Channels, Holding(d)'
               PROVE  /\ header'[d] \in Packets /\ via[header'[d]] = d /\ ~InWay(header[d], d)'
                      /\ header'[d][1] \in DOMAIN states'
                      /\ header'[d][2] \in buffer[header'[d][1]] <=> reader'[d] # "body"
    BY <1>1, <1>4 DEF InHand, IsRead, Known
  <2>1. CASE d = c
    BY <1>3, <1>4, <1>5, <1>9, <1>10, <2>1 DEF InWay, IsRead
  <2>2. CASE d # c
    BY <1>8, <1>10, <1>12, <2>2 DEF RInv, InHand, Holding, IsRead, Known
  <2> QED
    BY <2>1, <2>2
<1>15. ReadDealt'
  BY <1>1, <1>4 DEF RInv, ReadDealt, IsRead
<1>16. \A m \in Messages : Counted(m)' = Counted(m)
  <2>1. \A m, i : Committing(m, i)' <=> Committing(m, i)
    BY <1>1, <1>8, <1>9 DEF Committing
  <2> QED
    BY <1>1, <2>1 DEF Counted
<1>17. Counting'
  <2> SUFFICES ASSUME NEW m \in Messages
               PROVE  /\ m \in DOMAIN states' =>
                            states'[m] = Cardinality(Counted(m)) /\ m \notin TakenUp
                      /\ m \notin DOMAIN states' =>
                            buffer[m] = {} \/ buffer[m] = 1..NumPackets[m]
                      /\ m \in TakenUp => buffer[m] = 1..NumPackets[m]
    BY <1>1, <1>16 DEF Counting, Known, TakenUp
  <2>1. CASE m = p[1] /\ ~Known(m)
    <3>1. Counted(m) = {}
      BY <1>7, <2>1 DEF Counted
    <3>2. Cardinality(Counted(m)) = 0
      BY <3>1, FS_EmptySet
    <3> QED
      BY <1>7, <1>10, <2>1, <3>2
  <2>2. CASE m # p[1] \/ Known(m)
    BY <1>10, <2>2 DEF RInv, Counting, Known
  <2> QED
    BY <2>1, <2>2
<1>18. Finishing'
  <2> SUFFICES ASSUME NEW d \in Channels, reader'[d] = "finalize"
               PROVE  /\ Counted(header[d][1])' = 1..NumPackets[header'[d][1]]
                      /\ \A e \in Channels \ {d} : Holding(e)' => header'[e][1] # header'[d][1]
    BY DEF Finishing
  <2>1. d # c /\ header'[d] = header[d] /\ reader[d] = "finalize"
    BY <1>8, <1>9
  <2>2. header[d][1] \in Messages
    BY <2>1, PacketParts DEF RInv, InHand, Holding
  <2>3. ASSUME NEW e \in Channels \ {d}, Holding(e)' PROVE header'[e][1] # header[d][1]
    BY <1>7, <1>8, <1>9, <2>1, <2>3 DEF RInv, Finishing, Holding
  <2> QED
    BY <1>16, <2>1, <2>2, <2>3 DEF RInv, Finishing
<1> QED
  BY <1>4, <1>11, <1>13, <1>14, <1>15, <1>17, <1>18 DEF RInv

LEMMA ReadBodyKeepsR ==
    ASSUME RInv, NEW c \in Channels, ReadBody(c)
    PROVE  RInv'
<1> DEFINE p == header[c]
<1>1. /\ UNCHANGED beforeReceive /\ UNCHANGED <<wire, header, states, delivered>>
      /\ reader[c] = "body"
      /\ buffer' = [buffer EXCEPT ![p[1]] = @ \cup {p[2]}]
      /\ reader' = [reader EXCEPT ![c] = "commit"]
  BY DEF ReadBody
<1>2. UNCHANGED <<queue, via>> /\ Undealt'
  BY <1>1, BeforeKeeps
<1>3. p \in Packets /\ via[p] = c /\ ~InWay(p, c) /\ Known(p[1]) /\ ~IsRead(p)
  BY <1>1 DEF RInv, InHand, Holding
<1>4. p[1] \in Messages /\ p[2] \in 1..NumPackets[p[1]] /\ p = <<p[1], p[2]>>
  BY <1>3, PacketParts
<1>5. \A d \in Channels : Holding(d) /\ header[d] = p => d = c
  BY <1>1, OneHand DEF Holding
<1> HIDE DEF p
<1>6. /\ reader'[c] = "commit" /\ \A d \in Channels : d # c => reader'[d] = reader[d]
      /\ buffer'[p[1]] = buffer[p[1]] \cup {p[2]}
      /\ \A n \in Messages : n # p[1] => buffer'[n] = buffer[n]
  BY <1>1, <1>4 DEF RInv, ReceiverType
<1>7. \A q \in Packets : IsRead(q)' <=> IsRead(q) \/ q = p
  BY <1>4, <1>6, PacketParts DEF IsRead
<1>8. ReceiverType'
  BY <1>1, <1>4, <1>6 DEF RInv, ReceiverType
<1>9. OnTheWay'
  <2>1. \A d \in Channels : ~InWay(p, d)
    BY <1>3 DEF RInv, OnTheWay
  <2>2. \A d \in Channels : \A q \in Packets : InWay(q, d) => via[q] = d /\ ~IsRead(q)'
    BY <1>7, <2>1 DEF RInv, OnTheWay
  <2> QED
    BY <1>1, <1>2, <2>2 DEF RInv, OnTheWay, InWay
<1>10. InHand'
  <2> SUFFICES ASSUME NEW d \in Channels, Holding(d)
               PROVE  IsRead(header[d])' <=> reader'[d] # "body"
    BY <1>1, <1>2, <1>6 DEF RInv, InHand, Holding, InWay, Known
  <2>1. header[d] \in Packets /\ (IsRead(header[d]) <=> reader[d] # "body")
    BY DEF RInv, InHand
  <2>2. header[c] = p
    BY DEF p
  <2> QED
    BY <1>1, <1>5, <1>6, <1>7, <2>1, <2>2
<1>11. ReadDealt'
  <2>1. via[p] # 0
    BY <1>3 DEF Channels
  <2> QED
    BY <1>2, <1>7, <2>1 DEF RInv, ReadDealt
<1>12. \A m \in Messages : Counted(m)' = Counted(m)
  <2>1. header[c] = p
    BY DEF p
  <2>2. \A m, i : Committing(m, i)' <=> Committing(m, i) \/ <<m, i>> = p
    BY <1>1, <1>6, <2>1 DEF Committing
  <2>3. ~Committing(p[1], p[2])
    BY <1>1, <1>4, <1>5 DEF Committing, Holding
  <2>4. p[2] \notin buffer[p[1]]
    BY <1>3 DEF IsRead
  <2>5. \A m \in Messages : \A i : i \in Counted(m)' <=> i \in Counted(m)
    BY <1>4, <1>6, <2>2, <2>3, <2>4 DEF Counted
  <2> QED
    BY <2>5 DEF Counted
<1>13. /\ p[1] \notin TakenUp
       /\ \A d \in Channels : reader[d] = "finalize" => header[d][1] # p[1]
  BY <1>3, UnreadNotDone
<1>14. Counting'
  <2> SUFFICES ASSUME NEW m \in Messages
               PROVE  /\ Known(m) => states[m] = Cardinality(Counted(m)) /\ m \notin TakenUp
                      /\ ~Known(m) => buffer'[m] = {} \/ buffer'[m] = 1..NumPackets[m]
                      /\ m \in TakenUp => buffer'[m] = 1..NumPackets[m]
    BY <1>1, <1>12 DEF Counting, Known, TakenUp
  <2>1. CASE m = p[1]
    BY <1>3, <1>13, <2>1 DEF RInv, Counting
  <2>2. CASE m # p[1]
    BY <1>6, <2>2 DEF RInv, Counting
  <2> QED
    BY <2>1, <2>2
<1>15. Finishing'
  <2> SUFFICES ASSUME NEW d \in Channels, reader'[d] = "finalize"
               PROVE  /\ Counted(header[d][1])' = 1..NumPackets[header[d][1]]
                      /\ \A e \in Channels \ {d} : Holding(e)' => header[e][1] # header[d][1]
    BY <1>1 DEF Finishing
  <2>1. reader[d] = "finalize" /\ \A e \in Channels : Holding(e)' => Holding(e)
    BY <1>1, <1>6 DEF Holding
  <2>2. header[d][1] \in Messages
    BY <2>1, PacketParts DEF RInv, InHand, Holding
  <2> QED
    BY <1>1, <1>12, <2>1, <2>2 DEF RInv, Finishing
<1> QED
  BY <1>2, <1>8, <1>9, <1>10, <1>11, <1>14, <1>15 DEF RInv

(* One more counted.                                                       *)
LEMMA CountOneMore ==
    ASSUME NEW S, NEW i, IsFiniteSet(S), i \notin S
    PROVE  Cardinality(S \cup {i}) = Cardinality(S) + 1
BY FS_AddElement

(* A receive_loop that leaves its packet, or keeps it, and nothing else    *)
(* about hands, queues and wires changes.                                  *)
LEMMA CommitKeepsR ==
    ASSUME RInv, NEW c \in Channels, Commit(c)
    PROVE  RInv'
<1>1. /\ UNCHANGED beforeReceive /\ UNCHANGED <<wire, buffer, delivered>>
      /\ reader[c] = "commit"
  BY DEF Commit
<1>2. UNCHANGED <<queue, via>> /\ Undealt'
  BY <1>1, BeforeKeeps
<1>3. PICK p \in Packets : header[c] = p /\ via[p] = c /\ Known(p[1]) /\ IsRead(p)
  BY <1>1 DEF RInv, InHand, Holding
<1>4. PICK m \in Messages : header[c][1] = m /\ p[2] \in 1..NumPackets[m] /\ p = <<m, p[2]>>
  BY <1>3, PacketParts
<1> DEFINE last == states[m] + 1 = NumPackets[m]
<1>5. /\ states' = [states EXCEPT ![m] = @ + 1]
      /\ last => reader' = [reader EXCEPT ![c] = "finalize"] /\ header' = header
      /\ ~last => /\ reader' = [reader EXCEPT ![c] = "header"]
                  /\ header' = [header EXCEPT ![c] = NoPacket]
  BY <1>3, <1>4 DEF Commit, NextPacket
<1>6. \A d \in Channels : Holding(d) /\ header[d] = p => d = c
  BY <1>1, <1>3, OneHand DEF Holding
<1>7. header[c] = p /\ header[c][1] = m /\ p[1] = m
  BY <1>3, <1>4
<1>8. /\ \A d \in Channels : d # c => reader'[d] = reader[d] /\ header'[d] = header[d]
      /\ last => reader'[c] = "finalize" /\ header'[c] = p
      /\ ~last => reader'[c] = "header"
  BY <1>5, <1>7 DEF RInv, ReceiverType
<1>9. /\ DOMAIN states' = DOMAIN states /\ states'[m] = states[m] + 1
      /\ \A n \in DOMAIN states : n # m => states'[n] = states[n]
  BY <1>3, <1>5, <1>7 DEF Known
<1>10. ReceiverType'
  <2>1. ASSUME NEW n \in DOMAIN states' PROVE states'[n] \in Nat
    <3>1. n \in DOMAIN states /\ states[n] \in Nat /\ states'[n] \in {states[n], states[n] + 1}
      BY <1>9 DEF RInv, ReceiverType
    <3> QED
      BY <3>1
  <2>2. /\ reader' \in [Channels -> {"header", "body", "commit", "finalize", "closed"}]
        /\ header' \in [Channels -> Packets \cup {NoPacket}]
    BY <1>5 DEF RInv, ReceiverType
  <2> QED
    BY <1>1, <1>9, <2>1, <2>2 DEF RInv, ReceiverType
<1>11. OnTheWay' /\ ReadDealt'
  BY <1>1, <1>2 DEF RInv, OnTheWay, ReadDealt, InWay, IsRead
<1>12. \A d \in Channels : Holding(d)' => Holding(d) /\ header'[d] = header[d]
  BY <1>1, <1>7, <1>8 DEF Holding
<1>13. InHand'
  <2> SUFFICES ASSUME NEW d \in Channels, Holding(d)'
               PROVE  /\ header'[d] \in Packets /\ via[header'[d]] = d
                      /\ ~(header'[d] \in ToSet(queue[d]) \/ header'[d] \in ToSet(wire[d]))
                      /\ header'[d][1] \in DOMAIN states
                      /\ header'[d][2] \in buffer[header'[d][1]] <=> reader'[d] # "body"
    BY <1>1, <1>2, <1>9 DEF InHand, InWay, IsRead, Known
  <2>1. Holding(d) /\ header'[d] = header[d]
    BY <1>12
  <2>2. reader'[d] # "body" <=> reader[d] # "body"
    BY <1>1, <1>8
  <2> QED
    BY <2>1, <2>2 DEF RInv, InHand, InWay, IsRead, Known
<1>14. \A n, i : Committing(n, i)' <=> Committing(n, i) /\ <<n, i>> # p
  <2>1. ASSUME NEW n, NEW i, Committing(n, i)' PROVE Committing(n, i) /\ <<n, i>> # p
    <3>1. PICK d \in Channels : reader'[d] = "commit" /\ header'[d] = <<n, i>>
      BY <2>1 DEF Committing
    <3>2. d # c /\ reader[d] = "commit" /\ header[d] = <<n, i>>
      BY <1>8, <3>1
    <3> QED
      BY <1>6, <3>2 DEF Committing, Holding
  <2>2. ASSUME NEW n, NEW i, Committing(n, i), <<n, i>> # p PROVE Committing(n, i)'
    BY <1>7, <1>8, <2>2 DEF Committing
  <2> QED
    BY <2>1, <2>2
<1>15. /\ Counted(m)' = Counted(m) \cup {p[2]} /\ p[2] \notin Counted(m)
       /\ \A n \in Messages : n # m => Counted(n)' = Counted(n)
  <2>1. \A i : <<m, i>> = p <=> i = p[2]
    BY <1>4
  <2>2. \A n, i : n # m => <<n, i>> # p
    BY <1>4
  <2>3. Committing(m, p[2]) /\ p[2] \in buffer[m]
    BY <1>1, <1>3, <1>4, <1>7 DEF Committing, IsRead
  <2> QED
    BY <1>1, <1>14, <2>1, <2>2, <2>3 DEF Counted
<1>16. states'[m] = Cardinality(Counted(m)')
  <2>1. states[m] = Cardinality(Counted(m))
    BY <1>3, <1>4, <1>7 DEF RInv, Counting
  <2>2. IsFiniteSet(Counted(m))
    BY <1>4, CountedFinite DEF RInv
  <2> QED
    BY <1>9, <1>15, <2>1, <2>2, CountOneMore
<1>17. Counting'
  <2> SUFFICES ASSUME NEW n \in Messages
               PROVE  /\ n \in DOMAIN states =>
                            states'[n] = Cardinality(Counted(n)') /\ n \notin TakenUp
                      /\ n \notin DOMAIN states =>
                            buffer[n] = {} \/ buffer[n] = 1..NumPackets[n]
                      /\ n \in TakenUp => buffer[n] = 1..NumPackets[n]
    BY <1>1, <1>9 DEF Counting, Known, TakenUp
  <2>1. n \in DOMAIN states /\ n # m => states'[n] = Cardinality(Counted(n)')
    BY <1>9, <1>15 DEF RInv, Counting, Known
  <2> QED
    BY <1>16, <2>1 DEF RInv, Counting, Known
<1>18. ASSUME last
       PROVE  /\ Counted(m)' = 1..NumPackets[m]
              /\ \A d \in Channels \ {c} : Holding(d) => header[d][1] # m
  <2>1. Cardinality(Counted(m)') = NumPackets[m]
    BY <1>9, <1>16, <1>18
  <2>2. Counted(m)' = 1..NumPackets[m]
    <3>1. Counted(m)' \subseteq 1..NumPackets[m]
      BY <1>10 DEF ReceiverType, Counted
    <3>2. NumPackets[m] \in Nat
      BY PacketFacts
    <3> QED
      BY <2>1, <3>1, <3>2, FullSubset
  <2>3. ASSUME NEW d \in Channels \ {c}, Holding(d), header[d][1] = m PROVE FALSE
    <3>1. /\ header[d] \in Packets /\ header[d] # p
          /\ IsRead(header[d]) <=> reader[d] # "body"
      BY <1>6, <2>3 DEF RInv, InHand
    <3>2. PICK j \in 1..NumPackets[m] : header[d] = <<m, j>> /\ header[d][2] = j
      BY <2>3, <3>1, PacketParts
    <3>3. j \in buffer[m] /\ ~Committing(m, j)'
      BY <1>1, <2>2, <3>2 DEF Counted
    <3>4. reader[d] # "body" /\ reader[d] # "commit"
      BY <1>14, <2>3, <3>1, <3>2, <3>3 DEF IsRead, Committing
    <3>5. reader[d] = "finalize"
      BY <2>3, <3>4 DEF Holding
    <3> QED
      BY <1>1, <1>7, <2>3, <3>5 DEF RInv, Finishing, Holding
  <2> QED
    BY <2>2, <2>3
<1>19. Finishing'
  <2> SUFFICES ASSUME NEW d \in Channels, reader'[d] = "finalize"
               PROVE  /\ Counted(header[d][1])' = 1..NumPackets[header'[d][1]]
                      /\ \A e \in Channels \ {d} : Holding(e)' => header'[e][1] # header'[d][1]
    BY DEF Finishing
  <2>1. CASE d = c
    <3>1. last /\ header'[d] = p
      BY <1>8, <2>1
    <3>2. header'[d][1] = m
      BY <1>4, <3>1
    <3> QED
      BY <1>12, <1>18, <2>1, <3>1, <3>2
  <2>2. CASE d # c
    <3>1. /\ reader[d] = "finalize" /\ header'[d] = header[d]
          /\ header[d][1] # m /\ header[d][1] \in Messages
      <4>1. reader[d] = "finalize" /\ header'[d] = header[d]
        BY <1>8, <2>2
      <4>2. header[d][1] # header[c][1]
        BY <1>1, <2>2, <4>1 DEF RInv, Finishing, Holding
      <4> QED
        BY <1>7, <4>1, <4>2, PacketParts DEF RInv, InHand, Holding
    <3> QED
      BY <1>12, <1>15, <3>1 DEF RInv, Finishing
  <2> QED
    BY <2>1, <2>2
<1> QED
  BY <1>2, <1>10, <1>11, <1>13, <1>17, <1>19 DEF RInv

(* The message that a finalize finds is complete.                          *)
LEMMA FinalizeTakes ==
    ASSUME RInv, NEW c \in Channels, reader[c] = "finalize"
    PROVE  /\ header[c] \in Packets /\ header[c][1] \in Messages
           /\ Known(header[c][1]) /\ header[c][1] \notin TakenUp
           /\ states[header[c][1]] = NumPackets[header[c][1]]
           /\ buffer[header[c][1]] = 1..NumPackets[header[c][1]]
<1> DEFINE m == header[c][1]
<1>1. header[c] \in Packets /\ Known(m) /\ Counted(m) = 1..NumPackets[m]
  BY DEF RInv, InHand, Finishing, Holding
<1>2. m \in Messages
  BY <1>1, PacketParts
<1>3. states[m] = Cardinality(Counted(m)) /\ m \notin TakenUp
  BY <1>1, <1>2 DEF RInv, Counting
<1>4. Cardinality(1..NumPackets[m]) = NumPackets[m]
  <2>1. NumPackets[m] \in Nat
    BY <1>2, PacketFacts
  <2>2. Cardinality(1..NumPackets[m]) = IF 1 > NumPackets[m] THEN 0 ELSE NumPackets[m] - 1 + 1
    BY <2>1, FS_Interval
  <2> QED
    BY <2>1, <2>2
<1>5. buffer[m] = 1..NumPackets[m]
  <2>1. Counted(m) \subseteq buffer[m]
    BY DEF Counted
  <2> QED
    BY <1>1, <1>2, <2>1 DEF RInv, ReceiverType
<1> QED
  BY <1>1, <1>2, <1>3, <1>4, <1>5

(* A receive_loop goes on to its next header.                              *)
LEMMA FinalizeKeepsR ==
    ASSUME RInv, NEW c \in Channels, Finalize(c)
    PROVE  RInv'
<1> DEFINE m == header[c][1]
<1>1. /\ UNCHANGED beforeReceive /\ UNCHANGED <<wire, buffer>> /\ reader[c] = "finalize"
      /\ reader' = [reader EXCEPT ![c] = "header"]
      /\ header' = [header EXCEPT ![c] = NoPacket]
  BY DEF Finalize, NextPacket
<1>2. /\ m \in Messages /\ Known(m) /\ m \notin TakenUp /\ states[m] = NumPackets[m]
      /\ buffer[m] = 1..NumPackets[m]
  BY <1>1, FinalizeTakes
<1>3. /\ states' = [n \in DOMAIN states \ {m} |-> states[n]]
      /\ delivered' = Append(delivered, <<m, buffer[m]>>)
  BY <1>2 DEF Finalize
<1>4. \A d \in Channels \ {c} : Holding(d) => header[d][1] # m
  BY <1>1 DEF RInv, Finishing
<1> HIDE DEF m
<1>5. UNCHANGED <<queue, via>> /\ Undealt'
  BY <1>1, BeforeKeeps
<1>6. /\ reader'[c] = "header"
      /\ \A d \in Channels : d # c => reader'[d] = reader[d] /\ header'[d] = header[d]
  BY <1>1 DEF RInv, ReceiverType
<1>7. TakenUp' = TakenUp \cup {m}
  <2> DEFINE a == <<m, buffer[m]>>
  <2>1. a \in Messages \X SUBSET Nat /\ a[1] = m
    BY <1>2 DEF RInv, ReceiverType
  <2> HIDE DEF a
  <2>2. delivered \in Seq(Messages \X SUBSET Nat) /\ delivered' = Append(delivered, a)
    BY <1>3 DEF RInv, ReceiverType, a
  <2>3. /\ DOMAIN delivered = 1..Len(delivered) /\ Len(delivered) \in Nat
        /\ DOMAIN delivered' = 1..(Len(delivered) + 1)
        /\ \A i \in 1..Len(delivered) : delivered'[i] = delivered[i]
        /\ delivered'[Len(delivered) + 1] = a
    BY <2>1, <2>2
  <2>4. ToSet(delivered)' = ToSet(delivered) \cup {a}
    BY <2>3 DEF ToSet
  <2> QED
    BY <2>1, <2>4 DEF TakenUp
<1>8. ReceiverType'
  <2>1. delivered' \in Seq(Messages \X SUBSET Nat)
    <3>1. <<m, buffer[m]>> \in Messages \X SUBSET Nat
      BY <1>2 DEF RInv, ReceiverType
    <3> QED
      BY <1>3, <3>1 DEF RInv, ReceiverType
  <2>2. /\ reader' \in [Channels -> {"header", "body", "commit", "finalize", "closed"}]
        /\ header' \in [Channels -> Packets \cup {NoPacket}]
    BY <1>1 DEF RInv, ReceiverType
  <2>3. DOMAIN states' \subseteq Messages /\ \A n \in DOMAIN states' : states'[n] \in Nat
    BY <1>3 DEF RInv, ReceiverType
  <2> QED
    BY <1>1, <2>1, <2>2, <2>3 DEF RInv, ReceiverType
<1>9. OnTheWay' /\ ReadDealt'
  BY <1>1, <1>5 DEF RInv, OnTheWay, ReadDealt, InWay, IsRead
<1>10. \A d \in Channels : Holding(d)' => d # c /\ Holding(d) /\ header'[d] = header[d]
  BY <1>6 DEF Holding
<1>11. InHand'
  <2> SUFFICES ASSUME NEW d \in Channels, Holding(d)'
               PROVE  /\ header'[d] \in Packets /\ via[header'[d]] = d
                      /\ ~(header'[d] \in ToSet(queue[d]) \/ header'[d] \in ToSet(wire[d]))
                      /\ header'[d][1] \in DOMAIN states \ {m}
                      /\ header'[d][2] \in buffer[header'[d][1]] <=> reader'[d] # "body"
    BY <1>1, <1>3, <1>5 DEF InHand, InWay, IsRead, Known
  <2>1. d # c /\ Holding(d) /\ header'[d] = header[d] /\ reader'[d] = reader[d]
    BY <1>6, <1>10
  <2> QED
    BY <1>4, <2>1 DEF RInv, InHand, InWay, IsRead, Known
<1>12. \A n \in Messages : Counted(n)' = Counted(n)
  <2>1. \A n, i : Committing(n, i)' <=> Committing(n, i)
    BY <1>1, <1>6 DEF Committing
  <2> QED
    BY <1>1, <2>1 DEF Counted
<1>13. Counting'
  <2> SUFFICES ASSUME NEW n \in Messages
               PROVE  /\ n \in DOMAIN states \ {m} =>
                            states'[n] = Cardinality(Counted(n)) /\ n \notin TakenUp \cup {m}
                      /\ n \notin DOMAIN states \ {m} =>
                            buffer[n] = {} \/ buffer[n] = 1..NumPackets[n]
                      /\ n \in TakenUp \cup {m} => buffer[n] = 1..NumPackets[n]
    BY <1>1, <1>3, <1>7, <1>12 DEF Counting, Known
  <2>1. n \in DOMAIN states \ {m} => states'[n] = states[n]
    BY <1>3
  <2> QED
    BY <1>2, <2>1 DEF RInv, Counting, Known
<1>14. Finishing'
  <2> SUFFICES ASSUME NEW d \in Channels, reader'[d] = "finalize"
               PROVE  /\ Counted(header[d][1])' = 1..NumPackets[header'[d][1]]
                      /\ \A e \in Channels \ {d} : Holding(e)' => header'[e][1] # header'[d][1]
    BY DEF Finishing
  <2>1. reader[d] = "finalize" /\ header'[d] = header[d]
    BY <1>6
  <2>2. header[d][1] \in Messages
    BY <2>1, FinalizeTakes
  <2> QED
    BY <1>10, <1>12, <2>1, <2>2 DEF RInv, Finishing
<1> QED
  BY <1>5, <1>8, <1>9, <1>11, <1>13, <1>14 DEF RInv

LEMMA ReadFailsKeepsR ==
    ASSUME RInv, NEW c \in Channels, ReadFails(c)
    PROVE  RInv'
<1>1. /\ UNCHANGED beforeReceive /\ UNCHANGED <<wire, states, buffer, delivered>>
      /\ reader[c] \in {"header", "body"}
      /\ reader' = [reader EXCEPT ![c] = "closed"]
      /\ header' = [header EXCEPT ![c] = NoPacket]
  BY DEF ReadFails
<1>2. UNCHANGED <<queue, via>> /\ Undealt'
  BY <1>1, BeforeKeeps
<1>3. /\ reader'[c] = "closed"
      /\ \A d \in Channels : d # c => reader'[d] = reader[d] /\ header'[d] = header[d]
  BY <1>1 DEF RInv, ReceiverType
<1>4. ReceiverType'
  BY <1>1 DEF RInv, ReceiverType
<1>5. OnTheWay' /\ ReadDealt'
  BY <1>1, <1>2 DEF RInv, OnTheWay, ReadDealt, InWay, IsRead
<1>6. \A d \in Channels : Holding(d)' => d # c /\ Holding(d) /\ header'[d] = header[d]
  BY <1>3 DEF Holding
<1>7. InHand'
  BY <1>1, <1>2, <1>3, <1>6 DEF RInv, InHand, InWay, IsRead, Known
<1>8. \A n \in Messages : Counted(n)' = Counted(n)
  <2>1. \A n, i : Committing(n, i)' <=> Committing(n, i)
    BY <1>1, <1>3 DEF Committing
  <2> QED
    BY <1>1, <2>1 DEF Counted
<1>9. Counting'
  BY <1>1, <1>8 DEF RInv, Counting, Known, TakenUp
<1>10. Finishing'
  <2> SUFFICES ASSUME NEW d \in Channels, reader'[d] = "finalize"
               PROVE  /\ Counted(header[d][1])' = 1..NumPackets[header'[d][1]]
                      /\ \A e \in Channels \ {d} : Holding(e)' => header'[e][1] # header'[d][1]
    BY DEF Finishing
  <2>1. reader[d] = "finalize" /\ header'[d] = header[d]
    BY <1>3
  <2>2. header[d][1] \in Messages
    BY <2>1, FinalizeTakes
  <2> QED
    BY <1>6, <1>8, <2>1, <2>2 DEF RInv, Finishing
<1> QED
  BY <1>2, <1>4, <1>5, <1>7, <1>9, <1>10 DEF RInv

----------------------------------------------------------------------------

LEMMA InitRInv == Init => RInv
<1> SUFFICES ASSUME Init PROVE RInv
  OBVIOUS
<1>1. /\ queue = [c \in Channels |-> <<>>] /\ wire = [c \in Channels |-> <<>>]
      /\ reader = [c \in Channels |-> "header"] /\ header = [c \in Channels |-> NoPacket]
      /\ states = [m \in {} |-> 0] /\ buffer = [m \in Messages |-> {}] /\ delivered = <<>>
      /\ spc = [m \in Messages |-> "ready"] /\ left = NumPackets
      /\ via = [p \in Packets |-> 0]
  BY DEF Init
<1>2. <<>> \in Seq(Packets) /\ ToSet(<<>>) = {} /\ Distinct(<<>>)
  BY DEF ToSet, Distinct
<1>3. ReceiverType
  BY <1>1, <1>2 DEF ReceiverType
<1>4. Undealt
  BY <1>1, PacketFacts DEF Undealt
<1>5. \A p \in Packets : ~IsRead(p)
  BY <1>1, PacketParts DEF IsRead
<1>6. OnTheWay
  <2>1. \A c \in Channels : ToSet(queue[c]) = {} /\ ToSet(wire[c]) = {}
    BY <1>1, <1>2
  <2> QED
    BY <1>1, <1>2, <2>1 DEF OnTheWay, InWay
<1>7. InHand /\ Finishing
  BY <1>1 DEF InHand, Finishing, Holding
<1>8. ReadDealt
  BY <1>5 DEF ReadDealt
<1>9. Counting
  <2>1. ToSet(delivered) = {}
    BY <1>1, <1>2
  <2> QED
    BY <1>1, <2>1 DEF Counting, Known, TakenUp
<1> QED
  BY <1>3, <1>4, <1>6, <1>7, <1>8, <1>9 DEF RInv

LEMMA ReceiveStepKeepsR ==
    ASSUME RInv, NEW c \in Channels, ReceiveStep(c)
    PROVE  RInv'
BY FetchPacketKeepsR, ReadBodyKeepsR, CommitKeepsR, FinalizeKeepsR, ReadFailsKeepsR
   DEF ReceiveStep

LEMMA InductiveStepR == IInv /\ RInv /\ [Next]_vars => RInv'
<1> SUFFICES ASSUME IInv, RInv, [Next]_vars PROVE RInv'
  OBVIOUS
<1>1. ASSUME NEW m \in Messages, SendStep(m) PROVE RInv'
  BY <1>1, LookUpKeepsR, EnqueueKeepsR, SpawnKeepsR DEF SendStep
<1>2. ASSUME NEW p \in Packets, WriterStep(p) PROVE RInv'
  BY <1>2, WriterStepKeepsR
<1>3. ASSUME NEW c \in Channels, SenderReadFails(c) \/ Poll(c) PROVE RInv'
  BY <1>3, AsideKeepsR
     DEF SenderReadFails, Poll, afterSend, senderVars, receiverVars, Unread
<1>4. ASSUME NEW c \in Channels, Break(c) PROVE RInv'
  BY <1>4, BreakKeepsR
<1>5. ASSUME NEW c \in Channels, ReceiveStep(c) PROVE RInv'
  BY <1>5, ReceiveStepKeepsR
<1>6. CASE UNCHANGED vars
  BY <1>6, AsideKeepsR DEF vars, senderVars, receiverVars, Unread
<1> QED
  BY <1>1, <1>2, <1>3, <1>4, <1>5, <1>6 DEF Next

LEMMA SpecRInv == Spec => [](IInv /\ RInv)
<1>1. Init => IInv /\ RInv
  BY InitIInv, InitRInv
<1>2. IInv /\ RInv /\ [Next]_vars => (IInv /\ RInv)'
  BY InductiveStep, InductiveStepR
<1> QED
  BY <1>1, <1>2, PTL DEF Spec

(* Every variable of the transport keeps to its type: no counter of        *)
(* commit_packet ever exceeds the number of packets of its message.        *)
THEOREM TypeCorrect == Spec => []TypeOK
<1>1. IInv /\ RInv => TypeOK
  <2> SUFFICES ASSUME IInv, RInv PROVE TypeOK
    OBVIOUS
  <2>1. ASSUME NEW m \in DOMAIN states PROVE m \in Messages /\ states[m] \in 0..NumPackets[m]
    <3>1. m \in Messages
      BY DEF RInv, ReceiverType
    <3>2. states[m] = Cardinality(Counted(m)) /\ Counted(m) \subseteq 1..NumPackets[m]
      BY <3>1, CountedFinite DEF RInv, Counting, Known
    <3>3. NumPackets[m] \in Nat \ {0}
      BY <3>1, PacketFacts
    <3>4. IsFiniteSet(1..NumPackets[m]) /\ Cardinality(1..NumPackets[m]) = NumPackets[m]
      BY <3>3, FS_Interval
    <3>5. Cardinality(Counted(m)) <= NumPackets[m] /\ Cardinality(Counted(m)) \in Nat
      BY <3>2, <3>4, FS_Subset, FS_CardinalityType
    <3> QED
      BY <3>1, <3>2, <3>3, <3>5
  <2> QED
    BY <2>1 DEF IInv, SenderType, RInv, ReceiverType, TypeOK
<1> QED
  BY <1>1, SpecRInv, PTL

(* A receive_loop that has read a header finds its message in              *)
(* message_states_ when it commits and when it finalizes, whichever        *)
(* channels the other packets of the message came over: "Error committing  *)
(* packet" is never logged.                                                *)
THEOREM CommitFindsMessageHolds == Spec => []CommitFindsMessage
<1>1. IInv /\ RInv => CommitFindsMessage
  BY DEF RInv, InHand, Holding, CommitFindsMessage
<1> QED
  BY <1>1, SpecRInv, PTL

----------------------------------------------------------------------------
(* The transport implements MessageDelivery.                               *)

Called == {m \in Messages : spc[m] # "ready"}

(* After its first look a message stays called.                            *)
LEMMA CalledKeeps ==
    ASSUME IInv, NEW m \in Messages, spc[m] # "ready",
           NEW to \in {"enqueue", "spawn", "sent"}, spc' = [spc EXCEPT ![m] = to]
    PROVE  Called' = Called
BY DEF Called, IInv, SenderType

LEMMA FinalizeArrives ==
    ASSUME IInv, RInv, NEW c \in Channels, Finalize(c)
    PROVE  Delivery!Arrive(header[c][1])
<1> DEFINE m == header[c][1]
<1>1. reader[c] = "finalize" /\ UNCHANGED <<spc, broken, polled>>
  BY DEF Finalize, beforeReceive, senderVars
<1>2. /\ m \in Messages /\ Known(m) /\ m \notin TakenUp /\ states[m] = NumPackets[m]
      /\ buffer[m] = 1..NumPackets[m] /\ header[c] \in Packets
  BY <1>1, FinalizeTakes
<1>3. delivered' = Append(delivered, <<m, 1..NumPackets[m]>>)
  BY <1>2 DEF Finalize
<1>4. via[header[c]] = c /\ header[c][2] \in 1..NumPackets[m] /\ header[c] = <<m, header[c][2]>>
  BY <1>1, <1>2, PacketParts DEF RInv, InHand, Holding
<1>5. spc[m] # "ready"
  <2> SUFFICES ASSUME spc[m] = "ready" PROVE FALSE
    OBVIOUS
  <2>1. left[m] = NumPackets[m] /\ NumPackets[m] \in Nat
    BY <1>2, PacketFacts DEF IInv, Dealing
  <2>2. PICK i \in 1..NumPackets[m] : header[c] = <<m, i>>
    BY <1>4
  <2>3. i <= left[m] /\ m \in Messages /\ ~(spc[m] = "spawn" /\ i = left[m])
    BY <1>2, <2>1
  <2>4. via[<<m, i>>] = 0
    BY <2>3 DEF RInv, Undealt
  <2> QED
    BY <1>4, <2>2, <2>4 DEF Channels
<1>6. m \notin Delivery!Arrived
  BY <1>2 DEF TakenUp, Delivery!Arrived, ToSet, Delivery!ToSet
<1> QED
  BY <1>1, <1>2, <1>3, <1>5, <1>6 DEF Delivery!Arrive

(* A message is enqueued at most once, only after send_message was called  *)
(* for it, and with every packet in its place, over whichever channels     *)
(* they came: each Finalize is an Arrive of MessageDelivery, each first    *)
(* step of start_send a Send, and every other step says nothing to it but  *)
(* that a channel was lost or polled.                                      *)
THEOREM Implements == Spec => ImplementsDelivery
<1>1. Init => Delivery!Init
  BY DEF Init, Delivery!Init
<1>2. IInv /\ RInv /\ [Next]_vars => [Delivery!Next]_Delivery!vars
  <2> SUFFICES ASSUME IInv, RInv, [Next]_vars PROVE [Delivery!Next]_Delivery!vars
    OBVIOUS
  <2>1. ASSUME Called' = Called, UNCHANGED <<delivered, broken, polled>>
        PROVE  UNCHANGED Delivery!vars
    BY <2>1 DEF Delivery!vars, Called
  <2>2. ASSUME NEW m \in Messages, LookUp(m) PROVE Delivery!Next
    <3>1. /\ spc[m] = "ready" /\ UNCHANGED <<delivered, broken, polled>>
          /\ spc' = [spc EXCEPT ![m] = IF registered = <<>> THEN "sent" ELSE "enqueue"]
      BY <2>2 DEF LookUp, afterSend, receiverVars
    <3>2. m \notin Called /\ Called' = Called \cup {m}
      BY <3>1 DEF Called, IInv, SenderType
    <3>3. Delivery!Send(m)
      BY <3>1, <3>2 DEF Delivery!Send, Called
    <3> QED
      BY <3>3 DEF Delivery!Next
  <2>3. ASSUME NEW m \in Messages, Enqueue(m) \/ Spawn(m) PROVE UNCHANGED Delivery!vars
    <3>1. UNCHANGED <<delivered, broken, polled>> /\ spc[m] # "ready"
      BY <2>3 DEF Enqueue, Spawn, afterSend, receiverVars
    <3>2. \E to \in {"enqueue", "spawn", "sent"} : spc' = [spc EXCEPT ![m] = to]
      BY <2>3 DEF Enqueue, Spawn
    <3> QED
      BY <2>1, <3>1, <3>2, CalledKeeps
  <2>4. ASSUME NEW p \in Packets, WriterStep(p) PROVE UNCHANGED Delivery!vars
    <3>1. UNCHANGED spc /\ UNCHANGED <<delivered, broken, polled>>
      BY <2>4 DEF WriterStep, Acquire, Pop, Written, WriteFails, Release, afterSend,
                  receiverVars
    <3> QED
      BY <2>1, <3>1 DEF Called
  <2>5. ASSUME NEW c \in Channels, SenderReadFails(c) PROVE UNCHANGED Delivery!vars
    <3>1. UNCHANGED spc /\ UNCHANGED <<delivered, broken, polled>>
      BY <2>5 DEF SenderReadFails, afterSend, receiverVars
    <3> QED
      BY <2>1, <3>1 DEF Called
  <2>6. ASSUME NEW c \in Channels, FetchPacket(c) \/ ReadBody(c) \/ Commit(c) \/ ReadFails(c)
        PROVE  UNCHANGED Delivery!vars
    <3>1. UNCHANGED spc /\ UNCHANGED <<delivered, broken, polled>>
      BY <2>6 DEF FetchPacket, ReadBody, Commit, ReadFails, beforeReceive, senderVars
    <3> QED
      BY <2>1, <3>1 DEF Called
  <2>7. ASSUME NEW c \in Channels, Finalize(c) PROVE Delivery!Next
    <3>1. Delivery!Arrive(header[c][1])
      BY <2>7, FinalizeArrives
    <3>2. header[c][1] \in Messages
      BY <2>7, FinalizeTakes DEF Finalize
    <3> QED
      BY <3>1, <3>2 DEF Delivery!Next
  <2>8. ASSUME NEW c \in Channels, Break(c) \/ Poll(c) PROVE Delivery!Next
    <3>1. /\ UNCHANGED spc /\ UNCHANGED delivered
          /\ broken' # {} \/ polled' # {}
      BY <2>8 DEF Break, Poll, senderVars, receiverVars
    <3>2. Delivery!BecomeLossy
      BY <3>1 DEF Delivery!BecomeLossy
    <3> QED
      BY <3>2 DEF Delivery!Next
  <2>9. CASE UNCHANGED vars
    <3>1. UNCHANGED spc /\ UNCHANGED <<delivered, broken, polled>>
      BY <2>9 DEF vars, senderVars, receiverVars
    <3> QED
      BY <2>1, <3>1 DEF Called
  <2>10. CASE \E m \in Messages : SendStep(m)
    BY <2>2, <2>3, <2>10 DEF SendStep
  <2>11. CASE \E c \in Channels : SenderReadFails(c) \/ ReceiveStep(c) \/ Break(c) \/ Poll(c)
    BY <2>5, <2>6, <2>7, <2>8, <2>11 DEF ReceiveStep
  <2> QED
    BY <2>4, <2>9, <2>10, <2>11 DEF Next
<1> QED
  BY <1>1, <1>2, SpecRInv, PTL DEF Spec, ImplementsDelivery, Delivery!Spec
=============================================================================
