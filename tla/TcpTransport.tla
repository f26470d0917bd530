----------------------------- MODULE TcpTransport -----------------------------
(***************************************************************************)
(* The way of messages from one node to another over the TCP transport     *)
(* (distributed/tcp_communicator.hpp, tcp_channel.hpp, chunking.hpp): a    *)
(* message is sliced into packets, dealt out to the channels of the peer,  *)
(* written by at most one coroutine per channel, read by the loop of each  *)
(* channel and put together by the aggregator that the channels share.     *)
(*                                                                         *)
(* Each io_context runs on one thread, so what a coroutine does between    *)
(* two awaits is not interleaved with another coroutine of its channel,    *)
(* but it is with the senders and with the other channels.  A thread that  *)
(* connects polls an io_context of the pool too (connect_to_endpoint): the *)
(* channels of that io_context lose this protection.                       *)
(* A packet is <<message, number>>; a channel is the number of its place   *)
(* in endpoint_channels_.                                                  *)
(***************************************************************************)
EXTENDS Integers, Sequences, FiniteSets, SequencesExt

CONSTANTS
    Messages,     \* messages to send
    NumPackets,   \* packets of each message
    NumChannels,  \* config.skts_per_endpoint
    MaxTroubles   \* bound: channels that break or are polled

ASSUME TransportAssumption ==
    /\ NumPackets \in [Messages -> Nat \ {0}]
    /\ NumChannels \in Nat \ {0}
    /\ MaxTroubles \in Nat

Channels == 1..NumChannels
Packets  == UNION {{m} \X (1..NumPackets[m]) : m \in Messages}
NoPacket == <<>>

VARIABLES
    registered,  \* endpoint_channels_[peer] of the sender
    spc,         \* where start_send of each message is
    channels,    \* the copy of endpoint_channels_ it works with
    left,        \* packets it has not dealt out
    queue,       \* write_queue_ of each channel
    isWriting,   \* is_writing_ of each channel
    via,         \* the channel of each packet, 0 before it is dealt out
    writer,      \* where the coroutine is that was spawned for each packet
    broken,      \* channels whose connection is lost
    polled,      \* channels whose io_context a second thread has polled
    wire,        \* packets on the way to the receiver
    reader,      \* where the receive_loop of each channel is
    header,      \* the packet_header it has read
    states,      \* message_states_: received_packets of the messages known
    buffer,      \* the packets copied into the buffer of each message
    delivered    \* messages given to enqueue_input_message, and their bodies

senderVars   == <<registered, spc, channels, left, queue, isWriting, via, writer>>
receiverVars == <<reader, header, states, buffer, delivered>>
vars         == <<senderVars, broken, polled, wire, receiverVars>>

Init ==
    /\ registered = [i \in Channels |-> i]
    /\ spc = [m \in Messages |-> "ready"]
    /\ channels = [m \in Messages |-> <<>>]
    /\ left = NumPackets
    /\ queue = [c \in Channels |-> <<>>] /\ isWriting = [c \in Channels |-> FALSE]
    /\ via = [p \in Packets |-> 0] /\ writer = [p \in Packets |-> "none"]
    /\ broken = {} /\ polled = {} /\ wire = [c \in Channels |-> <<>>]
    /\ reader = [c \in Channels |-> "header"]
    /\ header = [c \in Channels |-> NoPacket]
    /\ states = [m \in {} |-> 0]
    /\ buffer = [m \in Messages |-> {}] /\ delivered = <<>>

----------------------------------------------------------------------------
(* start_send                                                              *)

afterSend == <<broken, polled, wire, receiverVars>>

LookUp(m) ==
    /\ spc[m] = "ready"
    /\ channels' = [channels EXCEPT ![m] = registered]
    /\ spc' = [spc EXCEPT ![m] = IF registered = <<>> THEN "sent" ELSE "enqueue"]
    /\ UNCHANGED <<registered, left, queue, isWriting, via, writer, afterSend>>

(* Packets are taken from the back and dealt out round-robin.              *)
LastPacket(m)  == <<m, left[m]>>
ChannelFor(m) == channels[m][((NumPackets[m] - left[m]) % Len(channels[m])) + 1]

Enqueue(m) ==
    /\ spc[m] = "enqueue"
    /\ queue' = [queue EXCEPT ![ChannelFor(m)] = Append(@, LastPacket(m))]
    /\ via' = [via EXCEPT ![LastPacket(m)] = ChannelFor(m)]
    /\ spc' = [spc EXCEPT ![m] = "spawn"]
    /\ UNCHANGED <<registered, channels, left, isWriting, writer, afterSend>>

(* co_spawn of write_packets on the executor of the channel.               *)
Spawn(m) ==
    /\ spc[m] = "spawn"
    /\ writer' = [writer EXCEPT ![LastPacket(m)] = "spawned"]
    /\ left' = [left EXCEPT ![m] = @ - 1]
    /\ IF left[m] = 1
         THEN spc' = [spc EXCEPT ![m] = "sent"] /\ channels' = [channels EXCEPT ![m] = <<>>]
         ELSE spc' = [spc EXCEPT ![m] = "enqueue"] /\ UNCHANGED channels
    /\ UNCHANGED <<registered, queue, isWriting, via, afterSend>>

SendStep(m) == LookUp(m) \/ Enqueue(m) \/ Spawn(m)

----------------------------------------------------------------------------
(* write_packets, in the coroutine that was spawned for packet p           *)

Coroutines(c, at) == {p \in Packets : via[p] = c /\ writer[p] \in at}

(* Mutant: several threads run the io_context of a channel.                *)
ExecutorFreeAlways(c) == TRUE

(* No coroutine of the channel is between two awaits on its thread.        *)
ExecutorFree(c) == c \in polled \/ Coroutines(c, {"pop", "release"}) = {}

(* Mutant: acquire_write does not look at is_writing_.                     *)
AcquireAlways(p) ==
    LET c == via[p]
    IN  /\ writer[p] = "spawned" /\ ExecutorFree(c)
        /\ writer' = [writer EXCEPT ![p] = "pop"]
        /\ isWriting' = [isWriting EXCEPT ![c] = TRUE]
        /\ UNCHANGED <<registered, spc, channels, left, queue, via, afterSend>>

Acquire(p) ==
    LET c == via[p]
    IN  /\ writer[p] = "spawned" /\ ExecutorFree(c)
        /\ writer' = [writer EXCEPT ![p] = IF isWriting[c] THEN "over" ELSE "pop"]
        /\ isWriting' = [isWriting EXCEPT ![c] = TRUE]
        /\ UNCHANGED <<registered, spc, channels, left, queue, via, afterSend>>

(* try_pop, and the start of async_write: the packet is on its way.        *)
Pop(p) ==
    LET c == via[p]
    IN  /\ writer[p] = "pop"
        /\ IF queue[c] = <<>>
             THEN /\ writer' = [writer EXCEPT ![p] = "release"]
                  /\ UNCHANGED <<queue, wire>>
             ELSE /\ writer' = [writer EXCEPT ![p] = "write"]
                  /\ queue' = [queue EXCEPT ![c] = Tail(@)]
                  /\ wire' = IF c \in broken THEN wire
                             ELSE [wire EXCEPT ![c] = Append(@, Head(queue[c]))]
        /\ UNCHANGED <<registered, spc, channels, left, isWriting, via, broken,
                       polled, receiverVars>>

Written(p) ==
    /\ writer[p] = "write" /\ via[p] \notin broken /\ ExecutorFree(via[p])
    /\ writer' = [writer EXCEPT ![p] = "pop"]
    /\ UNCHANGED <<registered, spc, channels, left, queue, isWriting, via, afterSend>>

(* handle_channel_error: the channel is closed and no longer used.         *)
Place(c)      == CHOOSE i \in 1..Len(registered) : registered[i] = c
Unregister(c) ==
    registered' = IF c \in ToSet(registered) THEN RemoveAt(registered, Place(c)) ELSE registered

WriteFails(p) ==
    /\ writer[p] = "write" /\ via[p] \in broken /\ ExecutorFree(via[p])
    /\ writer' = [writer EXCEPT ![p] = "release"]
    /\ Unregister(via[p])
    /\ UNCHANGED <<spc, channels, left, queue, isWriting, via, afterSend>>

(* The coroutine ends and with it the WriteHandle.                         *)
Release(p) ==
    /\ writer[p] = "release"
    /\ writer' = [writer EXCEPT ![p] = "over"]
    /\ isWriting' = [isWriting EXCEPT ![via[p]] = FALSE]
    /\ UNCHANGED <<registered, spc, channels, left, queue, via, afterSend>>

WriterStep(p) == Acquire(p) \/ Pop(p) \/ Written(p) \/ WriteFails(p) \/ Release(p)

(* The sender's own receive_loop on the channel fails as well.             *)
SenderReadFails(c) ==
    /\ c \in broken /\ ExecutorFree(c)
    /\ c \in ToSet(registered)
    /\ Unregister(c)
    /\ UNCHANGED <<spc, channels, left, queue, isWriting, via, writer, afterSend>>

----------------------------------------------------------------------------
(* receive_loop of channel c                                               *)

beforeReceive == <<senderVars, broken, polled>>

Known(m) == m \in DOMAIN states

NextPacket(c) ==
    /\ reader' = [reader EXCEPT ![c] = "header"]
    /\ header' = [header EXCEPT ![c] = NoPacket]

(* Mutant: a packet is counted when its header is read, and again later.   *)
FetchAndCount(c) ==
    LET m == Head(wire[c])[1]
    IN  /\ reader[c] = "header" /\ wire[c] # <<>>
        /\ header' = [header EXCEPT ![c] = Head(wire[c])]
        /\ wire' = [wire EXCEPT ![c] = Tail(@)]
        /\ states' = [n \in DOMAIN states \cup {m} |->
                         IF n = m THEN (IF Known(m) THEN states[m] + 1 ELSE 1) ELSE states[n]]
        /\ reader' = [reader EXCEPT ![c] = "body"]
        /\ UNCHANGED <<beforeReceive, buffer, delivered>>

(* Mutant: each packet makes the state of its message anew.                *)
FetchAnew(c) ==
    LET m == Head(wire[c])[1]
    IN  /\ reader[c] = "header" /\ wire[c] # <<>>
        /\ header' = [header EXCEPT ![c] = Head(wire[c])]
        /\ wire' = [wire EXCEPT ![c] = Tail(@)]
        /\ states' = [n \in DOMAIN states \cup {m} |-> IF n = m THEN 0 ELSE states[n]]
        /\ reader' = [reader EXCEPT ![c] = "body"]
        /\ UNCHANGED <<beforeReceive, buffer, delivered>>

(* The header is read, and fetch_packet finds or makes the buffer.         *)
FetchPacket(c) ==
    LET m == Head(wire[c])[1]
    IN  /\ reader[c] = "header" /\ wire[c] # <<>>
        /\ header' = [header EXCEPT ![c] = Head(wire[c])]
        /\ wire' = [wire EXCEPT ![c] = Tail(@)]
        /\ states' = IF Known(m) THEN states
                     ELSE [n \in DOMAIN states \cup {m} |-> IF n = m THEN 0 ELSE states[n]]
        /\ reader' = [reader EXCEPT ![c] = "body"]
        /\ UNCHANGED <<beforeReceive, buffer, delivered>>

(* The body is read into its place in the buffer.                          *)
ReadBody(c) ==
    /\ reader[c] = "body"
    /\ buffer' = [buffer EXCEPT ![header[c][1]] = @ \cup {header[c][2]}]
    /\ reader' = [reader EXCEPT ![c] = "commit"]
    /\ UNCHANGED <<beforeReceive, wire, header, states, delivered>>

(* Mutant: whoever has counted a packet looks whether it can finalize.     *)
CommitLate(c) ==
    LET m == header[c][1]
    IN  /\ reader[c] = "commit"
        /\ states' = IF Known(m) THEN [states EXCEPT ![m] = @ + 1] ELSE states
        /\ reader' = [reader EXCEPT ![c] = "finalize"]
        /\ UNCHANGED <<beforeReceive, wire, header, buffer, delivered>>

(* commit_packet counts, and tells whether this packet was the last.       *)
Commit(c) ==
    LET m == header[c][1]
    IN  /\ reader[c] = "commit"
        /\ states' = IF Known(m) THEN [states EXCEPT ![m] = @ + 1] ELSE states
        /\ IF Known(m) /\ states[m] + 1 = NumPackets[m]
             THEN reader' = [reader EXCEPT ![c] = "finalize"] /\ UNCHANGED header
             ELSE NextPacket(c)
        /\ UNCHANGED <<beforeReceive, wire, buffer, delivered>>

(* finalize takes the buffer out, and the message is enqueued.             *)
Finalize(c) ==
    LET m == header[c][1]
    IN  /\ reader[c] = "finalize"
        /\ IF Known(m) /\ states[m] = NumPackets[m]
             THEN /\ states' = [n \in DOMAIN states \ {m} |-> states[n]]
                  /\ delivered' = Append(delivered, <<m, buffer[m]>>)
             ELSE UNCHANGED <<states, delivered>>
        /\ NextPacket(c)
        /\ UNCHANGED <<beforeReceive, wire, buffer>>

(* The connection is lost and what has arrived has been read: the loop     *)
(* ends at a header, or in the middle of a body.                           *)
ReadFails(c) ==
    /\ c \in broken /\ wire[c] = <<>>
    /\ reader[c] \in {"header", "body"}
    /\ reader' = [reader EXCEPT ![c] = "closed"]
    /\ header' = [header EXCEPT ![c] = NoPacket]
    /\ UNCHANGED <<beforeReceive, wire, states, buffer, delivered>>

ReceiveStep(c) ==
    FetchPacket(c) \/ ReadBody(c) \/ Commit(c) \/ Finalize(c) \/ ReadFails(c)

----------------------------------------------------------------------------
(* A connection is lost, and with it the last packets on it.               *)
Troubles == Cardinality(broken) + Cardinality(polled)

Break(c) ==
    /\ c \notin broken /\ Troubles < MaxTroubles
    /\ broken' = broken \cup {c}
    /\ \E n \in 0..Len(wire[c]) : wire' = [wire EXCEPT ![c] = SubSeq(@, 1, n)]
    /\ UNCHANGED <<senderVars, polled, receiverVars>>

(* connect_to_endpoint calls poll_one on the io_context of the channel     *)
(* until its new connection stands.  That it stops is left out.            *)
Poll(c) ==
    /\ c \notin polled /\ Troubles < MaxTroubles
    /\ polled' = polled \cup {c}
    /\ UNCHANGED <<senderVars, broken, wire, receiverVars>>

Next ==
    \/ \E m \in Messages : SendStep(m)
    \/ \E p \in Packets : WriterStep(p)
    \/ \E c \in Channels : SenderReadFails(c) \/ ReceiveStep(c) \/ Break(c) \/ Poll(c)

Spec == Init /\ [][Next]_vars

(* The io threads run what is posted to them and the sockets are served;   *)
(* no connection has to break, and no thread to connect.                   *)
FairSpec ==
    /\ Spec
    /\ \A m \in Messages : WF_vars(SendStep(m))
    /\ \A p \in Packets : WF_vars(WriterStep(p))
    /\ \A c \in Channels : WF_vars(ReceiveStep(c))

----------------------------------------------------------------------------
(* Properties.                                                             *)

TypeOK ==
    /\ registered \in Seq(Channels)
    /\ spc \in [Messages -> {"ready", "enqueue", "spawn", "sent"}]
    /\ channels \in [Messages -> Seq(Channels)]
    /\ left \in [Messages -> Nat]
    /\ queue \in [Channels -> Seq(Packets)] /\ wire \in [Channels -> Seq(Packets)]
    /\ isWriting \in [Channels -> BOOLEAN]
    /\ via \in [Packets -> 0..NumChannels]
    /\ writer \in [Packets -> {"none", "spawned", "pop", "write", "release", "over"}]
    /\ broken \subseteq Channels /\ polled \subseteq Channels
    /\ reader \in [Channels -> {"header", "body", "commit", "finalize", "closed"}]
    /\ header \in [Channels -> Packets \cup {NoPacket}]
    /\ \A m \in DOMAIN states : m \in Messages /\ states[m] \in 0..NumPackets[m]

(* The stream of a channel has one writer at a time: no packet is written  *)
(* into the middle of another, whatever threads run its io_context.        *)
OneWriter ==
    \A c \in Channels : \A p, q \in Coroutines(c, {"pop", "write", "release"}) : p = q

(* No packet is left behind in a write queue: a coroutine that found       *)
(* another one writing has gone, but then that one, or one still to come,  *)
(* takes the packet.  This needs the one thread: acquire_write of the last *)
(* coroutine could fall between the last look of the other into the queue  *)
(* and its release.                                                        *)
NoPacketStranded ==
    \A c \in Channels \ (broken \cup polled) : queue[c] # <<>> =>
        \/ Coroutines(c, {"spawned", "pop", "write"}) # {}
        \/ \E m \in Messages : spc[m] = "spawn" /\ ChannelFor(m) = c

(* commit_packet never misses its message ("Error committing packet"),     *)
(* because only the last packet of a message takes it out.                 *)
CommitFindsMessage ==
    \A c \in Channels : reader[c] \in {"body", "commit", "finalize"} => Known(header[c][1])

(* A message is enqueued at most once, and only when every packet of it    *)
(* has been copied into its buffer, over whichever channels they came, and *)
(* (AllArrive) unless a channel breaks or is polled each message that is   *)
(* sent arrives: what the message handlers rely on.                        *)
Delivery == INSTANCE MessageDelivery WITH
    Whole    <- [m \in Messages |-> 1..NumPackets[m]],
    sent     <- {m \in Messages : spc[m] # "ready"},
    arrivals <- delivered,
    lossy    <- broken # {} \/ polled # {}

ImplementsDelivery == Delivery!Spec
AllArrive == Delivery!Reliable
=============================================================================
