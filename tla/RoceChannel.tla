----------------------------- MODULE RoceChannel -----------------------------
(***************************************************************************)
(* The way of messages from one node to another over the RoCE transport    *)
(* (distributed/roce_channel.hpp, roce_communicator.hpp, roce_cq.hpp).  A  *)
(* message takes a credit of the channel and is announced by MSG_PREPARE;  *)
(* the receiver makes a buffer and answers MSG_READY_TO_WRITE; the sender  *)
(* writes into the buffer (RDMA_WRITE_WITH_IMM), and gets its credit back  *)
(* with the completion of the write.                                       *)
(*                                                                         *)
(* connect_to_endpoint makes a queue pair for the messages of the side     *)
(* that connects, so one direction is modelled.  On each side one          *)
(* coroutine (RoCECQ::run_loop) handles the completions one by one; the    *)
(* threads that send run beside it.  What the queue pairs do is external:  *)
(* reliable and in order until the connection is lost.  Payloads are       *)
(* "empty" or "full": whether the RDMA write has been there.               *)
(* A message on the way is a pair of a kind and a message.                 *)
(***************************************************************************)
EXTENDS Integers, Sequences, FiniteSets, SequencesExt

CONSTANTS
    NumMessages,  \* bound: messages to send, each by a call of send_impl
    Credits,      \* the 16 messages that may be in flight
    SqDepth,      \* ROCE_SQ_DEPTH
    RqDepth       \* ROCE_RQ_DEPTH

ASSUME RoceAssumption ==
    /\ NumMessages \in Nat
    /\ Credits \in Nat \ {0}
    /\ SqDepth \in Nat /\ RqDepth \in Nat
    /\ 2 * Credits <= SqDepth /\ 2 * Credits <= RqDepth

Messages == 1..NumMessages  \* msg_serial_id

VARIABLES
    spc,              \* where send_impl of each message is
    inflight,         \* inflight_count
    pendingSends,     \* the keys of pending_sends
    closed,           \* is_closed of the sender's channel, then unregistered
    sqp,              \* the state of the sender's queue pair
    toReceiver,       \* posted by the sender, not yet at the receiver
    unacked,          \* at the receiver, but the sender has no completion yet
    scq,              \* completions for the sender
    known,            \* whether qp_map_ of the receiver has the queue pair
    pendingReceives,  \* the keys of pending_receives
    toSender,         \* posted by the receiver, not yet at the sender
    rcq,              \* completions for the receiver
    recvBuffers,      \* receive buffers the receiver has posted
    content,          \* of the receiver's buffer for each message
    delivered,        \* what was given to enqueue_input_message
    broken,           \* the connection is lost
    missed            \* history: a message came before the receiver knew the queue pair

senderVars   == <<spc, inflight, pendingSends, closed, scq>>
receiverVars == <<known, pendingReceives, rcq, recvBuffers, delivered, missed>>
vars == <<senderVars, sqp, toReceiver, unacked, toSender, content, broken, receiverVars>>

(* The handshake is over for the connecting side, which has registered its *)
(* queue pair; the accepting side sends its ack before it registers.       *)
Init ==
    /\ spc = [m \in Messages |-> "ready"]
    /\ inflight = 0 /\ pendingSends = {} /\ closed = FALSE /\ sqp = "RTS"
    /\ toReceiver = <<>> /\ unacked = <<>> /\ scq = <<>>
    /\ known = "coming" /\ pendingReceives = {}
    /\ toSender = <<>> /\ rcq = <<>> /\ recvBuffers = RqDepth
    /\ content = [m \in Messages |-> "empty"] /\ delivered = <<>>
    /\ broken = FALSE /\ missed = FALSE

Count(queue, those) == Cardinality({i \in DOMAIN queue : queue[i] \in those})
Of(kinds) == kinds \X Messages
At(queue, kind, m) == Count(queue, {<<kind, m>>})

(* Work requests of the send queues whose completions were not polled.     *)
SenderQueued   == Len(toReceiver) + Len(unacked) + Count(scq, Of({"prepare", "write"}))
ReceiverQueued == Len(toSender) + Count(rcq, Of({"sent"}))

----------------------------------------------------------------------------
(* send_impl and enqueue_send                                              *)

elsewhere == <<closed, sqp, unacked, scq, toSender, content, broken, receiverVars>>

(* The counter numbers the calls in their order.  A channel that is closed *)
(* is made anew: the message goes another way.  If its queue pair has      *)
(* failed (ibv_query_qp) the message is dropped.  The look at the one and  *)
(* at the other are one step: a channel that closes in between is found    *)
(* closed by TakeCredit, and the message is dropped as well.               *)
LookUp(m) ==
    /\ spc[m] = "ready" /\ \A n \in 1..(m - 1) : spc[n] # "ready"
    /\ spc' = [spc EXCEPT ![m] = IF closed THEN "reconnect"
                                 ELSE IF sqp = "RTS" THEN "enqueue" ELSE "dropped"]
    /\ UNCHANGED <<inflight, pendingSends, toReceiver, elsewhere>>

(* The predicate of the wait, and the critical section after it.           *)
TakeCredit(m) ==
    /\ spc[m] = "enqueue"
    /\ IF closed
         THEN spc' = [spc EXCEPT ![m] = "dropped"] /\ UNCHANGED <<inflight, pendingSends>>
         ELSE IF inflight < Credits
         THEN /\ inflight' = inflight + 1
              /\ pendingSends' = pendingSends \cup {m}
              /\ spc' = [spc EXCEPT ![m] = "post"]
         ELSE spc' = [spc EXCEPT ![m] = "blocked"] /\ UNCHANGED <<inflight, pendingSends>>
    /\ UNCHANGED <<toReceiver, elsewhere>>

(* What a queue pair in the error state is given is flushed.               *)
PostToReceiver(w) ==
    toReceiver' = IF sqp = "RTS" THEN Append(toReceiver, w) ELSE toReceiver

(* MSG_PREPARE.  If the send queue is full the credit is given back, and   *)
(* nobody is notified.                                                     *)
PostPrepare(m) ==
    /\ spc[m] = "post"
    /\ spc' = [spc EXCEPT ![m] = "sent"]
    /\ IF SenderQueued < SqDepth
         THEN PostToReceiver(<<"prepare", m>>) /\ UNCHANGED <<inflight, pendingSends>>
         ELSE /\ inflight' = inflight - 1
              /\ pendingSends' = pendingSends \ {m}
              /\ UNCHANGED toReceiver
    /\ UNCHANGED elsewhere

SendStep(m) == LookUp(m) \/ TakeCredit(m) \/ PostPrepare(m)

----------------------------------------------------------------------------
(* The sender's completions: handle_send_wc, process_msg_ready, process_wc *)

Blocked == {m \in Messages : spc[m] = "blocked"}

NotifyOne ==
    \/ Blocked = {} /\ UNCHANGED spc
    \/ \E n \in Blocked : spc' = [spc EXCEPT ![n] = "enqueue"]

CompleteSend(kind, m) ==
    /\ scq # <<>> /\ Head(scq) = <<kind, m>>
    /\ scq' = Tail(scq)

beforeSender == <<sqp, unacked, toSender, content, broken, receiverVars>>

(* Tag 2: the buffer of the header is deleted.                             *)
PrepareSent(m) ==
    /\ CompleteSend("prepare", m)
    /\ UNCHANGED <<spc, inflight, pendingSends, closed, toReceiver, beforeSender>>

(* Mutant: nobody is told of the credit.                                   *)
WriteDoneQuietly(m) ==
    /\ CompleteSend("write", m)
    /\ IF closed THEN UNCHANGED <<inflight, pendingSends>>
       ELSE pendingSends' = pendingSends \ {m} /\ inflight' = inflight - 1
    /\ UNCHANGED <<spc, closed, toReceiver, beforeSender>>

(* Tag 1: the payload is deleted, and the credit given back.               *)
WriteDone(m) ==
    /\ CompleteSend("write", m)
    /\ IF closed THEN UNCHANGED <<spc, inflight, pendingSends>>
       ELSE pendingSends' = pendingSends \ {m} /\ inflight' = inflight - 1 /\ NotifyOne
    /\ UNCHANGED <<closed, toReceiver, beforeSender>>

(* Mutant: the payload is taken out when its write is posted.              *)
WriteAndForget(m) ==
    /\ CompleteSend("ready", m)
    /\ pendingSends' = pendingSends \ {m}
    /\ IF m \in pendingSends /\ ~closed /\ SenderQueued < SqDepth
         THEN PostToReceiver(<<"write", m>>) ELSE UNCHANGED toReceiver
    /\ UNCHANGED <<spc, inflight, closed, beforeSender>>

(* MSG_READY_TO_WRITE: the payload is written, and the receiver told of it *)
(* by the immediate value.  If that cannot be posted, the credit is lost.  *)
Write(m) ==
    /\ CompleteSend("ready", m)
    /\ IF m \in pendingSends /\ ~closed /\ SenderQueued < SqDepth
         THEN PostToReceiver(<<"write", m>>) ELSE UNCHANGED toReceiver
    /\ UNCHANGED <<spc, inflight, pendingSends, closed, beforeSender>>

(* The first completion with an error closes the channel, wakes everybody  *)
(* who waits for a credit, deletes the payloads and unregisters.           *)
SenderClose(m) ==
    /\ CompleteSend("error", m)
    /\ closed' = TRUE /\ pendingSends' = {}
    /\ spc' = [n \in Messages |-> IF spc[n] = "blocked" THEN "enqueue" ELSE spc[n]]
    /\ UNCHANGED <<inflight, toReceiver, beforeSender>>

SenderPoll == \E m \in Messages : PrepareSent(m) \/ WriteDone(m) \/ Write(m) \/ SenderClose(m)

----------------------------------------------------------------------------
(* The receiver: handle_new_channel, process_msg_prepare, process_rdma_imm *)

beforeReceiver == <<senderVars, sqp, toReceiver, unacked, content, broken>>

Register ==
    /\ known = "coming"
    /\ known' = "registered"
    /\ UNCHANGED <<pendingReceives, toSender, rcq, recvBuffers, delivered, missed, beforeReceiver>>

CompleteReceive(kind, m) ==
    /\ rcq # <<>> /\ Head(rcq) = <<kind, m>>
    /\ rcq' = Tail(rcq)

(* "Received packet from unknown QP": the completion is dropped, and its   *)
(* receive buffer is not posted again.                                     *)
UnknownQP(m) ==
    /\ known # "registered"
    /\ \E kind \in {"prepare", "write"} : CompleteReceive(kind, m)
    /\ missed' = TRUE
    /\ UNCHANGED <<known, pendingReceives, toSender, recvBuffers, delivered, beforeReceiver>>

(* Mutant: the receive buffer is not posted again.                         *)
PrepareAndKeep(m) ==
    /\ known = "registered" /\ CompleteReceive("prepare", m)
    /\ IF ReceiverQueued < SqDepth
         THEN /\ pendingReceives' = pendingReceives \cup {m}
              /\ toSender' = Append(toSender, <<"ready", m>>)
         ELSE UNCHANGED <<pendingReceives, toSender>>
    /\ UNCHANGED <<known, recvBuffers, delivered, missed, beforeReceiver>>

(* Mutant: the sender is not answered.                                     *)
PrepareInSilence(m) ==
    /\ known = "registered" /\ CompleteReceive("prepare", m)
    /\ pendingReceives' = pendingReceives \cup {m}
    /\ recvBuffers' = recvBuffers + 1
    /\ UNCHANGED <<known, toSender, delivered, missed, beforeReceiver>>

(* Mutant: the message is passed up with its announcement.                 *)
PrepareAndPassUp(m) ==
    /\ known = "registered" /\ CompleteReceive("prepare", m)
    /\ pendingReceives' = pendingReceives \cup {m}
    /\ toSender' = Append(toSender, <<"ready", m>>)
    /\ delivered' = Append(delivered, <<m, content[m]>>)
    /\ recvBuffers' = recvBuffers + 1
    /\ UNCHANGED <<known, missed, beforeReceiver>>

(* A buffer is made and the sender told of it.  If that cannot be posted,  *)
(* the buffer is forgotten, and the sender waits for ever.                 *)
Prepare(m) ==
    /\ known = "registered" /\ CompleteReceive("prepare", m)
    /\ IF ReceiverQueued < SqDepth
         THEN /\ pendingReceives' = pendingReceives \cup {m}
              /\ toSender' = Append(toSender, <<"ready", m>>)
         ELSE UNCHANGED <<pendingReceives, toSender>>
    /\ recvBuffers' = recvBuffers + 1
    /\ UNCHANGED <<known, delivered, missed, beforeReceiver>>

(* The immediate value: the buffer is full, and passed up.                 *)
PassUp(m) ==
    /\ known = "registered" /\ CompleteReceive("write", m)
    /\ pendingReceives' = pendingReceives \ {m}
    /\ delivered' = IF m \in pendingReceives
                      THEN Append(delivered, <<m, content[m]>>) ELSE delivered
    /\ recvBuffers' = recvBuffers + 1
    /\ UNCHANGED <<known, toSender, missed, beforeReceiver>>

ReadySent(m) ==
    /\ CompleteReceive("sent", m)
    /\ UNCHANGED <<known, pendingReceives, toSender, recvBuffers, delivered, missed, beforeReceiver>>

ReceiverClose(m) ==
    /\ CompleteReceive("error", m)
    /\ IF known = "registered" THEN known' = "gone" /\ pendingReceives' = {}
       ELSE UNCHANGED <<known, pendingReceives>>
    /\ UNCHANGED <<toSender, recvBuffers, delivered, missed, beforeReceiver>>

ReceiverPoll ==
    \E m \in Messages :
        UnknownQP(m) \/ Prepare(m) \/ PassUp(m) \/ ReadySent(m) \/ ReceiverClose(m)

----------------------------------------------------------------------------
(* The queue pairs.                                                        *)

(* A send or a write with an immediate value takes a receive buffer; while *)
(* there is none the hardware tries again (rnr_retry = 7).                 *)
Transfer ==
    /\ ~broken /\ toReceiver # <<>> /\ recvBuffers > 0
    /\ LET w == Head(toReceiver)
       IN  /\ rcq' = Append(rcq, w)
           /\ content' = IF w[1] = "write" THEN [content EXCEPT ![w[2]] = "full"] ELSE content
           /\ unacked' = Append(unacked, w)
    /\ toReceiver' = Tail(toReceiver)
    /\ recvBuffers' = recvBuffers - 1
    /\ UNCHANGED <<senderVars, sqp, toSender, broken, known, pendingReceives, delivered, missed>>

Acknowledge ==
    /\ ~broken /\ unacked # <<>>
    /\ scq' = Append(scq, Head(unacked))
    /\ unacked' = Tail(unacked)
    /\ UNCHANGED <<spc, inflight, pendingSends, closed, sqp, toReceiver, toSender, content,
                   broken, receiverVars>>

(* The other direction; its acknowledgement is not told apart.             *)
TransferBack ==
    /\ ~broken /\ toSender # <<>>
    /\ LET m == Head(toSender)[2]
       IN  scq' = Append(scq, <<"ready", m>>) /\ rcq' = Append(rcq, <<"sent", m>>)
    /\ toSender' = Tail(toSender)
    /\ UNCHANGED <<spc, inflight, pendingSends, closed, sqp, toReceiver, unacked, content,
                   broken, known, pendingReceives, recvBuffers, delivered, missed>>

(* The connection is lost, or the other node is.                           *)
Break ==
    /\ ~broken
    /\ broken' = TRUE
    /\ UNCHANGED <<senderVars, sqp, toReceiver, unacked, toSender, content, receiverVars>>

(* A side notices only by what it has posted itself and is not answered:   *)
(* the retries run out, and everything is flushed.  One completion stands  *)
(* for all of them, because the others find no channel any more.           *)
SenderFails ==
    /\ broken /\ sqp = "RTS" /\ toReceiver \o unacked # <<>>
    /\ sqp' = "ERR"
    /\ scq' = Append(scq, <<"error", Head(toReceiver \o unacked)[2]>>)
    /\ toReceiver' = <<>> /\ unacked' = <<>>
    /\ UNCHANGED <<spc, inflight, pendingSends, closed, toSender, content, broken, receiverVars>>

ReceiverFails ==
    /\ broken /\ toSender # <<>>
    /\ rcq' = Append(rcq, <<"error", Head(toSender)[2]>>)
    /\ toSender' = <<>>
    /\ UNCHANGED <<senderVars, sqp, toReceiver, unacked, content, broken, known,
                   pendingReceives, recvBuffers, delivered, missed>>

Hardware == Transfer \/ Acknowledge \/ TransferBack \/ SenderFails \/ ReceiverFails

Next ==
    \/ \E m \in Messages : SendStep(m)
    \/ SenderPoll \/ ReceiverPoll \/ Register
    \/ Hardware \/ Break

Spec == Init /\ [][Next]_vars

(* The sending threads run, completions are polled by the loops, and what  *)
(* is posted is done; nothing forces a loss.                               *)
FairSpec ==
    /\ Spec
    /\ \A m \in Messages : WF_vars(SendStep(m))
    /\ WF_vars(SenderPoll) /\ WF_vars(ReceiverPoll) /\ WF_vars(Register)
    /\ WF_vars(Transfer) /\ WF_vars(Acknowledge) /\ WF_vars(TransferBack)
    /\ WF_vars(SenderFails) /\ WF_vars(ReceiverFails)

----------------------------------------------------------------------------
(* Properties.                                                             *)

Intact == ~broken /\ ~missed

(* Every place where the step stands that a message in flight needs next.  *)
InQueues(m) ==
    At(toReceiver, "prepare", m) + At(toReceiver, "write", m)
      + At(rcq, "prepare", m) + At(toSender, "ready", m)
      + At(scq, "ready", m) + At(scq, "write", m) + At(unacked, "write", m)
Tokens(m) == InQueues(m) + (IF spc[m] = "post" THEN 1 ELSE 0)

(* A credit that is taken comes back: each message that holds one has      *)
(* exactly one next step on its way, in a queue or in a thread, and no     *)
(* other message has any.  A connection that is lost, or a message that    *)
(* overtook the receiver's registration, is outside of this.               *)
CreditsComeBack ==
    Intact => /\ inflight = Cardinality(pendingSends)
              /\ \A m \in Messages : Tokens(m) = IF m \in pendingSends THEN 1 ELSE 0

(* Nobody waits for a credit while there is one, unless somebody has been  *)
(* woken to take it, and nobody waits on a closed channel.                 *)
NoSenderStranded ==
    Blocked # {} => /\ ~closed
                    /\ \/ inflight = Credits
                       \/ \E m \in Messages : spc[m] = "enqueue"

(* The depths of the queues go with the credits: two requests per message  *)
(* always find room, so no post fails for want of it, and the receiver is  *)
(* never without a buffer when something comes.                            *)
QueuesSuffice ==
    Intact => /\ SenderQueued + Cardinality({m \in Messages : spc[m] = "post"})
                 + Count(scq, Of({"ready"})) <= SqDepth
              /\ ReceiverQueued + Count(rcq, Of({"prepare"})) <= SqDepth
              /\ toReceiver # <<>> => recvBuffers > 0

(* A message is passed up at most once, and only after the write into its  *)
(* buffer, and (AllArrive) it is passed up, unless the connection is lost  *)
(* or the receiver was late to register.                                   *)
Delivery == INSTANCE MessageDelivery WITH
    Whole    <- [m \in Messages |-> "full"],
    sent     <- {m \in Messages : spc[m] # "ready"},
    arrivals <- delivered,
    lossy    <- broken \/ missed

ImplementsDelivery == Delivery!Spec
AllArrive == Delivery!Reliable
=============================================================================
