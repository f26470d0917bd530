--------------------------- MODULE BatchPrefetcher ---------------------------
(***************************************************************************)
(* The prefetcher of the training loops (data_loading/                     *)
(* batch_prefetcher.hpp): a producer thread reads batches ahead into a     *)
(* bounded queue, a training thread takes them, and both wait on condition *)
(* variables of one mutex.  What a thread does under the mutex is one step *)
(* and so is each notification that follows it.                            *)
(*                                                                         *)
(* The training thread is that of train_semi_async_step (distributed/      *)
(* train.hpp) and of the epoch loops: it calls next until there is no      *)
(* batch, an exception or no need for more, then stops, shuffles and       *)
(* resets the dataset, and starts again.  A batch is <<pass, number>>.     *)
(* `received' is history.                                                  *)
(***************************************************************************)
EXTENDS Naturals, Sequences

CONSTANTS
    PrefetchDepth,  \* the depth asked for
    Batches,        \* batches of one pass over the dataset
    Passes          \* bound: passes over the dataset

ASSUME PrefetcherAssumption ==
    PrefetchDepth \in Nat /\ Batches \in Nat /\ Passes \in Nat

VARIABLES
    queue, stopRequested, finished, error,  \* queue_, stop_requested_,
                                            \* finished_, error_ is set
    producer,   \* where producer_loop is, "none" without a thread
    held,       \* the batch in its hands, number 0 when it is not valid
    pass, read, \* the dataset: the pass since reset, and its batches read
    consumer,   \* where the training thread is
    then,       \* what follows its stop, and "start" outside of one
    received    \* batches it got in this pass

members  == <<queue, stopRequested, finished, error>>
dataset  == <<pass, read>>
vars     == <<members, dataset, producer, held, consumer, then, received>>

Depth == IF PrefetchDepth > 0 THEN PrefetchDepth ELSE 1

Init ==
    /\ queue = <<>> /\ stopRequested = FALSE /\ finished = FALSE /\ error = FALSE
    /\ producer = "none" /\ held = <<0, 0>>
    /\ pass = 0 /\ read = 0 /\ received = <<>>
    /\ consumer = "ended" /\ then = "ended"

----------------------------------------------------------------------------
(* producer_loop                                                           *)

(* cv_not_empty_ reaches the training thread if it waits in next.          *)
WakeConsumer == consumer' = IF consumer = "blocked" THEN "next" ELSE consumer

HasSlot == Len(queue) < Depth

Wait ==
    /\ producer = "test"
    /\ ~stopRequested /\ ~HasSlot
    /\ producer' = "blocked"
    /\ UNCHANGED <<members, dataset, held, consumer, then, received>>

Stopped ==
    /\ producer = "test"
    /\ stopRequested
    /\ finished' = TRUE /\ producer' = "done"
    /\ WakeConsumer
    /\ UNCHANGED <<queue, stopRequested, error, dataset, held, then, received>>

Proceed ==
    /\ producer = "test"
    /\ ~stopRequested /\ HasSlot
    /\ producer' = "fetch"
    /\ UNCHANGED <<members, dataset, held, consumer, then, received>>

(* get_batch and the clones, outside of the mutex.                         *)
GetBatch ==
    /\ producer = "fetch"
    /\ read < Batches
    /\ read' = read + 1
    /\ held' = <<pass, read + 1>> /\ producer' = "push"
    /\ UNCHANGED <<members, pass, consumer, then, received>>

GetNothing ==
    /\ producer = "fetch"
    /\ read = Batches
    /\ held' = <<pass, 0>> /\ producer' = "push"
    /\ UNCHANGED <<members, dataset, consumer, then, received>>

(* get_batch throws, or a clone after it has read a batch.                 *)
Throw ==
    /\ producer = "fetch"
    /\ producer' = "caught"
    /\ read' \in {read, read + 1} \cap 0..Batches
    /\ UNCHANGED <<members, pass, held, consumer, then, received>>

Valid == held[2] > 0

(* Mutant: the batch goes to the front, where next takes it from.          *)
PushFront ==
    /\ producer = "push" /\ Valid
    /\ queue' = <<held>> \o queue
    /\ producer' = "notify"
    /\ UNCHANGED <<stopRequested, finished, error, dataset, held, consumer, then, received>>

Push ==
    /\ producer = "push" /\ Valid
    /\ queue' = Append(queue, held)
    /\ producer' = "notify"
    /\ UNCHANGED <<stopRequested, finished, error, dataset, held, consumer, then, received>>

(* Mutant: the end of the dataset is not noted for a later next.           *)
EndOfDatasetUnnoted ==
    /\ producer = "push" /\ ~Valid
    /\ producer' = "done"
    /\ WakeConsumer
    /\ UNCHANGED <<members, dataset, held, then, received>>

EndOfDataset ==
    /\ producer = "push" /\ ~Valid
    /\ finished' = TRUE /\ producer' = "done"
    /\ WakeConsumer
    /\ UNCHANGED <<queue, stopRequested, error, dataset, held, then, received>>

Catch ==
    /\ producer = "caught"
    /\ error' = TRUE /\ finished' = TRUE
    /\ producer' = "notify error"
    /\ UNCHANGED <<queue, stopRequested, dataset, held, consumer, then, received>>

NotifyNotEmpty ==
    /\ \/ producer = "notify" /\ producer' = "test"
       \/ producer = "notify error" /\ producer' = "done"
    /\ WakeConsumer
    /\ UNCHANGED <<members, dataset, held, then, received>>

ProducerStep ==
    \/ Wait \/ Stopped \/ Proceed \/ GetBatch \/ GetNothing \/ Throw
    \/ Push \/ EndOfDataset \/ Catch \/ NotifyNotEmpty

----------------------------------------------------------------------------
(* next                                                                    *)

WakeProducer == producer' = IF producer = "blocked" THEN "test" ELSE producer

CallNext ==
    /\ consumer = "idle"
    /\ consumer' = "next"
    /\ UNCHANGED <<members, dataset, producer, held, then, received>>

(* Mutant: what is queued when the producer is done is given up.           *)
NothingLeftWhenFinished == finished \/ (stopRequested /\ queue = <<>>)

(* The wait is over and there is nothing in the queue.                     *)
NothingLeft == (stopRequested \/ finished) /\ queue = <<>>

WaitForBatch ==
    /\ consumer = "next"
    /\ ~error /\ ~NothingLeft /\ queue = <<>>
    /\ consumer' = "blocked"
    /\ UNCHANGED <<members, dataset, producer, held, then, received>>

(* The exception ends the training, and the destructor stops the producer. *)
Rethrow ==
    /\ consumer = "next"
    /\ error
    /\ consumer' = "stop" /\ then' = "failed"
    /\ UNCHANGED <<members, dataset, producer, held, received>>

TakeBatch ==
    /\ consumer = "next"
    /\ ~error /\ ~NothingLeft /\ queue # <<>>
    /\ queue' = Tail(queue)
    /\ received' = Append(received, Head(queue))
    /\ consumer' = "notify"
    /\ UNCHANGED <<stopRequested, finished, error, dataset, producer, held, then>>

(* next returns false, and the loop ends its pass.                         *)
NoMore ==
    /\ consumer = "next"
    /\ ~error /\ NothingLeft
    /\ consumer' = "stop" /\ then' = "ended"
    /\ UNCHANGED <<members, dataset, producer, held, received>>

NotifyNotFull ==
    /\ consumer = "notify"
    /\ consumer' = "idle"
    /\ WakeProducer
    /\ UNCHANGED <<members, dataset, held, then, received>>

----------------------------------------------------------------------------
(* stop and start                                                          *)

(* The loop has had the steps it wants, and the destructor runs.           *)
Leave ==
    /\ consumer = "idle"
    /\ consumer' = "stop" /\ then' = "left"
    /\ UNCHANGED <<members, dataset, producer, held, received>>

RequestStop ==
    /\ consumer = "stop"
    /\ stopRequested' = TRUE
    /\ consumer' = "notify stop"
    /\ UNCHANGED <<queue, finished, error, dataset, producer, held, then, received>>

(* Mutant: only cv_not_empty_ is notified.                                 *)
NotifyStopOneSided ==
    /\ consumer = "notify stop"
    /\ consumer' = "join"
    /\ UNCHANGED <<members, dataset, producer, held, then, received>>

(* Nobody but the caller could wait on cv_not_empty_.                      *)
NotifyStop ==
    /\ consumer = "notify stop"
    /\ consumer' = "join"
    /\ WakeProducer
    /\ UNCHANGED <<members, dataset, held, then, received>>

(* Mutant: a thread that has noted the end is taken for one that is over.  *)
JoinWhenFinished ==
    /\ consumer = "join"
    /\ producer \in {"none", "done"} \/ finished
    /\ consumer' = "clear"
    /\ producer' = IF producer = "done" THEN "none" ELSE producer
    /\ UNCHANGED <<members, dataset, held, then, received>>

(* There is a thread to join unless there is none.                         *)
Join ==
    /\ consumer = "join"
    /\ producer \in {"none", "done"}
    /\ consumer' = "clear"
    /\ producer' = "none"
    /\ UNCHANGED <<members, dataset, held, then, received>>

ClearQueue ==
    /\ consumer = "clear"
    /\ queue' = <<>> /\ finished' = TRUE
    /\ consumer' = then
    /\ UNCHANGED <<stopRequested, error, dataset, producer, held, then, received>>

(* shuffle, reset and start, which begins with a stop.                     *)
ResetDataset ==
    /\ consumer \in {"ended", "left"}
    /\ pass < Passes
    /\ pass' = pass + 1 /\ read' = 0 /\ received' = <<>>
    /\ consumer' = "stop" /\ then' = "start"
    /\ UNCHANGED <<members, producer, held>>

Start ==
    /\ consumer = "start"
    /\ stopRequested' = FALSE /\ finished' = FALSE /\ error' = FALSE
    /\ queue' = <<>>
    /\ producer' = "test" /\ consumer' = "idle"
    /\ UNCHANGED <<dataset, held, then, received>>

(* What the training thread does once it has called an operation.          *)
InCall ==
    \/ WaitForBatch \/ Rethrow \/ TakeBatch \/ NoMore \/ NotifyNotFull
    \/ RequestStop \/ NotifyStop \/ Join \/ ClearQueue \/ Start

(* A wait may end without a notification.                                  *)
SpuriousWakeup ==
    \/ /\ consumer = "blocked"
       /\ consumer' = "next"
       /\ UNCHANGED <<members, dataset, producer, held, then, received>>
    \/ /\ producer = "blocked"
       /\ producer' = "test"
       /\ UNCHANGED <<members, dataset, consumer, held, then, received>>

Next ==
    \/ ProducerStep \/ InCall
    \/ CallNext \/ Leave \/ ResetDataset
    \/ SpuriousWakeup

Spec == Init /\ [][Next]_vars

(* The threads run; whether the loop calls next again is its choice.       *)
FairSpec == Spec /\ WF_vars(ProducerStep) /\ WF_vars(InCall)

----------------------------------------------------------------------------
(* Properties.                                                             *)

BatchType == [1..2 -> Nat]

(* The queue never exceeds prefetch_depth (:103), and the threads are in   *)
(* places that exist.                                                      *)
TypeOK ==
    /\ queue \in Seq(BatchType) /\ Len(queue) <= Depth
    /\ stopRequested \in BOOLEAN /\ finished \in BOOLEAN /\ error \in BOOLEAN
    /\ producer \in {"none", "test", "blocked", "fetch", "push", "notify",
                     "caught", "notify error", "done"}
    /\ held \in BatchType
    /\ pass \in 0..Passes /\ read \in 0..Batches
    /\ consumer \in {"idle", "next", "blocked", "notify", "stop", "notify stop", "join",
                     "clear", "start", "ended", "left", "failed"}
    /\ then \in {"start", "ended", "left", "failed"}
    /\ received \in Seq(BatchType)

(* Prefetching keeps the order and loses nothing: what the training thread *)
(* got, what is queued for it and what the producer holds are the batches  *)
(* read in this pass, each once, in the order of the dataset (only a batch *)
(* whose clone fails, at :116, is lost).                                   *)
InHand  == IF producer = "push" /\ Valid THEN <<held>> ELSE <<>>
Kept    == received \o queue \o InHand
Failing == error \/ producer = "caught"
Reading == then = "start" /\ consumer \in {"idle", "next", "blocked", "notify"}

OrderKept ==
    Reading =>
        /\ Kept = [n \in 1..Len(Kept) |-> <<pass, n>>]
        /\ Failing \/ Len(Kept) = read

(* The dataset is shuffled and reset by the training thread alone: stop    *)
(* (:53) returns only when the producer has left get_batch, and leaves     *)
(* nothing of the old pass behind.                                         *)
DatasetAlone ==
    consumer \in {"start", "ended", "left", "failed"} =>
        producer = "none" /\ queue = <<>>

(* Reading through the prefetcher is reading the dataset: next returns     *)
(* false only when every batch of the pass has been handed out.            *)
Status == IF then = "start" THEN "reading" ELSE then
Plain  == INSTANCE DatasetReading WITH status <- Status, taken <- Len(received)
ImplementsReading == Plain!Spec

(* "It does not change dataset semantics; it only moves get_batch calls to *)
(* one background producer thread" (batch_prefetcher.hpp:5): an exception  *)
(* of get_batch reaches the caller after the batches that were read before *)
(* it, as it does without a prefetcher.                                    *)
ErrorInItsPlace == consumer = "stop" /\ then = "failed" => queue = <<>>

(* A call of next (:72) returns, whatever the producer does meanwhile, and *)
(* so does stop (:53), even when the producer waits for a slot.            *)
CallsReturn ==
    /\ consumer = "next" ~> consumer \notin {"next", "blocked"}
    /\ consumer = "stop" ~> consumer \in {"idle", "ended", "left", "failed"}
=============================================================================
