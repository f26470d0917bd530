------------------------- MODULE BatchPrefetcherProofs -------------------------
(***************************************************************************)
(* Proofs about BatchPrefetcher, for any depth of the queue, any number of *)
(* batches and any number of passes: the queue stays within its depth, the *)
(* dataset is reset by the training thread alone, batches keep their       *)
(* order, and reading through the prefetcher implements DatasetReading.    *)
(***************************************************************************)
EXTENDS BatchPrefetcher, SequenceTheorems, TLAPS

(* The producer has tested the depth before it reads, and nobody else      *)
(* fills the queue before it pushes.                                       *)
Room == producer \in {"fetch", "push", "caught"} => Len(queue) < Depth

(* stop goes on from the join only without a thread, and clears the queue. *)
Joined == consumer = "clear" => producer = "none"

(* A stop that start begins with finds nothing to stop.                    *)
Fresh ==
    then = "start" /\ consumer \in {"stop", "notify stop", "join", "clear", "start"} =>
        producer = "none" /\ queue = <<>> /\ received = <<>> /\ read = 0

(* An exception ends the producer.                                         *)
Ending == error => producer \in {"notify error", "done", "none"}

(* OrderKept, batch by batch.                                              *)
Ahead == Len(received) + Len(queue)

Ordered ==
    /\ \A n \in 1..Len(received) : received[n] = <<pass, n>>
    /\ \A n \in 1..Len(queue) : queue[n] = <<pass, Len(received) + n>>
    /\ producer = "push" => held[1] = pass /\ held[2] \in {0, Ahead + 1}
    /\ Failing \/ read = Ahead + (IF producer = "push" /\ Valid THEN 1 ELSE 0)

IInv ==
    /\ TypeOK /\ Room /\ Joined /\ DatasetAlone /\ Fresh /\ Ending
    /\ Reading => Ordered

----------------------------------------------------------------------------
LEMMA DepthIsPositive == Depth \in Nat \ {0}
BY PrefetcherAssumption DEF Depth

LEMMA PairIsBatch ==
    ASSUME NEW a \in Nat, NEW b \in Nat
    PROVE  <<a, b>> \in BatchType
BY DEF BatchType

LEMMA BatchIsPair ==
    ASSUME NEW b \in BatchType
    PROVE  b = <<b[1], b[2]>> /\ b[1] \in Nat /\ b[2] \in Nat
BY DEF BatchType

(* TypeOK in two parts: where the threads are, and the batches.            *)
Places ==
    /\ stopRequested \in BOOLEAN /\ finished \in BOOLEAN /\ error \in BOOLEAN
    /\ producer \in {"none", "test", "blocked", "fetch", "push", "notify",
                     "caught", "notify error", "done"}
    /\ consumer \in {"idle", "next", "blocked", "notify", "stop", "notify stop", "join",
                     "clear", "start", "ended", "left", "failed"}
    /\ then \in {"start", "ended", "left", "failed"}

Data ==
    /\ queue \in Seq(BatchType) /\ Len(queue) <= Depth
    /\ held \in BatchType
    /\ pass \in 0..Passes /\ read \in 0..Batches
    /\ received \in Seq(BatchType)

LEMMA TypeParts == TypeOK <=> Places /\ Data
BY DEF TypeOK, Places, Data

LEMMA TypeInit == Init => TypeOK
<1> SUFFICES ASSUME Init PROVE Places /\ Data
  BY TypeParts
<1>1. Places
  BY DEF Init, Places
<1>2. <<>> \in Seq(BatchType) /\ Len(<<>>) = 0
  BY EmptySeq
<1>3. <<0, 0>> \in BatchType
  BY PairIsBatch
<1>4. 0 \in 0..Passes /\ 0 \in 0..Batches /\ 0 <= Depth
  BY DepthIsPositive, PrefetcherAssumption
<1>5. Data
  BY <1>2, <1>3, <1>4 DEF Init, Data
<1> QED
  BY <1>1, <1>5

(* Every step keeps the threads in places that exist.                      *)
LEMMA PlacesKept == Places /\ [Next]_vars => Places'
<1> SUFFICES ASSUME Places, [Next]_vars PROVE Places'
  OBVIOUS
<1> USE DEF Places, members, dataset, WakeConsumer, WakeProducer
<1>1. CASE ProducerStep
  BY <1>1 DEF ProducerStep, Wait, Stopped, Proceed, GetBatch, GetNothing, Throw, Push,
              EndOfDataset, Catch, NotifyNotEmpty
<1>2. CASE InCall
  BY <1>2 DEF InCall, WaitForBatch, Rethrow, TakeBatch, NoMore, NotifyNotFull,
              RequestStop, NotifyStop, Join, ClearQueue, Start
<1>3. CASE CallNext \/ Leave \/ ResetDataset \/ SpuriousWakeup
  BY <1>3 DEF CallNext, Leave, ResetDataset, SpuriousWakeup
<1>4. CASE UNCHANGED vars
  BY <1>4 DEF vars
<1> QED
  BY <1>1, <1>2, <1>3, <1>4 DEF Next

(* The steps that leave the batches alone.                                 *)
Quiet ==
    /\ UNCHANGED <<queue, pass, read, held, received>>
    /\ producer' = "push" => producer = "push"
    /\ producer = "push" /\ Valid => producer' = "push"
    /\ Failing => Failing'

LEMMA QuietSteps ==
    [Next]_vars =>
        \/ GetBatch \/ GetNothing \/ Throw \/ Push
        \/ TakeBatch \/ ClearQueue \/ ResetDataset \/ Start
        \/ Quiet
<1> SUFFICES ASSUME [Next]_vars PROVE
        \/ GetBatch \/ GetNothing \/ Throw \/ Push
        \/ TakeBatch \/ ClearQueue \/ ResetDataset \/ Start
        \/ Quiet
  OBVIOUS
<1> USE DEF Quiet, Failing, members, dataset, WakeProducer
<1>1. CASE ProducerStep
  BY <1>1 DEF ProducerStep, Wait, Stopped, Proceed, EndOfDataset, Catch, NotifyNotEmpty
<1>2. CASE InCall
  BY <1>2 DEF InCall, WaitForBatch, Rethrow, NoMore, NotifyNotFull, RequestStop,
              NotifyStop, Join
<1>3. CASE CallNext \/ Leave \/ ResetDataset \/ SpuriousWakeup
  BY <1>3 DEF CallNext, Leave, SpuriousWakeup
<1>4. CASE UNCHANGED vars
  BY <1>4 DEF vars
<1> QED
  BY <1>1, <1>2, <1>3, <1>4 DEF Next

LEMMA DataKept == TypeOK /\ Room /\ [Next]_vars => Data'
<1> SUFFICES ASSUME Data, Room, [Next]_vars PROVE Data'
  BY TypeParts
<1> USE DEF members, dataset
<1>1. CASE Quiet
  BY <1>1 DEF Quiet, Data, Depth
<1>2. CASE GetBatch
  <2>1. pass \in Nat /\ read + 1 \in Nat /\ read + 1 \in 0..Batches
    BY <1>2, PrefetcherAssumption DEF GetBatch, Data
  <2>2. <<pass, read + 1>> \in BatchType
    BY <2>1, PairIsBatch
  <2>3. held' \in BatchType
    BY <1>2, <2>2 DEF GetBatch
  <2> QED
    BY <1>2, <2>1, <2>3 DEF GetBatch, Data, Depth
<1>3. CASE GetNothing
  <2>1. <<pass, 0>> \in BatchType
    BY PairIsBatch, PrefetcherAssumption DEF Data
  <2>2. held' \in BatchType
    BY <1>3, <2>1 DEF GetNothing
  <2> QED
    BY <1>3, <2>2 DEF GetNothing, Data, Depth
<1>4. CASE Throw
  BY <1>4 DEF Throw, Data, Depth
<1>5. CASE Push
  <2>1. Append(queue, held) \in Seq(BatchType) /\ Len(Append(queue, held)) = Len(queue) + 1
    BY AppendProperties DEF Data
  <2>2. Len(queue) \in Nat /\ Len(queue) < Depth
    BY <1>5, LenProperties DEF Push, Room, Data
  <2>3. queue' \in Seq(BatchType) /\ Len(queue') <= Depth
    BY <1>5, <2>1, <2>2, DepthIsPositive DEF Push
  <2> QED
    BY <1>5, <2>3 DEF Push, Data, Depth
<1>6. CASE TakeBatch
  <2>1. Tail(queue) \in Seq(BatchType) /\ Len(Tail(queue)) = Len(queue) - 1
    BY <1>6, HeadTailProperties DEF TakeBatch, Data
  <2>2. Len(queue) \in Nat /\ Head(queue) \in BatchType
    BY <1>6, LenProperties, HeadTailProperties DEF TakeBatch, Data
  <2>3. queue' \in Seq(BatchType) /\ Len(queue') <= Depth
    BY <1>6, <2>1, <2>2, DepthIsPositive DEF TakeBatch, Data
  <2>4. Append(received, Head(queue)) \in Seq(BatchType)
    BY <2>2, AppendProperties DEF Data
  <2> QED
    BY <1>6, <2>3, <2>4 DEF TakeBatch, Data, Depth
<1>7. CASE ClearQueue \/ Start
  <2>1. queue' = <<>> /\ UNCHANGED <<pass, read, held, received>>
    BY <1>7 DEF ClearQueue, Start
  <2>2. queue' \in Seq(BatchType) /\ Len(queue') <= Depth
    BY <2>1, EmptySeq, DepthIsPositive
  <2> QED
    BY <2>1, <2>2 DEF Data, Depth
<1>8. CASE ResetDataset
  <2>1. received' \in Seq(BatchType)
    BY <1>8, EmptySeq DEF ResetDataset
  <2>2. pass' \in 0..Passes /\ read' \in 0..Batches
    BY <1>8, PrefetcherAssumption DEF ResetDataset, Data
  <2> QED
    BY <1>8, <2>1, <2>2 DEF ResetDataset, Data, Depth
<1> QED
  BY <1>1, <1>2, <1>3, <1>4, <1>5, <1>6, <1>7, <1>8, QuietSteps

----------------------------------------------------------------------------
(* Who may touch the queue and the dataset when.                           *)

LEMMA RoomKept == TypeOK /\ Room /\ [Next]_vars => Room'
<1> SUFFICES ASSUME TypeOK, Room, [Next]_vars PROVE Room'
  OBVIOUS
<1> USE DEF Room, members, dataset, WakeConsumer, WakeProducer
<1>1. CASE ProducerStep
  BY <1>1 DEF ProducerStep, Wait, Stopped, Proceed, GetBatch, GetNothing, Throw, Push,
              EndOfDataset, Catch, NotifyNotEmpty, HasSlot
<1>2. CASE TakeBatch
  <2>1. Len(Tail(queue)) = Len(queue) - 1 /\ Len(queue) \in Nat
    BY <1>2, LenProperties, HeadTailProperties DEF TakeBatch, TypeOK
  <2> QED
    BY <1>2, <2>1, DepthIsPositive DEF TakeBatch
<1>3. CASE ClearQueue \/ Start
  <2>1. queue' = <<>> /\ Len(<<>>) = 0
    BY <1>3, EmptySeq DEF ClearQueue, Start
  <2> QED
    BY <2>1, DepthIsPositive
<1>4. CASE InCall /\ ~TakeBatch /\ ~ClearQueue /\ ~Start
  BY <1>4 DEF InCall, WaitForBatch, Rethrow, NoMore, NotifyNotFull, RequestStop,
              NotifyStop, Join
<1>5. CASE CallNext \/ Leave \/ ResetDataset \/ SpuriousWakeup
  BY <1>5 DEF CallNext, Leave, ResetDataset, SpuriousWakeup
<1>6. CASE UNCHANGED vars
  BY <1>6 DEF vars
<1> QED
  BY <1>1, <1>2, <1>3, <1>4, <1>5, <1>6 DEF Next

Alone == Joined /\ DatasetAlone /\ Fresh

LEMMA AloneKept == Places /\ Alone /\ [Next]_vars => Alone'
<1> SUFFICES ASSUME Places, Alone, [Next]_vars PROVE Alone'
  OBVIOUS
<1> USE DEF Places, Alone, Joined, DatasetAlone, Fresh, members, dataset, WakeConsumer,
            WakeProducer
<1>1. CASE ProducerStep
  BY <1>1 DEF ProducerStep, Wait, Stopped, Proceed, GetBatch, GetNothing, Throw, Push,
              EndOfDataset, Catch, NotifyNotEmpty
<1>2. CASE WaitForBatch \/ Rethrow \/ TakeBatch \/ NoMore \/ NotifyNotFull
  BY <1>2 DEF WaitForBatch, Rethrow, TakeBatch, NoMore, NotifyNotFull
<1>3. CASE RequestStop \/ NotifyStop \/ Join \/ ClearQueue \/ Start
  BY <1>3 DEF RequestStop, NotifyStop, Join, ClearQueue, Start
<1>4. CASE CallNext \/ Leave \/ ResetDataset \/ SpuriousWakeup
  BY <1>4 DEF CallNext, Leave, ResetDataset, SpuriousWakeup
<1>5. CASE UNCHANGED vars
  BY <1>5 DEF vars
<1> QED
  BY <1>1, <1>2, <1>3, <1>4, <1>5 DEF Next, InCall

LEMMA EndingKept == Ending /\ [Next]_vars => Ending'
<1> SUFFICES ASSUME Ending, [Next]_vars PROVE Ending'
  OBVIOUS
<1> USE DEF Ending, members, dataset, WakeConsumer, WakeProducer
<1>1. CASE ProducerStep
  BY <1>1 DEF ProducerStep, Wait, Stopped, Proceed, GetBatch, GetNothing, Throw, Push,
              EndOfDataset, Catch, NotifyNotEmpty
<1>2. CASE InCall
  BY <1>2 DEF InCall, WaitForBatch, Rethrow, TakeBatch, NoMore, NotifyNotFull,
              RequestStop, NotifyStop, Join, ClearQueue, Start
<1>3. CASE CallNext \/ Leave \/ ResetDataset \/ SpuriousWakeup
  BY <1>3 DEF CallNext, Leave, ResetDataset, SpuriousWakeup
<1>4. CASE UNCHANGED vars
  BY <1>4 DEF vars
<1> QED
  BY <1>1, <1>2, <1>3, <1>4 DEF Next

----------------------------------------------------------------------------
(* The order of the batches.                                               *)

(* A pass begins with Start alone.                                         *)
LEMMA ReadingBefore == Places /\ [Next]_vars /\ Reading' => Reading \/ Start
<1> SUFFICES ASSUME Places, [Next]_vars, Reading' PROVE Reading \/ Start
  OBVIOUS
<1> USE DEF Places, Reading, members, dataset, WakeConsumer, WakeProducer
<1>1. CASE ProducerStep
  BY <1>1 DEF ProducerStep, Wait, Stopped, Proceed, GetBatch, GetNothing, Throw, Push,
              EndOfDataset, Catch, NotifyNotEmpty
<1>2. CASE InCall
  BY <1>2 DEF InCall, WaitForBatch, Rethrow, TakeBatch, NoMore, NotifyNotFull,
              RequestStop, NotifyStop, Join, ClearQueue
<1>3. CASE CallNext \/ Leave \/ ResetDataset \/ SpuriousWakeup
  BY <1>3 DEF CallNext, Leave, ResetDataset, SpuriousWakeup
<1>4. CASE UNCHANGED vars
  BY <1>4 DEF vars
<1> QED
  BY <1>1, <1>2, <1>3, <1>4 DEF Next

LEMMA QuietOrdered == Ordered /\ Quiet => Ordered'
<1> SUFFICES ASSUME Ordered, Quiet PROVE Ordered'
  OBVIOUS
<1>1. Ahead' = Ahead /\ Valid' = Valid /\ UNCHANGED <<queue, pass, read, held, received>>
  BY DEF Quiet, Ahead, Valid
<1>2. /\ \A n \in 1..Len(received') : received'[n] = <<pass', n>>
      /\ \A n \in 1..Len(queue') : queue'[n] = <<pass', Len(received') + n>>
  BY <1>1 DEF Ordered
<1>3. producer' = "push" => held'[1] = pass' /\ held'[2] \in {0, Ahead' + 1}
  BY <1>1 DEF Ordered, Quiet
<1>4. Failing' \/ read' = Ahead' + (IF producer' = "push" /\ Valid' THEN 1 ELSE 0)
  BY <1>1 DEF Ordered, Quiet, Valid
<1> QED
  BY <1>2, <1>3, <1>4 DEF Ordered

(* In a pass the producer reads on from what is there.                     *)
LEMMA FetchFollows ==
    ASSUME Data, Ending, Ordered, producer = "fetch"
    PROVE  read = Ahead /\ Ahead \in Nat /\ pass \in Nat
<1>1. ~Failing
  BY DEF Failing, Ending
<1>2. Len(received) \in Nat /\ Len(queue) \in Nat
  BY LenProperties DEF Data
<1> QED
  BY <1>1, <1>2, PrefetcherAssumption DEF Ordered, Ahead, Data

LEMMA GetBatchOrdered ==
    ASSUME Data, Ending, Ordered, GetBatch
    PROVE  Ordered'
<1>1. read = Ahead /\ Ahead \in Nat /\ pass \in Nat
  BY FetchFollows DEF GetBatch
<1>2. held' = <<pass, read + 1>> /\ read' = read + 1 /\ producer' = "push"
      /\ UNCHANGED <<queue, pass, received>>
  BY DEF GetBatch, members
<1>3. held'[1] = pass /\ held'[2] = read + 1 /\ Ahead' = Ahead
  BY <1>2 DEF Ahead
<1>4. Valid'
  BY <1>1, <1>3 DEF Valid
<1> QED
  BY <1>1, <1>2, <1>3, <1>4 DEF Ordered

LEMMA GetNothingOrdered ==
    ASSUME Data, Ending, Ordered, GetNothing
    PROVE  Ordered'
<1>1. read = Ahead /\ Ahead \in Nat /\ pass \in Nat
  BY FetchFollows DEF GetNothing
<1>2. held' = <<pass, 0>> /\ producer' = "push"
      /\ UNCHANGED <<queue, pass, read, received>>
  BY DEF GetNothing, members, dataset
<1>3. held'[1] = pass /\ held'[2] = 0 /\ Ahead' = Ahead
  BY <1>2 DEF Ahead
<1>4. ~Valid'
  BY <1>3 DEF Valid
<1> QED
  BY <1>1, <1>2, <1>3, <1>4 DEF Ordered

LEMMA ThrowOrdered ==
    ASSUME Ordered, Throw
    PROVE  Ordered'
<1>1. Failing' /\ producer' # "push" /\ UNCHANGED <<queue, pass, received>>
  BY DEF Throw, Failing, members
<1> QED
  BY <1>1 DEF Ordered

LEMMA PushOrdered ==
    ASSUME Data, Ending, Ordered, Push
    PROVE  Ordered'
<1>1. /\ producer = "push" /\ Valid /\ ~Failing
      /\ queue' = Append(queue, held) /\ producer' = "notify"
      /\ UNCHANGED <<pass, read, received, held>>
  BY DEF Push, Failing, Ending, dataset
<1>2. Len(received) \in Nat /\ Len(queue) \in Nat
  BY LenProperties DEF Data
<1>3. held[1] = pass /\ held[2] = Len(received) + (Len(queue) + 1)
  BY <1>1, <1>2 DEF Ordered, Ahead, Valid
<1>4. held = <<pass, Len(received) + (Len(queue) + 1)>>
  BY <1>3, BatchIsPair DEF Data
<1>5. /\ Len(queue') = Len(queue) + 1
      /\ \A n \in 1..Len(queue) : queue'[n] = queue[n]
      /\ queue'[Len(queue) + 1] = held
  BY <1>1, AppendProperties DEF Data
<1>6. \A n \in 1..Len(queue') : queue'[n] = <<pass, Len(received) + n>>
  <2> SUFFICES ASSUME NEW n \in 1..Len(queue') PROVE queue'[n] = <<pass, Len(received) + n>>
    OBVIOUS
  <2>1. CASE n = Len(queue) + 1
    BY <1>4, <1>5, <2>1
  <2>2. CASE n \in 1..Len(queue)
    BY <1>5, <2>2 DEF Ordered
  <2> QED
    BY <1>2, <1>5, <2>1, <2>2
<1>7. read = Ahead + 1 /\ Ahead' = Ahead + 1 /\ Ahead \in Nat
  BY <1>1, <1>2, <1>5 DEF Ordered, Ahead
<1> QED
  BY <1>1, <1>6, <1>7 DEF Ordered

LEMMA TakeBatchOrdered ==
    ASSUME Data, Ordered, TakeBatch
    PROVE  Ordered'
<1>1. /\ queue # <<>> /\ queue' = Tail(queue) /\ received' = Append(received, Head(queue))
      /\ UNCHANGED <<pass, read, held, producer, error>>
  BY DEF TakeBatch, dataset
<1>2. Len(received) \in Nat /\ Len(queue) \in Nat \ {0}
  BY <1>1, LenProperties, EmptySeq DEF Data
<1>3. /\ Len(queue') = Len(queue) - 1
      /\ \A n \in 1..Len(queue') : queue'[n] = queue[n + 1]
      /\ Head(queue) = queue[1] /\ Head(queue) \in BatchType
  BY <1>1, HeadTailProperties DEF Data
<1>4. /\ Len(received') = Len(received) + 1
      /\ \A n \in 1..Len(received) : received'[n] = received[n]
      /\ received'[Len(received) + 1] = Head(queue)
  BY <1>1, <1>3, AppendProperties DEF Data
<1>5. Head(queue) = <<pass, Len(received) + 1>>
  BY <1>2, <1>3 DEF Ordered
<1>6. \A n \in 1..Len(received') : received'[n] = <<pass, n>>
  <2> SUFFICES ASSUME NEW n \in 1..Len(received') PROVE received'[n] = <<pass, n>>
    OBVIOUS
  <2>1. CASE n = Len(received) + 1
    BY <1>4, <1>5, <2>1
  <2>2. CASE n \in 1..Len(received)
    BY <1>4, <2>2 DEF Ordered
  <2> QED
    BY <1>2, <1>4, <2>1, <2>2
<1>7. \A n \in 1..Len(queue') : queue'[n] = <<pass, Len(received') + n>>
  <2> SUFFICES ASSUME NEW n \in 1..Len(queue')
               PROVE  queue'[n] = <<pass, Len(received') + n>>
    OBVIOUS
  <2>1. n + 1 \in 1..Len(queue) /\ Len(received') + n = Len(received) + (n + 1)
    BY <1>2, <1>3, <1>4
  <2>2. queue'[n] = queue[n + 1]
    BY <1>3
  <2>3. queue[n + 1] = <<pass, Len(received) + (n + 1)>>
    BY <2>1 DEF Ordered
  <2> QED
    BY <2>1, <2>2, <2>3
<1>8. Ahead' = Ahead
  BY <1>2, <1>3, <1>4 DEF Ahead
<1>9. (Failing' <=> Failing) /\ (Valid' <=> Valid)
  BY <1>1 DEF Failing, Valid
<1> QED
  BY <1>1, <1>6, <1>7, <1>8, <1>9 DEF Ordered

LEMMA StartOrdered ==
    ASSUME Fresh, then = "start", Start
    PROVE  Ordered'
<1>1. /\ queue' = <<>> /\ received' = <<>> /\ read' = 0
      /\ producer' = "test"
  BY DEF Start, Fresh, dataset
<1>2. Len(<<>>) = 0
  BY EmptySeq
<1>3. Ahead' = 0
  BY <1>1, <1>2 DEF Ahead
<1> QED
  BY <1>1, <1>2, <1>3 DEF Ordered

----------------------------------------------------------------------------
(* The inductive invariant and what follows from it.                       *)

LEMMA InitIInv == Init => IInv
BY TypeInit DEF Init, IInv, Room, Joined, DatasetAlone, Fresh, Ending, Reading

LEMMA InductiveStep == IInv /\ [Next]_vars => IInv'
<1> SUFFICES ASSUME IInv, [Next]_vars PROVE IInv'
  OBVIOUS
<1>1. Places /\ Data /\ TypeOK /\ Room /\ Alone /\ Ending /\ Fresh
  BY TypeParts DEF IInv, Alone
<1>2. Places' /\ Data'
  BY <1>1, PlacesKept, DataKept
<1>3. TypeOK'
  BY <1>2 DEF TypeOK, Places, Data
<1>4. Room' /\ Alone' /\ Ending'
  BY <1>1, RoomKept, AloneKept, EndingKept
<1>5. ASSUME Reading' PROVE Ordered'
  <2>1. CASE Start
    <3>1. then = "start"
      BY <1>5, <2>1 DEF Start, Reading
    <3> QED
      BY <1>1, <2>1, <3>1, StartOrdered
  <2>2. CASE Reading
    <3>1. Ordered
      BY <2>2 DEF IInv
    <3>2. ~ClearQueue /\ ~ResetDataset
      BY <1>1, <1>5 DEF ClearQueue, ResetDataset, Reading, Places
    <3> QED
      BY <1>1, <2>1, <3>1, <3>2, QuietSteps, QuietOrdered, GetBatchOrdered,
         GetNothingOrdered, ThrowOrdered, PushOrdered, TakeBatchOrdered
  <2> QED
    BY <1>1, <1>5, <2>1, <2>2, ReadingBefore
<1> QED
  BY <1>3, <1>4, <1>5 DEF IInv, Alone

LEMMA SpecIInv == Spec => []IInv
BY InitIInv, InductiveStep, PTL DEF Spec

(* The pairs of a pass, put together.                                      *)
LEMMA OrderedIsOrder == Data /\ Ordered => /\ Kept = [n \in 1..Len(Kept) |-> <<pass, n>>]
                                           /\ Failing \/ Len(Kept) = read
<1> SUFFICES ASSUME Data, Ordered
             PROVE  /\ Kept = [n \in 1..Len(Kept) |-> <<pass, n>>]
                    /\ Failing \/ Len(Kept) = read
  OBVIOUS
<1> DEFINE both == received \o queue
<1>1. Len(received) \in Nat /\ Len(queue) \in Nat
  BY LenProperties DEF Data
<1>2. both \in Seq(BatchType) /\ Len(both) = Ahead
  BY ConcatProperties DEF Data, Ahead
<1>3. \A n \in 1..Ahead : both[n] = <<pass, n>>
  <2> SUFFICES ASSUME NEW n \in 1..Ahead PROVE both[n] = <<pass, n>>
    OBVIOUS
  <2>1. CASE n <= Len(received)
    <3>1. both[n] = received[n]
      BY <1>1, <2>1, ConcatProperties DEF Data, Ahead
    <3> QED
      BY <1>1, <2>1, <3>1 DEF Ordered
  <2>2. CASE n > Len(received)
    <3>1. both[n] = queue[n - Len(received)]
      BY <1>1, <2>2, ConcatProperties DEF Data, Ahead
    <3>2. n - Len(received) \in 1..Len(queue) /\ Len(received) + (n - Len(received)) = n
      BY <1>1, <2>2 DEF Ahead
    <3>3. queue[n - Len(received)] = <<pass, Len(received) + (n - Len(received))>>
      BY <3>2 DEF Ordered
    <3> QED
      BY <3>1, <3>2, <3>3
  <2> QED
    BY <1>1, <2>1, <2>2 DEF Ahead
<1> HIDE DEF both
<1>4. ASSUME ~(producer = "push" /\ Valid)
      PROVE  Kept \in Seq(BatchType) /\ Len(Kept) = Ahead
             /\ \A n \in 1..Ahead : Kept[n] = <<pass, n>>
  <2>1. Kept = both \o <<>>
    BY <1>4 DEF Kept, InHand, both
  <2>2. both \o <<>> = both
    BY <1>2, ConcatEmptySeq
  <2> QED
    BY <1>2, <1>3, <2>1, <2>2
<1>5. ASSUME producer = "push", Valid
      PROVE  /\ Kept \in Seq(BatchType) /\ Len(Kept) = Ahead + 1
             /\ \A n \in 1..(Ahead + 1) : Kept[n] = <<pass, n>>
  <2>1. Kept = both \o <<held>>
    BY <1>5 DEF Kept, InHand, both
  <2>2. both \o <<held>> = Append(both, held)
    BY <1>2, AppendIsConcat DEF Data
  <2>3. held[1] = pass /\ held[2] = Ahead + 1
    BY <1>1, <1>5 DEF Ordered, Valid, Ahead
  <2>4. held = <<pass, Ahead + 1>>
    BY <2>3, BatchIsPair DEF Data
  <2>5. /\ Kept \in Seq(BatchType) /\ Len(Kept) = Ahead + 1
        /\ \A n \in 1..Ahead : Kept[n] = both[n]
        /\ Kept[Ahead + 1] = held
    BY <1>2, <2>1, <2>2, AppendProperties DEF Data
  <2>6. \A n \in 1..(Ahead + 1) : n \in 1..Ahead \/ n = Ahead + 1
    BY <1>1 DEF Ahead
  <2>7. ASSUME NEW n \in 1..(Ahead + 1) PROVE Kept[n] = <<pass, n>>
    BY <1>3, <2>4, <2>5, <2>6
  <2> QED
    BY <2>5, <2>7
<1>6. /\ Kept \in Seq(BatchType)
      /\ \A n \in 1..Len(Kept) : Kept[n] = <<pass, n>>
      /\ Failing \/ Len(Kept) = read
  <2>1. CASE producer = "push" /\ Valid
    BY <1>5, <2>1 DEF Ordered
  <2>2. CASE ~(producer = "push" /\ Valid)
    BY <1>1, <1>4, <2>2 DEF Ordered, Ahead
  <2> QED
    BY <2>1, <2>2
<1>7. Kept = [n \in 1..Len(Kept) |-> Kept[n]]
  BY <1>6, LenProperties
<1> HIDE DEF Kept
<1> QED
  BY <1>6, <1>7

(* However the threads interleave, stop, start and next keep the members   *)
(* in range: above all, the queue never exceeds prefetch_depth.            *)
THEOREM TypeCorrect == Spec => []TypeOK
<1>1. IInv => TypeOK
  BY DEF IInv
<1> QED
  BY <1>1, SpecIInv, PTL

(* When stop has returned there is no producer that could be in get_batch, *)
(* so that shuffling and resetting the dataset meets nobody.               *)
THEOREM DatasetIsAlone == Spec => []DatasetAlone
<1>1. IInv => DatasetAlone
  BY DEF IInv
<1> QED
  BY <1>1, SpecIInv, PTL

(* In every pass, through stops, restarts and exceptions, the batches that *)
(* were read and not dropped with an exception are received, queued or in  *)
(* the producer's hands, each once and in the order of the dataset.        *)
THEOREM OrderIsKept == Spec => []OrderKept
<1>1. IInv => OrderKept
  <2> SUFFICES ASSUME IInv, Reading
               PROVE  /\ Kept = [n \in 1..Len(Kept) |-> <<pass, n>>]
                      /\ Failing \/ Len(Kept) = read
    BY DEF OrderKept
  <2>1. Data /\ Ordered
    BY TypeParts DEF IInv
  <2> QED
    BY <2>1, OrderedIsOrder
<1> QED
  BY <1>1, SpecIInv, PTL

----------------------------------------------------------------------------
(* Reading through the prefetcher is reading the dataset.                  *)

(* The training thread is in a pass from start to stop, and where its last *)
(* stop has led it otherwise.                                              *)
Whereabouts ==
    /\ consumer \in {"idle", "next", "blocked", "notify"} => then = "start"
    /\ \A place \in {"start", "ended", "left", "failed"} : consumer = place => then = place

(* In a pass nobody has asked the producer to stop.                        *)
Unasked == consumer \in {"idle", "next", "blocked", "notify"} => ~stopRequested

(* No batch is counted that was not read, and what ends the producer in a  *)
(* pass is the end of the dataset or an exception.                         *)
Carried == IF producer = "push" /\ Valid THEN 1 ELSE 0

Counted ==
    /\ Ahead + Carried <= read
    /\ producer = "push" /\ ~Valid => read = Batches
    /\ finished /\ ~error => producer = "done" /\ read = Batches

RInv == IInv /\ Whereabouts /\ Unasked /\ (Reading => Counted)

LEMMA WhereaboutsKept == Places /\ Whereabouts /\ [Next]_vars => Whereabouts'
<1> SUFFICES ASSUME Places, Whereabouts, [Next]_vars PROVE Whereabouts'
  OBVIOUS
<1> USE DEF Places, Whereabouts, members, dataset, WakeConsumer, WakeProducer
<1>1. CASE ProducerStep
  BY <1>1 DEF ProducerStep, Wait, Stopped, Proceed, GetBatch, GetNothing, Throw, Push,
              EndOfDataset, Catch, NotifyNotEmpty
<1>2. CASE InCall
  BY <1>2 DEF InCall, WaitForBatch, Rethrow, TakeBatch, NoMore, NotifyNotFull,
              RequestStop, NotifyStop, Join, ClearQueue, Start
<1>3. CASE CallNext \/ Leave \/ ResetDataset \/ SpuriousWakeup
  BY <1>3 DEF CallNext, Leave, ResetDataset, SpuriousWakeup
<1>4. CASE UNCHANGED vars
  BY <1>4 DEF vars
<1> QED
  BY <1>1, <1>2, <1>3, <1>4 DEF Next

LEMMA UnaskedKept == Places /\ Unasked /\ [Next]_vars => Unasked'
<1> SUFFICES ASSUME Places, Unasked, [Next]_vars PROVE Unasked'
  OBVIOUS
<1>0. then \in {"start", "ended", "left", "failed"}
  BY DEF Places
<1> USE DEF Unasked, members, dataset, WakeConsumer, WakeProducer
<1>1. CASE ProducerStep
  BY <1>1 DEF ProducerStep, Wait, Stopped, Proceed, GetBatch, GetNothing, Throw, Push,
              EndOfDataset, Catch, NotifyNotEmpty
<1>2. CASE InCall
  BY <1>0, <1>2 DEF InCall, WaitForBatch, Rethrow, TakeBatch, NoMore, NotifyNotFull,
              RequestStop, NotifyStop, Join, ClearQueue, Start
<1>3. CASE CallNext \/ Leave \/ ResetDataset \/ SpuriousWakeup
  BY <1>3 DEF CallNext, Leave, ResetDataset, SpuriousWakeup
<1>4. CASE UNCHANGED vars
  BY <1>4 DEF vars
<1> QED
  BY <1>1, <1>2, <1>3, <1>4 DEF Next

(* The number of batches on their way, as each step changes it.            *)
LEMMA AheadCounted ==
    ASSUME Data
    PROVE  /\ Len(received) \in Nat /\ Len(queue) \in Nat /\ Ahead \in Nat
           /\ read \in Nat /\ read <= Batches /\ Batches \in Nat
BY LenProperties, PrefetcherAssumption DEF Data, Ahead

LEMMA CountedByProducer ==
    ASSUME Places, Data, Ending, Unasked, Reading, Reading', Ordered, Counted, ProducerStep
    PROVE  Counted'
<1> USE AheadCounted
<1>1. CASE Wait \/ Proceed \/ NotifyNotEmpty
  <2>1. UNCHANGED <<queue, received, read, finished, error, held>>
    BY <1>1 DEF Wait, Proceed, NotifyNotEmpty, members, dataset
  <2>2. Ahead' = Ahead /\ Carried = 0 /\ Carried' = 0 /\ producer' # "push"
    BY <1>1, <2>1 DEF Wait, Proceed, NotifyNotEmpty, Ahead, Carried
  <2>3. finished /\ ~error => FALSE
    BY <1>1 DEF Wait, Proceed, NotifyNotEmpty, Counted
  <2> QED
    BY <2>1, <2>2, <2>3 DEF Counted
<1>2. CASE Stopped
  BY <1>2 DEF Stopped, Unasked, Reading
<1>3. CASE GetBatch
  <2>1. UNCHANGED <<queue, received, finished, error>> /\ read' = read + 1
        /\ held'[2] = read + 1 /\ producer' = "push" /\ producer = "fetch"
    BY <1>3 DEF GetBatch, members
  <2>2. Ahead' = Ahead /\ Carried = 0 /\ Carried' = 1 /\ Valid'
    BY <2>1 DEF Ahead, Carried, Valid
  <2> QED
    BY <2>1, <2>2 DEF Counted
<1>4. CASE GetNothing
  <2>1. UNCHANGED <<queue, received, finished, error, read>> /\ read = Batches
        /\ held'[2] = 0 /\ producer' = "push" /\ producer = "fetch"
    BY <1>4 DEF GetNothing, members, dataset
  <2>2. Ahead' = Ahead /\ Carried = 0 /\ Carried' = 0
    BY <2>1 DEF Ahead, Carried, Valid
  <2> QED
    BY <2>1, <2>2 DEF Counted
<1>5. CASE Throw
  <2>1. UNCHANGED <<queue, received, finished, error>> /\ read' \in {read, read + 1}
        /\ producer' = "caught" /\ producer = "fetch"
    BY <1>5 DEF Throw, members
  <2>2. Ahead' = Ahead /\ Carried = 0 /\ Carried' = 0
    BY <2>1 DEF Ahead, Carried
  <2> QED
    BY <2>1, <2>2 DEF Counted
<1>6. CASE Push
  <2>1. UNCHANGED <<received, finished, error, read>> /\ Len(queue') = Len(queue) + 1
        /\ producer' = "notify" /\ producer = "push" /\ Valid
    BY <1>6, AppendProperties DEF Push, dataset, Data
  <2>2. Ahead' = Ahead + 1 /\ Carried = 1 /\ Carried' = 0
    BY <2>1 DEF Ahead, Carried
  <2> QED
    BY <2>1, <2>2 DEF Counted
<1>7. CASE EndOfDataset
  <2>1. UNCHANGED <<received, queue, error, read>>
        /\ producer' = "done" /\ producer = "push" /\ ~Valid
    BY <1>7 DEF EndOfDataset, dataset
  <2>2. Ahead' = Ahead /\ Carried = 0 /\ Carried' = 0
    BY <2>1 DEF Ahead, Carried
  <2> QED
    BY <2>1, <2>2 DEF Counted
<1>8. CASE Catch
  <2>1. UNCHANGED <<received, queue, read>> /\ error'
        /\ producer' = "notify error" /\ producer = "caught"
    BY <1>8 DEF Catch, dataset
  <2>2. Ahead' = Ahead /\ Carried = 0 /\ Carried' = 0
    BY <2>1 DEF Ahead, Carried
  <2> QED
    BY <2>1, <2>2 DEF Counted
<1> QED
  BY <1>1, <1>2, <1>3, <1>4, <1>5, <1>6, <1>7, <1>8 DEF ProducerStep

LEMMA CountedByConsumer ==
    ASSUME Data, Reading, Reading', Counted, [Next]_vars, ~ProducerStep, ~Start
    PROVE  Counted'
<1> USE AheadCounted
<1>1. CASE TakeBatch
  <2>1. UNCHANGED <<producer, held, read, finished, error>>
        /\ Len(queue') = Len(queue) - 1 /\ Len(received') = Len(received) + 1
    BY <1>1, AppendProperties, HeadTailProperties DEF TakeBatch, dataset, Data
  <2>2. Ahead' = Ahead /\ Carried' = Carried /\ Valid' = Valid
    BY <2>1 DEF Ahead, Carried, Valid
  <2> QED
    BY <2>1, <2>2 DEF Counted
<1>2. CASE UNCHANGED <<queue, received, read, finished, error, held>>
           /\ producer' = IF producer = "blocked" THEN "test" ELSE producer
  <2>1. Ahead' = Ahead /\ Carried' = Carried /\ Valid' = Valid
    BY <1>2 DEF Ahead, Carried, Valid
  <2> QED
    BY <1>2, <2>1 DEF Counted
<1>3. CASE UNCHANGED <<queue, received, read, finished, error, held, producer>>
  <2>1. Ahead' = Ahead /\ Carried' = Carried /\ Valid' = Valid
    BY <1>3 DEF Ahead, Carried, Valid
  <2> QED
    BY <1>3, <2>1 DEF Counted
<1>4. CASE InCall /\ ~TakeBatch
  BY <1>2, <1>3, <1>4 DEF InCall, WaitForBatch, Rethrow, NoMore, NotifyNotFull, RequestStop,
     NotifyStop, Join, ClearQueue, Reading, WakeProducer, members, dataset
<1>5. CASE CallNext \/ Leave \/ ResetDataset \/ SpuriousWakeup
  BY <1>2, <1>3, <1>5 DEF CallNext, Leave, ResetDataset, SpuriousWakeup, Reading, members, dataset
<1>6. CASE UNCHANGED vars
  BY <1>3, <1>6 DEF vars, members, dataset
<1> QED
  BY <1>1, <1>4, <1>5, <1>6 DEF Next

LEMMA CountedAtStart ==
    ASSUME Places, Fresh, Whereabouts, Start
    PROVE  Counted'
<1>1. queue' = <<>> /\ received' = <<>> /\ read' = 0 /\ ~finished' /\ producer' = "test"
  <2>1. queue' = <<>> /\ ~finished' /\ producer' = "test" /\ UNCHANGED <<received, read>>
    BY DEF Start, dataset
  <2>2. then = "start" /\ consumer = "start"
    BY DEF Start, Whereabouts
  <2> QED
    BY <2>1, <2>2 DEF Fresh
<1>2. Ahead' = 0 /\ Carried' = 0
  BY <1>1 DEF Ahead, Carried
<1> QED
  BY <1>1, <1>2 DEF Counted

LEMMA SpecRInv == Spec => []RInv
<1>1. Init => RInv
  BY InitIInv DEF RInv, Init, Whereabouts, Unasked, Reading
<1>2. RInv /\ [Next]_vars => RInv'
  <2> SUFFICES ASSUME RInv, [Next]_vars PROVE RInv'
    OBVIOUS
  <2>1. Places /\ Data /\ Ending /\ Fresh /\ Whereabouts /\ Unasked
    BY TypeParts DEF RInv, IInv
  <2>2. IInv' /\ Whereabouts' /\ Unasked'
    BY <2>1, InductiveStep, WhereaboutsKept, UnaskedKept DEF RInv
  <2>3. ASSUME Reading' PROVE Counted'
    <3>1. CASE Start
      BY <2>1, <3>1, CountedAtStart
    <3>2. CASE ~Start
      <4>1. Reading /\ Counted /\ Ordered
        BY <2>1, <2>3, <3>2, ReadingBefore DEF RInv, IInv
      <4> QED
        BY <2>1, <2>3, <3>2, <4>1, CountedByProducer, CountedByConsumer
    <3> QED
      BY <3>1, <3>2
  <2> QED
    BY <2>2, <2>3 DEF RInv
<1> QED
  BY <1>1, <1>2, PTL DEF Spec

(* A step of the prefetcher is a step of reading the dataset, or none.     *)
LEMMA StepReads == RInv /\ [Next]_vars => [Plain!Next]_Plain!vars
<1> SUFFICES ASSUME RInv, [Next]_vars PROVE [Plain!Next]_Plain!vars
  OBVIOUS
<1>1. Places /\ Data /\ Whereabouts /\ Unasked
  BY TypeParts DEF RInv, IInv
<1>2. CASE UNCHANGED <<then, pass, received>>
  BY <1>2 DEF Plain!vars, Status
<1>3. CASE ResetDataset
  <2>1. then \in {"ended", "left"} /\ Status' = "reading" /\ pass' = pass + 1
        /\ Len(received') = 0
    BY <1>1, <1>3 DEF ResetDataset, Whereabouts, Status
  <2> QED
    BY <2>1 DEF Plain!Next, Plain!Begin, Status
<1>4. CASE TakeBatch
  <2>1. Reading
    BY <1>1, <1>4 DEF TakeBatch, Whereabouts, Reading
  <2>2. Counted /\ Ahead + Carried <= read /\ Carried \in {0, 1}
    BY <2>1 DEF RInv, Counted, Carried
  <2>3. Len(queue) > 0
    BY <1>1, <1>4, EmptySeq, LenProperties DEF TakeBatch, Data
  <2>4. Len(received) < Batches
    BY <1>1, <2>2, <2>3, AheadCounted DEF Ahead
  <2>5. Len(received') = Len(received) + 1 /\ Status = "reading"
        /\ UNCHANGED <<then, pass>>
    BY <1>1, <1>4, <2>1, AppendProperties, HeadTailProperties
    DEF TakeBatch, dataset, Data, Reading, Status
  <2> QED
    BY <2>4, <2>5 DEF Plain!Next, Plain!Take, Status
<1>5. CASE NoMore
  <2>1. Reading
    BY <1>1, <1>5 DEF NoMore, Whereabouts, Reading
  <2>2. finished /\ ~error /\ queue = <<>>
    BY <1>1, <1>5 DEF NoMore, NothingLeft, Unasked
  <2>3. producer = "done" /\ read = Batches /\ Ordered
    BY <2>1, <2>2 DEF RInv, IInv, Counted
  <2>4. Len(received) = Batches
    BY <1>1, <2>2, <2>3, AheadCounted DEF Ordered, Failing, Ahead
  <2>5. Status = "reading" /\ Status' = "ended" /\ UNCHANGED <<pass, received>>
    BY <1>5, <2>1 DEF NoMore, Reading, Status, dataset
  <2> QED
    BY <2>4, <2>5 DEF Plain!Next, Plain!Finish
<1>6. CASE Rethrow \/ Leave
  <2>1. Reading
    BY <1>1, <1>6 DEF Rethrow, Leave, Whereabouts, Reading
  <2>2. Status = "reading" /\ Status' \in {"left", "failed"} /\ UNCHANGED <<pass, received>>
    BY <1>6, <2>1 DEF Rethrow, Leave, Reading, Status, dataset
  <2> QED
    BY <2>2 DEF Plain!Next, Plain!GiveUp
<1>7. CASE ProducerStep
  BY <1>2, <1>7 DEF ProducerStep, Wait, Stopped, Proceed, GetBatch, GetNothing, Throw, Push,
     EndOfDataset, Catch, NotifyNotEmpty, dataset
<1>8. CASE WaitForBatch \/ NotifyNotFull \/ RequestStop \/ NotifyStop \/ Join \/ ClearQueue \/ Start
  BY <1>2, <1>8 DEF WaitForBatch, NotifyNotFull, RequestStop, NotifyStop, Join, ClearQueue,
     Start, dataset
<1>9. CASE CallNext \/ SpuriousWakeup \/ UNCHANGED vars
  BY <1>2, <1>9 DEF CallNext, SpuriousWakeup, vars, dataset
<1> QED
  BY <1>3, <1>4, <1>5, <1>6, <1>7, <1>8, <1>9 DEF Next, InCall

(* Reading through the prefetcher is reading the dataset: next returns     *)
(* false only when the training thread has been handed every batch of the  *)
(* pass, however the two threads interleave and whenever it stops and      *)
(* starts.                                                                 *)
THEOREM Implements == Spec => ImplementsReading
<1>1. Init => Plain!Init
  BY DEF Init, Plain!Init, Status
<1> QED
  BY <1>1, StepReads, SpecRInv, PTL DEF Spec, ImplementsReading, Plain!Spec
=============================================================================
