---------------------------- MODULE TrainingLoop ----------------------------
(* The loops of a program that trains in one process (nn/train.cpp): epochs *)
(* with validation, a number of steps, the benchmark.  A gradient is named  *)
(* by its batch, <<pass over the data, place in it>>; what the parameters   *)
(* have accumulated is a sequence of gradients, and each update is the      *)
(* sequence it was made from.  "size" is the number of batches of a pass,   *)
(* G is gradient_accumulation_steps.                                        *)
EXTENDS Integers, Sequences, FiniteSets, SequencesExt

NoLimit == -1    \* max_steps
WarmupSteps == 2    \* 50 in the code
MeasuredSteps == 3    \* 2000 in the code

\* Before training: attached optimizer, gradients cleared.
BeforeTraining ==
  [mode |-> "none", pass |-> 0, pos |-> 0, grads |-> <<>>, accum |-> 0, updates |-> <<>>,
   scheduled |-> 0, trained |-> {}, validated |-> <<>>, saved |-> <<>>, best |-> 0, read |-> 0]

\* shuffle and reset.
Shuffled(t) == [t EXCEPT !.pass = @ + 1, !.pos = 0]

\* get_next: the batch read is <<pass, pos>> of the result.
GetNext(t, size) == IF t.pos < size THEN [t EXCEPT !.pos = @ + 1, !.read = @ + 1] ELSE t

\* optimizer->update(), zero_grads(), scheduler->step().
Updated(t) ==
  [t EXCEPT !.updates = Append(@, t.grads), !.grads = <<>>, !.accum = 0, !.scheduled = @ + 1]

\* Forward, loss, backward of the batch that was read, and an update after every G-th.
TrainBatch(t, G) ==
  LET done == [t EXCEPT !.grads = Append(@, <<t.pass, t.pos>>), !.accum = @ + 1,
                        !.trained = @ \cup {<<t.mode, t.pass, t.pos>>}]
  IN  IF done.accum = G THEN Updated(done) ELSE done

\* The loop reads before it looks at max_steps: a batch is read that is not used.  The counter of
\* the accumulation starts anew; what the last epoch left in the parameters stays there.
train_epoch(t, size, G, max_steps) ==
  LET start == [Shuffled(t) EXCEPT !.mode = "TRAIN", !.accum = 0]
      last  == IF max_steps = NoLimit \/ size < max_steps THEN size ELSE max_steps
      run[k \in 0 .. last] == IF k = 0 THEN start ELSE TrainBatch(GetNext(run[k - 1], size), G)
  IN  GetNext(run[last], size)

\* Every batch of the other dataset, without gradients; "accuracy" is what comes out.
validate_model(t, accuracy) == [t EXCEPT !.mode = "EVAL", !.validated = Append(@, accuracy)]

\* The state is saved when the accuracy is better than ever, 0 at first.
SavedIfBest(t, epoch, accuracy) ==
  IF accuracy > t.best THEN [t EXCEPT !.best = accuracy, !.saved = Append(@, epoch)] ELSE t

train_val(t, size, G, accuracies) ==
  LET epoch[e \in 0 .. Len(accuracies)] ==
        IF e = 0 THEN t
        ELSE SavedIfBest(validate_model(train_epoch(epoch[e - 1], size, G, NoLimit), accuracies[e]), e, accuracies[e])
  IN  epoch[Len(accuracies)]

\* One step: a new pass when the old one is over; FALSE when there is nothing to read even then.
NextStep(s, size, G) ==
  LET t == IF s.t.pos < size THEN s.t ELSE Shuffled(s.t)
  IN  IF ~ s.more \/ t.pos >= size THEN [t |-> t, more |-> FALSE]
      ELSE [t |-> TrainBatch(GetNext(t, size), G), more |-> TRUE]

\* The state is saved once, at the end.
train_step(t, size, G, max_steps) ==
  LET start == [Shuffled(t) EXCEPT !.mode = "TRAIN", !.accum = 0]
      run[k \in 0 .. max_steps] == IF k = 0 THEN [t |-> start, more |-> TRUE] ELSE NextStep(run[k - 1], size, G)
  IN  [run[max_steps].t EXCEPT !.saved = Append(@, max_steps)]

\* One batch over and over: gradients are cleared before each step and not after, the schedule
\* stands still.
run_benchmark(t, size) ==
  LET start == GetNext([Shuffled(t) EXCEPT !.mode = "TRAIN"], size)
      once(s) == [s EXCEPT !.updates = Append(@, <<<<s.pass, s.pos>>>>), !.grads = <<<<s.pass, s.pos>>>>,
                           !.trained = @ \cup {<<s.mode, s.pass, s.pos>>}]
      run[k \in 0 .. WarmupSteps + MeasuredSteps] == IF k = 0 THEN start ELSE once(run[k - 1])
  IN  IF size = 0 THEN start ELSE run[WarmupSteps + MeasuredSteps]

\* The profiling before training runs over the first batch; it leaves cleared gradients and a
\* dataset at its start, unless there was no batch.
Profiled(t, size) == IF size > 0 THEN [t EXCEPT !.pos = 0, !.grads = <<>>] ELSE t

train_model(size, G, config) ==
  LET t == Profiled(BeforeTraining, size)
  IN  CASE config.benchmark -> run_benchmark(t, size)
        [] ~ config.benchmark /\ config.max_steps = NoLimit -> train_val(t, size, G, config.accuracies)
        [] OTHER -> train_step(t, size, G, config.max_steps)

----------------------------------------------------------------------------
(* What must hold of them.                                                  *)

PassSizes == 0 .. 4
Accumulations == 1 .. 3
Epochs == UNION {[1 .. n -> 0 .. 2] : n \in 1 .. 3}

ByEpochs(size, G, accuracies) ==
  train_model(size, G, [benchmark |-> FALSE, max_steps |-> NoLimit, accuracies |-> accuracies])
BySteps(size, G, n) ==
  train_model(size, G, [benchmark |-> FALSE, max_steps |-> n, accuracies |-> <<>>])

\* The batches of the first passes in order.
Passes(size, n) == [i \in 1 .. size * n |-> <<1 + ((i - 1) \div size), 1 + ((i - 1) % size)>>]

\* Every batch of every epoch goes into exactly one update, in order, or is still accumulated at
\* the end; training happens in training mode and the network is left in evaluation mode.
EpochsUseEachBatch ==
  \A size \in PassSizes, G \in Accumulations, n \in 1 .. 3 :
    LET t == ByEpochs(size, G, [e \in 1 .. n |-> 0])
    IN  /\ FlattenSeq(t.updates) \o t.grads = Passes(size, n)
        /\ \A b \in t.trained : b[1] = "TRAIN"
        /\ t.mode = "EVAL"

\* An update with gradients of two epochs.
Mixed(u) == u[1][1] # Last(u)[1]

\* Each update is made of G gradients of one epoch if G divides the number of batches.  If not,
\* the first update of an epoch also takes what the epoch before has left over, and with fewer
\* batches than G there is never an update.
UpdatesAreWhole ==
  \A size \in PassSizes, G \in Accumulations, n \in 1 .. 3 :
    LET t     == ByEpochs(size, G, [e \in 1 .. n |-> 0])
        mixed == {k \in DOMAIN t.updates : Mixed(t.updates[k])}
    IN  /\ \A k \in DOMAIN t.updates : Len(t.updates[k]) = IF k \in mixed THEN G + (size % G) ELSE G
        /\ Cardinality(mixed) = IF size % G = 0 \/ size < G THEN 0 ELSE n - 1
        /\ size < G => t.updates = <<>>
        /\ t.scheduled = Len(t.updates)

\* Training by steps takes G gradients for every update, over the end of a pass too, makes a new
\* pass whenever the last one is used up, and stops only when there is nothing to read.
StepsCross ==
  \A size \in PassSizes, G \in Accumulations, n \in 0 .. 7 :
    LET t == BySteps(size, G, n)
    IN  /\ \A k \in DOMAIN t.updates : Len(t.updates[k]) = G
        /\ FlattenSeq(t.updates) \o t.grads = IF size = 0 THEN <<>> ELSE SubSeq(Passes(size, n), 1, n)
        /\ t.read = IF size = 0 THEN 0 ELSE n
        /\ Len(t.saved) = 1

\* The last state saved is the first epoch's with the best accuracy; without any accuracy, as
\* when it is not logged, nothing is ever saved.
BestIsSaved ==
  \A a \in Epochs :
    LET t    == ByEpochs(2, 1, a)
        best == {e \in DOMAIN a : a[e] > 0 /\ \A f \in DOMAIN a : a[f] <= a[e]}
    IN  /\ (best = {}) <=> (t.saved = <<>>)
        /\ best # {} => \A e \in best : Last(t.saved) \in best /\ Last(t.saved) <= e

\* An epoch with a limit reads one batch more than it trains on.
OneBatchTooMany ==
  \A size \in PassSizes, max \in 0 .. 3 :
    LET t == train_epoch(BeforeTraining, size, 1, max)
    IN  t.read = Cardinality(t.trained) + (IF max < size THEN 1 ELSE 0)

\* Every step of the benchmark updates from one gradient alone.
BenchmarkIsUniform ==
  \A size \in PassSizes :
    LET t == train_model(size, 2, [benchmark |-> TRUE, max_steps |-> NoLimit, accuracies |-> <<>>])
    IN  /\ \A k \in DOMAIN t.updates : t.updates[k] = <<<<1, 1>>>>
        /\ Len(t.updates) = IF size = 0 THEN 0 ELSE WarmupSteps + MeasuredSteps

ASSUME EpochsUseEachBatch
ASSUME UpdatesAreWhole
ASSUME StepsCross
ASSUME BestIsSaved
ASSUME OneBatchTooMany
ASSUME BenchmarkIsUniform
=============================================================================
