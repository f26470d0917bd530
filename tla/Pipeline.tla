------------------------------ MODULE Pipeline ------------------------------
(***************************************************************************)
(* Pipeline-parallel training: one coordinator (the training loop of       *)
(* distributed/train.hpp driving distributed/coordinator.hpp) and a chain  *)
(* of workers (distributed/worker.hpp), one per graph partition.           *)
(*                                                                         *)
(* A message travels through `net' (posted or on a socket, in any order:   *)
(* the senders spread their work over several io_contexts) and then sits   *)
(* in the `inbox' of its receiver, one queue per command type.  A worker   *)
(* takes the delivered command of the highest priority; the coordinator    *)
(* only looks at the command type it is waiting for.                       *)
(*                                                                         *)
(* The fields `batch', `n' and `from' of a message, the variables          *)
(* `forwarded', `trained' and `applied', and `timedOut' are history: the   *)
(* program keeps none of them and no guard reads them.                     *)
(***************************************************************************)
EXTENDS Integers, FiniteSets, Sequences

CONSTANTS
    NumWorkers,      \* worker_endpoints_.size()
    Microbatches,    \* config.num_microbatches
    Epochs,          \* bound: config.epochs
    TrainBatches,    \* bound: batches of the training set
    ValBatches,      \* bound: batches of the validation set
    AccSteps,        \* config.gradient_accumulation_steps
    Timeouts         \* whether a join may run out of time

ASSUME PipelineAssumption ==
    /\ NumWorkers \in Nat \ {0} /\ Microbatches \in Nat \ {0}
    /\ Epochs \in Nat \ {0} /\ TrainBatches \in Nat /\ ValBatches \in Nat
    /\ AccSteps \in Nat \ {0} /\ Timeouts \in BOOLEAN

VARIABLES
    pc,          \* where the coordinator's thread is
    async,       \* config.async_pipeline, fixed at the start
    training,    \* which half of the epoch runs: training or validation
    epoch,       \* epochs completed
    batch,       \* batches completed in this half of the epoch
    serial,      \* history: batches started since the program began
    current,     \* i of the synchronous batch loops
    processed,   \* processed_microbatches_ of the asynchronous ones
    acc,         \* accumulation_steps of the training loop
    updates,     \* calls of update_parameters
    timedOut,    \* history: some join has timed out
    net,         \* messages sent and not yet enqueued at their receiver
    inbox,       \* message_queues_ of each communicator
    mode,        \* graph_->mode() of each worker: TRUE is TRAIN
    residual,    \* per worker and pid: the batch whose residuals it holds, 0: none
    grads,       \* gradients accumulated since the last zero_grads()
    stopping,    \* should_stop_ of each worker
    exited,      \* the worker's event loop has returned
    forwarded, trained, applied

coordVars  == <<pc, async, training, epoch, batch, serial, current, processed,
                acc, updates, timedOut>>
workerVars == <<mode, residual, grads, stopping, exited>>
history    == <<forwarded, trained, applied>>
vars       == <<coordVars, net, inbox, workerVars, history>>

Workers == 1..NumWorkers
Coord   == 0
Nodes   == Workers \cup {Coord}
Pids    == 0..(Microbatches - 1)

(* The commands the workers handle here, by their place in CommandType:    *)
(* dequeue_input_message looks for them in this order.                     *)
Priority == [FORWARD_JOB |-> 1, BACKWARD_JOB |-> 2, UPDATE_PARAMETERS |-> 4,
             TRAIN_MODE |-> 5, EVAL_MODE |-> 6, SHUTDOWN |-> 8, CONFIG_TRANSFER |-> 9]

Job(type, to, pid, b)  == [type |-> type, to |-> to, pid |-> pid, batch |-> b]
Command(type, to, n)   == [type |-> type, to |-> to, n |-> n]
Ack(type, from, n)     == [type |-> type, to |-> Coord, from |-> from, n |-> n]

OfType(p, type)     == {m \in inbox[p] : m.type = type}
MessageCount(type)  == Cardinality(OfType(Coord, type))
Broadcast(type, n)  == {Command(type, w, n) : w \in Workers}

----------------------------------------------------------------------------
StartsAt(place) ==
    /\ pc = place /\ async \in BOOLEAN /\ training = TRUE
    /\ epoch = 0 /\ batch = 0 /\ serial = 0 /\ current = 0 /\ processed = 0
    /\ acc = 0 /\ updates = 0 /\ timedOut = FALSE
    /\ net = {} /\ inbox = [p \in Nodes |-> {}]
    /\ mode = [w \in Workers |-> TRUE]
    /\ residual = [w \in Workers |-> [p \in Pids |-> 0]]
    /\ grads = [w \in Workers |-> {}]
    /\ stopping = [w \in Workers |-> FALSE]
    /\ exited = [w \in Workers |-> FALSE]
    /\ forwarded = [w \in Workers |-> {}] /\ trained = [w \in Workers |-> {}]
    /\ applied = [w \in Workers |-> <<>>]

Init == StartsAt("set_training")

(* enqueue_input_message at the receiver.                                  *)
Deliver(m) ==
    /\ m \in net
    /\ net' = net \ {m}
    /\ inbox' = [inbox EXCEPT ![m.to] = @ \cup {m}]
    /\ UNCHANGED <<coordVars, workerVars, history>>

----------------------------------------------------------------------------
(* The coordinator's thread.                                               *)

(* The next call of the training loop, once `b' batches of this half of    *)
(* the epoch are complete.                                                 *)
Batches == IF training THEN TrainBatches ELSE ValBatches
PcAfter(b) == IF b < Batches THEN "start_batch" ELSE "end_half"

SetTraining ==
    /\ pc = "set_training"
    /\ net' = net \cup Broadcast(IF training THEN "TRAIN_MODE" ELSE "EVAL_MODE", epoch)
    /\ pc' = "join_mode"
    /\ UNCHANGED <<async, training, epoch, batch, serial, current, processed, acc,
                   updates, timedOut, inbox, workerVars, history>>

(* Mutant: any acknowledgement will do.                                    *)
JoinModeAny ==
    /\ pc = "join_mode"
    /\ MessageCount("MODE_CHANGED") >= 1
    /\ inbox' = [inbox EXCEPT ![Coord] = @ \ OfType(Coord, "MODE_CHANGED")]
    /\ pc' = PcAfter(0)
    /\ acc' = IF training THEN 0 ELSE acc
    /\ UNCHANGED <<async, training, epoch, batch, serial, current, processed, updates,
                   timedOut, net, workerVars, history>>

(* join(MODE_CHANGED) succeeds and the acknowledgements are dequeued.      *)
JoinMode ==
    /\ pc = "join_mode"
    /\ MessageCount("MODE_CHANGED") >= NumWorkers
    /\ inbox' = [inbox EXCEPT ![Coord] = @ \ OfType(Coord, "MODE_CHANGED")]
    /\ pc' = PcAfter(0)
    /\ acc' = IF training THEN 0 ELSE acc
    /\ UNCHANGED <<async, training, epoch, batch, serial, current, processed, updates,
                   timedOut, net, workerVars, history>>

(* The join times out: set_training throws and the program ends.           *)
JoinModeTimeout ==
    /\ pc = "join_mode" /\ Timeouts
    /\ MessageCount("MODE_CHANGED") < NumWorkers
    /\ pc' = "failed" /\ timedOut' = TRUE
    /\ UNCHANGED <<async, training, epoch, batch, serial, current, processed, acc,
                   updates, net, inbox, workerVars, history>>

(* A training batch has num_microbatches microbatches, a validation batch  *)
(* is not split.                                                           *)
Size == IF training THEN Microbatches ELSE 1

(* Mutant: the synchronous batch forwards every microbatch too.            *)
StartBatchAll ==
    /\ pc = "start_batch"
    /\ serial' = serial + 1
    /\ net' = net \cup {Job("FORWARD_JOB", 1, p, serial + 1) : p \in 0..(Size - 1)}
    /\ processed' = 0 /\ current' = 0
    /\ pc' = "await_forward"
    /\ UNCHANGED <<async, training, epoch, batch, acc, updates, timedOut, inbox,
                   workerVars, history>>

(* The asynchronous batch forwards every microbatch before it waits, the   *)
(* synchronous one only the first.                                         *)
StartBatch ==
    /\ pc = "start_batch"
    /\ serial' = serial + 1
    /\ LET first == IF async THEN 0..(Size - 1) ELSE {0}
       IN  net' = net \cup {Job("FORWARD_JOB", 1, p, serial + 1) : p \in first}
    /\ processed' = 0 /\ current' = 0
    /\ pc' = "await_forward"
    /\ UNCHANGED <<async, training, epoch, batch, acc, updates, timedOut, inbox,
                   workerVars, history>>

(* Gradients of the given outputs, sent to the last stage.                 *)
Gradients(outputs) ==
    {Job("BACKWARD_JOB", NumWorkers, m.pid, m.batch) : m \in outputs}

EndBatch ==
    /\ batch' = batch + 1
    /\ IF training
         THEN /\ acc' = acc + 1
              /\ pc' = IF acc + 1 = AccSteps THEN "update" ELSE PcAfter(batch + 1)
         ELSE acc' = acc /\ pc' = PcAfter(batch + 1)

(* Mutant: counts the rounds of the loop, not the outputs.                 *)
AsyncOutputsCountRounds ==
    /\ pc = "await_forward" /\ async
    /\ LET outputs == OfType(Coord, "FORWARD_JOB")
       IN  /\ outputs # {}
           /\ inbox' = [inbox EXCEPT ![Coord] = @ \ outputs]
           /\ processed' = processed + 1
           /\ net' = IF training THEN net \cup Gradients(outputs) ELSE net
    /\ IF processed' < Size THEN UNCHANGED <<pc, batch, acc>>
       ELSE IF training THEN pc' = "await_backward" /\ UNCHANGED <<batch, acc>>
       ELSE EndBatch
    /\ UNCHANGED <<async, training, epoch, serial, current, updates, timedOut,
                   workerVars, history>>

(* One round of the loop of async_train_batch / async_val_batch: pop every *)
(* delivered output and, when training, send its gradient back.            *)
AsyncOutputs ==
    /\ pc = "await_forward" /\ async
    /\ LET outputs == OfType(Coord, "FORWARD_JOB")
       IN  /\ outputs # {}
           /\ inbox' = [inbox EXCEPT ![Coord] = @ \ outputs]
           /\ processed' = processed + Cardinality(outputs)
           /\ net' = IF training THEN net \cup Gradients(outputs) ELSE net
    /\ IF processed' < Size THEN UNCHANGED <<pc, batch, acc>>
       ELSE IF training THEN pc' = "await_backward" /\ UNCHANGED <<batch, acc>>
       ELSE EndBatch
    /\ UNCHANGED <<async, training, epoch, serial, current, updates, timedOut,
                   workerVars, history>>

(* Mutant: one completed microbatch is taken for the batch.                *)
AsyncCompleteAny ==
    /\ pc = "await_backward" /\ async
    /\ MessageCount("BACKWARD_COMPLETE") > 0
    /\ inbox' = [inbox EXCEPT ![Coord] = @ \ OfType(Coord, "BACKWARD_COMPLETE")]
    /\ EndBatch
    /\ UNCHANGED <<async, training, epoch, serial, current, processed, updates,
                   timedOut, net, workerVars, history>>

(* The second wait of async_train_batch.                                   *)
AsyncComplete ==
    /\ pc = "await_backward" /\ async
    /\ MessageCount("BACKWARD_COMPLETE") >= Microbatches
    /\ inbox' = [inbox EXCEPT ![Coord] = @ \ OfType(Coord, "BACKWARD_COMPLETE")]
    /\ EndBatch
    /\ UNCHANGED <<async, training, epoch, serial, current, processed, updates,
                   timedOut, net, workerVars, history>>

(* Move on to the next microbatch of a synchronous batch.                  *)
NextMicrobatch ==
    IF current + 1 < Size
      THEN /\ current' = current + 1
           /\ net' = net \cup {Job("FORWARD_JOB", 1, current + 1, serial)}
           /\ pc' = "await_forward"
           /\ UNCHANGED <<batch, acc>>
      ELSE EndBatch /\ UNCHANGED <<current, net>>

(* sync_train_batch / sync_val_batch pop every delivered output and need   *)
(* the one of microbatch i among them: they throw without it.              *)
SyncOutput ==
    /\ pc = "await_forward" /\ ~async
    /\ LET outputs == OfType(Coord, "FORWARD_JOB")
           mine    == {m \in outputs : m.pid = current}
       IN  /\ outputs # {}
           /\ inbox' = [inbox EXCEPT ![Coord] = @ \ outputs]
           /\ IF mine = {}
                THEN pc' = "failed" /\ UNCHANGED <<current, net, batch, acc>>
              ELSE IF training
                THEN /\ net' = net \cup Gradients(mine)
                     /\ pc' = "await_backward"
                     /\ UNCHANGED <<current, batch, acc>>
              ELSE NextMicrobatch
    /\ UNCHANGED <<async, training, epoch, serial, processed, updates, timedOut,
                   workerVars, history>>

SyncComplete ==
    /\ pc = "await_backward" /\ ~async
    /\ MessageCount("BACKWARD_COMPLETE") > 0
    /\ inbox' = [inbox EXCEPT ![Coord] = @ \ OfType(Coord, "BACKWARD_COMPLETE")]
    /\ NextMicrobatch
    /\ UNCHANGED <<async, training, epoch, serial, processed, updates, timedOut,
                   workerVars, history>>

UpdateParameters ==
    /\ pc = "update"
    /\ updates' = updates + 1
    /\ net' = net \cup Broadcast("UPDATE_PARAMETERS", updates + 1)
    /\ pc' = "join_update"
    /\ UNCHANGED <<async, training, epoch, batch, serial, current, processed, acc,
                   timedOut, inbox, workerVars, history>>

(* join(PARAMETERS_UPDATED): the acknowledgements stay in the queue.  Out  *)
(* of time, the coordinator prints a warning and goes on all the same.     *)
JoinUpdate ==
    /\ pc = "join_update"
    /\ \/ MessageCount("PARAMETERS_UPDATED") >= NumWorkers /\ UNCHANGED timedOut
       \/ /\ Timeouts /\ MessageCount("PARAMETERS_UPDATED") < NumWorkers
          /\ timedOut' = TRUE
    /\ acc' = 0
    /\ pc' = PcAfter(batch)
    /\ UNCHANGED <<async, training, epoch, batch, serial, current, processed, updates,
                   net, inbox, workerVars, history>>

(* The end of train_semi_async_epoch or validate_semi_async_epoch, and of  *)
(* the training: stop() sends SHUTDOWN to every worker.                    *)
EndHalf ==
    /\ pc = "end_half"
    /\ batch' = 0
    /\ training' = ~training
    /\ epoch' = IF training THEN epoch ELSE epoch + 1
    /\ IF ~training /\ epoch + 1 = Epochs
         THEN pc' = "done" /\ net' = net \cup Broadcast("SHUTDOWN", 0)
         ELSE pc' = "set_training" /\ net' = net
    /\ UNCHANGED <<async, serial, current, processed, acc, updates, timedOut, inbox,
                   workerVars, history>>

CoordStep ==
    \/ SetTraining \/ JoinMode \/ StartBatch \/ AsyncOutputs \/ AsyncComplete
    \/ SyncOutput \/ SyncComplete \/ UpdateParameters \/ JoinUpdate \/ EndHalf

----------------------------------------------------------------------------
(* A worker's thread.                                                      *)

(* dequeue_input_message: a delivered command of the highest priority.     *)
Dequeue(w, m) ==
    /\ ~exited[w]
    /\ m \in inbox[w]
    /\ \A o \in inbox[w] : Priority[m.type] <= Priority[o.type]

Handled(w, m, sent) ==
    /\ inbox' = [inbox EXCEPT ![w] = @ \ {m}]
    /\ net' = net \cup sent
    /\ UNCHANGED <<coordVars, exited>>

(* Mutant: one executor, and its residuals, for every pid.                 *)
ForwardOneExecutor(w, m) ==
    /\ m.type = "FORWARD_JOB" /\ Dequeue(w, m)
    /\ residual' = [residual EXCEPT ![w] =
                       [p \in Pids |-> IF p = m.pid THEN m.batch ELSE 0]]
    /\ forwarded' = [forwarded EXCEPT ![w] = @ \cup {<<m.batch, m.pid>>}]
    /\ Handled(w, m, {Job("FORWARD_JOB", IF w = NumWorkers THEN Coord ELSE w + 1,
                          m.pid, m.batch)})
    /\ UNCHANGED <<mode, grads, stopping, trained, applied>>

(* FORWARD_JOB: the executor of this pid keeps the residuals for the       *)
(* backward pass; the output goes to the next stage or the coordinator.    *)
Forward(w, m) ==
    /\ m.type = "FORWARD_JOB" /\ Dequeue(w, m)
    /\ residual' = [residual EXCEPT ![w][m.pid] = m.batch]
    /\ forwarded' = [forwarded EXCEPT ![w] = @ \cup {<<m.batch, m.pid>>}]
    /\ Handled(w, m, {Job("FORWARD_JOB", IF w = NumWorkers THEN Coord ELSE w + 1,
                          m.pid, m.batch)})
    /\ UNCHANGED <<mode, grads, stopping, trained, applied>>

(* BACKWARD_JOB: needs the residuals and consumes them; the first stage    *)
(* reports to the coordinator, any other passes the gradient on.           *)
Backward(w, m) ==
    /\ m.type = "BACKWARD_JOB" /\ Dequeue(w, m)
    /\ residual' = [residual EXCEPT ![w][m.pid] = 0]
    /\ grads' = [grads EXCEPT ![w] = @ \cup {<<m.batch, m.pid>>}]
    /\ trained' = [trained EXCEPT ![w] = @ \cup {<<m.batch, m.pid>>}]
    /\ Handled(w, m, {IF w = 1 THEN Job("BACKWARD_COMPLETE", Coord, m.pid, m.batch)
                               ELSE Job("BACKWARD_JOB", w - 1, m.pid, m.batch)})
    /\ UNCHANGED <<mode, stopping, forwarded, applied>>

(* UPDATE_PARAMETERS: optimizer step, gradients cleared, acknowledged.     *)
Update(w, m) ==
    /\ m.type = "UPDATE_PARAMETERS" /\ Dequeue(w, m)
    /\ applied' = [applied EXCEPT ![w] = Append(@, grads[w])]
    /\ grads' = [grads EXCEPT ![w] = {}]
    /\ Handled(w, m, {Ack("PARAMETERS_UPDATED", w, m.n)})
    /\ UNCHANGED <<mode, residual, stopping, forwarded, trained>>

SetMode(w, m) ==
    /\ m.type \in {"TRAIN_MODE", "EVAL_MODE"} /\ Dequeue(w, m)
    /\ mode' = [mode EXCEPT ![w] = (m.type = "TRAIN_MODE")]
    /\ Handled(w, m, {Ack("MODE_CHANGED", w, m.n)})
    /\ UNCHANGED <<residual, grads, stopping, history>>

Shutdown(w, m) ==
    /\ m.type = "SHUTDOWN" /\ Dequeue(w, m)
    /\ stopping' = [stopping EXCEPT ![w] = TRUE]
    /\ Handled(w, m, {})
    /\ UNCHANGED <<mode, residual, grads, history>>

(* The event loop drains its queues before it looks at should_stop_.       *)
Exit(w) ==
    /\ stopping[w] /\ ~exited[w] /\ inbox[w] = {}
    /\ exited' = [exited EXCEPT ![w] = TRUE]
    /\ UNCHANGED <<coordVars, net, inbox, mode, residual, grads, stopping, history>>

WorkerStep(w) ==
    \/ \E m \in inbox[w] : \/ Forward(w, m) \/ Backward(w, m) \/ Update(w, m)
                           \/ SetMode(w, m) \/ Shutdown(w, m)
    \/ Exit(w)

Next ==
    \/ CoordStep
    \/ JoinModeTimeout
    \/ \E m \in net : Deliver(m)
    \/ \E w \in Workers : WorkerStep(w)

Spec == Init /\ [][Next]_vars

(* The network loses nothing, and every thread is scheduled.               *)
Fairness ==
    /\ WF_vars(CoordStep)
    /\ WF_vars(\E m \in net : Deliver(m))
    /\ \A w \in Workers : WF_vars(WorkerStep(w))

FairSpec == Spec /\ Fairness

----------------------------------------------------------------------------
(* Properties.                                                             *)

JobTypes == {"FORWARD_JOB", "BACKWARD_JOB", "BACKWARD_COMPLETE"}
Pending(p) == {m \in net : m.to = p} \cup inbox[p]

(* No worker runs a job in the wrong mode: whenever a job is on its way to *)
(* a worker, that worker has already switched to the mode of the batch     *)
(* (set_training waits for, and consumes, one MODE_CHANGED per worker).    *)
ModeAgreement ==
    \A w \in Workers : \A m \in Pending(w) :
        m.type \in JobTypes => mode[w] = training

(* A gradient never arrives at an executor that does not hold the          *)
(* residuals of that very microbatch of that very batch, although the pids *)
(* are reused by every batch and messages are reordered.                   *)
ResidualsReady ==
    \A w \in Workers : \A m \in Pending(w) :
        m.type = "BACKWARD_JOB" => residual[w][m.pid] = m.batch

(* Between two batches no job, output or completion is left anywhere, so   *)
(* that none can be taken for one of the next batch.                       *)
QuietBetweenBatches ==
    pc \notin {"await_forward", "await_backward"} =>
        \A p \in Nodes : \A m \in Pending(p) : m.type \notin JobTypes

(* sync_train_batch and sync_val_batch never throw "could not find         *)
(* expected microbatch result": only an expired join ends the program.     *)
FailsOnlyOnTimeout == pc = "failed" => timedOut

(* What join is documented to do ("Waits for a specified number of         *)
(* confirmations for a given command type"): when update_parameters        *)
(* returns, every worker has confirmed this update.                        *)
UpdateIsBarrier ==
    pc # "join_update" /\ ~timedOut => \A w \in Workers : Len(applied[w]) = updates

(* Every batch is trained as TrainingBatches promises: each microbatch     *)
(* once, forward and backward, at each stage, before the batch returns.    *)
Batch == INSTANCE TrainingBatches WITH
    phase <- IF pc \notin {"await_forward", "await_backward"} THEN "idle"
             ELSE IF training THEN "train" ELSE "validate"

ImplementsBatches == Batch!Spec
=============================================================================
