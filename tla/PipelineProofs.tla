--------------------------- MODULE PipelineProofs ---------------------------
(***************************************************************************)
(* Proofs about Pipeline and Deployment, for any number of workers,        *)
(* microbatches, batches and epochs, synchronous or asynchronous, with or  *)
(* without timeouts.                                                       *)
(***************************************************************************)
EXTENDS Deployment, FiniteSetTheorems, TLAPS

----------------------------------------------------------------------------
(* The messages that are sent and not handled, and that matter here.       *)

ModeCommands == {"TRAIN_MODE", "EVAL_MODE"}
Tracked      == JobTypes \cup ModeCommands \cup {"MODE_CHANGED", "CONFIG_TRANSFER"}

Live    == {m \in net \cup UNION {inbox[p] : p \in Nodes} : m.type \in Tracked}
Jobs    == {m \in Live : m.type \in JobTypes}
Orders  == {m \in Live : m.type \in ModeCommands}
Changed == {m \in Live : m.type = "MODE_CHANGED"}
Configs == {m \in Live : m.type = "CONFIG_TRANSFER"}

(* A message is for one receiver, and it is still on its way or arrived.   *)
Addressed ==
    /\ inbox = [p \in Nodes |-> inbox[p]]
    /\ \A p \in Nodes : \A m \in inbox[p] : m.to = p
    /\ \A m \in net : m.to \in Nodes
    /\ \A m \in net : m.type \in Tracked => \A p \in Nodes : m \notin inbox[p]

PipelineType ==
    /\ async \in BOOLEAN /\ training \in BOOLEAN
    /\ serial \in Nat /\ current \in Nat /\ processed \in Nat
    /\ mode \in [Workers -> BOOLEAN]
    /\ residual \in [Workers -> [Pids -> Nat]]
    /\ forwarded \in [Workers -> SUBSET (Nat \X Pids)]
    /\ trained \in [Workers -> SUBSET (Nat \X Pids)]

InBatch == pc \in {"await_forward", "await_backward"}

(* The microbatches of the open batch that were sent to the first stage.   *)
Begun == IF async THEN 0..(Size - 1) ELSE 0..current

(* Each has one job at a time, or one completion.                          *)
JobsInOrder ==
    /\ Jobs # {} => InBatch
    /\ \A m \in Jobs : /\ m.pid \in Begun /\ m.batch = serial
                       /\ m = Job(m.type, m.to, m.pid, m.batch)
                       /\ m.type = "BACKWARD_JOB" => m.to \in Workers
                       /\ m.type = "BACKWARD_COMPLETE" => m.to = Coord
    /\ \A m, n \in Jobs : m.pid = n.pid => m = n

(* What the coordinator waits for.                                         *)
Left == {p \in Pids : \E m \in Jobs : m.type = "FORWARD_JOB" /\ m.pid = p}

Phases ==
    /\ InBatch => current < Size
    /\ ~training => \A m \in Jobs : m.type = "FORWARD_JOB"
    /\ pc = "await_backward" => training /\ \A m \in Jobs : m.type # "FORWARD_JOB"
    /\ ~async => \A m \in Jobs : /\ m.pid = current
                                 /\ pc = "await_forward" => m.type = "FORWARD_JOB"
    /\ async /\ pc = "await_forward" => processed + Cardinality(Left) = Size

(* Stages that a job has passed.                                           *)
PassedForward(m, w)  == m.type = "FORWARD_JOB" => m.to = Coord \/ w < m.to
PassedBackward(m, w) == m.type # "FORWARD_JOB" /\ (m.type = "BACKWARD_JOB" => m.to < w)

Progress ==
    /\ \A w \in Workers : \A b \in forwarded[w] \cup trained[w] : b[1] <= serial
    /\ InBatch => \A w \in Workers : \A p \in Pids :
          /\ <<serial, p>> \in forwarded[w] <=>
                p \in Begun /\ \A m \in Jobs : m.pid = p => PassedForward(m, w)
          /\ <<serial, p>> \in trained[w] <=>
                training /\ p \in Begun /\ \A m \in Jobs : m.pid = p => PassedBackward(m, w)

(* The residuals of a microbatch wait where it has passed forward, and not *)
(* yet backward.                                                           *)
Residuals ==
    \A m \in Jobs : m.type # "BACKWARD_COMPLETE" =>
        \A w \in Workers : PassedForward(m, w) /\ ~PassedBackward(m, w) =>
            residual[w][m.pid] = serial

(* A change of mode is complete before a batch starts.                     *)
Switched == {"start_batch", "await_forward", "await_backward", "update", "join_update",
             "end_half"}

Modes ==
    /\ Orders \cup Changed # {} => pc \in {"join_mode", "failed"}
    /\ \A m \in Orders :
          /\ m.to \in Workers
          /\ m = Command(IF training THEN "TRAIN_MODE" ELSE "EVAL_MODE", m.to, epoch)
    /\ \A m \in Changed :
          /\ m.from \in Workers /\ m = Ack("MODE_CHANGED", m.from, epoch)
          /\ mode[m.from] = training
          /\ \A o \in Orders : o.to # m.from
    /\ pc \in Switched => \A w \in Workers : mode[w] = training

PInv ==
    /\ PipelineType /\ Addressed /\ JobsInOrder /\ Phases /\ Progress /\ Residuals
    /\ Modes

----------------------------------------------------------------------------
(* Deployment.                                                             *)

ReachesOthers(w) ==
    /\ Reaches(w, Coord)
    /\ w > 1 => Reaches(w, w - 1)
    /\ w < NumWorkers => Reaches(w, w + 1)

(* The worker has its stage and will not change any more.                  *)
Settled(w) ==
    /\ stage[w] = w /\ configured[w] /\ connecting[w] = "nobody"
    /\ knows[w] /\ ReachesOthers(w)

Received == {m \in net \cup UNION {inbox[p] : p \in Nodes} : m.type = "CONFIG_RECEIVED"}

DeployType ==
    /\ up \subseteq Nodes /\ {Coord, Local} \subseteq up
    /\ channels = [p \in Nodes |-> channels[p]]
    /\ connecting \in [Workers -> {"nobody", "coordinator", "next", "prev", "ready"}]
    /\ knows \in [Workers -> BOOLEAN] /\ stage \in [Workers -> Nat]
    /\ configured \in [Workers -> BOOLEAN]
    /\ dialled \in 0..NumWorkers

Reached(w) == w \in up /\ (InProcess(Coord, w) \/ Reaches(Coord, w))

Dialling ==
    /\ refused \/ \A w \in 1..dialled : Reached(w)
    /\ pc \notin {"initialize", "connect", "undeployed", "failed"} =>
          dialled = NumWorkers /\ ~refused

Configuring ==
    /\ \A m \in Configs : /\ m.to \in Workers /\ m = Command("CONFIG_TRANSFER", m.to, m.to)
                          /\ ~knows[m.to] /\ Workers \subseteq up
                          /\ pc \in {"join_config", "failed"}
                          /\ Jobs \cup Orders \cup Changed = {}
    /\ \A w \in Workers : /\ knows[w] => Workers \subseteq up /\ stage[w] = w
                          /\ connecting[w] # "nobody" => knows[w]
                          /\ connecting[w] \in {"next", "prev", "ready"} => Reaches(w, Coord)
                          /\ connecting[w] \in {"prev", "ready"} /\ w < NumWorkers =>
                                Reaches(w, w + 1)
                          /\ connecting[w] = "ready" /\ w > 1 => Reaches(w, w - 1)
    /\ pc \in {"initialize", "connect"} => \A w \in Workers : ~knows[w]
    /\ pc \in {"initialize", "connect", "join_config"} =>
          \A m \in Received : m.from \in Workers /\ Settled(m.from)
                             /\ m = Ack("CONFIG_RECEIVED", m.from, 0)
    /\ pc \notin Deploying => \A w \in Workers : Settled(w)

(* Each end of a channel keeps it under the endpoint of the other.         *)
Keyed ==
    /\ \A c \in accepting : c.to \in Nodes
    /\ \A p \in Nodes : \A e \in channels[p] :
          \/ e[2].from = p /\ e[1] = Endpoint(e[2].to)
          \/ e[2].to = p /\ e[1] = ByAddress(e[2].from)

DInv == DeployType /\ Dialling /\ Configuring /\ Keyed

----------------------------------------------------------------------------
(* Messages.                                                               *)

LEMMA Fields ==
    /\ \A t, q, p, b : /\ Job(t, q, p, b).type = t /\ Job(t, q, p, b).to = q
                       /\ Job(t, q, p, b).pid = p /\ Job(t, q, p, b).batch = b
    /\ \A t, q, n : /\ Command(t, q, n).type = t /\ Command(t, q, n).to = q
                    /\ Command(t, q, n).n = n
    /\ \A t, f, n : /\ Ack(t, f, n).type = t /\ Ack(t, f, n).to = Coord
                    /\ Ack(t, f, n).from = f /\ Ack(t, f, n).n = n
BY DEF Job, Command, Ack

LEMMA Numbers ==
    /\ NumWorkers \in Nat \ {0} /\ Microbatches \in Nat \ {0}
    /\ Coord \in Nodes /\ Coord \notin Workers /\ Workers \subseteq Nodes
    /\ training \in BOOLEAN => Size \in Nat \ {0} /\ 0..(Size - 1) \subseteq Pids
    /\ Pids \subseteq Nat
BY PipelineAssumption DEF Coord, Nodes, Workers, Size, Pids

LEMMA LiveInbox ==
    /\ \A p \in Nodes : \A m \in inbox[p] : m.type \in Tracked => m \in Live
    /\ Jobs \subseteq Live /\ Orders \subseteq Live /\ Changed \subseteq Live
    /\ Configs \subseteq Live
BY DEF Live, Jobs, Orders, Changed, Configs

(* A node p takes messages out of its inbox, and others are sent.          *)
Moves(p, gone, new) ==
    /\ gone \subseteq inbox[p]
    /\ net' = net \cup new /\ inbox' = [inbox EXCEPT ![p] = @ \ gone]

Fresh(new) == \A n \in new : n.to \in Nodes /\ (n.type \in Tracked => n \notin Live)

Exchanged(gone, new) == Live' = (Live \ gone) \cup {n \in new : n.type \in Tracked}

LEMMA Exchange ==
    ASSUME Addressed, NEW p \in Nodes, NEW gone, NEW new, Moves(p, gone, new), Fresh(new)
    PROVE  Addressed' /\ Exchanged(gone, new)
<1>1. /\ \A q \in Nodes : inbox'[q] = IF q = p THEN inbox[q] \ gone ELSE inbox[q]
      /\ inbox' = [q \in Nodes |-> inbox'[q]] /\ net' = net \cup new
  BY DEF Addressed, Moves
<1>2. Addressed'
  <2>1. \A q \in Nodes : \A m \in inbox'[q] : m.to = q
    BY <1>1 DEF Addressed
  <2>2. \A m \in net' : m.to \in Nodes
    BY <1>1 DEF Addressed, Fresh
  <2>3. ASSUME NEW m \in net', m.type \in Tracked, NEW q \in Nodes PROVE m \notin inbox'[q]
    <3>1. m \in net => m \notin inbox[q]
      BY <2>3 DEF Addressed
    <3>2. m \in new => m \notin inbox[q]
      BY <2>3, LiveInbox DEF Fresh
    <3> QED
      BY <1>1, <3>1, <3>2
  <2> QED
    BY <1>1, <2>1, <2>2, <2>3 DEF Addressed
<1>3. ASSUME NEW m, m.type \in Tracked
      PROVE  m \in Live' <=> m \in Live \ gone \/ m \in new
  <2>1. m \in gone => m \notin net /\ m \notin new /\ \A q \in Nodes : m \in inbox[q] => q = p
    BY <1>3 DEF Addressed, Live, Moves, Fresh
  <2> QED
    BY <1>1, <1>3, <2>1 DEF Live
<1> QED
  BY <1>2, <1>3 DEF Live, Exchanged

(* What that means for each kind of messages.                              *)
LEMMA ExchangeKinds ==
    ASSUME NEW gone, NEW new, Exchanged(gone, new)
    PROVE  /\ (\A o \in gone \cup new : o.type \notin JobTypes) => Jobs' = Jobs
           /\ (\A o \in gone \cup new : o.type \notin ModeCommands) => Orders' = Orders
           /\ (\A o \in gone \cup new : o.type # "MODE_CHANGED") => Changed' = Changed
           /\ (\A o \in gone \cup new : o.type # "CONFIG_TRANSFER") => Configs' = Configs
           /\ (\A o \in new : o.type \in JobTypes) => Jobs' = (Jobs \ gone) \cup new
           /\ (\A o \in new : o.type \in ModeCommands) => Orders' = (Orders \ gone) \cup new
           /\ (\A o \in new : o.type = "MODE_CHANGED") => Changed' = (Changed \ gone) \cup new
           /\ (\A o \in new : o.type # "MODE_CHANGED") => Changed' = Changed \ gone
           /\ (\A o \in new : o.type \notin ModeCommands) => Orders' = Orders \ gone
           /\ (\A o \in new : o.type \notin JobTypes) => Jobs' = Jobs \ gone
           /\ (\A o \in new : o.type # "CONFIG_TRANSFER") => Configs' = Configs \ gone
BY DEF Jobs, Orders, Changed, Configs, Tracked, Exchanged

LEMMA SendOnly ==
    ASSUME Addressed, NEW new, net' = net \cup new, inbox' = inbox, Fresh(new)
    PROVE  Addressed' /\ Exchanged({}, new)
<1>1. Moves(Coord, {}, new)
  BY DEF Addressed, Moves
<1>2. Coord \in Nodes
  BY Numbers
<1> QED
  BY <1>1, <1>2, Exchange

LEMMA SameKinds ==
    ASSUME Live' = Live
    PROVE  Jobs' = Jobs /\ Orders' = Orders /\ Changed' = Changed /\ Configs' = Configs
BY DEF Jobs, Orders, Changed, Configs

LEMMA DeliverKinds ==
    ASSUME Addressed, NEW m \in net, Deliver(m)
    PROVE  Addressed' /\ Live' = Live
<1>1. /\ net' = net \ {m} /\ inbox' = [inbox EXCEPT ![m.to] = @ \cup {m}] /\ m.to \in Nodes
  BY DEF Deliver, Addressed
<1>2. /\ \A q \in Nodes : inbox'[q] = IF q = m.to THEN inbox[q] \cup {m} ELSE inbox[q]
      /\ inbox' = [q \in Nodes |-> inbox'[q]]
  BY <1>1 DEF Addressed
<1>3. Addressed'
  <2>1. \A q \in Nodes : \A o \in inbox'[q] : o.to = q
    BY <1>1, <1>2 DEF Addressed
  <2>2. \A o \in net' : o.to \in Nodes
    BY <1>1 DEF Addressed
  <2>3. \A o \in net' : o.type \in Tracked => \A q \in Nodes : o \notin inbox'[q]
    BY <1>1, <1>2 DEF Addressed
  <2> QED
    BY <1>2, <2>1, <2>2, <2>3 DEF Addressed
<1>4. \A o : o \in Live' <=> o \in Live
  BY <1>1, <1>2 DEF Live
<1> QED
  BY <1>3, <1>4 DEF Live

----------------------------------------------------------------------------
(* Steps that leave the batch alone.                                       *)

Apart == UNCHANGED <<async, training, epoch, serial, current, processed, pc, mode,
                     residual, forwarded, trained>>

LEMMA ApartKeeps ==
    ASSUME PInv, Apart, Addressed', Live' = Live
    PROVE  PInv' /\ Configs' = Configs
<1>1. Jobs' = Jobs /\ Orders' = Orders /\ Changed' = Changed /\ Configs' = Configs
  BY SameKinds
<1>2. Size' = Size /\ Begun' = Begun /\ Left' = Left /\ InBatch' = InBatch
  BY <1>1 DEF Size, Begun, Left, InBatch, Apart
<1>3. PipelineType' /\ JobsInOrder' /\ Residuals'
  BY <1>1, <1>2 DEF PInv, PipelineType, JobsInOrder, Residuals, Apart, PassedForward,
                    PassedBackward
<1>4. Phases'
  BY <1>1, <1>2 DEF PInv, Phases, Apart
<1>5. Progress'
  BY <1>1, <1>2 DEF PInv, Progress, Apart, PassedForward, PassedBackward
<1>6. Modes'
  BY <1>1 DEF PInv, Modes, Apart
<1> QED
  BY <1>1, <1>3, <1>4, <1>5, <1>6 DEF PInv

LEMMA DeliverKeeps ==
    ASSUME PInv, NEW m \in net, Deliver(m)
    PROVE  PInv' /\ Configs' = Configs /\ Live' = Live
<1>1. Addressed' /\ Live' = Live
  BY DeliverKinds DEF PInv
<1>2. Apart
  BY DEF Deliver, coordVars, workerVars, history, Apart
<1> QED
  BY <1>1, <1>2, ApartKeeps

(* Between two batches there are no jobs to look after.                    *)
LEMMA IdleKeeps ==
    ASSUME PInv, Jobs' = {}, pc' \notin {"await_forward", "await_backward"},
           UNCHANGED <<serial, forwarded, trained>>
    PROVE  JobsInOrder' /\ Phases' /\ Progress' /\ Residuals'
<1>1. ~InBatch' /\ pc' # "await_backward" /\ pc' # "await_forward"
  BY DEF InBatch
<1>2. JobsInOrder' /\ Residuals'
  BY DEF JobsInOrder, Residuals
<1>3. Phases'
  BY <1>1 DEF Phases
<1>4. Progress'
  BY <1>1 DEF PInv, Progress
<1> QED
  BY <1>2, <1>3, <1>4

LEMMA ShutdownKeeps ==
    ASSUME PInv, NEW w \in Workers, NEW m \in inbox[w], Shutdown(w, m)
    PROVE  PInv' /\ Configs' = Configs /\ Live' = Live
<1>1. /\ m.type = "SHUTDOWN" /\ inbox' = [inbox EXCEPT ![w] = @ \ {m}] /\ net' = net \cup {}
      /\ Apart
  BY DEF Shutdown, Handled, coordVars, history, Apart
<1>2. Addressed' /\ Exchanged({m}, {})
  <2>1. Moves(w, {m}, {}) /\ Fresh({}) /\ w \in Nodes
    BY <1>1, Numbers DEF Moves, Fresh
  <2> QED
    BY <2>1, Exchange DEF PInv
<1>3. m \notin Live
  BY <1>1 DEF Live, Tracked, JobTypes, ModeCommands
<1>4. Live' = Live
  BY <1>2, <1>3 DEF Exchanged
<1> QED
  BY <1>1, <1>2, <1>4, ApartKeeps

LEMMA UpdateKeeps ==
    ASSUME PInv, NEW w \in Workers, NEW m \in inbox[w], Update(w, m)
    PROVE  PInv' /\ Configs' = Configs /\ Live' = Live
<1> DEFINE n == Ack("PARAMETERS_UPDATED", w, m.n)
<1>1. /\ m.type = "UPDATE_PARAMETERS" /\ inbox' = [inbox EXCEPT ![w] = @ \ {m}]
      /\ net' = net \cup {n} /\ Apart
  BY DEF Update, Handled, coordVars, Apart
<1>2. n.type = "PARAMETERS_UPDATED" /\ n.to \in Nodes
  BY Fields, Numbers
<1> HIDE DEF n
<1>3. m.type \notin Tracked /\ n.type \notin Tracked
  BY <1>1, <1>2 DEF Tracked, JobTypes, ModeCommands
<1>4. Addressed' /\ Exchanged({m}, {n})
  <2>1. Moves(w, {m}, {n}) /\ Fresh({n}) /\ w \in Nodes
    BY <1>1, <1>2, <1>3, Numbers DEF Moves, Fresh
  <2> QED
    BY <2>1, Exchange DEF PInv
<1>5. Live' = Live
  BY <1>3, <1>4 DEF Live, Exchanged
<1> QED
  BY <1>1, <1>4, <1>5, ApartKeeps

LEMMA ExitKeeps ==
    ASSUME PInv, NEW w \in Workers, Exit(w)
    PROVE  PInv' /\ Configs' = Configs /\ Live' = Live
<1>1. UNCHANGED <<net, inbox>> /\ Apart
  BY DEF Exit, coordVars, history, Apart
<1>2. Addressed' /\ Live' = Live
  BY <1>1 DEF PInv, Addressed, Live
<1> QED
  BY <1>1, <1>2, ApartKeeps

----------------------------------------------------------------------------
(* Between two batches.                                                    *)

LEMMA PcAfterFacts == \A b : PcAfter(b) \in {"start_batch", "end_half"}
BY DEF PcAfter

(* What no step between two batches changes.                               *)
Resting == UNCHANGED <<async, serial, current, processed, residual, forwarded, trained>>

LEMMA RestKeeps ==
    ASSUME PInv, Resting, training' \in BOOLEAN, mode' \in [Workers -> BOOLEAN], Jobs' = {},
           pc' \notin {"await_forward", "await_backward"}, Addressed', Modes'
    PROVE  PInv'
<1>1. PipelineType'
  BY DEF PInv, PipelineType, Resting
<1>2. JobsInOrder' /\ Phases' /\ Progress' /\ Residuals'
  BY IdleKeeps DEF Resting
<1> QED
  BY <1>1, <1>2 DEF PInv

LEMMA SetTrainingKeeps ==
    ASSUME PInv, SetTraining
    PROVE  PInv' /\ Configs' = Configs
<1> DEFINE type == IF training THEN "TRAIN_MODE" ELSE "EVAL_MODE"
           new  == Broadcast(type, epoch)
<1>1. /\ pc = "set_training" /\ pc' = "join_mode" /\ net' = net \cup new /\ inbox' = inbox
      /\ Resting /\ UNCHANGED <<training, epoch, mode>>
  BY DEF SetTraining, workerVars, history, Resting
<1>2. Jobs = {} /\ Orders = {} /\ Changed = {}
  BY <1>1 DEF PInv, JobsInOrder, InBatch, Modes
<1>3. \A n \in new : /\ n.to \in Workers /\ n = Command(type, n.to, epoch) /\ n.type = type
                     /\ n.type \in ModeCommands
  BY Fields DEF Broadcast, ModeCommands
<1> HIDE DEF new, type
<1>4. Addressed' /\ Exchanged({}, new)
  <2>1. Fresh(new)
    BY <1>2, <1>3, Numbers DEF Orders, Fresh
  <2> QED
    BY <1>1, <2>1, SendOnly DEF PInv
<1>5. Jobs' = {} /\ Orders' = new /\ Changed' = {} /\ Configs' = Configs
  <2>1. \A n \in {} \cup new : n.type \notin JobTypes /\ n.type # "MODE_CHANGED"
                               /\ n.type # "CONFIG_TRANSFER"
    BY <1>3 DEF ModeCommands, JobTypes
  <2>2. Jobs' = Jobs /\ Changed' = Changed /\ Configs' = Configs
    BY <1>4, <2>1, ExchangeKinds
  <2>3. Orders' = (Orders \ {}) \cup new
    BY <1>3, <1>4, ExchangeKinds
  <2> QED
    BY <1>2, <2>2, <2>3
<1>6. Modes'
  BY <1>1, <1>3, <1>5 DEF Modes, Switched, type
<1> QED
  BY <1>1, <1>4, <1>5, <1>6, RestKeeps DEF PInv, PipelineType

(* NumWorkers answers of a kind are one of each worker.                    *)
LEMMA EveryWorker ==
    ASSUME NEW C, NEW type, NEW n, C \subseteq {Ack(type, w, n) : w \in Workers},
           Cardinality(C) >= NumWorkers
    PROVE  \A w \in Workers : Ack(type, w, n) \in C
<1> DEFINE T == {Ack(type, w, n) : w \in Workers}
           f == [w \in Workers |-> Ack(type, w, n)]
<1>1. IsFiniteSet(Workers) /\ Cardinality(Workers) = NumWorkers /\ NumWorkers \in Nat
  BY Numbers, FS_Interval DEF Workers
<1>2. f \in Surjection(Workers, T)
  BY DEF Surjection
<1> HIDE DEF f, T
<1>3. IsFiniteSet(T) /\ Cardinality(T) <= NumWorkers /\ Cardinality(T) \in Nat
  BY <1>1, <1>2, FS_Surjection, FS_CardinalityType
<1>4. C \subseteq T
  BY DEF T
<1>5. Cardinality(C) <= Cardinality(T) /\ (Cardinality(T) = Cardinality(C) => T = C)
  BY <1>3, <1>4, FS_Subset
<1>6. Cardinality(C) \in Nat
  BY <1>3, <1>4, FS_Subset, FS_CardinalityType
<1>7. T = C
  BY <1>1, <1>3, <1>5, <1>6
<1> QED
  BY <1>7 DEF T

LEMMA JoinModeKeeps ==
    ASSUME PInv, JoinMode
    PROVE  PInv' /\ Configs' = Configs
<1> DEFINE C == OfType(Coord, "MODE_CHANGED")
<1>1. /\ pc = "join_mode" /\ pc' = PcAfter(0) /\ Cardinality(C) >= NumWorkers
      /\ inbox' = [inbox EXCEPT ![Coord] = @ \ C] /\ net' = net \cup {}
      /\ Resting /\ UNCHANGED <<training, epoch, mode>>
  BY DEF JoinMode, workerVars, history, Resting, MessageCount
<1>2. C \subseteq inbox[Coord] /\ C \subseteq Changed /\ Coord \in Nodes
  BY Numbers DEF OfType, Changed, Live, Tracked
<1>3. \A w \in Workers : Ack("MODE_CHANGED", w, epoch) \in C
  <2>1. C \subseteq {Ack("MODE_CHANGED", w, epoch) : w \in Workers}
    BY <1>2 DEF PInv, Modes
  <2> QED
    BY <1>1, <2>1, EveryWorker
<1> HIDE DEF C
<1>4. Orders = {} /\ Changed \subseteq C /\ \A w \in Workers : mode[w] = training
  BY <1>2, <1>3, Fields DEF PInv, Modes
<1>5. Addressed' /\ Exchanged(C, {})
  <2>1. Moves(Coord, C, {}) /\ Fresh({})
    BY <1>1, <1>2 DEF Moves, Fresh
  <2> QED
    BY <1>2, <2>1, Exchange DEF PInv
<1>6. Jobs' = {} /\ Orders' = {} /\ Changed' = {} /\ Configs' = Configs
  <2>1. Jobs = {}
    BY <1>1 DEF PInv, JobsInOrder, InBatch
  <2>2. Configs \cap C = {}
    BY <1>2 DEF Configs, Changed
  <2> QED
    BY <1>4, <1>5, <2>1, <2>2, ExchangeKinds
<1>7. pc' \in {"start_batch", "end_half"}
  BY <1>1, PcAfterFacts
<1>8. Modes'
  BY <1>1, <1>4, <1>6, <1>7 DEF Modes
<1> QED
  BY <1>1, <1>5, <1>6, <1>7, <1>8, RestKeeps DEF PInv, PipelineType

(* Steps that neither take nor send a tracked message.                     *)
LEMMA SilentKinds ==
    ASSUME Addressed, NEW new, net' = net \cup new, inbox' = inbox,
           \A n \in new : n.to \in Nodes /\ n.type \notin Tracked
    PROVE  Addressed' /\ Live' = Live
<1>1. Fresh(new)
  BY DEF Fresh
<1>2. Addressed' /\ Exchanged({}, new)
  BY <1>1, SendOnly
<1> QED
  BY <1>2 DEF Exchanged

LEMMA JoinModeTimeoutKeeps ==
    ASSUME PInv, JoinModeTimeout
    PROVE  PInv' /\ Configs' = Configs
<1>1. /\ pc = "join_mode" /\ pc' = "failed" /\ inbox' = inbox /\ net' = net
      /\ Resting /\ UNCHANGED <<training, epoch, mode>>
  BY DEF JoinModeTimeout, workerVars, history, Resting
<1>2. Addressed' /\ Live' = Live
  BY <1>1 DEF PInv, Addressed, Live
<1>3. Jobs' = {} /\ Orders' = Orders /\ Changed' = Changed /\ Configs' = Configs
  BY <1>1, <1>2, SameKinds DEF PInv, JobsInOrder, InBatch
<1>4. Modes'
  BY <1>1, <1>3 DEF PInv, Modes, Switched
<1> QED
  BY <1>1, <1>2, <1>3, <1>4, RestKeeps DEF PInv, PipelineType

LEMMA UpdateParametersKeeps ==
    ASSUME PInv, UpdateParameters
    PROVE  PInv' /\ Configs' = Configs
<1> DEFINE new == Broadcast("UPDATE_PARAMETERS", updates + 1)
<1>1. /\ pc = "update" /\ pc' = "join_update" /\ inbox' = inbox /\ net' = net \cup new
      /\ Resting /\ UNCHANGED <<training, epoch, mode>>
  BY DEF UpdateParameters, workerVars, history, Resting
<1>2. \A n \in new : n.to \in Nodes /\ n.type \notin Tracked
  BY Fields, Numbers DEF Broadcast, Tracked, JobTypes, ModeCommands
<1> HIDE DEF new
<1>3. Addressed' /\ Live' = Live
  BY <1>1, <1>2, SilentKinds DEF PInv
<1>4. Jobs' = {} /\ Orders' = {} /\ Changed' = {} /\ Configs' = Configs
  BY <1>1, <1>3, SameKinds DEF PInv, JobsInOrder, InBatch, Modes
<1>5. Modes'
  BY <1>1, <1>4 DEF PInv, Modes, Switched
<1> QED
  BY <1>1, <1>3, <1>4, <1>5, RestKeeps DEF PInv, PipelineType

LEMMA JoinUpdateKeeps ==
    ASSUME PInv, JoinUpdate
    PROVE  PInv' /\ Configs' = Configs
<1>1. /\ pc = "join_update" /\ pc' = PcAfter(batch) /\ inbox' = inbox /\ net' = net
      /\ Resting /\ UNCHANGED <<training, epoch, mode>>
  BY DEF JoinUpdate, workerVars, history, Resting
<1>2. Addressed' /\ Live' = Live /\ pc' \in {"start_batch", "end_half"}
  BY <1>1, PcAfterFacts DEF PInv, Addressed, Live
<1>3. Jobs' = {} /\ Orders' = {} /\ Changed' = {} /\ Configs' = Configs
  BY <1>1, <1>2, SameKinds DEF PInv, JobsInOrder, InBatch, Modes
<1>4. Modes'
  BY <1>1, <1>2, <1>3 DEF PInv, Modes, Switched
<1> QED
  BY <1>1, <1>2, <1>3, <1>4, RestKeeps DEF PInv, PipelineType

LEMMA EndHalfKeeps ==
    ASSUME PInv, EndHalf
    PROVE  PInv' /\ Configs' = Configs
<1>1. PICK new \in {{}, Broadcast("SHUTDOWN", 0)} :
         /\ pc = "end_half" /\ pc' \in {"done", "set_training"} /\ inbox' = inbox
         /\ net' = net \cup new /\ training' = ~training
         /\ Resting /\ UNCHANGED mode
  BY DEF EndHalf, workerVars, history, Resting
<1>2. \A n \in new : n.to \in Nodes /\ n.type \notin Tracked
  BY <1>1, Fields, Numbers DEF Broadcast, Tracked, JobTypes, ModeCommands
<1>3. Addressed' /\ Live' = Live
  BY <1>1, <1>2, SilentKinds DEF PInv
<1>4. Jobs' = {} /\ Orders' = {} /\ Changed' = {} /\ Configs' = Configs
  BY <1>1, <1>3, SameKinds DEF PInv, JobsInOrder, InBatch, Modes
<1>5. Modes'
  BY <1>1, <1>4 DEF Modes, Switched
<1> QED
  BY <1>1, <1>3, <1>4, <1>5, RestKeeps DEF PInv, PipelineType

LEMMA SetModeKeeps ==
    ASSUME PInv, NEW w \in Workers, NEW m \in inbox[w], SetMode(w, m)
    PROVE  PInv' /\ Configs' = Configs
<1> DEFINE n == Ack("MODE_CHANGED", w, m.n)
<1>1. /\ m.type \in ModeCommands /\ inbox' = [inbox EXCEPT ![w] = @ \ {m}]
      /\ net' = net \cup {n} /\ Resting /\ UNCHANGED <<training, epoch, pc>>
      /\ mode' = [mode EXCEPT ![w] = (m.type = "TRAIN_MODE")]
  BY DEF SetMode, Handled, coordVars, history, Resting, ModeCommands
<1>2. m \in Orders /\ m.to = w /\ w \in Nodes /\ m \in Live
  BY <1>1, Numbers DEF Orders, Live, Tracked, PInv, Addressed
<1>3. /\ m = Command(IF training THEN "TRAIN_MODE" ELSE "EVAL_MODE", w, epoch)
      /\ pc \in {"join_mode", "failed"}
  BY <1>2 DEF PInv, Modes
<1>4. m.n = epoch /\ (m.type = "TRAIN_MODE" <=> training) /\ training \in BOOLEAN
  BY <1>3, Fields DEF PInv, PipelineType
<1>5. n = Ack("MODE_CHANGED", w, epoch) /\ n.type = "MODE_CHANGED" /\ n.to \in Nodes /\ n.from = w
  BY <1>4, Fields, Numbers
<1> HIDE DEF n
<1>6. n \notin Live /\ \A o \in Changed : o.from # w
  BY <1>2, <1>5 DEF PInv, Modes, Changed
<1>7. Addressed' /\ Exchanged({m}, {n})
  <2>1. Moves(w, {m}, {n}) /\ Fresh({n})
    BY <1>1, <1>5, <1>6 DEF Moves, Fresh
  <2> QED
    BY <1>2, <2>1, Exchange DEF PInv
<1>8. /\ Jobs' = {} /\ Orders' = Orders \ {m} /\ Changed' = Changed \cup {n}
      /\ Configs' = Configs
  <2>1. Jobs = {}
    BY <1>3 DEF PInv, JobsInOrder, InBatch
  <2>2. \A o \in {m} \cup {n} : o.type \notin JobTypes /\ o.type # "CONFIG_TRANSFER"
    BY <1>1, <1>5 DEF JobTypes, ModeCommands
  <2>3. Jobs' = Jobs /\ Configs' = Configs
    BY <1>7, <2>2, ExchangeKinds
  <2>4. Changed' = (Changed \ {m}) \cup {n} /\ m \notin Changed
    BY <1>1, <1>5, <1>7, ExchangeKinds DEF Changed, ModeCommands
  <2>5. Orders' = Orders \ {m}
    BY <1>5, <1>7, ExchangeKinds DEF ModeCommands
  <2> QED
    BY <2>1, <2>3, <2>4, <2>5
<1>9. /\ mode'[w] = training /\ \A v \in Workers : v # w => mode'[v] = mode[v]
      /\ mode' \in [Workers -> BOOLEAN]
  <2>1. mode \in [Workers -> BOOLEAN]
    BY DEF PInv, PipelineType
  <2>2. (m.type = "TRAIN_MODE") = training
    BY <1>4
  <2> QED
    BY <1>1, <1>4, <2>1, <2>2
<1>10. Modes'
  <2>1. \A o \in Orders' : o \in Orders /\ o.to # w
    <3>1. ASSUME NEW o \in Orders, o.to = w PROVE o = m
      BY <1>3, <3>1 DEF PInv, Modes
    <3> QED
      BY <1>8, <3>1
  <2>2. \A o \in Changed' : o = n \/ (o \in Changed /\ o.from # w)
    BY <1>6, <1>8
  <2> QED
    BY <1>1, <1>3, <1>5, <1>9, <2>1, <2>2 DEF PInv, Modes, Switched
<1> QED
  BY <1>1, <1>3, <1>4, <1>7, <1>8, <1>9, <1>10, RestKeeps

----------------------------------------------------------------------------
(* A batch.                                                                *)

LEMMA JobKinds ==
    ASSUME PInv, NEW m \in Jobs
    PROVE  /\ InBatch /\ m.type \in JobTypes /\ m \in Live /\ m.type \in Tracked
           /\ m.pid \in Begun /\ m.pid \in Pids /\ m.pid \in Nat /\ m.batch = serial
           /\ m.to \in Nodes
<1>1. /\ m.type \in JobTypes /\ m \in Live /\ m.type \in Tracked /\ m.to \in Nodes
  BY DEF Jobs, Live, PInv, Addressed
<1>2. InBatch /\ m.pid \in Begun /\ m.batch = serial
  BY DEF PInv, JobsInOrder
<1>3. Begun \subseteq Pids
  <2>1. Size \in Nat \ {0} /\ 0..(Size - 1) \subseteq Pids
    BY Numbers DEF PInv, PipelineType
  <2>2. current < Size /\ current \in Nat
    BY <1>2 DEF PInv, Phases, PipelineType
  <2>3. 0..current \subseteq 0..(Size - 1)
    BY <2>1, <2>2
  <2> QED
    BY <2>1, <2>3 DEF Begun
<1> QED
  BY <1>1, <1>2, <1>3, Numbers

(* Jobs are as many as the microbatches that they are for.                 *)
LEMMA PidsOf ==
    ASSUME PInv, NEW S, S \subseteq Jobs, NEW P, P = {m.pid : m \in S}
    PROVE  /\ P \subseteq Pids /\ IsFiniteSet(P) /\ IsFiniteSet(S)
           /\ Cardinality(P) = Cardinality(S) /\ Cardinality(S) \in Nat
<1> DEFINE f == [m \in S |-> m.pid]
<1>1. P \subseteq Pids
  BY JobKinds
<1>2. IsFiniteSet(Pids)
  BY Numbers, FS_Interval DEF Pids
<1>3. IsFiniteSet(P)
  BY <1>1, <1>2, FS_Subset
<1>4. f \in Injection(S, P) /\ f \in Surjection(S, P)
  BY DEF Injection, IsInjective, Surjection, PInv, JobsInOrder
<1> HIDE DEF f
<1>5. IsFiniteSet(S) /\ Cardinality(S) = Cardinality(P)
  BY <1>3, <1>4, FS_Injection
<1> QED
  BY <1>1, <1>3, <1>5, FS_CardinalityType

LEMMA LeftFacts ==
    ASSUME PInv
    PROVE  Left \subseteq Pids /\ IsFiniteSet(Left) /\ Cardinality(Left) \in Nat
<1>1. IsFiniteSet(Pids)
  BY Numbers, FS_Interval DEF Pids
<1> QED
  BY <1>1, FS_Subset, FS_CardinalityType DEF Left

LEMMA EndBatchFacts == EndBatch => pc' \in {"update", "start_batch", "end_half"}
BY PcAfterFacts DEF EndBatch

Framed == UNCHANGED <<async, training, epoch, serial, mode, residual, forwarded, trained>>

LEMMA ModesInBatch ==
    ASSUME PInv, pc \in Switched, pc' \in Switched, UNCHANGED <<training, mode>>,
           Orders' = Orders, Changed' = Changed
    PROVE  Modes'
BY DEF PInv, Modes, Switched

LEMMA EndBatchKeeps ==
    ASSUME PInv, InBatch, EndBatch, Framed, current' \in Nat, processed' \in Nat, Jobs' = {},
           Addressed', Orders' = Orders, Changed' = Changed
    PROVE  PInv'
<1>1. pc' \in {"update", "start_batch", "end_half"} /\ pc \in Switched /\ pc' \in Switched
  BY EndBatchFacts DEF InBatch, Switched
<1>2. JobsInOrder' /\ Phases' /\ Progress' /\ Residuals'
  BY <1>1, IdleKeeps DEF Framed
<1>3. PipelineType' /\ Modes'
  BY <1>1, ModesInBatch DEF PInv, PipelineType, Framed
<1> QED
  BY <1>2, <1>3 DEF PInv

LEMMA StartBatchKeeps ==
    ASSUME PInv, StartBatch
    PROVE  PInv' /\ Configs' = Configs
<1> DEFINE first == IF async THEN 0..(Size - 1) ELSE {0}
           new   == {Job("FORWARD_JOB", 1, p, serial + 1) : p \in first}
<1>1. /\ pc = "start_batch" /\ pc' = "await_forward" /\ serial' = serial + 1
      /\ net' = net \cup new /\ inbox' = inbox /\ processed' = 0 /\ current' = 0
      /\ UNCHANGED <<async, training, epoch, mode, residual, forwarded, trained>>
  BY DEF StartBatch, workerVars, history
<1>2. Size \in Nat \ {0} /\ 0..(Size - 1) \subseteq Pids /\ serial \in Nat
  BY Numbers DEF PInv, PipelineType
<1>3. \A n \in new : /\ n.type = "FORWARD_JOB" /\ n.to = 1 /\ n.pid \in first
                     /\ n.batch = serial + 1 /\ n = Job("FORWARD_JOB", 1, n.pid, serial + 1)
  <2> SUFFICES ASSUME NEW n \in new
               PROVE  /\ n.type = "FORWARD_JOB" /\ n.to = 1 /\ n.pid \in first
                      /\ n.batch = serial + 1
                      /\ n = Job("FORWARD_JOB", 1, n.pid, serial + 1)
    OBVIOUS
  <2>1. PICK p \in first : n = Job("FORWARD_JOB", 1, p, serial + 1)
    OBVIOUS
  <2> HIDE DEF first, new
  <2>2. n.type = "FORWARD_JOB" /\ n.to = 1 /\ n.pid = p /\ n.batch = serial + 1
    BY <2>1, Fields
  <2> QED
    BY <2>1, <2>2
<1>4. \A p \in first : \E n \in new : n.pid = p
  <2> SUFFICES ASSUME NEW p \in first PROVE \E n \in new : n.pid = p
    OBVIOUS
  <2>1. Job("FORWARD_JOB", 1, p, serial + 1) \in new
    OBVIOUS
  <2> QED
    BY <2>1, Fields
<1> HIDE DEF new
<1>5. Jobs = {}
  BY <1>1 DEF PInv, JobsInOrder, InBatch
<1>6. 1 \in Nodes /\ 1 \in Workers /\ 1 # Coord
  BY Numbers DEF Nodes, Workers, Coord
<1>7. Addressed' /\ Exchanged({}, new)
  <2>1. Fresh(new)
    BY <1>3, <1>5, <1>6 DEF Fresh, Jobs, JobTypes
  <2> QED
    BY <1>1, <2>1, SendOnly DEF PInv
<1>8. Jobs' = new /\ Orders' = Orders /\ Changed' = Changed /\ Configs' = Configs
  <2>1. \A o \in {} \cup new : /\ o.type \notin ModeCommands /\ o.type # "MODE_CHANGED"
                               /\ o.type # "CONFIG_TRANSFER" /\ o.type \in JobTypes
    BY <1>3 DEF ModeCommands, JobTypes
  <2>2. Orders' = Orders /\ Changed' = Changed /\ Configs' = Configs
    BY <1>7, <2>1, ExchangeKinds
  <2>3. Jobs' = (Jobs \ {}) \cup new
    BY <1>7, <2>1, ExchangeKinds
  <2> QED
    BY <1>5, <2>2, <2>3
<1>9. Size' = Size /\ Begun' = first /\ first \subseteq Pids
  <2>1. Size' = Size
    BY <1>1 DEF Size
  <2>2. 0..0 = {0} /\ 0 \in 0..(Size - 1)
    BY <1>2
  <2> QED
    BY <1>1, <1>2, <2>1, <2>2 DEF Begun
<1>10. PipelineType'
  BY <1>1, <1>2 DEF PInv, PipelineType
<1>11. JobsInOrder'
  <2>1. InBatch'
    BY <1>1 DEF InBatch
  <2>2. \A m, n \in new : m.pid = n.pid => m = n
    BY <1>3
  <2>3. \A m \in new : /\ m.pid \in Begun' /\ m.batch = serial'
                       /\ m = Job(m.type, m.to, m.pid, m.batch) /\ m.type = "FORWARD_JOB"
    BY <1>1, <1>3, <1>9
  <2> QED
    BY <1>8, <2>1, <2>2, <2>3 DEF JobsInOrder
<1>12. Phases'
  <2>1. async => processed' + Cardinality(Left') = Size
    <3> SUFFICES ASSUME async PROVE processed' + Cardinality(Left') = Size
      OBVIOUS
    <3>1. Left' = 0..(Size - 1)
      BY <1>3, <1>4, <1>8, <1>9 DEF Left
    <3>2. Cardinality(0..(Size - 1)) = Size
      BY <1>2, FS_Interval
    <3> QED
      BY <1>1, <1>2, <3>1, <3>2
  <2>2. current' < Size'
    BY <1>1, <1>2, <1>9
  <2>3. ~async => \A m \in new : m.pid = current'
    BY <1>1, <1>3
  <2> QED
    BY <1>1, <1>3, <1>8, <1>9, <2>1, <2>2, <2>3 DEF Phases
<1>13. Progress'
  <2>1. \A w \in Workers : \A b \in forwarded[w] \cup trained[w] :
           b[1] \in Nat /\ b[1] <= serial
    BY DEF PInv, Progress, PipelineType
  <2>2. \A w \in Workers : \A b \in forwarded[w] \cup trained[w] :
           b[1] <= serial' /\ b[1] # serial'
    BY <1>1, <1>2, <2>1
  <2>3. ASSUME NEW w \in Workers, NEW p \in Pids
        PROVE  <<serial', p>> \notin forwarded[w] /\ <<serial', p>> \notin trained[w]
    BY <2>2
  <2>4. ASSUME NEW w \in Workers, NEW p \in first
        PROVE  \E m \in new : m.pid = p /\ ~PassedForward(m, w) /\ ~PassedBackward(m, w)
    <3>1. PICK m \in new : m.pid = p
      BY <1>4
    <3>2. ~(1 = Coord \/ w < 1)
      BY <1>6 DEF Workers
    <3> QED
      BY <1>3, <3>1, <3>2 DEF PassedForward, PassedBackward
  <2> QED
    BY <1>1, <1>8, <1>9, <2>2, <2>3, <2>4 DEF Progress, PassedForward, PassedBackward
<1>14. Residuals'
  <2>1. \A m \in new : \A w \in Workers : ~PassedForward(m, w)
    BY <1>3, <1>6 DEF PassedForward, Workers
  <2> QED
    BY <1>8, <2>1 DEF Residuals, PassedForward, PassedBackward
<1>15. Modes'
  BY <1>1, <1>8, ModesInBatch DEF Switched
<1> QED
  BY <1>7, <1>8, <1>10, <1>11, <1>12, <1>13, <1>14, <1>15 DEF PInv

(* The outputs that the coordinator takes, and the gradients it sends.     *)
LEMMA GradientsOf ==
    ASSUME PInv, NEW S, S \subseteq Jobs, NEW n \in Gradients(S)
    PROVE  /\ n.type = "BACKWARD_JOB" /\ n.to = NumWorkers /\ n.batch = serial
           /\ n = Job(n.type, n.to, n.pid, n.batch)
           /\ \E m \in S : n.pid = m.pid
<1>1. PICK m \in S : n = Job("BACKWARD_JOB", NumWorkers, m.pid, m.batch)
  BY DEF Gradients
<1> QED
  BY <1>1, Fields, JobKinds

LEMMA GradientFor ==
    ASSUME NEW S, NEW m \in S
    PROVE  \E n \in Gradients(S) : n.pid = m.pid
<1>1. Job("BACKWARD_JOB", NumWorkers, m.pid, m.batch) \in Gradients(S)
  BY DEF Gradients
<1> QED
  BY <1>1, Fields

Outputs == OfType(Coord, "FORWARD_JOB")
Replies == IF training THEN Gradients(Outputs) ELSE {}

LEMMA OutputFacts ==
    ASSUME PInv
    PROVE  /\ Outputs \subseteq inbox[Coord] /\ Outputs \subseteq Jobs
           /\ \A m \in Outputs : m.type = "FORWARD_JOB" /\ m.to = Coord
<1>1. Coord \in Nodes
  BY Numbers
<1> QED
  BY <1>1 DEF PInv, Addressed, Outputs, OfType, Jobs, Live, Tracked, JobTypes

LEMMA TakeOutputs ==
    ASSUME PInv, Moves(Coord, Outputs, Replies)
    PROVE  /\ Addressed' /\ Orders' = Orders /\ Changed' = Changed /\ Configs' = Configs
           /\ Jobs' = (Jobs \ Outputs) \cup Replies
<1>1. \A n \in Replies : /\ n.type = "BACKWARD_JOB" /\ n.to = NumWorkers
                         /\ \E m \in Outputs : n.pid = m.pid
  BY GradientsOf, OutputFacts DEF Replies
<1>2. Fresh(Replies)
  <2> SUFFICES ASSUME NEW n \in Replies PROVE n.to \in Nodes /\ n \notin Live
    BY DEF Fresh
  <2>1. NumWorkers \in Nodes
    BY Numbers DEF Workers
  <2>2. n \in Live => n \in Jobs
    BY <1>1 DEF Jobs, JobTypes
  <2>3. n \notin Jobs
    BY <1>1, OutputFacts DEF PInv, JobsInOrder
  <2> QED
    BY <1>1, <2>1, <2>2, <2>3
<1>3. Addressed' /\ Exchanged(Outputs, Replies)
  BY <1>2, Exchange, Numbers DEF PInv
<1>4. \A o \in Outputs \cup Replies : /\ o.type \notin ModeCommands /\ o.type # "MODE_CHANGED"
                                      /\ o.type # "CONFIG_TRANSFER"
  BY <1>1, OutputFacts DEF ModeCommands
<1>5. \A o \in Replies : o.type \in JobTypes
  BY <1>1 DEF JobTypes
<1>6. Orders' = Orders /\ Changed' = Changed /\ Configs' = Configs
  BY <1>3, <1>4, ExchangeKinds
<1>7. Jobs' = (Jobs \ Outputs) \cup Replies
  BY <1>3, <1>5, ExchangeKinds
<1> QED
  BY <1>3, <1>6, <1>7

(* The batch goes on.                                                      *)
LEMMA OutputsKeep ==
    ASSUME PInv, Framed, UNCHANGED current, pc = "await_forward", InBatch',
           Jobs' = (Jobs \ Outputs) \cup Replies
    PROVE  JobsInOrder' /\ Progress' /\ Residuals'
<1>1. Size' = Size /\ Begun' = Begun /\ serial' = serial
  BY DEF Size, Begun, Framed
<1>2. \A n \in Replies : /\ n.type = "BACKWARD_JOB" /\ n.to = NumWorkers /\ n.batch = serial
                         /\ n = Job(n.type, n.to, n.pid, n.batch)
                         /\ \E m \in Outputs : n.pid = m.pid
  BY GradientsOf, OutputFacts DEF Replies
<1>3. NumWorkers \in Workers /\ Workers \subseteq Nat /\ \A w \in Workers : w <= NumWorkers
  BY Numbers DEF Workers
<1>4. \A m, o \in Jobs : m.pid = o.pid => m = o
  BY DEF PInv, JobsInOrder
<1>5. Outputs \subseteq Jobs
  BY OutputFacts
<1>6. JobsInOrder'
  <2>1. \A m \in Jobs' :
           /\ m.pid \in Begun /\ m.batch = serial /\ m = Job(m.type, m.to, m.pid, m.batch)
           /\ m.type = "BACKWARD_JOB" => m.to \in Workers
           /\ m.type = "BACKWARD_COMPLETE" => m.to = Coord
    BY <1>2, <1>3, <1>5 DEF PInv, JobsInOrder
  <2>2. ASSUME NEW m \in Jobs', NEW o \in Jobs', m.pid = o.pid PROVE m = o
    BY <1>2, <1>4, <1>5, <2>2
  <2> QED
    BY <1>1, <2>1, <2>2 DEF JobsInOrder
<1>7. Progress'
  <2> SUFFICES ASSUME NEW w \in Workers, NEW p \in Pids
               PROVE  /\ (\A m \in Jobs : m.pid = p => PassedForward(m, w)) <=>
                         (\A m \in Jobs' : m.pid = p => PassedForward(m, w))
                      /\ training => ((\A m \in Jobs : m.pid = p => PassedBackward(m, w)) <=>
                                      (\A m \in Jobs' : m.pid = p => PassedBackward(m, w)))
    <3>1. InBatch
      BY DEF InBatch
    <3> QED
      BY <1>1, <3>1 DEF PInv, Progress, Framed, PassedForward, PassedBackward
  <2>1. \A m \in Outputs : PassedForward(m, w) /\ ~PassedBackward(m, w)
    BY OutputFacts DEF PassedForward, PassedBackward
  <2>2. \A n \in Replies : PassedForward(n, w) /\ ~PassedBackward(n, w)
    BY <1>2, <1>3 DEF PassedForward, PassedBackward
  <2>3. training => \A m \in Outputs : \E n \in Replies : n.pid = m.pid
    BY GradientFor DEF Replies
  <2> QED
    BY <1>2, <1>5, <2>1, <2>2, <2>3
<1>8. Residuals'
  <2> SUFFICES ASSUME NEW m \in Jobs', m.type # "BACKWARD_COMPLETE", NEW w \in Workers,
                      PassedForward(m, w) /\ ~PassedBackward(m, w)
               PROVE  residual[w][m.pid] = serial
    BY <1>1 DEF Residuals, Framed, PassedForward, PassedBackward
  <2>1. CASE m \in Replies
    <3>1. PICK o \in Outputs : o.pid = m.pid
      BY <1>2, <2>1
    <3>2. /\ o.type # "BACKWARD_COMPLETE" /\ PassedForward(o, w) /\ ~PassedBackward(o, w)
          /\ o \in Jobs
      BY OutputFacts DEF PassedForward, PassedBackward
    <3> QED
      BY <3>1, <3>2 DEF PInv, Residuals
  <2> QED
    BY <2>1 DEF PInv, Residuals
<1> QED
  BY <1>6, <1>7, <1>8

LEMMA AsyncOutputsKeeps ==
    ASSUME PInv, AsyncOutputs
    PROVE  PInv' /\ Configs' = Configs
<1>1. /\ pc = "await_forward" /\ async
      /\ Moves(Coord, Outputs, Replies) /\ processed' = processed + Cardinality(Outputs)
      /\ UNCHANGED <<async, training, epoch, serial, current, mode, residual, forwarded, trained>>
      /\ IF processed' < Size THEN UNCHANGED <<pc, batch, acc>>
         ELSE IF training THEN pc' = "await_backward" /\ UNCHANGED <<batch, acc>>
         ELSE EndBatch
  BY OutputFacts DEF AsyncOutputs, Outputs, Replies, Moves, workerVars, history
<1>2. InBatch /\ Framed
  BY <1>1 DEF InBatch, Framed
<1>3. /\ Addressed' /\ Orders' = Orders /\ Changed' = Changed /\ Configs' = Configs
      /\ Jobs' = (Jobs \ Outputs) \cup Replies
  BY <1>1, TakeOutputs
<1>4. Cardinality(Outputs) \in Nat /\ processed' \in Nat /\ Size \in Nat \ {0}
  <2>1. Cardinality(Outputs) \in Nat
    <3> DEFINE P == {m.pid : m \in Outputs}
    <3>1. Outputs \subseteq Jobs
      BY OutputFacts
    <3> QED
      BY <3>1, PidsOf
  <2> QED
    BY <1>1, <2>1, Numbers DEF PInv, PipelineType
<1>5. \A n \in Replies : n.type = "BACKWARD_JOB"
  BY GradientsOf, OutputFacts DEF Replies
<1>6. IsFiniteSet(Left') /\ processed' + Cardinality(Left') = Size /\ Cardinality(Left') \in Nat
  <2> DEFINE P == {m.pid : m \in Outputs}
  <2>1. /\ IsFiniteSet(P) /\ Cardinality(P) = Cardinality(Outputs) /\ P \subseteq Pids
    BY OutputFacts, PidsOf
  <2>2. P \subseteq Left
    BY <2>1, OutputFacts DEF Left
  <2>3. Left' = Left \ P
    <3>1. ASSUME NEW p \in Pids, NEW m \in Jobs \ Outputs, m.pid = p PROVE p \notin P
      BY <3>1, OutputFacts DEF PInv, JobsInOrder
    <3> QED
      BY <1>3, <1>5, <3>1 DEF Left
  <2> HIDE DEF P
  <2>4. Left \cap P = P
    BY <2>2
  <2>5. /\ IsFiniteSet(Left \ P)
        /\ Cardinality(Left \ P) = Cardinality(Left) - Cardinality(Left \cap P)
    BY LeftFacts, FS_Difference
  <2>6. Cardinality(Left \ P) \in Nat /\ Cardinality(Left) \in Nat
    BY <2>5, LeftFacts, FS_CardinalityType
  <2>7. processed + Cardinality(Left) = Size /\ processed \in Nat
    BY <1>1 DEF PInv, Phases, PipelineType
  <2>8. Cardinality(Left') = Cardinality(Left) - Cardinality(Outputs)
    BY <2>1, <2>3, <2>4, <2>5
  <2> QED
    BY <1>1, <1>4, <2>3, <2>5, <2>6, <2>7, <2>8
<1>7. ~(processed' < Size) => \A m \in Jobs' : m.type # "FORWARD_JOB"
  <2> SUFFICES ASSUME ~(processed' < Size) PROVE \A m \in Jobs' : m.type # "FORWARD_JOB"
    OBVIOUS
  <2>1. Cardinality(Left') = 0
    BY <1>4, <1>6
  <2>2. Left' = {}
    BY <1>6, <2>1, FS_EmptySet
  <2>3. \A m \in Jobs' : m.type = "FORWARD_JOB" => m.pid \in Pids
    BY <1>3, <1>5, JobKinds
  <2> QED
    BY <2>2, <2>3 DEF Left
<1>8. PipelineType'
  BY <1>1, <1>4 DEF PInv, PipelineType
<1>9. ~training => Jobs' \subseteq Jobs /\ \A m \in Jobs : m.type = "FORWARD_JOB"
  BY <1>3 DEF Replies, PInv, Phases
<1>10. ASSUME InBatch' PROVE PInv'
  <2>1. /\ pc' \in {"await_forward", "await_backward"}
        /\ pc' = "await_backward" => training /\ ~(processed' < Size)
    BY <1>1, <1>10, EndBatchFacts DEF InBatch
  <2>2. JobsInOrder' /\ Progress' /\ Residuals'
    BY <1>1, <1>2, <1>3, <1>10, OutputsKeep
  <2>3. Phases'
    <3>1. current' < Size' /\ Size' = Size
      BY <1>1, <1>2 DEF PInv, Phases, Size
    <3> QED
      BY <1>1, <1>6, <1>7, <1>9, <2>1, <3>1 DEF Phases
  <2>4. Modes'
    BY <1>1, <1>3, <2>1, ModesInBatch DEF Switched
  <2> QED
    BY <1>3, <1>8, <2>2, <2>3, <2>4 DEF PInv
<1>11. ASSUME ~InBatch' PROVE PInv'
  <2>1. EndBatch /\ ~training /\ ~(processed' < Size)
    BY <1>1, <1>11 DEF InBatch
  <2>2. Jobs' = {}
    BY <1>7, <1>9, <2>1
  <2>3. current' \in Nat
    BY <1>1 DEF PInv, PipelineType
  <2> QED
    BY <1>2, <1>3, <1>4, <2>1, <2>2, <2>3, EndBatchKeeps
<1> QED
  BY <1>3, <1>10, <1>11

(* The coordinator takes jobs for itself.                                  *)
LEMMA TakeJobs ==
    ASSUME PInv, NEW C, C \subseteq Jobs, Moves(Coord, C, {})
    PROVE  /\ Addressed' /\ Orders' = Orders /\ Changed' = Changed /\ Configs' = Configs
           /\ Jobs' = Jobs \ C
<1>1. Fresh({}) /\ Coord \in Nodes
  BY Numbers DEF Fresh
<1>2. Addressed' /\ Exchanged(C, {})
  BY <1>1, Exchange DEF PInv
<1>3. \A o \in C \cup {} : /\ o.type \notin ModeCommands /\ o.type # "MODE_CHANGED"
                           /\ o.type # "CONFIG_TRANSFER"
  BY DEF Jobs, ModeCommands, JobTypes
<1>4. Orders' = Orders /\ Changed' = Changed /\ Configs' = Configs
  BY <1>2, <1>3, ExchangeKinds
<1>5. Jobs' = Jobs \ C
  BY <1>2, ExchangeKinds
<1> QED
  BY <1>2, <1>4, <1>5

Completions == OfType(Coord, "BACKWARD_COMPLETE")

LEMMA CompletionFacts ==
    ASSUME PInv
    PROVE  /\ Completions \subseteq inbox[Coord] /\ Completions \subseteq Jobs
           /\ \A m \in Completions : m.type = "BACKWARD_COMPLETE"
<1>1. Coord \in Nodes
  BY Numbers
<1> QED
  BY <1>1 DEF Completions, OfType, Jobs, Live, Tracked, JobTypes

LEMMA AsyncCompleteKeeps ==
    ASSUME PInv, AsyncComplete
    PROVE  PInv' /\ Configs' = Configs
<1>1. /\ pc = "await_backward" /\ Cardinality(Completions) >= Microbatches
      /\ Moves(Coord, Completions, {}) /\ EndBatch /\ Framed /\ UNCHANGED <<current, processed>>
  BY CompletionFacts DEF AsyncComplete, Completions, Moves, MessageCount, workerVars, history,
                         Framed
<1>2. Jobs \subseteq Completions
  <2> DEFINE P == {m.pid : m \in Completions}
  <2>1. /\ P \subseteq Pids /\ IsFiniteSet(P) /\ Cardinality(P) = Cardinality(Completions)
        /\ Cardinality(Completions) \in Nat
    BY CompletionFacts, PidsOf
  <2>2. IsFiniteSet(Pids) /\ Cardinality(Pids) = Microbatches
    BY Numbers, FS_Interval DEF Pids
  <2>3. P = Pids
    <3>1. Cardinality(P) <= Cardinality(Pids) /\ (Cardinality(Pids) = Cardinality(P) => Pids = P)
      BY <2>1, <2>2, FS_Subset
    <3> HIDE DEF P
    <3>2. Cardinality(Pids) = Cardinality(P)
      BY <1>1, <2>1, <2>2, <3>1, Numbers
    <3> QED
      BY <3>1, <3>2
  <2>4. ASSUME NEW m \in Jobs PROVE m \in Completions
    <3>1. m.pid \in P
      BY <2>3, JobKinds
    <3>2. PICK o \in Completions : o.pid = m.pid
      BY <3>1
    <3> QED
      BY <3>2, CompletionFacts DEF PInv, JobsInOrder
  <2> QED
    BY <2>4
<1>3. /\ Addressed' /\ Orders' = Orders /\ Changed' = Changed /\ Configs' = Configs
      /\ Jobs' = {}
  BY <1>1, <1>2, CompletionFacts, TakeJobs
<1>4. InBatch /\ current' \in Nat /\ processed' \in Nat
  BY <1>1 DEF InBatch, PInv, PipelineType
<1> QED
  BY <1>1, <1>3, <1>4, EndBatchKeeps

(* A synchronous batch has one job at a time.                              *)
LEMMA OneJob ==
    ASSUME PInv, ~async, NEW C, C \subseteq Jobs, C # {}
    PROVE  Jobs = C /\ \A m \in C : m.pid = current
BY DEF PInv, Phases, JobsInOrder

LEMMA SyncOutputTrains ==
    ASSUME PInv, SyncOutput
    PROVE  /\ pc = "await_forward" /\ ~async /\ Jobs = Outputs
           /\ Moves(Coord, Outputs, Replies) /\ Framed /\ UNCHANGED <<current, processed>>
           /\ IF training THEN pc' = "await_backward" ELSE EndBatch
<1>1. /\ pc = "await_forward" /\ ~async /\ Outputs # {}
      /\ inbox' = [inbox EXCEPT ![Coord] = @ \ Outputs] /\ Framed /\ UNCHANGED processed
  BY DEF SyncOutput, Outputs, workerVars, history, Framed
<1>2. Jobs = Outputs /\ \A m \in Outputs : m.pid = current
  BY <1>1, OneJob, OutputFacts
<1>3. {m \in Outputs : m.pid = current} = Outputs
  BY <1>2
<1>4. IF training
        THEN net' = net \cup Gradients(Outputs) /\ pc' = "await_backward" /\ UNCHANGED current
        ELSE NextMicrobatch
  BY <1>1, <1>3 DEF SyncOutput, Outputs
<1>5. ~training => ~(current + 1 < Size)
  <2>1. current < Size /\ current \in Nat
    BY <1>1 DEF PInv, Phases, PipelineType, InBatch
  <2> QED
    BY <2>1 DEF Size
<1>6. ~training => EndBatch /\ UNCHANGED <<current, net>>
  BY <1>4, <1>5 DEF NextMicrobatch
<1> QED
  BY <1>1, <1>2, <1>4, <1>6, OutputFacts DEF Moves, Replies

LEMMA SyncOutputKeeps ==
    ASSUME PInv, SyncOutput
    PROVE  PInv' /\ Configs' = Configs
<1>1. /\ pc = "await_forward" /\ ~async /\ Jobs = Outputs
      /\ Moves(Coord, Outputs, Replies) /\ Framed /\ UNCHANGED <<current, processed>>
      /\ IF training THEN pc' = "await_backward" ELSE EndBatch
  BY SyncOutputTrains
<1>2. /\ Addressed' /\ Orders' = Orders /\ Changed' = Changed /\ Configs' = Configs
      /\ Jobs' = Replies
  BY <1>1, TakeOutputs
<1>3. InBatch /\ current' \in Nat /\ processed' \in Nat
  BY <1>1 DEF InBatch, PInv, PipelineType
<1>4. ASSUME training PROVE PInv'
  <2>1. InBatch' /\ pc' = "await_backward"
    BY <1>1, <1>4 DEF InBatch
  <2>2. JobsInOrder' /\ Progress' /\ Residuals'
    BY <1>1, <1>2, <2>1, OutputsKeep
  <2>3. \A n \in Replies : n.type = "BACKWARD_JOB" /\ \E m \in Outputs : n.pid = m.pid
    BY GradientsOf, OutputFacts DEF Replies
  <2>4. \A m \in Outputs : m.pid = current
    BY <1>1, OutputFacts DEF PInv, Phases
  <2>5. Phases'
    <3>1. current' < Size' /\ Size' = Size
      BY <1>1, <1>3 DEF PInv, Phases, Size, Framed
    <3> QED
      BY <1>1, <1>2, <1>4, <2>1, <2>3, <2>4, <3>1 DEF Phases, Framed
  <2>6. PipelineType' /\ Modes'
    BY <1>1, <1>2, <2>1, ModesInBatch DEF PInv, PipelineType, Framed, Switched
  <2> QED
    BY <1>2, <2>2, <2>5, <2>6 DEF PInv
<1>5. ASSUME ~training PROVE PInv'
  <2>1. Jobs' = {} /\ EndBatch
    BY <1>1, <1>2, <1>5 DEF Replies
  <2> QED
    BY <1>1, <1>2, <1>3, <2>1, EndBatchKeeps
<1> QED
  BY <1>2, <1>4, <1>5

(* The next microbatch of a synchronous batch begins when the one before   *)
(* it is complete.                                                         *)
LEMMA NextBegins ==
    ASSUME PInv, NEW C, C \subseteq inbox[Coord], Jobs = C, C # {}, ~async,
           pc = "await_backward", \A m \in C : m.type = "BACKWARD_COMPLETE" /\ m.pid = current,
           NEW n, n = Job("FORWARD_JOB", 1, current + 1, serial), Moves(Coord, C, {n}),
           current + 1 < Size, current' = current + 1, pc' = "await_forward", Framed,
           UNCHANGED processed
    PROVE  PInv' /\ Configs' = Configs
<1>1. /\ n.type = "FORWARD_JOB" /\ n.to = 1 /\ n.pid = current + 1 /\ n.batch = serial
      /\ n = Job(n.type, n.to, n.pid, n.batch)
  BY Fields
<1>2. 1 \in Nodes /\ 1 \in Workers /\ 1 # Coord /\ Workers \subseteq Nat
  BY Numbers DEF Nodes, Workers, Coord
<1>3. /\ current \in Nat /\ current + 1 \in Pids /\ Size' = Size /\ InBatch /\ training
      /\ training' /\ ~async' /\ serial' = serial
  <2>1. Size \in Nat \ {0} /\ 0..(Size - 1) \subseteq Pids /\ current \in Nat
    BY Numbers DEF PInv, PipelineType
  <2>2. current + 1 \in 0..(Size - 1)
    BY <2>1
  <2> QED
    BY <2>1, <2>2 DEF PInv, Phases, Size, InBatch, Framed
<1>4. n \notin Live /\ n \notin Jobs
  <2>1. n.pid # current
    BY <1>1, <1>3
  <2>2. n \notin Jobs
    BY <2>1
  <2> QED
    BY <1>1, <2>2 DEF Jobs, JobTypes
<1>5. Addressed' /\ Exchanged(C, {n})
  <2>1. Fresh({n}) /\ Coord \in Nodes
    BY <1>1, <1>2, <1>4, Numbers DEF Fresh
  <2> QED
    BY <2>1, Exchange DEF PInv
<1>6. Orders' = Orders /\ Changed' = Changed /\ Configs' = Configs /\ Jobs' = {n}
  <2>1. \A o \in C \cup {n} : /\ o.type \notin ModeCommands /\ o.type # "MODE_CHANGED"
                              /\ o.type # "CONFIG_TRANSFER" /\ o.type \in JobTypes
    BY <1>1 DEF ModeCommands, JobTypes
  <2>2. Orders' = Orders /\ Changed' = Changed /\ Configs' = Configs
    BY <1>5, <2>1, ExchangeKinds
  <2>3. Jobs' = (Jobs \ C) \cup {n}
    BY <1>5, <2>1, ExchangeKinds
  <2> QED
    BY <2>2, <2>3
<1>7. InBatch' /\ Begun = 0..current /\ Begun' = 0..(current + 1) /\ n.pid \in Begun'
  <2>1. current + 1 \in 0..(current + 1)
    BY <1>3
  <2> QED
    BY <1>1, <1>3, <2>1 DEF Begun, InBatch
<1>8. PipelineType'
  BY <1>3 DEF PInv, PipelineType, Framed
<1>9. JobsInOrder'
  BY <1>1, <1>3, <1>6, <1>7 DEF JobsInOrder
<1>10. Phases'
  BY <1>1, <1>3, <1>6 DEF Phases
<1>11. Progress'
  <2>1. \A w \in Workers : \A b \in forwarded'[w] \cup trained'[w] : b[1] <= serial'
    BY <1>3 DEF PInv, Progress, Framed
  <2>2. ASSUME NEW w \in Workers
        PROVE  /\ ~PassedForward(n, w) /\ ~PassedBackward(n, w)
               /\ \A m \in Jobs : PassedForward(m, w) /\ PassedBackward(m, w)
    <3>1. ~(1 = Coord \/ 1 > w) /\ ~(1 = Coord \/ w < 1)
      BY <1>2 DEF Workers
    <3> QED
      BY <1>1, <3>1 DEF PassedForward, PassedBackward
  <2>3. ASSUME NEW w \in Workers, NEW p \in Pids
        PROVE  /\ <<serial, p>> \in forwarded[w] <=> p \in Begun
               /\ <<serial, p>> \in trained[w] <=> p \in Begun
    BY <1>3, <2>2 DEF PInv, Progress
  <2>4. \A p \in Pids : p \in Begun <=> p \in Begun' /\ p # n.pid
    BY <1>1, <1>3, <1>7 DEF Pids
  <2> QED
    BY <1>3, <1>6, <1>7, <2>1, <2>2, <2>3, <2>4 DEF Progress, Framed, PassedForward,
                                                    PassedBackward
<1>12. Residuals'
  <2>1. \A w \in Workers : ~PassedForward(n, w)
    BY <1>1, <1>2 DEF PassedForward, Workers
  <2> QED
    BY <1>6, <2>1 DEF Residuals, PassedForward, PassedBackward
<1>13. Modes'
  BY <1>6, ModesInBatch DEF Switched, Framed
<1> QED
  BY <1>5, <1>6, <1>8, <1>9, <1>10, <1>11, <1>12, <1>13 DEF PInv

LEMMA SyncCompleteKeeps ==
    ASSUME PInv, SyncComplete
    PROVE  PInv' /\ Configs' = Configs
<1>1. /\ pc = "await_backward" /\ ~async /\ Cardinality(Completions) > 0
      /\ inbox' = [inbox EXCEPT ![Coord] = @ \ Completions] /\ NextMicrobatch
      /\ Framed /\ UNCHANGED processed
  BY DEF SyncComplete, Completions, MessageCount, workerVars, history, Framed
<1>2. Completions # {}
  BY <1>1, FS_EmptySet
<1>3. Jobs = Completions /\ \A m \in Completions : m.pid = current
  BY <1>1, <1>2, OneJob, CompletionFacts
<1>4. CASE current + 1 < Size
  <2> DEFINE n == Job("FORWARD_JOB", 1, current + 1, serial)
  <2>1. current' = current + 1 /\ net' = net \cup {n} /\ pc' = "await_forward"
    BY <1>1, <1>4 DEF NextMicrobatch
  <2>2. Moves(Coord, Completions, {n})
    BY <1>1, <2>1, CompletionFacts DEF Moves
  <2> HIDE DEF n
  <2>3. PICK o : o = Job("FORWARD_JOB", 1, current + 1, serial) /\ Moves(Coord, Completions, {o})
    BY <2>2 DEF n
  <2> QED
    BY <1>1, <1>2, <1>3, <1>4, <2>1, <2>3, CompletionFacts, NextBegins
<1>5. CASE ~(current + 1 < Size)
  <2>1. EndBatch /\ UNCHANGED <<current, net>>
    BY <1>1, <1>5 DEF NextMicrobatch
  <2>2. Moves(Coord, Completions, {})
    BY <1>1, <2>1, CompletionFacts DEF Moves
  <2>3. /\ Addressed' /\ Orders' = Orders /\ Changed' = Changed /\ Configs' = Configs
        /\ Jobs' = {}
    BY <1>3, <2>2, CompletionFacts, TakeJobs
  <2>4. InBatch /\ current' \in Nat /\ processed' \in Nat
    BY <1>1, <2>1 DEF InBatch, PInv, PipelineType
  <2> QED
    BY <1>1, <2>1, <2>3, <2>4, EndBatchKeeps
<1> QED
  BY <1>4, <1>5

(* A worker handles one job, and sends one for the same microbatch.        *)
LEMMA JobStep ==
    ASSUME PInv, NEW w \in Workers, NEW m \in Jobs, m \in inbox[w], m.to = w,
           NEW n, n.type \in JobTypes, n.pid = m.pid, n.to \in Nodes, n.to # w,
           n.batch = serial, n = Job(n.type, n.to, n.pid, n.batch), Moves(w, {m}, {n})
    PROVE  /\ Addressed' /\ Orders' = Orders /\ Changed' = Changed /\ Configs' = Configs
           /\ Jobs' = (Jobs \ {m}) \cup {n} /\ \A o \in Jobs : o # m => o.pid # m.pid
<1>1. \A o \in Jobs : o # m => o.pid # m.pid
  BY DEF PInv, JobsInOrder
<1>2. n \notin Jobs
  BY <1>1
<1>3. n \notin Live /\ n.type \in Tracked
  BY <1>2 DEF Jobs, Tracked
<1>4. Addressed' /\ Exchanged({m}, {n})
  <2>1. Fresh({n}) /\ w \in Nodes
    BY <1>3, Numbers DEF Fresh
  <2> QED
    BY <2>1, Exchange DEF PInv
<1>5. \A o \in {m} \cup {n} : /\ o.type \notin ModeCommands /\ o.type # "MODE_CHANGED"
                              /\ o.type # "CONFIG_TRANSFER" /\ o.type \in JobTypes
  BY DEF Jobs, ModeCommands, JobTypes
<1>6. Orders' = Orders /\ Changed' = Changed /\ Configs' = Configs
  BY <1>4, <1>5, ExchangeKinds
<1>7. Jobs' = (Jobs \ {m}) \cup {n}
  BY <1>4, <1>5, ExchangeKinds
<1> QED
  BY <1>1, <1>4, <1>6, <1>7

(* What that leaves as it was.                                             *)
LEMMA JobStepKeeps ==
    ASSUME PInv, NEW m \in Jobs, NEW n, n.type \in JobTypes, n.pid = m.pid, n.batch = serial,
           n = Job(n.type, n.to, n.pid, n.batch),
           n.type = "BACKWARD_JOB" => n.to \in Workers,
           n.type = "BACKWARD_COMPLETE" => n.to = Coord,
           m.type = "FORWARD_JOB" <=> n.type = "FORWARD_JOB",
           \A o \in Jobs : o # m => o.pid # m.pid, Jobs' = (Jobs \ {m}) \cup {n},
           UNCHANGED <<pc, async, training, serial, current, processed>>
    PROVE  JobsInOrder' /\ Phases' /\ Begun' = Begun /\ InBatch' /\ InBatch
<1>1. /\ InBatch /\ InBatch' /\ Size' = Size /\ Begun' = Begun /\ serial' = serial
      /\ m.pid \in Begun /\ m.pid \in Pids
  BY JobKinds DEF InBatch, Size, Begun
<1>2. JobsInOrder'
  <2>1. \A o \in Jobs' : /\ o.pid \in Begun /\ o.batch = serial
                         /\ o = Job(o.type, o.to, o.pid, o.batch)
                         /\ o.type = "BACKWARD_JOB" => o.to \in Workers
                         /\ o.type = "BACKWARD_COMPLETE" => o.to = Coord
    BY <1>1 DEF PInv, JobsInOrder
  <2>2. \A o, q \in Jobs' : o.pid = q.pid => o = q
    <3>1. \A o, q \in Jobs : o.pid = q.pid => o = q
      BY DEF PInv, JobsInOrder
    <3> QED
      BY <3>1
  <2> QED
    BY <1>1, <2>1, <2>2 DEF JobsInOrder
<1>3. Left' = Left
  BY DEF Left
<1>4. Phases'
  BY <1>1, <1>3 DEF PInv, Phases
<1> QED
  BY <1>1, <1>2, <1>4

Successor(w)   == IF w = NumWorkers THEN Coord ELSE w + 1
Predecessor(w) == IF w = 1 THEN Coord ELSE w - 1

LEMMA Neighbours ==
    ASSUME NEW w \in Workers
    PROVE  /\ Successor(w) \in Nodes /\ Successor(w) # w /\ w # Coord
           /\ Predecessor(w) \in Nodes /\ Predecessor(w) # w
           /\ w # 1 => Predecessor(w) \in Workers
           /\ \A v \in Workers : /\ Successor(w) = Coord \/ v < Successor(w) <=> v < w \/ v = w
                                 /\ w # 1 => (Predecessor(w) < v <=> w < v \/ v = w)
                                 /\ w = 1 => w < v \/ v = w
                                 /\ ~(w < w) /\ (v < w \/ v = w \/ w < v) /\ ~(v < w /\ w < v)
BY Numbers DEF Successor, Predecessor, Nodes, Workers, Coord

(* Which stages a microbatch has passed changes at one stage only.         *)
PassesOnly(m, n, w) ==
    \A v \in Workers : v # w =>
        /\ PassedForward(n, v) <=> PassedForward(m, v)
        /\ PassedBackward(n, v) <=> PassedBackward(m, v)

LEMMA PassingKeeps ==
    ASSUME PInv, NEW w \in Workers, NEW m \in Jobs, NEW n, n.pid = m.pid,
           \A o \in Jobs : o # m => o.pid # m.pid, Jobs' = (Jobs \ {m}) \cup {n},
           PassesOnly(m, n, w), InBatch, Begun' = Begun, UNCHANGED <<training, serial>>,
           \A v \in Workers : v # w => /\ forwarded'[v] = forwarded[v] /\ trained'[v] = trained[v]
                                       /\ residual'[v] = residual[v],
           \A p \in Pids : p # m.pid => residual'[w][p] = residual[w][p],
           forwarded'[w] = IF PassedForward(n, w) THEN forwarded[w] \cup {<<serial, m.pid>>}
                                                  ELSE forwarded[w],
           trained'[w] = IF PassedBackward(n, w) THEN trained[w] \cup {<<serial, m.pid>>}
                                                 ELSE trained[w],
           training \/ ~PassedBackward(n, w),
           ~PassedForward(m, w) \/ PassedForward(n, w),
           ~PassedBackward(m, w) \/ PassedBackward(n, w),
           PassedForward(n, w) /\ ~PassedBackward(n, w) => residual'[w][m.pid] = serial,
           n.type # "BACKWARD_COMPLETE" => m.type # "BACKWARD_COMPLETE"
    PROVE  Progress' /\ Residuals'
<1>1. m.pid \in Begun /\ m.pid \in Pids /\ m.batch = serial /\ serial \in Nat
  BY JobKinds DEF PInv, PipelineType
<1>2. Progress'
  <2>1. \A v \in Workers : \A b \in forwarded'[v] \cup trained'[v] : b[1] <= serial
    <3>1. \A v \in Workers : \A b \in forwarded[v] \cup trained[v] : b[1] <= serial
      BY DEF PInv, Progress
    <3>2. <<serial, m.pid>>[1] <= serial
      BY <1>1
    <3> QED
      BY <3>1, <3>2
  <2>2. ASSUME NEW v \in Workers, NEW p \in Pids
        PROVE  /\ <<serial, p>> \in forwarded'[v] <=>
                     p \in Begun /\ \A o \in Jobs' : o.pid = p => PassedForward(o, v)
               /\ <<serial, p>> \in trained'[v] <=>
                     training /\ p \in Begun /\ \A o \in Jobs' : o.pid = p => PassedBackward(o, v)
    <3>1. /\ <<serial, p>> \in forwarded[v] <=>
                p \in Begun /\ \A o \in Jobs : o.pid = p => PassedForward(o, v)
          /\ <<serial, p>> \in trained[v] <=>
                training /\ p \in Begun /\ \A o \in Jobs : o.pid = p => PassedBackward(o, v)
      BY DEF PInv, Progress
    <3>2. ASSUME p # m.pid
          PROVE  /\ \A o \in Jobs' : o.pid = p => o \in Jobs
                 /\ \A o \in Jobs : o.pid = p => o \in Jobs'
      BY <3>2
    <3>3. ASSUME p = m.pid
          PROVE  /\ \A o \in Jobs' : o.pid = p <=> o = n
                 /\ \A o \in Jobs : o.pid = p <=> o = m
      BY <3>3
    <3>4. p # m.pid => <<serial, p>> # <<serial, m.pid>>
      OBVIOUS
    <3>5. CASE p # m.pid
      BY <3>1, <3>2, <3>4, <3>5
    <3>6. CASE p = m.pid /\ v # w
      BY <1>1, <3>1, <3>3, <3>6 DEF PassesOnly
    <3>7. CASE p = m.pid /\ v = w
      BY <1>1, <3>1, <3>3, <3>7
    <3> QED
      BY <3>5, <3>6, <3>7
  <2> QED
    BY <2>1, <2>2 DEF Progress, PassedForward, PassedBackward
<1>3. Residuals'
  <2> SUFFICES ASSUME NEW o \in Jobs', o.type # "BACKWARD_COMPLETE", NEW v \in Workers,
                      PassedForward(o, v) /\ ~PassedBackward(o, v)
               PROVE  residual'[v][o.pid] = serial
    BY DEF Residuals, PassedForward, PassedBackward
  <2>1. CASE o # n
    <3>1. o \in Jobs /\ o.pid # m.pid /\ o.pid \in Pids
      BY <2>1, JobKinds
    <3> QED
      BY <3>1 DEF PInv, Residuals
  <2>2. CASE o = n /\ v # w
    <3>1. PassedForward(m, v) /\ ~PassedBackward(m, v)
      BY <2>2 DEF PassesOnly
    <3> QED
      BY <2>2, <3>1 DEF PInv, Residuals
  <2>3. CASE o = n /\ v = w
    BY <2>3
  <2> QED
    BY <2>1, <2>2, <2>3
<1> QED
  BY <1>2, <1>3

LEMMA ForwardKeeps ==
    ASSUME PInv, NEW w \in Workers, NEW m \in inbox[w], Forward(w, m)
    PROVE  PInv' /\ Configs' = Configs
<1> DEFINE n == Job("FORWARD_JOB", Successor(w), m.pid, m.batch)
<1>1. /\ m.type = "FORWARD_JOB" /\ Moves(w, {m}, {n})
      /\ residual' = [residual EXCEPT ![w][m.pid] = m.batch]
      /\ forwarded' = [forwarded EXCEPT ![w] = @ \cup {<<m.batch, m.pid>>}]
      /\ UNCHANGED <<pc, async, training, epoch, serial, current, processed, mode, trained>>
  BY DEF Forward, Handled, Successor, coordVars, Moves
<1>2. m \in Jobs /\ m.to = w
  BY <1>1, Numbers DEF Jobs, Live, Tracked, JobTypes, PInv, Addressed
<1>3. m.batch = serial /\ m.pid \in Pids /\ InBatch /\ serial \in Nat
  BY <1>2, JobKinds DEF PInv, PipelineType
<1>4. /\ n.type = "FORWARD_JOB" /\ n.to = Successor(w) /\ n.pid = m.pid /\ n.batch = serial
      /\ n = Job(n.type, n.to, n.pid, n.batch)
  BY <1>3, Fields
<1> HIDE DEF n
<1>5. /\ n.type \in JobTypes /\ n.to \in Nodes /\ n.to # w /\ n.type # "BACKWARD_JOB"
      /\ n.type # "BACKWARD_COMPLETE"
  BY <1>4, Neighbours DEF JobTypes
<1>6. /\ Addressed' /\ Orders' = Orders /\ Changed' = Changed /\ Configs' = Configs
      /\ Jobs' = (Jobs \ {m}) \cup {n} /\ \A o \in Jobs : o # m => o.pid # m.pid
  BY <1>1, <1>2, <1>4, <1>5, JobStep
<1>7. JobsInOrder' /\ Phases' /\ Begun' = Begun /\ InBatch' /\ InBatch
  BY <1>1, <1>2, <1>4, <1>5, <1>6, JobStepKeeps
<1>8. /\ PassesOnly(m, n, w) /\ ~PassedForward(m, w) /\ PassedForward(n, w)
      /\ ~PassedBackward(m, w) /\ ~PassedBackward(n, w)
  <2>1. /\ \A v \in Workers : /\ PassedForward(m, v) <=> v < w
                              /\ PassedForward(n, v) <=> v < w \/ v = w
                              /\ ~PassedBackward(m, v) /\ ~PassedBackward(n, v)
    BY <1>1, <1>2, <1>4, Neighbours DEF PassedForward, PassedBackward
  <2> QED
    BY <2>1, Neighbours DEF PassesOnly
<1>9. /\ \A v \in Workers : v # w => /\ forwarded'[v] = forwarded[v] /\ trained'[v] = trained[v]
                                     /\ residual'[v] = residual[v]
      /\ \A p \in Pids : p # m.pid => residual'[w][p] = residual[w][p]
      /\ forwarded'[w] = forwarded[w] \cup {<<serial, m.pid>>}
      /\ trained'[w] = trained[w] /\ residual'[w][m.pid] = serial
      /\ residual' \in [Workers -> [Pids -> Nat]]
      /\ forwarded' \in [Workers -> SUBSET (Nat \X Pids)]
  <2>1. residual \in [Workers -> [Pids -> Nat]] /\ forwarded \in [Workers -> SUBSET (Nat \X Pids)]
    BY DEF PInv, PipelineType
  <2> QED
    BY <1>1, <1>3, <2>1
<1>10. Progress' /\ Residuals'
  BY <1>1, <1>2, <1>3, <1>4, <1>5, <1>6, <1>7, <1>8, <1>9, PassingKeeps
<1>11. PipelineType'
  BY <1>1, <1>9 DEF PInv, PipelineType
<1>12. Modes'
  BY <1>1, <1>3, <1>6, <1>7, ModesInBatch DEF InBatch, Switched
<1> QED
  BY <1>6, <1>7, <1>10, <1>11, <1>12 DEF PInv

LEMMA BackwardKeeps ==
    ASSUME PInv, NEW w \in Workers, NEW m \in inbox[w], Backward(w, m)
    PROVE  PInv' /\ Configs' = Configs
<1> DEFINE n == IF w = 1 THEN Job("BACKWARD_COMPLETE", Coord, m.pid, m.batch)
                         ELSE Job("BACKWARD_JOB", w - 1, m.pid, m.batch)
<1>1. /\ m.type = "BACKWARD_JOB" /\ Moves(w, {m}, {n})
      /\ residual' = [residual EXCEPT ![w][m.pid] = 0]
      /\ trained' = [trained EXCEPT ![w] = @ \cup {<<m.batch, m.pid>>}]
      /\ UNCHANGED <<pc, async, training, epoch, serial, current, processed, mode, forwarded>>
  BY DEF Backward, Handled, coordVars, Moves
<1>2. m \in Jobs /\ m.to = w
  BY <1>1, Numbers DEF Jobs, Live, Tracked, JobTypes, PInv, Addressed
<1>3. m.batch = serial /\ m.pid \in Pids /\ InBatch /\ serial \in Nat /\ training
  <2>1. training
    BY <1>1, <1>2 DEF PInv, Phases
  <2> QED
    BY <1>2, <2>1, JobKinds DEF PInv, PipelineType
<1>4. /\ n.type = (IF w = 1 THEN "BACKWARD_COMPLETE" ELSE "BACKWARD_JOB")
      /\ n.to = Predecessor(w) /\ n.pid = m.pid /\ n.batch = serial
      /\ n = Job(n.type, n.to, n.pid, n.batch)
  BY <1>3, Fields DEF Predecessor
<1> HIDE DEF n
<1>5. /\ n.type \in JobTypes /\ n.to \in Nodes /\ n.to # w /\ n.type # "FORWARD_JOB"
      /\ n.type = "BACKWARD_JOB" => n.to \in Workers
      /\ n.type = "BACKWARD_COMPLETE" => n.to = Coord
  BY <1>4, Neighbours DEF JobTypes, Predecessor
<1>6. /\ Addressed' /\ Orders' = Orders /\ Changed' = Changed /\ Configs' = Configs
      /\ Jobs' = (Jobs \ {m}) \cup {n} /\ \A o \in Jobs : o # m => o.pid # m.pid
  BY <1>1, <1>2, <1>4, <1>5, JobStep
<1>7. JobsInOrder' /\ Phases' /\ Begun' = Begun /\ InBatch' /\ InBatch
  BY <1>1, <1>2, <1>4, <1>5, <1>6, JobStepKeeps
<1>8. /\ PassesOnly(m, n, w) /\ PassedForward(m, w) /\ PassedForward(n, w)
      /\ ~PassedBackward(m, w) /\ PassedBackward(n, w)
  <2>1. /\ \A v \in Workers : /\ PassedForward(m, v) /\ PassedForward(n, v)
                              /\ PassedBackward(m, v) <=> w < v
                              /\ PassedBackward(n, v) <=> w < v \/ v = w
    BY <1>1, <1>2, <1>4, Neighbours DEF PassedForward, PassedBackward
  <2> QED
    BY <2>1, Neighbours DEF PassesOnly
<1>9. /\ \A v \in Workers : v # w => /\ forwarded'[v] = forwarded[v] /\ trained'[v] = trained[v]
                                     /\ residual'[v] = residual[v]
      /\ \A p \in Pids : p # m.pid => residual'[w][p] = residual[w][p]
      /\ trained'[w] = trained[w] \cup {<<serial, m.pid>>} /\ forwarded'[w] = forwarded[w]
      /\ residual' \in [Workers -> [Pids -> Nat]]
      /\ trained' \in [Workers -> SUBSET (Nat \X Pids)]
  <2>1. residual \in [Workers -> [Pids -> Nat]] /\ trained \in [Workers -> SUBSET (Nat \X Pids)]
    BY DEF PInv, PipelineType
  <2> QED
    BY <1>1, <1>3, <2>1
(* The stage has the microbatch already among those it has run forward.    *)
<1>10. <<serial, m.pid>> \in forwarded[w]
  <2>1. \A o \in Jobs : o.pid = m.pid => PassedForward(o, w)
    BY <1>6, <1>8
  <2> QED
    BY <1>2, <1>3, <2>1, JobKinds DEF PInv, Progress
<1>11. Progress' /\ Residuals'
  <2>1. forwarded'[w] = forwarded[w] \cup {<<serial, m.pid>>}
    BY <1>9, <1>10
  <2>2. /\ forwarded'[w] = IF PassedForward(n, w) THEN forwarded[w] \cup {<<serial, m.pid>>}
                                                  ELSE forwarded[w]
        /\ trained'[w] = IF PassedBackward(n, w) THEN trained[w] \cup {<<serial, m.pid>>}
                                                 ELSE trained[w]
        /\ training \/ ~PassedBackward(n, w)
        /\ ~PassedForward(m, w) \/ PassedForward(n, w)
        /\ ~PassedBackward(m, w) \/ PassedBackward(n, w)
        /\ PassedForward(n, w) /\ ~PassedBackward(n, w) => residual'[w][m.pid] = serial
        /\ n.type # "BACKWARD_COMPLETE" => m.type # "BACKWARD_COMPLETE"
        /\ UNCHANGED <<training, serial>>
    BY <1>1, <1>3, <1>8, <1>9, <2>1
  <2> QED
    BY <1>2, <1>3, <1>4, <1>6, <1>7, <1>8, <1>9, <2>2, PassingKeeps
<1>12. PipelineType'
  BY <1>1, <1>9 DEF PInv, PipelineType
<1>13. Modes'
  BY <1>1, <1>3, <1>6, <1>7, ModesInBatch DEF InBatch, Switched
<1> QED
  BY <1>6, <1>7, <1>11, <1>12, <1>13 DEF PInv

----------------------------------------------------------------------------
(* The invariant, and what follows from it.                                *)

LEMMA StartHolds ==
    ASSUME NEW place, place \in {"initialize", "set_training"}, StartsAt(place)
    PROVE  PInv /\ Live = {} /\ Received = {}
<1>1. /\ pc = place /\ serial = 0 /\ current = 0 /\ processed = 0 /\ net = {}
      /\ inbox = [p \in Nodes |-> {}] /\ training = TRUE /\ async \in BOOLEAN
      /\ mode = [w \in Workers |-> TRUE] /\ residual = [w \in Workers |-> [p \in Pids |-> 0]]
      /\ forwarded = [w \in Workers |-> {}] /\ trained = [w \in Workers |-> {}]
  BY DEF StartsAt
<1>2. UNION {inbox[p] : p \in Nodes} = {}
  BY <1>1
<1>3. Live = {} /\ Received = {} /\ Jobs = {} /\ Orders = {} /\ Changed = {}
  BY <1>1, <1>2 DEF Live, Received, Jobs, Orders, Changed
<1>4. PipelineType /\ Addressed
  BY <1>1 DEF PipelineType, Addressed
<1>5. ~InBatch /\ pc \notin Switched /\ pc \notin {"await_forward", "await_backward"}
  BY <1>1 DEF InBatch, Switched
<1>6. JobsInOrder /\ Residuals /\ Modes
  BY <1>3, <1>5 DEF JobsInOrder, Residuals, Modes
<1>7. Phases
  BY <1>3, <1>5 DEF Phases
<1>8. Progress
  BY <1>1, <1>5 DEF Progress
<1> QED
  BY <1>3, <1>4, <1>6, <1>7, <1>8 DEF PInv

LEMMA CoordStepKeeps ==
    ASSUME PInv, CoordStep
    PROVE  PInv' /\ Configs' = Configs
BY SetTrainingKeeps, JoinModeKeeps, StartBatchKeeps, AsyncOutputsKeeps, AsyncCompleteKeeps,
   SyncOutputKeeps, SyncCompleteKeeps, UpdateParametersKeeps, JoinUpdateKeeps, EndHalfKeeps
   DEF CoordStep

LEMMA WorkerStepKeeps ==
    ASSUME PInv, NEW w \in Workers, WorkerStep(w)
    PROVE  PInv' /\ Configs' = Configs
<1>1. CASE \E m \in inbox[w] : \/ Forward(w, m) \/ Backward(w, m) \/ Update(w, m)
                               \/ SetMode(w, m) \/ Shutdown(w, m)
  <2>1. PICK m \in inbox[w] : \/ Forward(w, m) \/ Backward(w, m) \/ Update(w, m)
                              \/ SetMode(w, m) \/ Shutdown(w, m)
    BY <1>1
  <2> QED
    BY <2>1, ForwardKeeps, BackwardKeeps, UpdateKeeps, SetModeKeeps, ShutdownKeeps
<1>2. CASE Exit(w)
  BY <1>2, ExitKeeps
<1> QED
  BY <1>1, <1>2 DEF WorkerStep

LEMMA StutterKeeps ==
    ASSUME PInv, UNCHANGED vars
    PROVE  PInv' /\ Configs' = Configs
<1>1. UNCHANGED <<net, inbox>> /\ Apart
  BY DEF vars, coordVars, workerVars, history, Apart
<1>2. Addressed' /\ Live' = Live
  BY <1>1 DEF PInv, Addressed, Live
<1> QED
  BY <1>1, <1>2, ApartKeeps

LEMMA NextKeeps ==
    ASSUME PInv, [Next]_vars
    PROVE  PInv' /\ Configs' = Configs
<1>1. CASE CoordStep
  BY <1>1, CoordStepKeeps
<1>2. CASE JoinModeTimeout
  BY <1>2, JoinModeTimeoutKeeps
<1>3. CASE \E m \in net : Deliver(m)
  BY <1>3, DeliverKeeps
<1>4. CASE \E w \in Workers : WorkerStep(w)
  BY <1>4, WorkerStepKeeps
<1>5. CASE UNCHANGED vars
  BY <1>5, StutterKeeps
<1> QED
  BY <1>1, <1>2, <1>3, <1>4, <1>5 DEF Next

(* The invariant, for training that begins at once.                        *)
LEMMA PInvHolds == Spec => []PInv
<1>1. Init => PInv
  BY StartHolds DEF Init
<1>2. PInv /\ [Next]_vars => PInv'
  BY NextKeeps
<1> QED
  BY <1>1, <1>2, PTL DEF Spec

LEMMA PendingJobs ==
    ASSUME PInv, NEW p \in Nodes, NEW m \in Pending(p), m.type \in JobTypes
    PROVE  m \in Jobs /\ m.to = p
BY DEF Pending, Jobs, Live, Tracked, PInv, Addressed

LEMMA InvariantsOfPInv ==
    ASSUME PInv
    PROVE  ModeAgreement /\ ResidualsReady /\ QuietBetweenBatches
<1>1. ModeAgreement
  <2> SUFFICES ASSUME NEW w \in Workers, NEW m \in Pending(w), m.type \in JobTypes
               PROVE  mode[w] = training
    BY DEF ModeAgreement
  <2>1. m \in Jobs /\ pc \in Switched
    BY PendingJobs, JobKinds, Numbers DEF InBatch, Switched
  <2> QED
    BY <2>1 DEF PInv, Modes
<1>2. ResidualsReady
  <2> SUFFICES ASSUME NEW w \in Workers, NEW m \in Pending(w), m.type = "BACKWARD_JOB"
               PROVE  residual[w][m.pid] = m.batch
    BY DEF ResidualsReady
  <2>1. m \in Jobs /\ m.to = w
    BY PendingJobs, Numbers DEF JobTypes
  <2>2. PassedForward(m, w) /\ ~PassedBackward(m, w)
    BY <2>1, Neighbours DEF PassedForward, PassedBackward
  <2> QED
    BY <2>1, <2>2, JobKinds DEF PInv, Residuals
<1>3. QuietBetweenBatches
  BY PendingJobs DEF QuietBetweenBatches, PInv, JobsInOrder, InBatch
<1> QED
  BY <1>1, <1>2, <1>3

(* No worker ever runs a job in the wrong mode.                            *)
THEOREM ModeAgreementHolds == Spec => []ModeAgreement
BY PInvHolds, InvariantsOfPInv, PTL

(* A gradient always finds the residuals of its microbatch and its batch,  *)
(* however messages are reordered and although every batch reuses the pids.*)
THEOREM ResidualsReadyHolds == Spec => []ResidualsReady
BY PInvHolds, InvariantsOfPInv, PTL

(* Nothing of a batch is left anywhere once it has returned.               *)
THEOREM QuietBetweenBatchesHolds == Spec => []QuietBetweenBatches
BY PInvHolds, InvariantsOfPInv, PTL

(* What can make the coordinator fail.                                     *)
LEMMA FailureKeeps ==
    ASSUME PInv, FailsOnlyOnTimeout, [Next]_vars
    PROVE  FailsOnlyOnTimeout'
<1>1. CASE SyncOutput
  BY <1>1, SyncOutputTrains, EndBatchFacts DEF FailsOnlyOnTimeout
<1>2. CASE SyncComplete
  BY <1>2, EndBatchFacts DEF FailsOnlyOnTimeout, SyncComplete, NextMicrobatch
<1>3. CASE AsyncOutputs
  BY <1>3, EndBatchFacts DEF FailsOnlyOnTimeout, AsyncOutputs
<1>4. CASE AsyncComplete
  BY <1>4, EndBatchFacts DEF FailsOnlyOnTimeout, AsyncComplete
<1>5. CASE SetTraining \/ StartBatch \/ UpdateParameters \/ EndHalf
  BY <1>5 DEF FailsOnlyOnTimeout, SetTraining, StartBatch, UpdateParameters, EndHalf
<1>6. CASE JoinMode \/ JoinUpdate
  BY <1>6, PcAfterFacts DEF FailsOnlyOnTimeout, JoinMode, JoinUpdate
<1>7. CASE JoinModeTimeout
  BY <1>7 DEF FailsOnlyOnTimeout, JoinModeTimeout
<1>8. CASE \E m \in net : Deliver(m)
  BY <1>8 DEF FailsOnlyOnTimeout, Deliver, coordVars
<1>9. CASE \E w \in Workers : WorkerStep(w)
  <2>1. PICK w \in Workers : WorkerStep(w)
    BY <1>9
  <2>2. UNCHANGED <<pc, timedOut>>
    BY <2>1 DEF WorkerStep, Forward, Backward, Update, SetMode, Shutdown, Handled, Exit, coordVars
  <2> QED
    BY <2>2 DEF FailsOnlyOnTimeout
<1>10. CASE UNCHANGED vars
  BY <1>10 DEF FailsOnlyOnTimeout, vars, coordVars
<1> QED
  BY <1>1, <1>2, <1>3, <1>4, <1>5, <1>6, <1>7, <1>8, <1>9, <1>10 DEF Next, CoordStep

(* A synchronous batch finds the result of its microbatch whenever it      *)
(* looks: only an expired join ends the program.                           *)
THEOREM FailsOnlyOnTimeoutHolds == Spec => []FailsOnlyOnTimeout
<1>1. Init => FailsOnlyOnTimeout
  BY DEF Init, StartsAt, FailsOnlyOnTimeout
<1> QED
  BY <1>1, PInvHolds, FailureKeeps, PTL DEF Spec

----------------------------------------------------------------------------
(* The steps of the abstract specification.                                *)

Phase == IF pc \notin {"await_forward", "await_backward"} THEN "idle"
         ELSE IF training THEN "train" ELSE "validate"

AbstractVars == <<Phase, serial, forwarded, trained>>

LEMMA PhaseFacts ==
    /\ Batch!vars = AbstractVars
    /\ Phase = "idle" <=> ~InBatch
    /\ InBatch /\ training => Phase = "train"
    /\ InBatch /\ ~training => Phase = "validate"
    /\ Phase \in {"idle", "train", "validate"}
BY DEF Batch!vars, AbstractVars, Phase, InBatch

LEMMA WorkFacts ==
    ASSUME InBatch
    PROVE  Batch!Work = {<<serial, p>> : p \in 0..(Size - 1)}
BY DEF Batch!Work, Size, InBatch

LEMMA BegunFacts ==
    ASSUME PInv, InBatch
    PROVE  /\ Begun \subseteq 0..(Size - 1) /\ 0..(Size - 1) \subseteq Pids
           /\ async \/ ~(current + 1 < Size) => Begun = 0..(Size - 1)
<1>1. Size \in Nat \ {0} /\ 0..(Size - 1) \subseteq Pids /\ current \in Nat /\ current < Size
  BY Numbers DEF PInv, PipelineType, Phases
<1>2. 0..current \subseteq 0..(Size - 1)
  BY <1>1
<1>3. ~(current + 1 < Size) => current = Size - 1
  BY <1>1
<1> QED
  BY <1>1, <1>2, <1>3 DEF Begun

LEMMA OpenStep ==
    ASSUME StartBatch
    PROVE  Batch!Open
<1>1. /\ ~InBatch /\ InBatch' /\ serial' = serial + 1 /\ UNCHANGED <<forwarded, trained>>
  BY DEF StartBatch, history, InBatch
<1>2. Phase = "idle" /\ Phase' \in {"train", "validate"}
  BY <1>1 DEF Phase, InBatch
<1> QED
  BY <1>1, <1>2 DEF Batch!Open, Phase

(* Whoever ends a batch has seen every microbatch to its end.              *)
LEMMA CloseStep ==
    ASSUME PInv, InBatch, Begun = 0..(Size - 1), ~InBatch',
           \A m \in Jobs : \A w \in Workers :
               PassedForward(m, w) /\ (training => PassedBackward(m, w)),
           UNCHANGED <<serial, forwarded, trained>>
    PROVE  Batch!Close
<1>1. ASSUME NEW w \in Workers
      PROVE  Batch!Work \subseteq forwarded[w] /\ (training => Batch!Work \subseteq trained[w])
  <2>1. \A p \in 0..(Size - 1) : /\ <<serial, p>> \in forwarded[w]
                                 /\ training => <<serial, p>> \in trained[w]
    BY BegunFacts DEF PInv, Progress
  <2> QED
    BY <2>1, WorkFacts
<1>2. Phase # "idle" /\ Phase' = "idle" /\ (Phase = "train" => training)
  BY DEF Phase, InBatch
<1> QED
  BY <1>1, <1>2 DEF Batch!Close, Batch!Workers, Workers, Phase

LEMMA CoordImplements ==
    ASSUME PInv, PInv', CoordStep
    PROVE  Batch!Next \/ UNCHANGED AbstractVars
<1>1. CASE SetTraining \/ UpdateParameters \/ EndHalf \/ JoinMode \/ JoinUpdate
  <2>1. /\ pc \notin {"await_forward", "await_backward"}
        /\ pc' \notin {"await_forward", "await_backward"}
        /\ UNCHANGED <<serial, forwarded, trained>>
    BY <1>1, PcAfterFacts DEF SetTraining, UpdateParameters, EndHalf, JoinMode, JoinUpdate, history
  <2> QED
    BY <2>1 DEF AbstractVars, Phase
<1>2. CASE StartBatch
  BY <1>2, OpenStep DEF Batch!Next
<1>3. CASE AsyncOutputs \/ SyncOutput
  <2>1. /\ pc = "await_forward" /\ Moves(Coord, Outputs, Replies)
        /\ UNCHANGED <<async, training, serial, forwarded, trained>>
        /\ InBatch' \/ (EndBatch /\ ~training)
        /\ current' = current
    <3>1. CASE AsyncOutputs
      BY <3>1, OutputFacts DEF AsyncOutputs, Moves, Outputs, Replies, history, InBatch
    <3>2. CASE SyncOutput
      BY <3>2, SyncOutputTrains DEF Framed, InBatch
    <3> QED
      BY <1>3, <3>1, <3>2
  <2>2. CASE InBatch'
    BY <2>1, <2>2 DEF AbstractVars, Phase, InBatch
  <2>3. CASE ~InBatch'
    <3>1. InBatch /\ ~training /\ Jobs' = {}
      BY <2>1, <2>3 DEF InBatch, PInv, JobsInOrder
    <3>2. Jobs \subseteq Outputs
      BY <2>1, <3>1, TakeOutputs
    <3>3. Begun = 0..(Size - 1)
      <4>1. current < Size /\ current \in Nat
        BY <3>1 DEF PInv, Phases, PipelineType
      <4>2. ~(current + 1 < Size)
        BY <3>1, <4>1 DEF Size
      <4> QED
        BY <3>1, <4>2, BegunFacts
    <3>4. Batch!Close
      BY <2>1, <2>3, <3>1, <3>2, <3>3, OutputFacts, CloseStep DEF PassedForward
    <3> QED
      BY <3>4 DEF Batch!Next
  <2> QED
    BY <2>2, <2>3
<1>4. CASE AsyncComplete \/ SyncComplete
  <2>1. /\ pc = "await_backward" /\ UNCHANGED <<async, training, serial, forwarded, trained>>
        /\ \/ InBatch'
           \/ /\ ~InBatch' /\ Moves(Coord, Completions, {})
              /\ async \/ ~(current + 1 < Size)
    <3>1. CASE AsyncComplete
      BY <3>1, CompletionFacts, EndBatchFacts
         DEF AsyncComplete, Moves, Completions, history, InBatch
    <3>2. CASE SyncComplete
      BY <3>2, CompletionFacts, EndBatchFacts
         DEF SyncComplete, NextMicrobatch, Moves, Completions, history, InBatch
    <3> QED
      BY <1>4, <3>1, <3>2
  <2>2. CASE InBatch'
    BY <2>1, <2>2 DEF AbstractVars, Phase, InBatch
  <2>3. CASE ~InBatch'
    <3>1. /\ InBatch /\ training /\ Jobs' = {} /\ Moves(Coord, Completions, {})
          /\ Begun = 0..(Size - 1)
      BY <2>1, <2>3, BegunFacts DEF InBatch, PInv, JobsInOrder, Phases
    <3>2. Jobs \subseteq Completions
      BY <3>1, TakeJobs, CompletionFacts
    <3>3. \A m \in Jobs : \A w \in Workers : PassedForward(m, w) /\ PassedBackward(m, w)
      BY <3>2, CompletionFacts DEF PassedForward, PassedBackward
    <3>4. Batch!Close
      BY <2>1, <2>3, <3>1, <3>3, CloseStep
    <3> QED
      BY <3>4 DEF Batch!Next
  <2> QED
    BY <2>2, <2>3
<1> QED
  BY <1>1, <1>2, <1>3, <1>4 DEF CoordStep

LEMMA ForwardImplements ==
    ASSUME PInv, NEW w \in Workers, NEW m \in inbox[w], Forward(w, m)
    PROVE  Batch!Forward(w)
<1>1. /\ m.type = "FORWARD_JOB" /\ forwarded' = [forwarded EXCEPT ![w] = @ \cup {<<m.batch, m.pid>>}]
      /\ UNCHANGED <<pc, training, serial, trained>>
  BY DEF Forward, Handled, coordVars
<1>2. m \in Jobs /\ m.to = w
  BY <1>1, Numbers DEF Jobs, Live, Tracked, JobTypes, PInv, Addressed
<1>3. /\ m.batch = serial /\ m.pid \in Begun /\ m.pid \in Pids /\ InBatch
      /\ \A o \in Jobs : o.pid = m.pid => o = m
  BY <1>2, JobKinds DEF PInv, JobsInOrder
<1>4. Phase # "idle" /\ UNCHANGED Phase
  BY <1>1, <1>3, PhaseFacts DEF Phase
<1>5. <<serial, m.pid>> \in Batch!Work
  BY <1>3, WorkFacts, BegunFacts
<1>6. <<serial, m.pid>> \notin forwarded[w]
  <2>1. ~PassedForward(m, w)
    BY <1>1, <1>2, Neighbours DEF PassedForward
  <2> QED
    BY <1>2, <1>3, <2>1 DEF PInv, Progress
<1>7. w = 1 \/ <<serial, m.pid>> \in forwarded[w - 1]
  <2> SUFFICES ASSUME w # 1 PROVE <<serial, m.pid>> \in forwarded[w - 1]
    OBVIOUS
  <2>1. w - 1 \in Workers /\ w - 1 < w
    BY Numbers DEF Workers
  <2>2. \A o \in Jobs : o.pid = m.pid => PassedForward(o, w - 1)
    BY <1>2, <1>3, <2>1 DEF PassedForward
  <2> QED
    BY <1>3, <2>1, <2>2 DEF PInv, Progress
<1> QED
  BY <1>1, <1>3, <1>4, <1>5, <1>6, <1>7 DEF Batch!Forward, Phase

LEMMA BackwardImplements ==
    ASSUME PInv, NEW w \in Workers, NEW m \in inbox[w], Backward(w, m)
    PROVE  Batch!Backward(w)
<1>1. /\ m.type = "BACKWARD_JOB" /\ trained' = [trained EXCEPT ![w] = @ \cup {<<m.batch, m.pid>>}]
      /\ UNCHANGED <<pc, training, serial, forwarded>>
  BY DEF Backward, Handled, coordVars
<1>2. m \in Jobs /\ m.to = w
  BY <1>1, Numbers DEF Jobs, Live, Tracked, JobTypes, PInv, Addressed
<1>3. /\ m.batch = serial /\ m.pid \in Begun /\ m.pid \in Pids /\ InBatch /\ training
      /\ \A o \in Jobs : o.pid = m.pid => o = m
  BY <1>1, <1>2, JobKinds DEF PInv, JobsInOrder, Phases
<1>4. Phase = "train" /\ UNCHANGED Phase
  BY <1>1, <1>3, PhaseFacts DEF Phase
<1>5. <<serial, m.pid>> \in Batch!Work
  BY <1>3, WorkFacts, BegunFacts
<1>6. <<serial, m.pid>> \notin trained[w]
  <2>1. ~PassedBackward(m, w)
    BY <1>1, <1>2, Neighbours DEF PassedBackward
  <2> QED
    BY <1>2, <1>3, <2>1 DEF PInv, Progress
<1>7. <<serial, m.pid>> \in forwarded[NumWorkers]
  <2>1. NumWorkers \in Workers
    BY Numbers DEF Workers
  <2>2. \A o \in Jobs : o.pid = m.pid => PassedForward(o, NumWorkers)
    BY <1>1, <1>3 DEF PassedForward
  <2> QED
    BY <1>3, <2>1, <2>2 DEF PInv, Progress
<1>8. w = NumWorkers \/ <<serial, m.pid>> \in trained[w + 1]
  <2> SUFFICES ASSUME w # NumWorkers PROVE <<serial, m.pid>> \in trained[w + 1]
    OBVIOUS
  <2>1. w + 1 \in Workers /\ w < w + 1
    BY Numbers DEF Workers
  <2>2. \A o \in Jobs : o.pid = m.pid => PassedBackward(o, w + 1)
    BY <1>1, <1>2, <1>3, <2>1 DEF PassedBackward
  <2> QED
    BY <1>3, <2>1, <2>2 DEF PInv, Progress
<1> QED
  BY <1>1, <1>3, <1>4, <1>5, <1>6, <1>7, <1>8 DEF Batch!Backward, Phase

LEMMA StepImplements ==
    ASSUME PInv, PInv', [Next]_vars
    PROVE  [Batch!Next]_Batch!vars
<1>1. CASE CoordStep
  BY <1>1, CoordImplements, PhaseFacts DEF AbstractVars, Batch!vars, Phase
<1>2. CASE JoinModeTimeout
  BY <1>2 DEF JoinModeTimeout, history, Batch!vars
<1>3. CASE \E m \in net : Deliver(m)
  BY <1>3 DEF Deliver, coordVars, history, Batch!vars
<1>4. CASE \E w \in Workers : WorkerStep(w)
  <2>1. PICK w \in Workers : WorkerStep(w)
    BY <1>4
  <2>2. CASE \E m \in inbox[w] : Forward(w, m)
    BY <2>2, ForwardImplements DEF Batch!Next, Batch!Workers, Workers
  <2>3. CASE \E m \in inbox[w] : Backward(w, m)
    BY <2>3, BackwardImplements DEF Batch!Next, Batch!Workers, Workers
  <2>4. CASE \/ Exit(w)
             \/ \E m \in inbox[w] : Update(w, m) \/ SetMode(w, m) \/ Shutdown(w, m)
    BY <2>4 DEF Exit, Update, SetMode, Shutdown, Handled, coordVars, history, Batch!vars
  <2> QED
    BY <2>1, <2>2, <2>3, <2>4 DEF WorkerStep
<1>5. CASE UNCHANGED vars
  BY <1>5 DEF vars, coordVars, history, Batch!vars
<1> QED
  BY <1>1, <1>2, <1>3, <1>4, <1>5 DEF Next

LEMMA StartImplements ==
    ASSUME NEW place, place \in {"initialize", "set_training"}, StartsAt(place)
    PROVE  Batch!Init
BY DEF StartsAt, Batch!Init, Batch!Workers, Workers

(* Every batch is trained as TrainingBatches promises: each microbatch     *)
(* once, forward and backward, at each stage, before the batch returns.    *)
THEOREM BatchesImplemented == Spec => ImplementsBatches
<1>1. Init => Batch!Init
  BY StartImplements DEF Init
<1>2. PInv /\ PInv' /\ [Next]_vars => [Batch!Next]_Batch!vars
  BY StepImplements
<1> QED
  BY <1>1, <1>2, PInvHolds, PTL DEF Spec, ImplementsBatches, Batch!Spec

----------------------------------------------------------------------------
(* Deployment: the channels.                                               *)

LEMMA EndpointFacts ==
    /\ \A p, q : Reaches(p, q) <=> \E e \in channels[p] : e[1] = Endpoint(q)
    /\ \A p, q : Reaches(p, q)' <=> \E e \in channels'[p] : e[1] = Endpoint(q)
BY DEF Reaches, KeysOf

LEMMA Coordinators ==
    /\ Coord \in Nodes /\ Workers \subseteq Nodes /\ \A w \in Workers : w # Coord
    /\ NumWorkers \in Nat /\ Local \in Workers
    /\ \A w \in Workers : /\ w < NumWorkers <=> w # NumWorkers
                          /\ w # NumWorkers => w + 1 \in Workers
                          /\ w > 1 <=> w # 1
                          /\ w # 1 => w - 1 \in Workers
BY Numbers, DeploymentAssumption DEF Workers, Nodes, Coord

(* Channels are never taken away.                                          *)
Grown ==
    /\ channels' = [p \in Nodes |-> channels'[p]]
    /\ \A p \in Nodes : channels[p] \subseteq channels'[p]

LEMMA GrownReaches ==
    ASSUME Grown
    PROVE  \A p \in Nodes : \A q : Reaches(p, q) => Reaches(p, q)'
BY EndpointFacts DEF Grown

LEMMA GrownSettled ==
    ASSUME Grown, NEW w \in Workers, Settled(w),
           stage'[w] = stage[w], configured'[w] = configured[w],
           connecting'[w] = connecting[w], knows'[w] = knows[w]
    PROVE  Settled(w)'
BY GrownReaches, Coordinators DEF Settled, ReachesOthers

LEMMA ConnectFacts ==
    ASSUME DeployType, Keyed, NEW p \in Nodes, NEW q \in Nodes, NEW as, Connect(p, q, as)
    PROVE  Grown /\ Keyed' /\ (q \in up => Reaches(p, q)')
<1> DEFINE new == [from : {p}, to : {q}, as : {as}, socket : 1..Sockets]
<1>1. \A c \in new : c.from = p /\ c.to = q
  OBVIOUS
<1>2. \E c : c \in new
  <2>1. 1 \in 1..Sockets
    BY DeploymentAssumption
  <2>2. [from |-> p, to |-> q, as |-> as, socket |-> 1] \in new
    BY <2>1
  <2> QED
    BY <2>2
<1>3. IF q \in up
        THEN /\ channels' = [channels EXCEPT ![p] = @ \cup ({Endpoint(q)} \X new)]
             /\ accepting' = accepting \cup new
        ELSE UNCHANGED <<channels, accepting>>
  BY DEF Connect
<1> HIDE DEF new
<1>4. CASE q \in up
  <2>1. \A r \in Nodes : channels'[r] = IF r = p THEN channels[r] \cup ({Endpoint(q)} \X new)
                                                 ELSE channels[r]
    BY <1>3, <1>4 DEF DeployType
  <2>2. Grown
    BY <1>3, <1>4, <2>1 DEF Grown, DeployType
  <2>3. \A e \in {Endpoint(q)} \X new : e[1] = Endpoint(q) /\ e[2] \in new
    OBVIOUS
  <2>4. Keyed'
    <3>1. \A c \in accepting' : c.to \in Nodes
      BY <1>1, <1>3, <1>4 DEF Keyed
    <3>2. ASSUME NEW r \in Nodes, NEW e \in channels'[r]
          PROVE  \/ e[2].from = r /\ e[1] = Endpoint(e[2].to)
                 \/ e[2].to = r /\ e[1] = ByAddress(e[2].from)
      <4>1. CASE e \in channels[r]
        BY <4>1 DEF Keyed
      <4>2. CASE r = p /\ e \in {Endpoint(q)} \X new
        BY <1>1, <2>3, <4>2
      <4> QED
        BY <2>1, <4>1, <4>2
    <3>3. \A x : Endpoint(x)' = Endpoint(x) /\ ByAddress(x)' = ByAddress(x)
      BY DEF Endpoint, ByAddress, ByName
    <3> QED
      BY <3>1, <3>2, <3>3 DEF Keyed
  <2>5. Reaches(p, q)'
    <3>1. PICK c : c \in new
      BY <1>2
    <3>2. <<Endpoint(q), c>> \in channels'[p] /\ <<Endpoint(q), c>>[1] = Endpoint(q)
      BY <2>1, <3>1
    <3> QED
      BY <3>2, EndpointFacts
  <2> QED
    BY <2>2, <2>4, <2>5
<1>5. CASE q \notin up
  <2>1. Grown
    BY <1>3, <1>5 DEF Grown, DeployType
  <2>2. Keyed'
    BY <1>3, <1>5 DEF Keyed
  <2> QED
    BY <1>5, <2>1, <2>2
<1> QED
  BY <1>4, <1>5

LEMMA SameChannels ==
    ASSUME DeployType, Keyed, UNCHANGED <<channels, accepting>>
    PROVE  Grown /\ Keyed'
BY DEF Grown, Keyed, DeployType

----------------------------------------------------------------------------
(* Deployment: the steps of the training.                                  *)

LEMMA ReceivedShrinks ==
    ASSUME Addressed, NEW p \in Nodes, NEW gone, NEW new, Moves(p, gone, new),
           \A n \in new : n.type # "CONFIG_RECEIVED"
    PROVE  Received' \subseteq Received
<1>1. /\ \A q \in Nodes : inbox'[q] \subseteq inbox[q]
      /\ net' = net \cup new
  BY DEF Addressed, Moves
<1> QED
  BY <1>1 DEF Received

LEMMA SettledStays ==
    ASSUME UNCHANGED deployVars
    PROVE  /\ \A w \in Workers : Settled(w)' <=> Settled(w)
           /\ DeployType => DeployType'
           /\ Keyed => Keyed'
           /\ \A w : Reached(w)' <=> Reached(w)
           /\ \A p, q : Reaches(p, q)' <=> Reaches(p, q)
<1>1. UNCHANGED <<up, channels, accepting, dialled, refused, stages, connecting, knows, stage,
                  configured>>
  BY DEF deployVars
<1>2. \A p, q : Reaches(p, q)' <=> Reaches(p, q)
  BY <1>1, EndpointFacts
<1> QED
  BY <1>1, <1>2 DEF Settled, ReachesOthers, DeployType, Keyed, Reached

LEMMA TrainingKeepsDeployment ==
    ASSUME DInv, UNCHANGED deployVars, Configs = {}, Configs' = {},
           pc' \notin {"initialize", "connect", "join_config", "undeployed"},
           pc \notin Deploying \/ pc' = "failed"
    PROVE  DInv'
<1>1. UNCHANGED <<up, channels, accepting, dialled, refused, stages, connecting, knows, stage,
                  configured>>
  BY DEF deployVars
<1>2. DeployType' /\ Keyed'
  BY SettledStays DEF DInv
<1>3. Dialling'
  <2>1. \A w : Reached(w)' <=> Reached(w)
    BY SettledStays
  <2>2. refused' \/ \A w \in 1..dialled' : Reached(w)'
    BY <1>1, <2>1 DEF DInv, Dialling
  <2>3. pc' # "failed" => dialled' = NumWorkers /\ ~refused'
    BY <1>1 DEF DInv, Dialling, Deploying
  <2> QED
    BY <2>2, <2>3 DEF Dialling
<1>4. Configuring'
  BY <1>1, SettledStays DEF DInv, Configuring, Deploying
<1> QED
  BY <1>2, <1>3, <1>4 DEF DInv

LEMMA SilentKeepsDeployment ==
    ASSUME DInv, UNCHANGED deployVars, UNCHANGED pc, Live' = Live, Received' \subseteq Received
    PROVE  DInv'
<1>1. UNCHANGED <<up, channels, accepting, dialled, refused, stages, connecting, knows, stage,
                  configured>>
  BY DEF deployVars
<1>2. DeployType' /\ Keyed'
  BY SettledStays DEF DInv
<1>3. Dialling'
  <2>1. \A w : Reached(w)' <=> Reached(w)
    BY SettledStays
  <2>2. refused' \/ \A w \in 1..dialled' : Reached(w)'
    BY <1>1, <2>1 DEF DInv, Dialling
  <2> QED
    BY <1>1, <2>2 DEF DInv, Dialling
<1>4. Configuring'
  <2>1. Jobs' = Jobs /\ Orders' = Orders /\ Changed' = Changed /\ Configs' = Configs
    BY SameKinds
  <2> QED
    BY <1>1, <2>1, SettledStays DEF DInv, Configuring
<1> QED
  BY <1>2, <1>3, <1>4 DEF DInv

LEMMA CoordPlaces ==
    ASSUME PInv, CoordStep
    PROVE  pc \notin Deploying /\ pc' \notin Deploying
<1>1. CASE SetTraining \/ StartBatch \/ UpdateParameters \/ EndHalf
  BY <1>1 DEF Deploying, SetTraining, StartBatch, UpdateParameters, EndHalf
<1>2. CASE JoinMode \/ JoinUpdate
  BY <1>2, PcAfterFacts DEF Deploying, JoinMode, JoinUpdate
<1>3. CASE SyncOutput
  BY <1>3, SyncOutputTrains, EndBatchFacts DEF Deploying
<1>4. CASE SyncComplete
  BY <1>4, EndBatchFacts DEF Deploying, SyncComplete, NextMicrobatch
<1>5. CASE AsyncOutputs
  BY <1>5, EndBatchFacts DEF Deploying, AsyncOutputs
<1>6. CASE AsyncComplete
  BY <1>6, EndBatchFacts DEF Deploying, AsyncComplete
<1> QED
  BY <1>1, <1>2, <1>3, <1>4, <1>5, <1>6 DEF CoordStep

LEMMA TrainingDeployed ==
    ASSUME PInv, DInv, [Next]_vars, UNCHANGED deployVars
    PROVE  PInv' /\ DInv'
<1>1. PInv' /\ Configs' = Configs
  BY NextKeeps
<1>2. pc \notin Deploying => Configs = {}
  BY DEF DInv, Configuring, Deploying
<1>3. CASE CoordStep
  BY <1>1, <1>2, <1>3, CoordPlaces, TrainingKeepsDeployment DEF Deploying
<1>4. CASE JoinModeTimeout
  <2>1. pc \notin Deploying /\ pc' = "failed"
    BY <1>4 DEF JoinModeTimeout, Deploying
  <2> QED
    BY <1>1, <1>2, <2>1, TrainingKeepsDeployment
<1>5. CASE \E m \in net : Deliver(m)
  <2>1. PICK m \in net : Deliver(m)
    BY <1>5
  <2>2. Live' = Live /\ UNCHANGED pc
    BY <2>1, DeliverKeeps DEF Deliver, coordVars
  <2>3. Received' \subseteq Received
    <3>1. \A q \in Nodes : inbox'[q] \subseteq inbox[q] \cup {m}
      BY <2>1 DEF Deliver, PInv, Addressed
    <3> QED
      BY <2>1, <3>1 DEF Received, Deliver
  <2> QED
    BY <1>1, <2>2, <2>3, SilentKeepsDeployment
<1>6. CASE \E w \in Workers : WorkerStep(w)
  <2>1. PICK w \in Workers : WorkerStep(w)
    BY <1>6
  <2>2. CASE \E m \in inbox[w] : Forward(w, m) \/ Backward(w, m)
    <3>1. PICK m \in inbox[w] : Forward(w, m) \/ Backward(w, m)
      BY <2>2
    <3>2. m \in Jobs /\ UNCHANGED pc
      BY <3>1, Numbers DEF Forward, Backward, Handled, coordVars, Jobs, Live, Tracked, JobTypes
    <3>3. pc \notin Deploying
      BY <3>2, JobKinds DEF InBatch, Deploying
    <3> QED
      BY <1>1, <1>2, <3>2, <3>3, TrainingKeepsDeployment DEF Deploying
  <2>3. CASE \E m \in inbox[w] : SetMode(w, m)
    <3>1. PICK m \in inbox[w] : SetMode(w, m)
      BY <2>3
    <3>2. m \in Orders /\ UNCHANGED pc
      BY <3>1, Numbers DEF SetMode, Handled, coordVars, Orders, Live, Tracked, ModeCommands
    <3>3. pc \in {"join_mode", "failed"} /\ Configs = {}
      BY <3>2 DEF PInv, Modes, DInv, Configuring
    <3> QED
      BY <1>1, <3>2, <3>3, TrainingKeepsDeployment DEF Deploying
  <2>4. CASE \E m \in inbox[w] : Update(w, m) \/ Shutdown(w, m)
    <3>1. PICK m \in inbox[w] : Update(w, m) \/ Shutdown(w, m)
      BY <2>4
    <3>2. Live' = Live /\ UNCHANGED pc
      BY <3>1, UpdateKeeps, ShutdownKeeps DEF Update, Shutdown, Handled, coordVars
    <3>3. PICK new \in {{}, {Ack("PARAMETERS_UPDATED", w, m.n)}} : Moves(w, {m}, new)
      BY <3>1 DEF Update, Shutdown, Handled, Moves
    <3>4. \A n \in new : n.type # "CONFIG_RECEIVED"
      BY <3>3, Fields
    <3>5. Received' \subseteq Received
      BY <3>3, <3>4, ReceivedShrinks, Numbers DEF PInv
    <3> QED
      BY <1>1, <3>2, <3>5, SilentKeepsDeployment
  <2>5. CASE Exit(w)
    <3>1. Live' = Live /\ UNCHANGED <<pc, net, inbox>>
      BY <2>5, ExitKeeps DEF Exit, coordVars
    <3>2. Received' \subseteq Received
      BY <3>1 DEF Received
    <3> QED
      BY <1>1, <3>1, <3>2, SilentKeepsDeployment
  <2> QED
    BY <2>1, <2>2, <2>3, <2>4, <2>5 DEF WorkerStep
<1>7. CASE UNCHANGED vars
  <2>1. Live' = Live /\ UNCHANGED <<pc, net, inbox>>
    BY <1>7 DEF vars, coordVars, Live
  <2>2. Received' \subseteq Received
    BY <2>1 DEF Received
  <2> QED
    BY <1>1, <2>1, <2>2, SilentKeepsDeployment
<1> QED
  BY <1>3, <1>4, <1>5, <1>6, <1>7 DEF Next

----------------------------------------------------------------------------
(* Deployment: the coordinator.                                            *)

Before == {"initialize", "connect", "join_config", "deployed"}

(* The steps of its thread, with the stages that it sends.                 *)
LEMMA GoesKeeps ==
    ASSUME PInv, pc \in Before, NEW place,
           place \in {"connect", "failed", "undeployed", "join_config", "deployed", "set_training"},
           CoordinatorGoesTo(place), UNCHANGED <<inbox, workerVars, history>>,
           NEW new, net' = net \cup new, Configs = {} \/ new = {},
           \A n \in new : n.to \in Nodes /\ n.type = "CONFIG_TRANSFER"
    PROVE  /\ PInv' /\ Jobs' = {} /\ Orders' = {} /\ Changed' = {}
           /\ Configs' = Configs \cup new /\ Received' = Received /\ pc' = place
<1>1. pc' = place /\ Resting /\ UNCHANGED <<training, mode, inbox>>
  BY DEF CoordinatorGoesTo, workerVars, history, Resting
<1>2. Jobs = {} /\ Orders = {} /\ Changed = {}
  BY DEF PInv, JobsInOrder, InBatch, Modes, Before
<1>3. Addressed' /\ Exchanged({}, new)
  <2>1. Fresh(new)
    BY DEF Fresh, Configs
  <2> QED
    BY <1>1, <2>1, SendOnly DEF PInv
<1>4. Jobs' = {} /\ Orders' = {} /\ Changed' = {} /\ Configs' = Configs \cup new
  <2>1. \A o \in {} \cup new : /\ o.type \notin JobTypes /\ o.type \notin ModeCommands
                               /\ o.type # "MODE_CHANGED" /\ o.type \in Tracked
    BY DEF JobTypes, ModeCommands, Tracked
  <2>2. Jobs' = {} /\ Orders' = {} /\ Changed' = {}
    BY <1>2, <1>3, <2>1, ExchangeKinds
  <2>3. Configs' = Configs \cup new
    BY <1>3, <2>1 DEF Configs, Exchanged
  <2> QED
    BY <2>2, <2>3
<1>5. Modes'
  BY <1>1, <1>4 DEF PInv, Modes, Before, Switched
<1>6. PInv'
  BY <1>1, <1>3, <1>4, <1>5, RestKeeps DEF PInv, PipelineType
<1>7. Received' = Received
  BY <1>1 DEF Received
<1> QED
  BY <1>1, <1>4, <1>6, <1>7

LEMMA GoesOnly ==
    ASSUME PInv, pc \in Before, NEW place,
           place \in {"connect", "failed", "undeployed", "join_config", "deployed", "set_training"},
           CoordinatorGoesTo(place), UNCHANGED <<net, inbox, workerVars, history>>
    PROVE  /\ PInv' /\ Jobs' = {} /\ Orders' = {} /\ Changed' = {}
           /\ Configs' = Configs /\ Received' = Received /\ pc' = place
<1>1. PICK new : new = {}
  OBVIOUS
<1>2. /\ net' = net \cup new /\ Configs \cup new = Configs
      /\ \A n \in new : n.to \in Nodes /\ n.type = "CONFIG_TRANSFER"
  BY <1>1
<1>3. UNCHANGED <<inbox, workerVars, history>>
  OBVIOUS
<1> QED
  BY <1>1, <1>2, <1>3, GoesKeeps

LEMMA BeforeFacts ==
    ASSUME DInv
    PROVE  pc \in {"initialize", "connect", "deployed"} => Configs = {}
BY DEF DInv, Configuring

LEMMA InitializeKeeps ==
    ASSUME PInv, DInv, Initialize
    PROVE  PInv' /\ DInv'
<1>1. /\ pc = "initialize"
      /\ UNCHANGED <<net, inbox, workerVars, history, up, channels, accepting, dialled, refused,
                     connecting, knows, stage, configured>>
  BY DEF Initialize
<1>2. PICK place \in {"connect", "failed"} : CoordinatorGoesTo(place)
  BY DEF Initialize
<1>3. /\ PInv' /\ Jobs' = {} /\ Orders' = {} /\ Changed' = {} /\ Configs' = {}
      /\ Received' = Received /\ pc' = place
  <2>1. Configs = {} /\ pc \in Before
    BY <1>1, BeforeFacts DEF Before
  <2> QED
    BY <1>1, <1>2, <2>1, GoesOnly
<1>4. /\ \A w : Settled(w)' <=> Settled(w)
      /\ \A w : Reached(w)' <=> Reached(w)
      /\ \A p, q : Reaches(p, q)' <=> Reaches(p, q)
  BY <1>1, EndpointFacts DEF Settled, ReachesOthers, Reached
<1>5. DeployType' /\ Keyed'
  BY <1>1 DEF DInv, DeployType, Keyed
<1>6. Dialling'
  <2>1. refused' \/ \A w \in 1..dialled' : Reached(w)'
    BY <1>1, <1>4 DEF DInv, Dialling
  <2> QED
    BY <1>2, <1>3, <2>1 DEF Dialling
<1>7. Configuring'
  BY <1>1, <1>2, <1>3, <1>4 DEF DInv, Configuring, Deploying
<1> QED
  BY <1>3, <1>5, <1>6, <1>7 DEF DInv

LEMMA ConnectNextKeeps ==
    ASSUME PInv, DInv, ConnectNext
    PROVE  PInv' /\ DInv'
<1>0. PICK q : q = dialled + 1
  OBVIOUS
<1>1. /\ pc = "connect" /\ dialled < NumWorkers /\ dialled' = q
      /\ UNCHANGED <<vars, up, connecting, knows, stage, configured>>
  BY <1>0 DEF ConnectNext
<1>2. q \in Workers /\ q \in Nodes /\ dialled' \in 0..NumWorkers /\ dialled \in Nat
  BY <1>0, <1>1, Numbers DEF DInv, DeployType, Workers
<1>3. /\ PInv' /\ Live' = Live /\ Received' = Received /\ UNCHANGED pc
  <2>1. UNCHANGED <<pc, net, inbox>> /\ PInv'
    BY <1>1, StutterKeeps DEF vars, coordVars
  <2> QED
    BY <2>1 DEF Live, Received
<1>4. Jobs' = Jobs /\ Orders' = Orders /\ Changed' = Changed /\ Configs' = Configs
  BY <1>3, SameKinds
<1>5. /\ Grown /\ Keyed'
      /\ refused' \/ (~refused /\ (InProcess(Coord, q) \/ Reaches(Coord, q)')
                      /\ (InProcess(Coord, q) \/ q \in up))
  <2>1. CASE InProcess(Coord, q)
    <3>1. UNCHANGED <<channels, accepting, refused>>
      BY <1>0, <2>1 DEF ConnectNext
    <3> QED
      BY <2>1, <3>1, SameChannels DEF DInv
  <2>2. CASE ~InProcess(Coord, q)
    <3>1. Connect(Coord, q, "stage") /\ refused' = (refused \/ q \notin up)
      BY <1>0, <2>2 DEF ConnectNext
    <3>2. Grown /\ Keyed' /\ (q \in up => Reaches(Coord, q)')
      BY <1>2, <3>1, ConnectFacts, Numbers DEF DInv
    <3> QED
      BY <3>1, <3>2
  <2> QED
    BY <2>1, <2>2
<1>6. \A w : InProcess(Coord, w) => w \in up
  BY Coordinators DEF InProcess, DInv, DeployType
<1>7. \A w : Reached(w)' <=> w \in up /\ (InProcess(Coord, w) \/ Reaches(Coord, w)')
  BY <1>1 DEF Reached, InProcess
<1>8. \A w : Reached(w) => Reached(w)'
  BY <1>5, <1>7, GrownReaches, Numbers DEF Reached
<1>9. Dialling'
  <2>1. refused \/ \A w \in 1..dialled : Reached(w)
    BY DEF DInv, Dialling
  <2>2. refused' \/ Reached(q)'
    BY <1>5, <1>6, <1>7
  <2>3. refused => refused'
    BY <1>5
  <2>4. \A w \in 1..q : w = q \/ w \in 1..dialled
    BY <1>0, <1>2
  <2>5. refused' \/ \A w \in 1..dialled' : Reached(w)'
    BY <1>1, <1>8, <2>1, <2>2, <2>3, <2>4
  <2> QED
    BY <1>1, <1>3, <2>5 DEF Dialling
<1>10. DeployType'
  BY <1>1, <1>2, <1>5 DEF DInv, DeployType, Grown
<1>11. Configuring'
  <2>1. /\ pc' = "connect" /\ Configs = {} /\ \A w \in Workers : ~knows[w]
        /\ \A w \in Workers : connecting[w] = "nobody"
    BY <1>1, <1>3 DEF DInv, Configuring
  <2>2. \A m \in Received : m.from \in Workers /\ Settled(m.from)
    BY <1>1 DEF DInv, Configuring
  <2>3. Received = {}
    BY <2>1, <2>2 DEF Settled
  <2> QED
    BY <1>1, <1>3, <1>4, <2>1, <2>3 DEF Configuring, Deploying
<1> QED
  BY <1>3, <1>5, <1>9, <1>10, <1>11 DEF DInv

LEMMA SendStagesKeeps ==
    ASSUME PInv, DInv, SendStages
    PROVE  PInv' /\ DInv'
<1> DEFINE all == {Command("CONFIG_TRANSFER", w, w) : w \in Workers}
<1>1. /\ pc = "connect" /\ dialled = NumWorkers
      /\ UNCHANGED <<inbox, workerVars, history, deployVars>>
  BY DEF SendStages
<1>2. UNCHANGED <<up, channels, accepting, dialled, refused, stages, connecting, knows, stage,
                  configured>>
  BY <1>1 DEF deployVars
<1>3. PICK place, new :
         /\ place \in {"undeployed", "join_config"} /\ CoordinatorGoesTo(place)
         /\ net' = net \cup new /\ new \subseteq all
         /\ refused => place = "undeployed" /\ new = {}
         /\ ~refused => place = "join_config"
  <2>1. PICK new : new = IF refused THEN {} ELSE all
    OBVIOUS
  <2>2. PICK place : place = IF refused THEN "undeployed" ELSE "join_config"
    OBVIOUS
  <2>3. CoordinatorGoesTo(place)
    BY <2>2 DEF SendStages
  <2>4. net' = net \cup new
    BY <2>1 DEF SendStages
  <2> HIDE DEF all
  <2> QED
    BY <2>1, <2>2, <2>3, <2>4
<1>4. \A n \in all : /\ n.to \in Workers /\ n.to \in Nodes /\ n.type = "CONFIG_TRANSFER"
                     /\ n = Command("CONFIG_TRANSFER", n.to, n.to)
  BY Fields, Numbers
<1> HIDE DEF all
<1>5. /\ PInv' /\ Jobs' = {} /\ Orders' = {} /\ Changed' = {} /\ Configs' = new
      /\ Received' = Received /\ pc' = place
  <2>1. pc \in Before /\ Configs = {} /\ \A n \in new : n.to \in Nodes /\ n.type = "CONFIG_TRANSFER"
    BY <1>1, <1>3, <1>4, BeforeFacts DEF Before
  <2>2. Configs \cup new = new
    BY <2>1
  <2> QED
    BY <1>1, <1>3, <2>1, <2>2, GoesKeeps
<1>6. DeployType' /\ Keyed' /\ \A w : Reached(w)' <=> Reached(w)
  BY <1>1, SettledStays DEF DInv
<1>7. Dialling'
  <2>1. refused' \/ \A w \in 1..dialled' : Reached(w)'
    BY <1>2, <1>6 DEF DInv, Dialling
  <2> QED
    BY <1>1, <1>2, <1>3, <1>5, <2>1 DEF Dialling
<1>8. ~refused => Workers \subseteq up
  BY <1>1 DEF DInv, Dialling, Workers, Reached
<1>9. Configuring'
  <2>1. (\A w \in Workers : ~knows[w]) /\ (\A w \in Workers : connecting[w] = "nobody")
    BY <1>1 DEF DInv, Configuring
  <2>2. Received = {}
    BY <1>1, <2>1 DEF DInv, Configuring, Settled
  <2>3. new # {} => place = "join_config" /\ Workers \subseteq up
    BY <1>3, <1>8
  <2>4. pc' \in Deploying
    BY <1>3, <1>5 DEF Deploying
  <2>5. \A m \in new : m.to \in Workers /\ m = Command("CONFIG_TRANSFER", m.to, m.to)
    BY <1>3, <1>4
  <2> QED
    BY <1>2, <1>3, <1>5, <2>1, <2>2, <2>3, <2>4, <2>5 DEF Configuring
<1> QED
  BY <1>5, <1>6, <1>7, <1>9 DEF DInv

LEMMA JoinConfigKeeps ==
    ASSUME PInv, DInv, JoinConfig
    PROVE  PInv' /\ DInv'
<1> DEFINE C == OfType(Coord, "CONFIG_RECEIVED")
<1>1. pc = "join_config" /\ UNCHANGED <<net, inbox, workerVars, history, deployVars>>
  BY DEF JoinConfig
<1>2. PICK place \in {"deployed", "failed"} :
         CoordinatorGoesTo(place) /\ (place = "deployed" => Cardinality(C) >= NumWorkers)
  BY DEF JoinConfig, MessageCount
<1>3. C \subseteq Received
  BY Numbers DEF OfType, Received
<1>4. place = "deployed" => \A w \in Workers : Settled(w)
  <2> SUFFICES ASSUME place = "deployed" PROVE \A w \in Workers : Settled(w)
    OBVIOUS
  <2>1. C \subseteq {Ack("CONFIG_RECEIVED", w, 0) : w \in Workers}
    BY <1>1, <1>3 DEF DInv, Configuring
  <2>2. \A w \in Workers : Ack("CONFIG_RECEIVED", w, 0) \in C
    BY <1>2, <2>1, EveryWorker
  <2>3. ASSUME NEW w \in Workers PROVE Settled(w)
    <3>1. PICK m \in Received : m = Ack("CONFIG_RECEIVED", w, 0)
      BY <1>3, <2>2
    <3>2. m.from = w
      BY <3>1, Fields
    <3> QED
      BY <1>1, <3>2 DEF DInv, Configuring
  <2> QED
    BY <2>3
<1> HIDE DEF C
<1>5. /\ PInv' /\ Jobs' = {} /\ Orders' = {} /\ Changed' = {} /\ Configs' = Configs
      /\ Received' = Received /\ pc' = place
  <2>1. pc \in Before
    BY <1>1 DEF Before
  <2> QED
    BY <1>1, <1>2, <2>1, GoesOnly
<1>6. UNCHANGED <<up, channels, accepting, dialled, refused, stages, connecting, knows, stage,
                  configured>>
  BY <1>1 DEF deployVars
<1>7. /\ DeployType' /\ Keyed' /\ \A w : Reached(w)' <=> Reached(w)
      /\ \A w \in Workers : Settled(w)' <=> Settled(w)
      /\ \A p, q : Reaches(p, q)' <=> Reaches(p, q)
  BY <1>1, SettledStays DEF DInv
<1>8. Dialling'
  <2>1. refused' \/ \A w \in 1..dialled' : Reached(w)'
    BY <1>6, <1>7 DEF DInv, Dialling
  <2>2. dialled' = NumWorkers /\ ~refused'
    BY <1>1, <1>6 DEF DInv, Dialling
  <2> QED
    BY <2>1, <2>2 DEF Dialling
<1>9. Configuring'
  <2>1. place = "deployed" => Configs = {}
    BY <1>4 DEF DInv, Configuring, Settled
  <2>2. \A m \in Configs : /\ m.to \in Workers /\ m = Command("CONFIG_TRANSFER", m.to, m.to)
                           /\ ~knows[m.to] /\ Workers \subseteq up
    BY DEF DInv, Configuring
  <2>3. pc' \notin {"initialize", "connect", "join_config"} /\ (pc' \in Deploying <=> place = "failed")
    BY <1>2, <1>5 DEF Deploying
  <2>4. pc' \notin Deploying => \A w \in Workers : Settled(w)'
    BY <1>2, <1>4, <1>7, <2>3
  <2>5. \A w \in Workers :
           /\ knows'[w] => Workers \subseteq up' /\ stage'[w] = w
           /\ connecting'[w] # "nobody" => knows'[w]
           /\ connecting'[w] \in {"next", "prev", "ready"} => Reaches(w, Coord)'
           /\ connecting'[w] \in {"prev", "ready"} /\ w < NumWorkers => Reaches(w, w + 1)'
           /\ connecting'[w] = "ready" /\ w > 1 => Reaches(w, w - 1)'
    BY <1>6, <1>7 DEF DInv, Configuring
  <2> QED
    BY <1>2, <1>5, <1>6, <2>1, <2>2, <2>3, <2>4, <2>5 DEF Configuring
<1> QED
  BY <1>5, <1>7, <1>8, <1>9 DEF DInv

LEMMA TrainKeeps ==
    ASSUME PInv, DInv, Train
    PROVE  PInv' /\ DInv'
<1>1. /\ pc = "deployed" /\ CoordinatorGoesTo("set_training")
      /\ UNCHANGED <<net, inbox, workerVars, history, deployVars>>
  BY DEF Train
<1>2. Configs = {} /\ pc \notin Deploying
  BY <1>1, BeforeFacts DEF Deploying
<1>3. PInv' /\ Configs' = {} /\ pc' = "set_training"
  <2>1. pc \in Before
    BY <1>1 DEF Before
  <2> QED
    BY <1>1, <1>2, <2>1, GoesOnly
<1> QED
  BY <1>1, <1>2, <1>3, TrainingKeepsDeployment DEF Deploying

----------------------------------------------------------------------------
(* Deployment: the workers.                                                *)

LEMMA OutsideKeeps ==
    ASSUME PInv, UNCHANGED vars
    PROVE  /\ PInv' /\ UNCHANGED pc /\ Received' = Received
           /\ Jobs' = Jobs /\ Orders' = Orders /\ Changed' = Changed /\ Configs' = Configs
<1>1. PInv' /\ UNCHANGED <<pc, net, inbox>>
  BY StutterKeeps DEF vars, coordVars
<1>2. Live' = Live /\ Received' = Received
  BY <1>1 DEF Live, Received
<1> QED
  BY <1>1, <1>2, SameKinds

LEMMA DiallingKeeps ==
    ASSUME DInv, Grown, up \subseteq up', UNCHANGED <<pc, dialled, refused>>
    PROVE  Dialling'
<1>1. \A w : InProcess(Coord, w)' <=> InProcess(Coord, w)
  BY DEF InProcess
<1>2. \A w : Reached(w) => Reached(w)'
  BY <1>1, GrownReaches, Numbers DEF Reached
<1>3. refused' \/ \A w \in 1..dialled' : Reached(w)'
  BY <1>2 DEF DInv, Dialling
<1> QED
  BY <1>3 DEF DInv, Dialling

(* A server starts, or a connection is accepted.                           *)
LEMMA AsideKeeps ==
    ASSUME PInv, DInv, UNCHANGED vars, Grown, Keyed', up \subseteq up', up' \subseteq Nodes,
           UNCHANGED <<dialled, refused, connecting, knows, stage, configured>>
    PROVE  PInv' /\ DInv'
<1>1. /\ PInv' /\ UNCHANGED pc /\ Received' = Received
      /\ Jobs' = Jobs /\ Orders' = Orders /\ Changed' = Changed /\ Configs' = Configs
  BY OutsideKeeps
<1>2. DeployType'
  BY DEF DInv, DeployType, Grown
<1>3. Dialling'
  BY <1>1, DiallingKeeps
<1>4. Configuring'
  <2>1. \A w \in Workers : Settled(w) => Settled(w)'
    BY GrownSettled
  <2>2. \A p \in Nodes : \A q : Reaches(p, q) => Reaches(p, q)'
    BY GrownReaches
  <2>3. \A m \in Configs' : /\ m.to \in Workers /\ m = Command("CONFIG_TRANSFER", m.to, m.to)
                            /\ ~knows'[m.to] /\ Workers \subseteq up'
                            /\ pc' \in {"join_config", "failed"}
                            /\ Jobs' \cup Orders' \cup Changed' = {}
    BY <1>1 DEF DInv, Configuring
  <2>4. \A w \in Workers :
           /\ knows'[w] => Workers \subseteq up' /\ stage'[w] = w
           /\ connecting'[w] # "nobody" => knows'[w]
           /\ connecting'[w] \in {"next", "prev", "ready"} => Reaches(w, Coord)'
           /\ connecting'[w] \in {"prev", "ready"} /\ w < NumWorkers => Reaches(w, w + 1)'
           /\ connecting'[w] = "ready" /\ w > 1 => Reaches(w, w - 1)'
    BY <2>2, Numbers DEF DInv, Configuring
  <2> QED
    BY <1>1, <2>1, <2>3, <2>4 DEF DInv, Configuring
<1> QED
  BY <1>1, <1>2, <1>3, <1>4 DEF DInv

LEMMA StartServerKeeps ==
    ASSUME PInv, DInv, NEW w \in Workers, StartServer(w)
    PROVE  PInv' /\ DInv'
<1>1. /\ up' = up \cup {w}
      /\ UNCHANGED <<vars, channels, accepting, dialled, refused, connecting, knows, stage,
                     configured>>
  BY DEF StartServer
<1>2. Grown /\ Keyed'
  BY <1>1, SameChannels DEF DInv
<1>3. up \subseteq up' /\ up' \subseteq Nodes
  BY <1>1, Numbers DEF DInv, DeployType
<1> QED
  BY <1>1, <1>2, <1>3, AsideKeeps

LEMMA AcceptKeeps ==
    ASSUME PInv, DInv, NEW c \in accepting, Accept(c)
    PROVE  PInv' /\ DInv'
<1>1. /\ accepting' = accepting \ {c}
      /\ channels' = [channels EXCEPT ![c.to] = @ \cup {<<ByAddress(c.from), c>>}]
      /\ UNCHANGED <<vars, up, dialled, refused, connecting, knows, stage, configured>>
  BY DEF Accept
<1>2. c.to \in Nodes
  BY DEF DInv, Keyed
<1>3. \A r \in Nodes : channels'[r] = IF r = c.to THEN channels[r] \cup {<<ByAddress(c.from), c>>}
                                                  ELSE channels[r]
  BY <1>1, <1>2 DEF DInv, DeployType
<1>4. Grown
  BY <1>1, <1>2, <1>3 DEF Grown, DInv, DeployType
<1>5. Keyed'
  <2>1. ASSUME NEW r \in Nodes, NEW e \in channels'[r]
        PROVE  \/ e[2].from = r /\ e[1] = Endpoint(e[2].to)
               \/ e[2].to = r /\ e[1] = ByAddress(e[2].from)
    <3>1. CASE e \in channels[r]
      BY <3>1 DEF DInv, Keyed
    <3>2. CASE r = c.to /\ e = <<ByAddress(c.from), c>>
      BY <3>2
    <3> QED
      BY <1>3, <3>1, <3>2
  <2>2. \A x : Endpoint(x)' = Endpoint(x) /\ ByAddress(x)' = ByAddress(x)
    BY DEF Endpoint, ByAddress, ByName
  <2>3. \A d \in accepting' : d.to \in Nodes
    BY <1>1 DEF DInv, Keyed
  <2> QED
    BY <2>1, <2>2, <2>3 DEF Keyed
<1>6. up \subseteq up' /\ up' \subseteq Nodes
  BY <1>1 DEF DInv, DeployType
<1> QED
  BY <1>1, <1>4, <1>5, <1>6, AsideKeeps

(* What a worker changes of itself while it is configured.                 *)
OnlyOf(w) ==
    /\ UNCHANGED <<up, dialled, refused, pc>>
    /\ \A v \in Workers : v # w => /\ stage'[v] = stage[v] /\ configured'[v] = configured[v]
                                   /\ connecting'[v] = connecting[v] /\ knows'[v] = knows[v]
    /\ stage' \in [Workers -> Nat] /\ configured' \in [Workers -> BOOLEAN]
    /\ connecting' \in [Workers -> {"nobody", "coordinator", "next", "prev", "ready"}]
    /\ knows' \in [Workers -> BOOLEAN]

LEMMA WorkerKeeps ==
    ASSUME DInv, NEW w \in Workers, OnlyOf(w), Grown, Keyed', ~Settled(w),
           Jobs' \cup Orders' \cup Changed' \subseteq Jobs \cup Orders \cup Changed,
           \A m \in Configs' : m \in Configs /\ (m.to = w => ~knows'[w]),
           \A m \in Received' : \/ m \in Received
                                \/ Settled(w)' /\ m = Ack("CONFIG_RECEIVED", w, 0),
           knows[w] \/ knows'[w] => pc \notin {"initialize", "connect"},
           knows'[w] => Workers \subseteq up /\ stage'[w] = w,
           connecting'[w] # "nobody" => knows'[w],
           connecting'[w] \in {"next", "prev", "ready"} => Reaches(w, Coord)',
           connecting'[w] \in {"prev", "ready"} /\ w < NumWorkers => Reaches(w, w + 1)',
           connecting'[w] = "ready" /\ w > 1 => Reaches(w, w - 1)'
    PROVE  DInv'
<1>1. DeployType'
  BY DEF DInv, DeployType, OnlyOf, Grown
<1>2. Dialling'
  BY DiallingKeeps DEF OnlyOf
<1>3. \A v \in Workers : v # w /\ Settled(v) => Settled(v)'
  BY GrownSettled DEF OnlyOf
<1>4. pc \in Deploying
  BY DEF DInv, Configuring
<1>5. Configuring'
  <2>1. \A p \in Nodes : \A q : Reaches(p, q) => Reaches(p, q)'
    BY GrownReaches
  <2>2. \A m \in Configs' : /\ m.to \in Workers /\ m = Command("CONFIG_TRANSFER", m.to, m.to)
                            /\ ~knows'[m.to] /\ Workers \subseteq up'
                            /\ pc' \in {"join_config", "failed"}
                            /\ Jobs' \cup Orders' \cup Changed' = {}
    BY DEF DInv, Configuring, OnlyOf
  <2>3. ASSUME NEW v \in Workers
        PROVE  /\ knows'[v] => Workers \subseteq up' /\ stage'[v] = v
               /\ connecting'[v] # "nobody" => knows'[v]
               /\ connecting'[v] \in {"next", "prev", "ready"} => Reaches(v, Coord)'
               /\ connecting'[v] \in {"prev", "ready"} /\ v < NumWorkers => Reaches(v, v + 1)'
               /\ connecting'[v] = "ready" /\ v > 1 => Reaches(v, v - 1)'
    <3>1. CASE v = w
      BY <3>1 DEF OnlyOf
    <3>2. CASE v # w
      BY <2>1, <3>2, Numbers DEF DInv, Configuring, OnlyOf
    <3> QED
      BY <3>1, <3>2
  <2>4. pc' \in {"initialize", "connect"} => \A v \in Workers : ~knows'[v]
    BY DEF DInv, Configuring, OnlyOf
  <2>5. ASSUME pc' \in {"initialize", "connect", "join_config"}, NEW m \in Received'
        PROVE  /\ m.from \in Workers /\ Settled(m.from)' /\ m = Ack("CONFIG_RECEIVED", m.from, 0)
    <3>1. CASE m \in Received
      <4>1. m.from \in Workers /\ Settled(m.from) /\ m = Ack("CONFIG_RECEIVED", m.from, 0)
        BY <2>5, <3>1 DEF DInv, Configuring, OnlyOf
      <4>2. PICK v \in Workers : v = m.from
        BY <4>1
      <4>3. Settled(v)'
        BY <1>3, <4>1, <4>2
      <4> QED
        BY <4>1, <4>2, <4>3
    <3>2. CASE Settled(w)' /\ m = Ack("CONFIG_RECEIVED", w, 0)
      BY <3>2, Fields
    <3> QED
      BY <3>1, <3>2
  <2> QED
    BY <1>4, <2>2, <2>3, <2>4, <2>5 DEF Configuring, OnlyOf
<1> QED
  BY <1>1, <1>2, <1>5 DEF DInv

LEMMA ReceiveKeeps ==
    ASSUME PInv, DInv, NEW w \in Workers, NEW m \in inbox[w], Receive(w, m),
           mode' \in [Workers -> BOOLEAN], net' = net
    PROVE  /\ PInv' /\ Jobs' = {} /\ Orders' = {} /\ Changed' = {} /\ Configs' = Configs \ {m}
           /\ Received' \subseteq Received
           /\ m \in Configs /\ m = Command("CONFIG_TRANSFER", w, w) /\ ~knows[w]
           /\ Workers \subseteq up /\ pc \in {"join_config", "failed"} /\ UNCHANGED pc
<1>1. /\ m.type = "CONFIG_TRANSFER" /\ inbox' = [inbox EXCEPT ![w] = @ \ {m}]
      /\ residual' = [residual EXCEPT ![w] = [p \in Pids |-> 0]]
      /\ UNCHANGED <<pc, async, training, epoch, serial, current, processed, forwarded, trained>>
  BY DEF Receive, coordVars, history
<1>2. m \in Configs /\ m.to = w /\ w \in Nodes
  BY <1>1, Numbers DEF Configs, Live, Tracked, PInv, Addressed
<1>3. /\ m = Command("CONFIG_TRANSFER", w, w) /\ ~knows[w] /\ Workers \subseteq up
      /\ pc \in {"join_config", "failed"} /\ Jobs = {} /\ Orders = {} /\ Changed = {}
  BY <1>2 DEF DInv, Configuring
<1>4. PICK new : new = {}
  OBVIOUS
<1>5. Moves(w, {m}, new) /\ Fresh(new)
  BY <1>1, <1>4 DEF Moves, Fresh
<1>6. Addressed' /\ Exchanged({m}, new) /\ Received' \subseteq Received
  BY <1>2, <1>4, <1>5, Exchange, ReceivedShrinks DEF PInv
<1>7. Jobs' = {} /\ Orders' = {} /\ Changed' = {} /\ Configs' = Configs \ {m}
  <2>1. \A o \in {m} \cup new : /\ o.type \notin JobTypes /\ o.type \notin ModeCommands
                                /\ o.type # "MODE_CHANGED"
    BY <1>1, <1>4 DEF JobTypes, ModeCommands
  <2>2. Jobs' = Jobs /\ Orders' = Orders /\ Changed' = Changed
    BY <1>6, <2>1, ExchangeKinds
  <2>3. Configs' = Configs \ {m}
    BY <1>4, <1>6, ExchangeKinds
  <2> QED
    BY <1>3, <2>2, <2>3
<1>8. PipelineType'
  <2>1. residual \in [Workers -> [Pids -> Nat]] /\ [p \in Pids |-> 0] \in [Pids -> Nat]
    BY DEF PInv, PipelineType
  <2>2. residual' \in [Workers -> [Pids -> Nat]]
    BY <1>1, <2>1
  <2> QED
    BY <1>1, <2>2 DEF PInv, PipelineType
<1>9. JobsInOrder' /\ Phases' /\ Progress' /\ Residuals'
  BY <1>1, <1>3, <1>7, IdleKeeps
<1>10. Modes'
  BY <1>1, <1>3, <1>7 DEF Modes, Switched
<1> QED
  BY <1>1, <1>2, <1>3, <1>6, <1>7, <1>8, <1>9, <1>10 DEF PInv

LEMMA ConfigureKeeps ==
    ASSUME PInv, DInv, NEW w \in Workers, NEW m \in inbox[w], Configure(w, m)
    PROVE  PInv' /\ DInv'
<1>1. /\ Receive(w, m) /\ net' = net /\ stage' = [stage EXCEPT ![w] = m.n]
      /\ mode' = [mode EXCEPT ![w] = TRUE] /\ knows' = [knows EXCEPT ![w] = TRUE]
      /\ connecting' = [connecting EXCEPT ![w] = "coordinator"]
      /\ UNCHANGED <<pc, up, channels, accepting, dialled, refused, configured>>
  BY DEF Configure, Load, Receive, coordVars
<1>2. mode' \in [Workers -> BOOLEAN]
  BY <1>1 DEF PInv, PipelineType
<1>3. /\ PInv' /\ Jobs' = {} /\ Orders' = {} /\ Changed' = {} /\ Configs' = Configs \ {m}
      /\ Received' \subseteq Received
      /\ m \in Configs /\ m = Command("CONFIG_TRANSFER", w, w) /\ ~knows[w]
      /\ Workers \subseteq up /\ pc \in {"join_config", "failed"}
  BY <1>1, <1>2, ReceiveKeeps
<1>4. m.n = w /\ w \in Nat
  BY <1>3, Fields, Numbers DEF Workers
<1>5. OnlyOf(w) /\ stage'[w] = w /\ knows'[w] /\ connecting'[w] = "coordinator"
  BY <1>1, <1>4 DEF OnlyOf, DInv, DeployType
<1>6. Grown /\ Keyed' /\ ~Settled(w)
  BY <1>1, <1>3, SameChannels DEF DInv, Settled
<1>7. \A o \in Configs' : o \in Configs /\ o.to # w
  BY <1>3 DEF DInv, Configuring
<1> QED
  BY <1>3, <1>5, <1>6, <1>7, WorkerKeeps

LEMMA ConfigureFailsKeeps ==
    ASSUME PInv, DInv, NEW w \in Workers, NEW m \in inbox[w], ConfigureFails(w, m)
    PROVE  PInv' /\ DInv'
<1>1. /\ Receive(w, m) /\ (Load(w, m.n) \/ UNCHANGED <<stage, mode>>)
      /\ UNCHANGED <<pc, knows, connecting, up, channels, accepting, dialled, refused, configured>>
      /\ Answers(w, {Answer("ERROR_REPORT", w), Answer("CONFIG_RECEIVED", w)})
  BY DEF ConfigureFails, Receive, coordVars
<1>2. m \in Configs /\ m.to = w
  BY <1>1, Numbers DEF Receive, Configs, Live, Tracked, PInv, Addressed
<1>3. ~knows[w] /\ m.n = w /\ connecting[w] = "nobody"
  BY <1>2, Fields DEF DInv, Configuring
<1>4. net' = net
  BY <1>1, <1>3 DEF Answers
<1>5. mode' \in [Workers -> BOOLEAN] /\ stage' \in [Workers -> Nat]
      /\ \A v \in Workers : v # w => stage'[v] = stage[v]
  <2>1. mode \in [Workers -> BOOLEAN] /\ stage \in [Workers -> Nat] /\ w \in Nat
    BY Numbers DEF PInv, PipelineType, DInv, DeployType, Workers
  <2>2. CASE Load(w, m.n)
    BY <1>3, <2>1, <2>2 DEF Load
  <2> QED
    BY <1>1, <2>1, <2>2
<1>6. /\ PInv' /\ Jobs' = {} /\ Orders' = {} /\ Changed' = {} /\ Configs' = Configs \ {m}
      /\ Received' \subseteq Received /\ pc \in {"join_config", "failed"}
  BY <1>1, <1>4, <1>5, ReceiveKeeps
<1>7. OnlyOf(w) /\ Grown /\ Keyed' /\ ~Settled(w)
  BY <1>1, <1>3, <1>5, SameChannels DEF OnlyOf, DInv, DeployType, Settled
<1>8. DInv'
  BY <1>1, <1>3, <1>6, <1>7, WorkerKeeps
<1> QED
  BY <1>6, <1>8

LEMMA ConnectPeerKeeps ==
    ASSUME PInv, DInv, NEW w \in Workers, NEW as \in DOMAIN After, ConnectPeer(w, as)
    PROVE  PInv' /\ DInv'
<1>1. /\ connecting[w] = as /\ connecting' = [connecting EXCEPT ![w] = After[as]]
      /\ UNCHANGED <<vars, up, dialled, refused, knows, stage, configured>>
      /\ as \in {"coordinator", "next", "prev"}
      /\ as = "coordinator" => After[as] = "next"
      /\ as = "next" => After[as] = "prev"
      /\ as = "prev" => After[as] = "ready"
  <2>1. DOMAIN After = {"coordinator", "next", "prev"}
    BY DEF After
  <2>2. After["coordinator"] = "next" /\ After["next"] = "prev" /\ After["prev"] = "ready"
    BY DEF After
  <2> QED
    BY <2>1, <2>2 DEF ConnectPeer
<1>2. /\ PInv' /\ UNCHANGED pc /\ Received' = Received
      /\ Jobs' = Jobs /\ Orders' = Orders /\ Changed' = Changed /\ Configs' = Configs
  BY <1>1, OutsideKeeps
<1>3. /\ knows[w] /\ Workers \subseteq up /\ stage[w] = w /\ Coord \in up
      /\ pc \notin {"initialize", "connect"} /\ ~Settled(w)
  BY <1>1 DEF DInv, Configuring, DeployType, Settled
<1>4. PICK q : q = Peer(w, as)
  OBVIOUS
<1>5. /\ as = "coordinator" => q = Coord
      /\ as = "next" => q = IF w = NumWorkers THEN Coord ELSE w + 1
      /\ as = "prev" => q = w - 1
  BY <1>1, <1>4 DEF Peer
<1>6. /\ Grown /\ Keyed'
      /\ as = "coordinator" => Reaches(w, Coord)'
      /\ as = "next" /\ w # NumWorkers => Reaches(w, w + 1)'
      /\ as = "prev" /\ w # 1 => Reaches(w, w - 1)'
  <2>1. CASE (as = "prev" /\ w = 1) \/ (as = "next" /\ InProcess(w, q))
    <3>1. Grown /\ Keyed'
      BY <1>4, <2>1, SameChannels DEF ConnectPeer, DInv
    <3>2. as = "next" => w = NumWorkers
      BY <2>1, Coordinators DEF InProcess
    <3> QED
      BY <2>1, <3>1, <3>2
  <2>2. CASE ~((as = "prev" /\ w = 1) \/ (as = "next" /\ InProcess(w, q)))
    <3>1. Connect(w, q, as)
      BY <1>4, <2>2 DEF ConnectPeer
    <3>2. q \in Nodes /\ q \in up
      BY <1>1, <1>3, <1>5, <2>2, Coordinators
    <3>3. Grown /\ Keyed' /\ Reaches(w, q)'
      BY <3>1, <3>2, ConnectFacts, Coordinators DEF DInv
    <3> QED
      BY <1>5, <3>3
  <2> QED
    BY <2>1, <2>2
<1>7. OnlyOf(w)
  BY <1>1, <1>2 DEF OnlyOf, DInv, DeployType
<1>8. /\ connecting'[w] = After[as] /\ knows'[w] /\ stage'[w] = w /\ connecting'[w] # "nobody"
  BY <1>1, <1>3 DEF DInv, DeployType
<1>9. \A p \in Nodes : \A x : Reaches(p, x) => Reaches(p, x)'
  BY <1>6, GrownReaches
<1>10. /\ connecting'[w] \in {"next", "prev", "ready"} => Reaches(w, Coord)'
       /\ connecting'[w] \in {"prev", "ready"} /\ w < NumWorkers => Reaches(w, w + 1)'
       /\ connecting'[w] = "ready" /\ w > 1 => Reaches(w, w - 1)'
  <2>1. /\ as \in {"next", "prev"} => Reaches(w, Coord)
        /\ as = "prev" /\ w < NumWorkers => Reaches(w, w + 1)
    BY <1>1 DEF DInv, Configuring
  <2> QED
    BY <1>1, <1>6, <1>8, <1>9, <2>1, Coordinators
<1>11. \A m \in Configs' : m \in Configs /\ (m.to = w => ~knows'[w])
  BY <1>2, <1>3 DEF DInv, Configuring
<1> QED
  BY <1>2, <1>3, <1>6, <1>7, <1>8, <1>10, <1>11, WorkerKeeps

LEMMA ReadyKeeps ==
    ASSUME PInv, DInv, NEW w \in Workers, Ready(w)
    PROVE  PInv' /\ DInv'
<1> DEFINE n == Ack("CONFIG_RECEIVED", w, 0)
<1>1. /\ connecting[w] = "ready" /\ connecting' = [connecting EXCEPT ![w] = "nobody"]
      /\ configured' = [configured EXCEPT ![w] = TRUE]
      /\ UNCHANGED <<knows, coordVars, inbox, workerVars, history, up, channels, accepting,
                     dialled, refused, stage>>
      /\ net' \in {net, net \cup {n}}
  BY DEF Ready, Answers, Answer
<1>2. n.type = "CONFIG_RECEIVED" /\ n.to \in Nodes /\ n.type \notin Tracked
  BY Fields, Numbers DEF Tracked, JobTypes, ModeCommands
<1> HIDE DEF n
<1>3. PICK new \in SUBSET {n} : net' = net \cup new
  <2>1. {} \in SUBSET {n} /\ {n} \in SUBSET {n} /\ net = net \cup {}
    OBVIOUS
  <2> QED
    BY <1>1, <2>1
<1>4. Addressed' /\ Live' = Live
  BY <1>1, <1>2, <1>3, SilentKinds DEF PInv
<1>5. /\ PInv' /\ Jobs' = Jobs /\ Orders' = Orders /\ Changed' = Changed /\ Configs' = Configs
  BY <1>1, <1>4, ApartKeeps, SameKinds DEF Apart, coordVars, workerVars, history
<1>6. \A m \in Received' : m \in Received \/ m = n
  BY <1>1, <1>3 DEF Received
<1>7. /\ knows[w] /\ Workers \subseteq up /\ stage[w] = w /\ ReachesOthers(w)
      /\ pc \notin {"initialize", "connect"} /\ ~Settled(w)
  BY <1>1 DEF DInv, Configuring, ReachesOthers, Settled
<1>8. OnlyOf(w) /\ Grown /\ Keyed'
  BY <1>1, SameChannels DEF OnlyOf, DInv, DeployType, coordVars
<1>9. connecting'[w] = "nobody" /\ knows'[w] /\ stage'[w] = w /\ configured'[w]
  BY <1>1, <1>7 DEF DInv, DeployType
<1>10. Settled(w)'
  BY <1>7, <1>8, <1>9, GrownReaches, Coordinators DEF Settled, ReachesOthers
<1>11. \A m \in Configs' : m \in Configs /\ (m.to = w => ~knows'[w])
  BY <1>5, <1>7 DEF DInv, Configuring
<1>12. DInv'
  BY <1>5, <1>6, <1>7, <1>8, <1>9, <1>10, <1>11, WorkerKeeps DEF n
<1> QED
  BY <1>5, <1>12

----------------------------------------------------------------------------
(* Deployment and the training that follows it.                            *)

LEMMA DeployStartHolds ==
    ASSUME DeployInit
    PROVE  PInv /\ DInv
<1>1. /\ pc = "initialize" /\ up = {Coord, Local} /\ channels = [p \in Nodes |-> {}]
      /\ accepting = {} /\ dialled = 0 /\ refused = FALSE
      /\ connecting = [w \in Workers |-> "nobody"] /\ knows = [w \in Workers |-> FALSE]
      /\ stage = [w \in Workers |-> 0] /\ configured = [w \in Workers |-> FALSE]
  BY DEF DeployInit, StartsAt
<1>2. PInv /\ Live = {} /\ Received = {}
  BY StartHolds DEF DeployInit
<1>3. DeployType /\ Keyed
  BY <1>1, Coordinators DEF DeployType, Keyed
<1>4. Dialling
  BY <1>1 DEF Dialling
<1>5. Configuring
  BY <1>1, <1>2 DEF Configuring, Configs, Deploying
<1> QED
  BY <1>2, <1>3, <1>4, <1>5 DEF DInv

LEMMA DeployNextKeeps ==
    ASSUME PInv, DInv, [DeployNext]_allVars
    PROVE  PInv' /\ DInv'
<1>1. CASE Deploy
  BY <1>1, InitializeKeeps, ConnectNextKeeps, SendStagesKeeps, JoinConfigKeeps, TrainKeeps
     DEF Deploy
<1>2. CASE [Next]_vars /\ UNCHANGED deployVars
  BY <1>2, TrainingDeployed
<1>3. CASE \E c \in accepting : Accept(c)
  BY <1>3, AcceptKeeps
<1>4. CASE \E w \in Workers : StartServer(w)
  BY <1>4, StartServerKeeps
<1>5. CASE \E w \in Workers : SetConfig(w)
  BY <1>5, ConfigureKeeps, ConfigureFailsKeeps, ConnectPeerKeeps, ReadyKeeps DEF SetConfig
<1>6. \/ Deploy
      \/ [Next]_vars /\ UNCHANGED deployVars
      \/ \E c \in accepting : Accept(c)
      \/ \E w \in Workers : StartServer(w) \/ SetConfig(w)
  <2>1. CASE CoordinatorThread
    BY <2>1 DEF CoordinatorThread, Next
  <2>2. CASE JoinModeTimeout /\ UNCHANGED deployVars
    BY <2>2 DEF Next
  <2>3. CASE Arrive
    BY <2>3 DEF Arrive, Next
  <2>4. CASE \E w \in Workers : WorkerThread(w)
    BY <2>4 DEF WorkerThread, Next
  <2>5. CASE UNCHANGED allVars
    BY <2>5 DEF allVars
  <2> QED
    BY <2>1, <2>2, <2>3, <2>4, <2>5 DEF DeployNext
<1> QED
  BY <1>1, <1>2, <1>3, <1>4, <1>5, <1>6

LEMMA DInvHolds == DeploySpec => [](PInv /\ DInv)
<1>1. DeployInit => PInv /\ DInv
  BY DeployStartHolds
<1>2. PInv /\ DInv /\ [DeployNext]_allVars => PInv' /\ DInv'
  BY DeployNextKeeps
<1> QED
  BY <1>1, <1>2, PTL DEF DeploySpec

LEMMA ReadyOfDInv ==
    ASSUME DInv
    PROVE  DeployedReady
<1> SUFFICES ASSUME pc \notin Deploying, NEW w \in Workers
             PROVE  /\ stage[w] = w /\ configured[w]
                    /\ InProcess(Coord, w) \/ Reaches(Coord, w)
                    /\ Reaches(w, Coord)
                    /\ w > 1 => Reaches(w, w - 1)
                    /\ w < NumWorkers => Reaches(w, w + 1)
  BY DEF DeployedReady
<1>1. Settled(w)
  BY DEF DInv, Configuring
<1>2. Reached(w)
  <2>1. dialled = NumWorkers /\ ~refused
    BY DEF DInv, Dialling, Deploying
  <2> QED
    BY <2>1 DEF DInv, Dialling, Workers
<1> QED
  BY <1>1, <1>2 DEF Settled, ReachesOthers, Reached

(* Once deploy_stages has returned true, every worker has its own stage    *)
(* and is configured, and whoever will send a message has a channel for    *)
(* it, in whatever order servers start, connections are accepted and       *)
(* answers arrive, and although failures are answered like successes.      *)
THEOREM DeployedReadyHolds == DeploySpec => []DeployedReady
BY DInvHolds, ReadyOfDInv, PTL

LEMMA MeetOfKeyed ==
    ASSUME Keyed, Named \in {{}, Nodes}
    PROVE  SplitMessagesMeet
<1> SUFFICES ASSUME NEW p \in Nodes, NEW q \in Nodes, p # q, NEW key
             PROVE  Cardinality(KeysOfChannels(q, Under(p, key))) <= 1
  BY DEF SplitMessagesMeet
<1>1. PICK one : one = IF Named = {} \/ key = ByName(q) THEN ByAddress(p) ELSE ByName(p)
  OBVIOUS
<1>2. ASSUME NEW k \in KeysOfChannels(q, Under(p, key)) PROVE k = one
  <2>1. PICK f \in channels[q] : f[2] \in Under(p, key) /\ k = f[1]
    BY DEF KeysOfChannels
  <2>2. PICK e \in channels[p] : e[1] = key /\ e[2] = f[2]
    BY <2>1 DEF Under
  <2>3. /\ \/ e[2].from = p /\ key = Endpoint(e[2].to)
           \/ e[2].to = p /\ key = ByAddress(e[2].from)
        /\ \/ f[2].from = q /\ f[1] = Endpoint(f[2].to)
           \/ f[2].to = q /\ f[1] = ByAddress(f[2].from)
    BY <2>2 DEF Keyed
  <2>4. \/ key = Endpoint(q) /\ f[1] = ByAddress(p)
        \/ key = ByAddress(q) /\ f[1] = Endpoint(p)
    BY <2>2, <2>3
  <2>5. \A x : ByAddress(x) # ByName(q)
    BY DEF ByAddress, ByName
  <2>6. Endpoint(p) = (IF Named = {} THEN ByAddress(p) ELSE ByName(p))
    BY DEF Endpoint
  <2>7. Endpoint(q) = (IF Named = {} THEN ByAddress(q) ELSE ByName(q))
    BY DEF Endpoint
  <2> QED
    BY <1>1, <2>1, <2>4, <2>5, <2>6, <2>7
<1>3. IsFiniteSet({one}) /\ Cardinality({one}) = 1
  BY FS_Singleton
<1>4. KeysOfChannels(q, Under(p, key)) \subseteq {one}
  BY <1>2
<1> QED
  BY <1>3, <1>4, FS_Subset

(* When the endpoints are all addresses or all names, as the premise says, *)
(* the packets of a message are put together under one key of the          *)
(* receiver, although the two may have several connections, of either      *)
(* direction, and some of them not accepted yet.                           *)
THEOREM SplitMessagesMeetHolds ==
    Named \in {{}, Nodes} => (DeploySpec => []SplitMessagesMeet)
<1> SUFFICES ASSUME Named \in {{}, Nodes} PROVE DeploySpec => []SplitMessagesMeet
  OBVIOUS
<1>1. DInv => SplitMessagesMeet
  BY MeetOfKeyed DEF DInv
<1> QED
  BY <1>1, DInvHolds, PTL

(* What the training relies on holds after deployment as well, where the   *)
(* last CONFIG_RECEIVED may still be under way when it begins.             *)
THEOREM DeployedTraining ==
    DeploySpec => [](ModeAgreement /\ ResidualsReady /\ QuietBetweenBatches)
<1>1. PInv => ModeAgreement /\ ResidualsReady /\ QuietBetweenBatches
  BY InvariantsOfPInv
<1> QED
  BY <1>1, DInvHolds, PTL

LEMMA DeployStepImplements ==
    ASSUME PInv, PInv', [DeployNext]_allVars
    PROVE  [Batch!Next]_Batch!vars
<1>1. CASE [Next]_vars
  BY <1>1, StepImplements
<1>2. CASE Deploy
  <2>1. /\ UNCHANGED <<serial, forwarded, trained>>
        /\ pc \notin {"await_forward", "await_backward"}
        /\ pc' \notin {"await_forward", "await_backward"}
    BY <1>2 DEF Deploy, Initialize, ConnectNext, SendStages, JoinConfig, Train, CoordinatorGoesTo,
                history, vars, coordVars
  <2> QED
    BY <2>1 DEF Batch!vars
<1>3. CASE \E w \in Workers : SetConfig(w)
  BY <1>3 DEF SetConfig, Configure, ConfigureFails, ConnectPeer, Ready, Receive, vars, coordVars,
              history, Batch!vars
<1>4. CASE UNCHANGED vars
  BY <1>4, StepImplements
<1>5. [Next]_vars \/ Deploy \/ (\E w \in Workers : SetConfig(w))
  BY DEF DeployNext, CoordinatorThread, WorkerThread, Arrive, Next, Accept, StartServer, allVars
<1> QED
  BY <1>1, <1>2, <1>3, <1>4, <1>5

(* Deployment, and the batches that follow it, implement TrainingBatches.  *)
THEOREM DeployedBatches == DeploySpec => ImplementsBatches
<1>1. DeployInit => Batch!Init
  BY StartImplements DEF DeployInit
<1>2. PInv /\ PInv' /\ [DeployNext]_allVars => [Batch!Next]_Batch!vars
  BY DeployStepImplements
<1> QED
  BY <1>1, <1>2, DInvHolds, PTL DEF DeploySpec, ImplementsBatches, Batch!Spec

(* ... and, with a model that can be deployed, nothing but a join that has *)
(* run out of time ends the program.                                       *)
THEOREM DeployedFailsOnlyOnTimeout == Deployable => (DeploySpec => []FailsOnlyOnTimeout)
<1> SUFFICES ASSUME Deployable PROVE DeploySpec => []FailsOnlyOnTimeout
  OBVIOUS
<1>1. DeployInit => FailsOnlyOnTimeout
  BY DEF DeployInit, StartsAt, FailsOnlyOnTimeout
<1>2. PInv /\ FailsOnlyOnTimeout /\ [DeployNext]_allVars => FailsOnlyOnTimeout'
  <2> SUFFICES ASSUME PInv, FailsOnlyOnTimeout, [DeployNext]_allVars
               PROVE  FailsOnlyOnTimeout'
    OBVIOUS
  <2>1. CASE [Next]_vars
    BY <2>1, FailureKeeps
  <2>2. CASE Deploy
    BY <2>2 DEF Deploy, Initialize, ConnectNext, SendStages, JoinConfig, Train, CoordinatorGoesTo,
                vars, coordVars, FailsOnlyOnTimeout
  <2>3. CASE \E w \in Workers : SetConfig(w)
    BY <2>3 DEF SetConfig, Configure, ConfigureFails, ConnectPeer, Ready, Receive, vars, coordVars,
                FailsOnlyOnTimeout
  <2>4. CASE UNCHANGED vars
    BY <2>4, FailureKeeps
  <2>5. [Next]_vars \/ Deploy \/ (\E w \in Workers : SetConfig(w))
    BY DEF DeployNext, CoordinatorThread, WorkerThread, Arrive, Next, Accept, StartServer, allVars
  <2> QED
    BY <2>1, <2>2, <2>3, <2>4, <2>5
<1> QED
  BY <1>1, <1>2, DInvHolds, PTL DEF DeploySpec
=============================================================================
