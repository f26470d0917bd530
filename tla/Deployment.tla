----------------------------- MODULE Deployment -----------------------------
(***************************************************************************)
(* Deployment, and the training that follows it: the coordinator cuts the  *)
(* model into stages (Coordinator::initialize_topology), connects to the   *)
(* workers and sends each its stage (deploy_stages); a worker loads it and *)
(* connects to those it will talk to (Worker::set_config); then the        *)
(* coordinator trains, which is the module Pipeline.                       *)
(*                                                                         *)
(* A process keeps its channels under the endpoint of the peer: those that *)
(* it has connected under the endpoint that it was configured with, those  *)
(* that it has accepted under the address that the connection comes from   *)
(* and the listening port that the peer says is its own.                   *)
(*                                                                         *)
(* One worker is local: it runs in the process of the coordinator, and     *)
(* some messages to and from it are handed over without a channel.  Of the *)
(* graphs that the workers load only the number of the stage is kept.      *)
(***************************************************************************)
EXTENDS Pipeline, GraphPartitioner

CONSTANTS
    Model,    \* model_: a sequence of edges
    Ratios,   \* the layer ratios of the partitioner
    Local,    \* local_worker_, by its place among the workers
    Named,    \* the processes whose endpoint has a name for a host, not its address
    Sockets   \* config_.skts_per_endpoint

(* Without a local worker initialize_topology uses a null pointer.         *)
ASSUME DeploymentAssumption ==
    /\ Model \in Seq([reads : SUBSET STRING, writes : SUBSET STRING])
    /\ Ratios \in Seq(Nat \ {0}) /\ Ratios # <<>>
    /\ Local \in Workers /\ Named \subseteq Nodes /\ Sockets \in Nat \ {0}

VARIABLES
    up,          \* the processes that listen
    channels,    \* endpoint_channels_ of each: pairs of a key and a channel
    accepting,   \* channels whose identity the accepting side has still to read
    dialled,     \* workers that deploy_stages has tried to connect to
    refused,     \* ... and whether one of them could not be reached
    stages,      \* stage_configs_: the inputs and outputs of each stage
    connecting,  \* whom each worker connects to next in set_config
    knows,       \* the worker has assigned its endpoints
    stage,       \* the stage whose graph the worker has, 0: none
    configured   \* is_configured_

deployVars == <<up, channels, accepting, dialled, refused, stages, connecting, knows,
                stage, configured>>
allVars    == <<vars, deployVars>>

DeployInit ==
    /\ StartsAt("initialize")
    /\ up = {Coord, Local}
    /\ channels = [p \in Nodes |-> {}] /\ accepting = {}
    /\ dialled = 0 /\ refused = FALSE /\ stages = <<>>
    /\ connecting = [w \in Workers |-> "nobody"]
    /\ knows = [w \in Workers |-> FALSE]
    /\ stage = [w \in Workers |-> 0]
    /\ configured = [w \in Workers |-> FALSE]

(* A worker's program is started, at any time or never.                    *)
StartServer(w) ==
    /\ w \notin up
    /\ up' = up \cup {w}
    /\ UNCHANGED <<vars, channels, accepting, dialled, refused, stages, connecting,
                   knows, stage, configured>>

----------------------------------------------------------------------------
(* Connections                                                             *)

ByName(p)    == [host |-> "name", process |-> p]
ByAddress(p) == [host |-> "address", process |-> p]
Endpoint(p)  == IF p \in Named THEN ByName(p) ELSE ByAddress(p)

(* The endpoints that are a pointer to a communicator of the same process. *)
InProcess(p, q) ==
    \/ p = Coord /\ q = Local
    \/ p = Local /\ q = Coord /\ Local = NumWorkers

KeysOf(p, q) == {e \in channels[p] : e[1] = Endpoint(q)}

(* connect_to_endpoint, all sockets in one step; `as' tells two calls for  *)
(* the same peer apart.  A process that listens can be reached.            *)
Connect(p, q, as) ==
    LET new == [from : {p}, to : {q}, as : {as}, socket : 1..Sockets]
    IN  IF q \in up
          THEN /\ channels' = [channels EXCEPT ![p] = @ \cup ({Endpoint(q)} \X new)]
               /\ accepting' = accepting \cup new
          ELSE UNCHANGED <<channels, accepting>>

(* Mutant: the port that the connection comes from, not the one of the     *)
(* identity.                                                               *)
AcceptByOrigin(c) ==
    /\ accepting' = accepting \ {c}
    /\ channels' = [channels EXCEPT ![c.to] = @ \cup {<<[origin |-> c], c>>}]
    /\ UNCHANGED <<vars, up, dialled, refused, stages, connecting, knows, stage, configured>>

(* process_channel, once the identity has arrived.                         *)
Accept(c) ==
    /\ accepting' = accepting \ {c}
    /\ channels' = [channels EXCEPT ![c.to] = @ \cup {<<ByAddress(c.from), c>>}]
    /\ UNCHANGED <<vars, up, dialled, refused, stages, connecting, knows, stage, configured>>

----------------------------------------------------------------------------
(* The coordinator                                                         *)

Cuts == RatioCuts(Ratios, Len(Model))

Stages == [i \in DOMAIN Ratios |->
              [inputs  |-> InputUids(Sorted(Model), Cuts[i - 1], Cuts[i]),
               outputs |-> OutputUids(Sorted(Model), Cuts[i - 1], Cuts[i])]]

(* Each of these failing is an exception.                                  *)
Deployable ==
    /\ Acyclic(Model) /\ Resolves(Ratios, Len(Model))
    /\ Len(Ratios) = NumWorkers
    /\ \A i \in Workers : Stages[i].inputs # {} /\ Stages[i].outputs # {}

CoordinatorGoesTo(place) ==
    /\ pc' = place
    /\ UNCHANGED <<async, training, epoch, batch, serial, current, processed, acc, updates>>

Initialize ==
    /\ pc = "initialize"
    /\ IF Deployable THEN CoordinatorGoesTo("connect") /\ stages' = Stages
                     ELSE CoordinatorGoesTo("failed") /\ UNCHANGED stages
    /\ UNCHANGED <<timedOut, net, inbox, workerVars, history, up, channels, accepting,
                   dialled, refused, connecting, knows, stage, configured>>

(* One round of the loop of deploy_stages: it goes on after a failure.     *)
ConnectNext ==
    /\ pc = "connect" /\ dialled < NumWorkers
    /\ dialled' = dialled + 1
    /\ IF InProcess(Coord, dialled + 1)
         THEN UNCHANGED <<channels, accepting, refused>>
         ELSE /\ Connect(Coord, dialled + 1, "stage")
              /\ refused' = (refused \/ dialled + 1 \notin up)
    /\ UNCHANGED <<vars, up, stages, connecting, knows, stage, configured>>

(* deploy_stages returns false, or sends every worker its stage.           *)
SendStages ==
    /\ pc = "connect" /\ dialled = NumWorkers
    /\ IF refused THEN CoordinatorGoesTo("undeployed") /\ UNCHANGED net
       ELSE /\ CoordinatorGoesTo("join_config")
            /\ net' = net \cup {Command("CONFIG_TRANSFER", w, w) : w \in Workers}
    /\ UNCHANGED <<timedOut, inbox, workerVars, history, deployVars>>

(* join(CONFIG_RECEIVED), which leaves the answers in the queue; out of    *)
(* time, deploy_stages throws.                                             *)
JoinConfig ==
    /\ pc = "join_config"
    /\ \/ /\ MessageCount("CONFIG_RECEIVED") >= NumWorkers
          /\ CoordinatorGoesTo("deployed") /\ UNCHANGED timedOut
       \/ /\ MessageCount("CONFIG_RECEIVED") < NumWorkers
          /\ CoordinatorGoesTo("failed") /\ timedOut' = TRUE
    /\ UNCHANGED <<net, inbox, workerVars, history, deployVars>>

(* train_model.  Every sender has connected a channel of its own; those    *)
(* that are still to be accepted would add others to them later.           *)
Train ==
    /\ pc = "deployed" /\ accepting = {}
    /\ CoordinatorGoesTo("set_training")
    /\ UNCHANGED <<timedOut, net, inbox, workerVars, history, deployVars>>

Deploy == Initialize \/ ConnectNext \/ SendStages \/ JoinConfig \/ Train

----------------------------------------------------------------------------
(* The workers                                                             *)

(* What the worker sends to coordinator_endpoint_: dropped as long as the  *)
(* endpoint is empty, or without a channel.                                *)
Answers(w, messages) ==
    net' = IF knows'[w] /\ KeysOf(w, Coord) # {} THEN net \cup messages ELSE net

Answer(type, w) == Ack(type, w, 0)

(* set_config begins: the executors are dropped.                           *)
Receive(w, m) ==
    /\ m.type = "CONFIG_TRANSFER" /\ Dequeue(w, m) /\ connecting[w] = "nobody"
    /\ inbox' = [inbox EXCEPT ![w] = @ \ {m}]
    /\ residual' = [residual EXCEPT ![w] = [p \in Pids |-> 0]]
    /\ UNCHANGED <<coordVars, grads, stopping, exited, history, up, channels, accepting,
                   dialled, refused, stages, configured>>

Load(w, n) ==
    /\ stage' = [stage EXCEPT ![w] = n]
    /\ mode' = [mode EXCEPT ![w] = TRUE]

(* Mutant: the endpoints are assigned before the graph is loaded.          *)
ConfigureFailsKnowing(w, m) ==
    /\ Receive(w, m)
    /\ Load(w, m.n) \/ UNCHANGED <<stage, mode>>
    /\ knows' = [knows EXCEPT ![w] = TRUE]
    /\ Answers(w, {Answer("ERROR_REPORT", w), Answer("CONFIG_RECEIVED", w)})
    /\ UNCHANGED connecting

(* handle_configuration, when loading the graph or making the optimizer    *)
(* fails: reported, and then answered as if it had succeeded.              *)
ConfigureFails(w, m) ==
    /\ Receive(w, m)
    /\ Load(w, m.n) \/ UNCHANGED <<stage, mode>>
    /\ UNCHANGED <<knows, connecting>>
    /\ Answers(w, {Answer("ERROR_REPORT", w), Answer("CONFIG_RECEIVED", w)})

(* set_config up to its first connection.                                  *)
Configure(w, m) ==
    /\ Receive(w, m)
    /\ Load(w, m.n)
    /\ knows' = [knows EXCEPT ![w] = TRUE]
    /\ connecting' = [connecting EXCEPT ![w] = "coordinator"]
    /\ UNCHANGED net

After == [coordinator |-> "next", next |-> "prev", prev |-> "ready"]

(* Whom an endpoint of the worker stands for; the first has no previous.   *)
Peer(w, as) ==
    CASE as = "coordinator" -> Coord
      [] as = "next" -> IF w = NumWorkers THEN Coord ELSE w + 1
      [] as = "prev" -> w - 1

(* One of the three connections of set_config, whose results are ignored.  *)
ConnectPeer(w, as) ==
    /\ connecting[w] = as
    /\ connecting' = [connecting EXCEPT ![w] = After[as]]
    /\ IF \/ as = "prev" /\ w = 1
          \/ as = "next" /\ InProcess(w, Peer(w, as))
         THEN UNCHANGED <<channels, accepting>>
         ELSE Connect(w, Peer(w, as), as)
    /\ UNCHANGED <<vars, up, dialled, refused, stages, knows, stage, configured>>

(* The end of set_config, and the answer.                                  *)
Ready(w) ==
    /\ connecting[w] = "ready"
    /\ connecting' = [connecting EXCEPT ![w] = "nobody"]
    /\ configured' = [configured EXCEPT ![w] = TRUE]
    /\ UNCHANGED knows
    /\ Answers(w, {Answer("CONFIG_RECEIVED", w)})
    /\ UNCHANGED <<coordVars, inbox, workerVars, history, up, channels, accepting,
                   dialled, refused, stages, stage>>

SetConfig(w) ==
    \/ \E m \in inbox[w] : Configure(w, m) \/ ConfigureFails(w, m)
    \/ \E as \in DOMAIN After : ConnectPeer(w, as)
    \/ Ready(w)

----------------------------------------------------------------------------
CoordinatorThread == Deploy \/ (CoordStep /\ UNCHANGED deployVars)
WorkerThread(w)   == SetConfig(w) \/ (WorkerStep(w) /\ UNCHANGED deployVars)
Arrive            == (\E m \in net : Deliver(m)) /\ UNCHANGED deployVars

DeployNext ==
    \/ CoordinatorThread
    \/ JoinModeTimeout /\ UNCHANGED deployVars
    \/ Arrive
    \/ \E c \in accepting : Accept(c)
    \/ \E w \in Workers : StartServer(w) \/ WorkerThread(w)

DeploySpec == DeployInit /\ [][DeployNext]_allVars

(* As in Pipeline, and connections are accepted; no worker need be started.*)
DeployFairness ==
    /\ WF_allVars(CoordinatorThread)
    /\ WF_allVars(Arrive)
    /\ WF_allVars(\E c \in accepting : Accept(c))
    /\ \A w \in Workers : WF_allVars(WorkerThread(w))

DeployFairSpec == DeploySpec /\ DeployFairness

----------------------------------------------------------------------------
(* Properties.                                                             *)

Deploying == {"initialize", "connect", "join_config", "undeployed", "failed"}

Reaches(p, q) == KeysOf(p, q) # {}

(* Once deploy_stages has returned true, every worker has the graph of its *)
(* own stage and is configured, although failed configurations are         *)
(* answered with CONFIG_RECEIVED as well; and whoever will send a message  *)
(* has a channel for it, since one without is dropped without a trace.     *)
DeployedReady ==
    pc \notin Deploying =>
        /\ \A w \in Workers :
               /\ stage[w] = w /\ configured[w]
               /\ InProcess(Coord, w) \/ Reaches(Coord, w)
               /\ Reaches(w, Coord)
               /\ w > 1 => Reaches(w, w - 1)
               /\ w < NumWorkers => Reaches(w, w + 1)

KeysOfChannels(p, C) == {e[1] : e \in {f \in channels[p] : f[2] \in C}}
Under(p, key) == {e[2] : e \in {f \in channels[p] : f[1] = key}}

(* The packets of one message are spread over the channels that the sender *)
(* holds under one key, and put together per key of the receiver: all of   *)
(* those must be under one key at the other end too, or a message of       *)
(* several packets is never complete.                                      *)
SplitMessagesMeet ==
    \A p, q \in Nodes : p # q =>
        \A key \in {e[1] : e \in channels[p]} :
            Cardinality(KeysOfChannels(q, Under(p, key))) <= 1

(* Deployment or training comes to an end: no wait of the coordinator      *)
(* lasts forever, and every worker leaves its event loop after SHUTDOWN.   *)
Terminates ==
    <>(\/ pc \in {"undeployed", "failed"}
       \/ pc = "done" /\ \A w \in Workers : exited[w])
=============================================================================
