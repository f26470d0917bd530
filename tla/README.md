# A verification project for tunx

tunx is a C++ library for training neural networks, on one machine or as a
pipeline of machines. This directory holds TLA+ models of it, the TLC
configurations that check them on small instances, and proofs of the invariants
that TLAPS checks for every instance. Two kinds of code are modelled. Where correctness is
a matter of states and orders (protocols, transports, queues, allocators, the executor of
graphs), there are state machines. Where it is a matter of which elements of which
arrays meet (kernels, matrix products, convolutions, losses, optimizers) or which sample goes where (graphs that are saved, datasets, augmentations), there are operators that say
for each version of a computation what it reads, writes and adds up, and statements
that the versions agree. Line numbers refer to the sources under `src/`.

    tlc -config Deployment.cfg MCDeployment.tla      # a run
    tlapm MailboxProofs.tla                          # a module of proofs

## The system

Training is driven by `include/distributed/train.hpp` (several machines) or
`src/nn/train.cpp` (one). A model is a graph of layers; the partitioner cuts it into
stages; the coordinator sends one stage to each worker, then drives batches
through them; each worker runs its stage with graph executors that draw their
memory from a workspace allocator. A layer calls an engine (CPU, CUDA, cuDNN), the engine calls kernels.

| Component | State it keeps | Operations | Talks to | What is hard, and what must hold |
|---|---|---|---|---|
| Training protocol: `distributed/coordinator.hpp`, `worker.hpp`, `train.hpp` | coordinator: position in the loop, counters of the batch; worker: graph mode, executors with residuals by pid, gradients, `should_stop_` | set_training, forward, backward, the four batch functions, update_parameters, join, stop; handlers of every command | messages through a communicator | pids are reused by every batch and messages are reordered: jobs must meet the right mode, the right residuals and the right batch; a wait counts messages that carry no batch |
| Message queues and event loop: `message_map.hpp`, `communicator.hpp`, `worker.hpp:69-99` | a queue per command type, the total counter, the callback, a mutex and a condition variable, `should_stop_` | enqueue, dequeue by priority, has_input_message, start, stop | io threads on one side, the worker's thread on the other | the counter is not updated with the queues; wakeups can be lost; the counter is unsigned |
| TCP transport: `tcp_*.hpp`, `chunking.hpp`, `io_context_pool.hpp` | sockets of each peer, write queues, partly received messages | connect, send, slice, write, read, reassemble, handle errors | the message queues | one message travels in pieces over several channels and threads; a channel may break under it |
| RoCE transport: `roce_*.hpp`, `ibv_*.hpp` | a queue pair per peer, credits, pending sends and receives, a completion queue | prepare, ready, write, completions, register, close | the message queues, the network card | a credit must come back on every way a message can end; a completion may come before the queue pair is known |
| Deployment: `coordinator.hpp:56-84,363-460`, `worker.hpp:101-136,208-262` | the partitions, channels by endpoint, the workers' graphs | initialize_topology, deploy_stages, set_config | partitioner, transport, messages | a configuration may fail, a worker may not be there; a process knows the same peer under different keys |
| Partitioner: `src/partitioner/graph_partitioner.cpp` | none | sort, cut by ratios or costs, determine the borders | deployment | every layer in one stage; what a stage gives out is what the next takes in |
| DEL workspace allocator: `device/del_allocator_v2.hpp` | slabs used from both ends, free lists by size and by offset, counters, side | allocate, the deleter's reclaim, ensure, evict_unused, clear, flip | the backend allocator; `dptr` holders | raw slab pointers in deleters; the free lists are kept twice; the backend may refuse |
| Pool allocator, other allocators, dptr: `pool_allocator.hpp`, `del_allocator.hpp`, `dptr.hpp`, `device_allocator.hpp` | the backend's memory by address, free blocks by size | allocate, reclaim, ensure, clear | devices; tensors | memory given back while somebody holds a part of it |
| Batch prefetcher: `data_loading/batch_prefetcher.hpp` | a queue of batches, three flags, a mutex and two condition variables, a thread | start, stop, next, the producer's loop | a dataset, the training loops | two waits on each other, stop and restart, exceptions on the other thread |
| Graph executor: `nn/graph_executor.cpp`, `residuals.hpp` | plans, data and gradients with reference counts, residuals | build a plan, forward, backward | layers, allocator, solver, packer | the plan alone decides what shares memory; a tensor is freed with its last reader, gradients are accumulated in place |
| Macro solver, memory packer: `nn/macro_solver.cpp`, `memory_packer.cpp` | macros and their dependencies; none | order the layers; place the buffers | executor | no layer before what it needs; buffers alive at the same time must not share bytes |
| Layers and blocks: `nn/layers_impl`, `nn/blocks_impl` | parameters | forward, backward | executor, engines | backward looks up what another function saved, under a key and with a type |
| Kernels, matrix products, activations, normalisations: `kernel/`, `math/`, `nn/activations_impl`, `nn/engines/*/norm.*` | running statistics | each operation in up to four versions | tensors, engines | the rest of a vector loop, alignment that is tested for some pointers only, grids and barriers |
| Convolution, pooling, tensors: `nn/engines/`, `tensor/` | a tensor: device, type, shape, a view of storage | convolutions and pools with gradients, copies, views, operators, save and load | layers, kernels | geometry at borders; who shares memory with whom |
| Training loop of one machine, schedulers, optimizers: `nn/train.cpp`, `schedulers.hpp`, `optimizers.*` | epoch, batch, accumulated gradients; rates; moments | epochs, steps, benchmark; step, reset; update | executor, prefetcher | which gradients an update is made from; the learning rate at the edges of its schedule |
| Losses and metrics: `nn/loss*`, `nn/metrics*` | none | loss and gradient, metrics | training loops | edges of the functions, shared memory in block reductions |
| Serialization: `binary_serializer.hpp`, `common/archiver.hpp`, `nn/*serial*` | none | write and read | transports, deployment | layout |
| Graph construction: `nn/graph.cpp`, `functional_layer.hpp`, `node.hpp` | nodes with names, edges, layers with parameters | apply a layer, set_input, set_output, sort, compile, save, load | executor, partitioner, deployment | names and orders decide what a stage takes in and gives out; a loaded model must be the saved one |
| Datasets: `data_loading/*_dataset.hpp` | samples, the order they are read in, the position | load, get_batch, shuffle, reset, set_seed | prefetcher, training loops | every sample once in a pass, with its label; what cannot be read |
| Augmentation: `data_augmentation/` | a list of augmentations | apply, add, remove | datasets | geometry at the borders of a picture |
| Dense, embedding and attention engines, cuDNN engine, tokenizer | parameters, a vocabulary | numerical, parsing | executor, datasets | values |
| Devices, profiling, logging, threading, configuration | - | - | everything | - |

`PROJECT.json` lists the components with what is modelled of each, and under
`hazards` each place in the code that a test would hardly reach, with the
property that watches it, or the reason why none does.

## Modules

| Module | Models | Composition |
|---|---|---|
| `TrainingBatches` | abstract: what one batch after the other promises | refined by `Pipeline` |
| `Pipeline` | coordinator, workers and the network between them | instantiates `TrainingBatches` |
| `Deployment`, `MCDeployment` | partitioning, connecting, configuring, then training | extends `Pipeline` and `GraphPartitioner`: its initial state is the program's |
| `PipelineProofs` | proofs about `Pipeline` and `Deployment` | extends `Deployment` |
| `GraphPartitioner` | the partitioner, as functions of a graph | used by `Deployment` |
| `Mailbox`, `MCMailbox` | one input queue with its senders and its event loop, atomic operation by atomic operation | the fine grain of what `Pipeline` takes as one step: `Deliver` and `Dequeue` |
| `MailboxProofs` | proofs about `Mailbox` | extends `Mailbox` |
| `MessageDelivery` | abstract: a message that is sent arrives once and whole, unless the way is lossy | refined by `TcpTransport` and `RoceChannel`; what `Pipeline` assumes of `net` |
| `TcpTransport`, `MCTcpTransport` | the way of messages over the channels of one peer, coroutine by coroutine | instantiates `MessageDelivery`; what it delivers, `Mailbox` takes in |
| `TcpTransportProofs` | proofs about `TcpTransport` | extends `TcpTransport` |
| `Chunking` | the arithmetic of slicing, which `TcpTransport` takes for granted | |
| `ChunkingProofs` | proofs about `Chunking` | extends `Chunking` |
| `IoContextPool` | the choice of an io_context, load by load and store by store | |
| `RoceChannel` | the way of messages over one queue pair, completion by completion | instantiates `MessageDelivery` |
| `RoceChannelProofs` | proofs about `RoceChannel` | extends `RoceChannel` |
| `Heap` | abstract: what an allocator promises | refined by both allocators, in `MCAllocators` |
| `DelAllocator` | the workspace allocator | |
| `PoolAllocator` | the allocator of tensors | |
| `MCAllocators` | either allocator, at the start's choice | extends both, instantiates `Heap` twice |
| `DelAllocatorProofs` | proofs about `DelAllocator`, and that both allocators refine `Heap` | extends `MCAllocators` |
| `DatasetReading` | abstract: reading a dataset in passes | refined by `BatchPrefetcher` |
| `BatchPrefetcher` | prefetcher, producer thread and training thread | instantiates `DatasetReading` |
| `BatchPrefetcherProofs` | proofs about `BatchPrefetcher` | extends `BatchPrefetcher` |
| `MacroSolver`, `MemoryPacker`, `LayerOps` | the order of the layers, the place of the buffers, what each layer keeps for its backward | |
| `GraphExecutor`, `MCGraphExecutor` | plans, forward and backward | extends the three above: their steps are steps of building a plan |
| `GraphExecutorProofs` | proofs about `GraphExecutor`, `MacroSolver`, `MemoryPacker` and `LayerOps` | extends `GraphExecutor` |
| `VectorKernels`, `CudaKernels` | the shapes of loop in numerical code, by the indices they touch; elementwise and reduction kernels in four versions, with what the threads of a block do together | `CudaKernels` extends `VectorKernels`; the modules below use their loops |
| `Activations` | activation functions with their gradients, softmax | |
| `Norms` | batch and layer normalisation of both engines and of the legacy layer, forward and backward | extends `Activations` for its fractions |
| `Gemm` | matrix products | |
| `Losses` | losses with gradients; metrics | |
| `ImageTensors`, `Convolutions` | copies between images; convolutions and pools with gradients, in each version | `Convolutions` extends `ImageTensors` |
| `TensorOps` | checks before a kernel, views, transfers, saving, operators | |
| `Optimizers`, `TrainingLoop` | learning rates and updates; the loops of one process | |
| `GraphState` | building, sorting, compiling, saving and loading a graph | what `GraphExecutor` and `GraphPartitioner` take as a graph |
| `Datasets` | what a pass over a dataset hands out | what `BatchPrefetcher` abstracts to a position |
| `Augmentations` | which pixels a changed picture is made from | extends `ImageTensors` |

Operators named in a comment that begins with `Mutant:` are plausible mistakes in the
definition after them. No specification uses them: put in its place, each makes TLC
find one of the properties violated, which shows that the property watches that code.

### Pipeline

The state is that of the coordinator's thread (`pc`, the counters of the batch functions),
of each worker (graph mode, which batch's residuals the executor of each pid holds,
the gradients since the last `zero_grads`, `should_stop_`), the messages under way
(`net`) and the messages queued (`inbox`). The coordinator's actions are the stretches
of the program between two waits: `set_training` up to its join, the join with what is
dequeued after it, the start of a batch, one round of a receiving loop, `update_parameters`
up to its join, and so on; a worker's actions are the handlers of
`process_message`. Each handler sends what the code sends: an output to the next
stage or the coordinator, a gradient to the previous stage, or an acknowledgement.

`dequeue_input_message` looks at the command types in the order of their enumeration, so
a delivered job is served before a delivered SHUTDOWN, though not before one that
is delivered earlier: `Dequeue` has that guard. Delivery is in any order, because a
TCP send is spawned on one of several io contexts and travels over several sockets.

The models are `train_model` in its epoch mode. Whether the pipeline is asynchronous is chosen in
`Init`, so one run covers both. The fields `batch` and `n` of messages, and
`forwarded`, `trained`, `applied`, `serial`, are history: the program has
none of them, which is exactly why the properties need them.

* `ModeAgreement`: no job is under way to a worker that is in the other mode.
* `ResidualsReady`: a gradient finds the residuals of its own microbatch of its own batch.
* `QuietBetweenBatches`: no job or completion is left between two batches.
* `FailsOnlyOnTimeout`: the exceptions of the synchronous functions are never thrown.
* `ImplementsBatches`: `Pipeline` refines `TrainingBatches`: each stage runs each microbatch of the open batch
  once, in the order of the stages, and back, before the batch returns.

### Deployment and GraphPartitioner

`GraphPartitioner` is a module of functions: the queue of `topologically_sorted_edges`, the cuts by ratios and by
costs (a dynamic program), and of each stage the nodes it takes in and gives out. `MCDeployment` states what they should
return, and TLC evaluates that for every graph of four layers in three orders of the list: sorting keeps every layer and
puts none before what it needs, a circle is found, ratios are kept, no other cuts have a smaller bottleneck. `StagesFit` says of the model
deployed that each stage gives out what the next takes in. Not every graph has this: a connection that skips a stage
breaks it, and nothing in the code checks for it (see the hazards).

`Deployment` is the program up to training: `initialize_topology`, the loop of `deploy_stages` over the workers, which goes on
after a failure, the wait for CONFIG_RECEIVED with its timeout, and in a worker `set_config` with its three connects.
What a process knows of its connections is `channels`, pairs of the key it keeps a channel under and
the channel; the side that accepts learns the key later, when it has read the identity (`Accept`). Whether an endpoint is named by an
address or a host name decides which keys are the same. A worker may start at any time or never; a configuration may fail, and is
then answered with ERROR_REPORT, which nobody reads, and with CONFIG_RECEIVED as well. Messages to someone without
a channel are dropped, as the code does. One worker is local, and hands some messages over without a channel. Training is the module `Pipeline`, from the
state that deployment leaves.

* `DeployedReady`: when `deploy_stages` has returned true, every worker has the graph of its own stage and a channel to whomever it will send to.
* `SplitMessagesMeet`: the channels over which one message is split are under one key at the other end. It is true of a deployment that names all hosts the same
  way, by address or by name; with one worker named otherwise, TLC finds a message that never becomes complete.
* `Terminates`: deployment fails, or training ends, with every event loop left or by a timeout of a join.

### Mailbox

One step per atomic operation: inserting into a queue, adding to `total_message_count_`,
testing the callback, taking the mutex, notifying; testing the predicate of the wait,
blocking (a separate step, under the mutex), waking up, each look of the dequeue at
one type, taking a message out, subtracting from the counter, handling. `stop()` from another thread is two steps,
outside of the mutex as in the code; wakeups may be spurious.

* `CountAccounts`: the counter is the number of queued messages but for the operations that are half done; and although
  a message can be taken out before it is counted, the unsigned counter
  never goes below zero: the loop looks for a message only when the counter says there is one, and only one thread takes messages out.
* `DequeueRight`: the dequeue that the counter has announced finds a message, and one of the most urgent type.
* `NoLostWakeup`, `EveryMessageProcessed`: nothing delivered is left asleep.
* `StopTakesEffect`: `stop()` ends the loop at the latest with the next message. The stronger
  "stop() ends the loop" is false of the code: `stop()` notifies without the mutex, so the notification can
  fall between the predicate and the wait. `worker.hpp` promises nothing stronger.

### TcpTransport

A sender is `start_send` of one message: it copies the list of the peer's channels, then for each packet,
from the last, enqueues it on the next channel and spawns `write_packets`. A writer is that
coroutine, named by the packet it was spawned for: `Acquire` (the lambda that calls `acquire_write`), `Pop`
(`try_pop` and the start of `async_write`), `Written` or `WriteFails`, `Release` (the destructor of the handle). It
need not write the packet it was spawned for. A reader is `receive_loop` of one channel: the header with `fetch_packet`, the body,
`commit_packet`, `finalize`. `wire` holds the packets between them in order.

What may interleave: everything, except that two coroutines of one channel do not run
between the same awaits, because each io_context of the pool is run by one thread (`ExecutorFree`). That has one exception in the code:
`connect_to_endpoint` calls `poll_one` on an io_context that the pool runs too (tcp_communicator.hpp:196), and `Poll`
takes the protection away from a channel. `Break` loses a connection with a tail of what was
on it; either end notices by failing reads and writes.

* `OneWriter`: a stream is written by one coroutine at a time, whatever threads run it.
* `NoPacketStranded`: a packet in the queue of a channel has a coroutine that will take it. The coroutine that finds the handle
  taken gives up, so it relies on the other looking into the queue again; this holds because of
  the single thread, and not for a channel that has been polled: between the last `try_pop` and the release another thread may
  enqueue a packet and run its coroutine, and the packet waits until something else is sent over this channel.
* `CommitFindsMessage`: `commit_packet` never meets a message that has been taken out.
* `ImplementsDelivery`: `TcpTransport` refines `MessageDelivery`: no message is delivered twice, or before all of its packets are in its buffer.
* `AllArrive`: without broken or polled channels, every message arrives.

### Chunking and IoContextPool

`Chunking` slices every message up to a length with several block sizes, and receives the packets in any order. Byte
positions and lengths are numbers, and `packet_offset` has `OffsetBits` bits. `EveryByteOnce`: no packet reaches outside of the
message, and when the aggregator has counted all packets, every byte of the buffer was written once. It holds as
long as an offset can address the message, and is violated beyond (see Findings).

`IoContextPool` is `get` with the loads and stores of an index that several threads advance without a lock.

### RoceChannel

The sender's side of a message is `send_impl` (register, wait for a credit, post the prepare), then one completion after the other in `RoCECQ::run_loop`; the
receiver's side is the handlers of its own loop. One direction is modelled, because `connect_to_endpoint` makes a queue
pair for the messages of the side that connects. What the hardware does is external: posts travel in order, take a receive buffer, and complete,
until the connection is lost; then either side learns of it only by a request of its own that is not answered. The receiver may register its end late
(`Register`): completions of a queue pair that is not in the map are dropped with their buffers.

* `CreditsComeBack`: each message that holds a credit has exactly one next step on its way, and no other message has any.
* `NoSenderStranded`: nobody waits for a credit while there is one unless somebody has been woken, and nobody on a closed channel.
  A peer that takes the prepares and then stays silent is outside of all three: the code times nothing out, and its senders wait.
* `QueuesSuffice`: the credits keep within the depths of the queues, so that no post fails for want of room and no arriving message lacks a buffer.
* `ImplementsDelivery`, `AllArrive`: as for TCP: once, whole, and in the end, unless the connection is lost or the receiver was late.

### DelAllocator, PoolAllocator, Heap

One mutex serialises the operations of an allocator, so each is a step. In `DelAllocator` a block is a record of
slab, offset and size in units of the alignment; a slab has its middle
`[left, right)` and everything outside of it is either a live allocation or a block
of the free lists. `freeMap` (`free_by_size_`) and `free` (the `free_by_offset` of
the slabs) are separate variables because the code updates them separately, and `allocate_slab` only one of them.
The backend may refuse a slab after the idle ones were freed. `PoolAllocator` keeps memory by address and gives it out whole; the
backend may give an address again that it has been given back.

* `NoOverlap`: no byte has two owners. `LiveMemoryHeld`: an allocation's slab is there as long as it is,
  and its bytes are not in the middle that is handed out next.
* `FreeListsAgree`: both views of the free blocks are the same, so no entry points into an erased slab.
* `IdleSlabIsWhole`: without allocations a slab is one free middle: the assertion of
  `allocate_slab` (:424), that is compiled out with NDEBUG, and more.
* `ImplementsHeap`: both allocators refine `Heap`: a step takes one block, gives one back, or tidies up, blocks never overlap,
  no memory of the backend goes while a block is taken from it, and `reserved()` and `allocated()` are exact, also after a refusal.

### BatchPrefetcher

The producer's steps are its test of the wait, the read outside of the mutex, the push
under it and the notification after it; the training thread's are those of `next`, `stop` and
`start`, called as the training loops do: `next` until it returns false, throws, or the loop has
enough; then stop, shuffle, reset, start. Batches are numbered by pass.

* `OrderKept`: what was received, is queued and is in the producer's hands is the pass so far, in order.
* `DatasetAlone`: the dataset is reset only when no producer can be inside `get_batch`, and the queue is empty.
* `ImplementsReading`: `next` returns false only at the end of a pass, as `DatasetReading` has it.
* `CallsReturn`: neither `next` nor `stop` hangs.

### GraphExecutor with MacroSolver, MemoryPacker and LayerOps

`LayerOps` says of each layer and block what its forward saves, under which key and of what type, in training and always, and what its
backward looks up; blocks are put together from layers. `MacroSolver` is the loop of the solver, one merge or one macro per step;
`find_backward_order` is the same code on the reversed graph. `MemoryPacker` places one allocation per step, the largest first; which of equal ones, `std::sort` leaves open, and the model any fixed one.

`GraphExecutor` builds a plan for a mode (both orders, the trace of the buffers with the steps they live in, their places) and then runs
forward and backward over it, layer by layer, as often as it is called. A tensor is named by what it is made for, and `mem` says whose
data each unit of the plan's block holds: only the plan keeps tensors apart, whatever their reference counts say. How much memory a layer takes
and keeps is measured by the code in a profiling pass; the model takes any of `Profiles`.
The graphs are one for every layer on its own, a chain, a residual connection, a skipped layer with
a node read twice, two residual connections in a row, a graph with several inputs and outputs, and one with a layer whose result nobody reads.

* `MacrosOrdered`: every merge leaves the macros an acyclic partition of the layers, each in an order that its layers allow, and so is the final order.
* `NoOverlap`: what lives in the same step does not overlap in the plan.
* `Intact`: a tensor that somebody may still read has all of its memory.
* `NeverMissing`: no layer misses an input, a gradient or a residual of the type it expects.
* `CompleteGradients`: a gradient is consumed only when every reader of the node has added to it.
* `AllReleased`: nothing is left after a pass.

### Numerical code, graphs and datasets

These modules have no steps. A kernel or loop is translated to the set of what it does: the indices it touches, the multiplications with
the cells that meet in them, the moves of a copy, the term it computes, each with the task or thread that does it. What is claimed is an assumption
(`ASSUME`) at the end of each module, evaluated by TLC whenever a run extends it: `MCGraphExecutor` extends all of them, `MCDeployment` the partitioner. Widths are scaled down
(8 threads for 256, warps of 4 for 32, blocks of 8 for 32, and so on, each named where it is declared), sizes run over both sides of
every multiple. Some of the statements are about what the code does wrong; their comments say so, and they are listed under Remarks.

| Module | Holds of the code |
|---|---|
| `VectorKernels` | the vector body, the rest loop and the plain loop of a kernel compute the same (`BodiesMatchLoops`), for floats, doubles and other types (`TypesAgree`), a kernel exists for each type it is sent to, every pointer that is loaded aligned was tested (`AlignedIsTested`), every index is touched once (`LoopsCover`, `ReductionsAgree`), random draws are not reused (`DrawsAreFresh`) |
| `CudaKernels` | CUDA computes what the CPU does (`DevicesAgree`, `ChecksAgree`, `SwapsAgree`), each element by one thread (`GridsCover`), the reductions of a grid are sums (`CudaReductionsAgree`), every thread's value counts once, within a block and over a grid (`BlocksReduce`, `GridsReduce`) |
| `Activations` | both devices compute the same function and the same gradient (`ActivationsAgree`), odd functions are odd (`Mirrored`), gradients are multiples of what comes in (`GradientsScale`) and stay inside of tensors of one shape (`GradientsStayInside`), which slope is taken at a corner and left of it (`LeftOfTheCorner`, `EluTailsOff`), the vectors of relu and the places of softmax cover their tensors (`ReluCovers`, `SoftmaxCovers`), softmax gives a distribution with gradients that balance (`SoftmaxIsADistribution`, `SoftmaxGradientsBalance`), which names a layer runs, and which it refuses (`NamesWork`) |
| `Norms` | the statistics merged from threads, warps and blocks are the plain sums' (`StatisticsAgree`), both engines agree (`BatchNormsAgree`, `LayerNormsAgree`) and so does the legacy layer (`LegacyAgrees`), outputs have mean 0 and variance 1 before the affine part (`OutputsAreNormal`), input gradients are orthogonal to constants and to the normalised input (`GradientsAreOrthogonal`), vectors have each element with its channel, where the grid uses them (`VectorsStayInChannels`); where CUDA's layer normalisation stops and what its workspaces rely on (`OnlyFirstRowsOnCuda`, `WorkspaceHazards`) |
| `Gemm` | floats, doubles, cuBLAS and cuDNN multiply the same cells whatever is transposed, without two tasks on one cell; which alignment the aligned kernels rely on (`DgemmAlignment`); other types ignore the flags (`OthersIgnoreFlags`) |
| `Losses` | both devices agree, a gradient is a subgradient (`GradientsDescend`), the softmax gradients balance, sums are finite; the maximum of a row may be lost to a race (`MaximumMayBeLost`). Metrics: both devices agree, counts partition a batch, scores are bounded, insertion finds the k highest |
| `ImageTensors` | column matrices, padding, cropping, transposes, slices and splits move every cell once and alike on both devices, and back; where the spans and threads do not suffice (`SpansBreak`, `ThreadsMissing`) |
| `Convolutions` | both devices multiply the same cells, the three gradients are adjoint to the product, no two tasks add to one cell; the older layer cuts gradients and misplaces its bias. Pools: averages and maxima agree, a gradient returns to the cell the maximum came from; the older layers' masks |
| `TensorOps` | kernels run where their tensors are (`KernelsRunAtHome`), operations with tensors alike stay inside of them (`AlikeIsInside`), as do views, columns and parts (`ColumnsStayInside`, `PartsStayInside`), what is saved comes back (`SavedComesBack`); which checks are missing (`SizesUnchecked`, `TwoDevicesTaken`), which spans are no boxes (`SpansAreBoxes`), and that operators overwrite their left operand (`OperatorsOverwrite`) |
| `Optimizers` | rates stay within their bounds, rise and fall as they should, follow on the workers, and warm up twice there (`WarmupIsAppliedTwice`). Updates: both devices and all grids compute one step per element, each parameter has a state of its own; SGD's copies forget the weight decay |
| `TrainingLoop` | which gradients each update is made from, for epochs, steps and the benchmark; which state is saved |
| `GraphState` | for every way to connect four edges: sort puts none before one it reads from (`SortPutsWritersFirst`), leaves sorted ones alone, so that a worker runs what the coordinator sorted (`SortIsStable`), and finds circles; a saved model loads and is saved as the same file again (`SavedModelsReturn`), with the messages and the order of parameters it had (`LoadedModelsFit`); new names stay unique after loading (`NamesAreUnique`). Where this ends: `TwoWritersAreNotAwaited`, `RenamedTwiceIsLost`, `OldVersions`, `CompiledOnce` |
| `Datasets` | a pass begun by reset hands out every sample once, after any shuffle and any batch size (`PassesAreComplete`), an order does not depend on earlier ones but for samples that are moved (`ShufflesCompose`), windows lie in the text, a class has one label in training and validation (`LabelsAgree`), records and lines go where they should; what unreadable samples and failed loads leave (`UnreadableSamples`, `FailedReload`) |
| `Augmentations` | flips are their own inverse, crops and parts lie in the picture (`BoxesLieInside`, `CropsLieInside`), resizing keeps the order and treats both ends alike (`ResizingIsEven`), colours stay in range; where cutout, random crop and rotation leave the picture (`CutoutsFit`, `CropsNeedWidth`, `RotationsAtTheEdges`), and what validation pictures lose (`CroppedTwice`) |

## Runs

| Run | Instance | Shows |
|---|---|---|
| `pipeline` | a graph of 3 layers for 2 stages, the first on the local worker, 1 socket per endpoint, addresses only; then 2 microbatches, 2 epochs of 2 training batches and 1 validation batch, an update every 2 batches, timeouts | the properties of Deployment and Pipeline above, the statements about GraphPartitioner |
| `pipeline_update` | 2 stages, 2 updates, no timeouts | `UpdateIsBarrier` is violated (see Findings) |
| `mailbox` | 2 senders, 3 messages of 3 types, the last SHUTDOWN | the properties of Mailbox |
| `del_allocator` | 4 slabs, requests of 1 to 3 units, 6 units of memory; a pool with 3 addresses, requests of 1 to 3 and 5 units | the properties of both allocators |
| `prefetcher` | depth 2, passes of 3 batches, 3 passes | the properties of BatchPrefetcher |
| `prefetcher_error` | one pass of the same | `ErrorInItsPlace` is violated (see Findings) |
| `tcp_transport` | 2 channels, a message of 2 packets and one of 1, one channel that breaks or is polled | the properties of TcpTransport |
| `roce_channel` | 4 messages, 2 credits, queues of 4, a connection that may be lost, a receiver that may be late | the properties of RoceChannel |
| `chunking` | messages of 1 to 16 bytes, blocks of several sizes, offsets of 4 bits | `EveryByteOnce` |
| `chunking_wide` | messages of up to 20 bytes with offsets of 4 bits | `EveryByteOnce` is violated (see Findings) |
| `io_context_pool` | 4 contexts, 2 threads | `IndexInList` is violated (see Findings) |
| `graph_executor` | 6 small graphs and one for each layer, every profile of memory | the properties of GraphExecutor, MacroSolver and MemoryPacker, the statements about numerical code, tensors, training loops, saved graphs, datasets and augmentations |

Why the bounds are enough. Two stages make a first, a last and a hand-over in both
directions, two microbatches make reordering and reuse of pids, two training batches per epoch put an
update between batches and two epochs take every mode change in both directions with acknowledgements of the
first update left in the queue. One of the two workers is local and one is not, so that every kind of connection is made and accepted, and each may be missing
or fail. A second socket per endpoint changes nothing in what is under which key but makes the run too long; the last worker connects to the coordinator
twice (as its neighbour and as its coordinator) under one key, so a message is split over two channels all the same.
In Mailbox two senders race each other and the loop; of three messages one can be
half inserted, one half counted and one half taken out, and the SHUTDOWN may overtake. In DelAllocator, six units and
requests of up to three make both neighbours of a block, exact fits, splits and
refusals, and four slabs let one outlive others with idle ones freed twice; the pool's three addresses and five units make it reuse larger blocks, refuse, and
get an address back that it had before. In TcpTransport, a message of two packets
comes over both channels, so that their loops race to commit and to finalize, and the third packet meets one of the others in a
write queue, so that its coroutine finds the handle taken. In RoceChannel four messages share two credits, so that two wait, are woken by two completions, and the queues of depth four are filled
to what the credits allow. In Chunking, lengths run over several blocks, with and without a remainder, and the
width of an offset is a parameter: 4 bits and 20 bytes stand for 32 bits and five billion. In BatchPrefetcher,
three batches overfill the queue of two, and three passes restart after each way of ending one. In GraphExecutor, sizes of one and two and three profiles of memory make the packer reuse gaps that fit, are too small, or are
left over, and passes in both modes follow each other in any order, with the first plan built before or after.

The number of slabs ever born, of passes and of epochs are bounds of the models, not of the code.
Deadlock is not checked where the program ends or the messages do (Pipeline, Mailbox, TcpTransport, RoceChannel, Chunking, BatchPrefetcher, IoContextPool).

## Fairness

* Pipeline, Deployment: weak fairness of the coordinator, of each worker's thread, of delivery, and of accepting: threads are scheduled and the
  network loses nothing while channels are up. The wait for the configurations runs out of time in the end, as the code's does; a timeout of another join is never forced,
  and no worker has to start.
* Mailbox: weak fairness of each sender, of the loop (without spurious wakeups) and of the second half of `stop`, not of calling it.
  Mutex acquisition needs no more: in the code whoever holds the mutex gives it up.
* TcpTransport: weak fairness of each `start_send`, of each writer and of each receive loop: the threads of the pool run what is posted to
  them, and a socket that is up passes on what is written. Nothing forces a connection to break or a thread to connect.
* RoceChannel: weak fairness of the sending threads, of both poll loops, of registering and of each thing the hardware does with what was posted. Nothing forces a connection to be lost.
* BatchPrefetcher: weak fairness of the producer and of the training thread inside of a call; whether it makes
  another call is its choice, and wakeups without a notification are never counted on. `get_batch` returns or throws.

## Proofs

TLAPS checks, for every number of workers, microbatches, senders, messages, types, packets, channels, credits, slabs, units, addresses, batches, passes, bytes, allocations and layers:

| Module | Theorem | States |
|---|---|---|
| `PipelineProofs` | `ModeAgreementHolds`, `ResidualsReadyHolds`, `QuietBetweenBatchesHolds`, `FailsOnlyOnTimeoutHolds`, `BatchesImplemented` | `ModeAgreement`, `ResidualsReady`, `QuietBetweenBatches`, `FailsOnlyOnTimeout`, and the refinement of `TrainingBatches`, of training that begins by itself |
| | `DeployedReadyHolds`, `SplitMessagesMeetHolds` | `DeployedReady`; `SplitMessagesMeet` where all endpoints are named alike |
| | `DeployedTraining`, `DeployedBatches`, `DeployedFailsOnlyOnTimeout` | the same of training that follows a deployment; the last one of a model that can be deployed |
| `MailboxProofs` | `TypeCorrect`, `CounterCorrect`, `DequeueCorrect`, `NoWakeupLost` | `TypeOK`, `CountAccounts`, `DequeueRight`, `NoLostWakeup` |
| `TcpTransportProofs` | `TypeCorrect`, `OneWriterHolds`, `NoPacketStrandedHolds`, `CommitFindsMessageHolds`, `Implements` | `TypeOK`, `OneWriter`, `NoPacketStranded`, `CommitFindsMessage`, and the refinement of `MessageDelivery` |
| `RoceChannelProofs` | `TypeCorrect`, `CreditsReturn`, `NobodyStranded`, `QueuesAreDeepEnough`, `Implements` | `TypeOK`, `CreditsComeBack`, `NoSenderStranded`, `QueuesSuffice`, and the refinement of `MessageDelivery` |
| `ChunkingProofs` | `Reassembled` | `EveryByteOnce` where an offset can address every byte |
| `DelAllocatorProofs` | `TypeCorrect`, `Disjoint`, `Held`, `ListsAgree`, `IdleWhole` | `TypeOK`, `NoOverlap`, `LiveMemoryHeld`, `FreeListsAgree`, `IdleSlabIsWhole` |
| | `Implements` | both allocators refine `Heap` |
| `BatchPrefetcherProofs` | `TypeCorrect`, `DatasetIsAlone`, `OrderIsKept`, `Implements` | `TypeOK`, `DatasetAlone`, `OrderKept`, and the refinement of `DatasetReading` |
| `GraphExecutorProofs` | `PackedApart`, `OffsetFound` | `NoOverlap`; the fallback to offset 0, which would overlap, is never taken |
| | `SolverKeepsTheGraph`, `PlansFitTheGraph` | `MacrosOrdered` of every use that the executor makes of the solver; the orders of every plan have each layer once and after those whose results it reads |
| | `NothingMissing`, `NothingLeft`, `GradientsComplete` | `NeverMissing`, `AllReleased`, `CompleteGradients` in graphs that are `WellBuilt` |
| | `PlansPackApart`, `PlacesKeptApart`, `NothingOverwritten` | `NoOverlap` of every plan; the places of what is needed in the same step of a pass share nothing; `Intact`: both in graphs that are `WellBuilt` |
| | `SequentialFinds`, `ResidualFinds`, `PlainResidualFinds`, `PlainResidualSpoils` | blocks of layers that find what they saved find what they saved; a residual block without activation only under a condition, which is needed |

The assumptions are those of the modules: `PipelineAssumption` and `DeploymentAssumption` (at least one worker, microbatch, epoch, ratio; the local worker is one of them), `MailboxAssumption` (finitely many senders, the mutex's markers distinct),
`TransportAssumption` (every message has a packet, a peer has a channel), `RoceAssumption` (a credit at least, and queues at least twice as deep as there are credits), `ChunkingAssumption`,
`DelAllocatorAssumption`, `PoolAssumption` and `PrefetcherAssumption` (natural bounds), `GraphsAssumption` (layers come after those whose results they read, as `compile` sorts them; a graph has finitely many nodes, and no tensor is empty). `MemoryPacker` and `LayerOps` have none.
The theorems about reference counts and about places have the premise `WellBuilt`, which is what calling layers with nodes makes (each call makes a new node for its result, functional_layer.hpp:137): a node is an input or written by one layer, once;
outputs are written; each type of layer finds backward what it saved forward, and saves no input that it has not got. `MCGraphExecutor` assumes it too, so that TLC evaluates it of the graphs and layers of the run. It is needed: `compile` checks none of it, and an input that is an output as well, say, is never counted down by
`forward` and stays in `data_`.
Three other theorems have a premise. `Reassembled` has `Fits`, that no message is longer than an offset can tell; without it the statement is false (the run `chunking_wide`). `SplitMessagesMeetHolds` has that either all hosts are named by
address or all by name; TLC refutes it otherwise. `DeployedFailsOnlyOnTimeout` has `Deployable`, whose failure is an exception of the partitioner before anything is sent.

*Pipeline.* Five of the messages' types matter (`Live`: sent, and not handled), and whether one is under way or queued does not, so the invariant speaks of both together: a delivery changes nothing that it says.
`JobsInOrder` and `Phases` say that while a batch is open each of its begun microbatches has at most one job, of the open batch, and what kind of job it may be in which phase; `Progress` then
says exactly which stages have run which microbatch, by where the job is (`PassedForward`, `PassedBackward`). This makes the rest inductive: a stage's residuals are there between the two passes of the
job (`Residuals`), a batch that has counted its completions has no jobs left because each microbatch can be counted once, and the abstract steps can be read off `Progress`. `Modes` carries the change of mode:
an order and its acknowledgement are never both there for one worker, and are gone when `join` has seen one acknowledgement of each. In the asynchronous batch, counting needs the cardinality of the microbatches that are still
on their way forward (`Left`).
For deployment, `Configuring` says which connections a worker has at each point of `set_config` and that whoever has confirmed is done (`Settled`), and `Dialling` that the coordinator does not go on without a worker that it could not reach. That
`CONFIG_TRANSFER` cannot meet a job of training, although a worker takes it at any time, is part of it: all confirmations have been counted before the first batch.
`Keyed` says under which key either end keeps a channel.

*Mailbox.* None of the properties is inductive alone. The counter may be behind the queue by the senders
between inserting and counting, so that a dequeue might find nothing; that it does not needs `CountAccounts` with the cardinality of
those senders, who holds the mutex at each place of the loop, and what the scan has
already passed over: the types below `at` had no message when the dequeue began that is still queued. The lost-wakeup argument is that between the predicate and the block
the loop holds the mutex, which a sender needs in order to notify: a sender that counted a message before is still
on its way to the lock.

*TcpTransport.* `OneWriter` follows from `Locked` and `Alone`: `is_writing_` is set exactly when one coroutine of the channel is
between acquire and release. `NoPacketStranded` is not inductive alone: that the coroutine which turns away leaves one
behind that looks again needs the single thread (the other one can then only be waiting in its write), and that a packet just enqueued has its coroutine yet to
be spawned needs `Dealing`, which ties what `start_send` holds to the packets without a coroutine. Broken and polled
channels are outside of the claim but inside of the induction, and `OneWriter` holds for them too.
For the receiving side the invariant follows each packet through the places where it can be: not dealt out yet (`Undealt`), in the queue or on the wire of the one channel it was dealt to (`OnTheWay`), in the hands of that channel's
`receive_loop` (`InHand`), in the buffer (`ReadDealt`). `Counting` says that the message's counter is the number of packets that were read and committed, so that it reaches the total once, with nobody
else holding a packet of the message (`Finishing`): whoever finalizes takes the message out last, which is `CommitFindsMessage`, and delivers it whole, which is the refinement.

*RoceChannel.* A message's next step is a token that is in one place: a posted send, a completion, a credit in the sender's hands. `OneToken` says so message by message and `TokensFit` counts them
against the credits in flight. The depths of the queues are another matter, because an acknowledged send leaves a completion behind that nobody has read. `AnnouncedOnce` bounds the prepares of which the sender has not seen the
completion, using that the network keeps their order (`WriteBehind`): the completion of a write, which gives the credit back, comes after that of its prepare. On the receiver's side, `Crowds` says of every
cut through its completion queue that what lies on both sides of the cut was in flight together, so that it is bounded by the credits; with `BuffersKept` no message finds the queue of buffers empty. `Woken`
is the argument of the mailbox again: who waits for a credit while one is free has somebody woken before it.
How a connection ends is part of the induction (`EndsInOrder`).

*Chunking.* Between `i * block` and `(i + 1) * block` there is exactly one packet for each byte, and it is written when that packet is received (`Written`); the counter and the packets still on their way add up to the total. The arithmetic of
remainders and of the product in the offset's width are lemmas of their own.

*DelAllocator.* The invariant is `Tiled`: on each slab in the list, the units
outside of the middle are covered by the live and the free blocks, none overlap, none lies in the middle or past the end,
and two free blocks never touch. Covering is what makes the rest inductive: an idle slab has no live blocks, so
any free block's neighbouring unit would have to belong to another free block, which may not touch it, or to the middle, which a reclaim would have
rolled back into; hence an idle slab has no free block at all, and erasing it without cleaning `free_by_size_` is safe.
`Counted` ties `active` to the live blocks of a slab. The lemmas follow the operations: `BumpTiled`
for both ends of the middle, `SplitTiled` for taking the start of a free block, `Merged` and `ReclaimTiled` for coalescing,
`DropTiled` and `AddTiled` for slabs; then one lemma per action.
The refinement of `Heap` adds `Sums`: the two counters are the sums over the slabs and over the live blocks. A sum over a finite set is a fold, of which nothing could be proved by
the library's induction theorems; it is unfolded once, at an element, and the induction is over the subsets for which the claim holds, which the well-founded order of their sizes gives without a predicate as a parameter
(`SubsetInduction`). For the pool, `PoolInv` says that each block, free or in use, is backed by memory of its address and no address is both.

*BatchPrefetcher.* `Room`: between the test of the depth and the push only the producer could fill the queue.
`Joined` and `Fresh`: where the training thread is in `stop` decides what can be left of the producer and of the pass.
`Ordered` is `OrderKept` batch by batch, which each step can be checked against; `OrderedIsOrder` puts the sequences
together again. `Ending` says that a stored exception ends the producer, so that what it pushes always follows what is there.
The refinement needs to know when `finished_` is set: `Whereabouts` and `Counted` say that it is only with the last batch of the pass read, or after an exception.

*MemoryPacker.* An allocation gets a candidate that is free, if there is one; there is, because the highest end of all that has been placed is
a candidate and overlaps with nothing. That there is a highest one (`Topped`) is the strengthening: it holds of finitely many numbers, but is carried along by the induction instead of
a theorem about finite sets.

*MacroSolver.* Macros are a quotient of the graph, and have to stay one when two of them are merged. `QInv` says so: every layer is in exactly one macro, once, and after those of the same macro that it depends on (`Within`, `Once`, `Partition`); a macro depends on another
exactly if a layer in it depends on a layer in the other (`DepsOfLayers`), except for the virtual join, which stands for no layer; and in every set of macros there is one that depends on no other of the set (`Uncircular`).
The last is what a merge could break. It does not, because `Mergeable` macros are merged only: one is all that the other depends on, or the other is all that depends on it, so that there is no second way from one to the other. In the end `Uncircular` gives a macro that can go
first, so the solver never gives up with macros left, and the order that it appends to has all that its layers depend on (`Ordered`), which gives `OrdersFit` for the plan.

*GraphExecutor.* The invariant of the passes, `PassInv`, says what each reference count is: that of a tensor is the number of reads by layers that have not begun (`Unread`), that of a gradient the number of layers that will
take it, plus the caller's (`Takers`), and the parts of a gradient are the reads by layers that are done (`Parts`). What is not there has no references left, `forward` and `backward` being different only in which way the layers run. With the order of the plan, a layer's producers have run and
its own reads are still unread, so its inputs are there (`NothingMissing`); with all layers begun there is nothing left to read (`NothingLeft`); and a gradient is taken by the only layer that writes the node, which comes after all readers in the order backward (`GradientsComplete`).
`ResidualsKept` says which residuals are there, and that they are those that forward saved in this mode.

`Intact` is about memory, and nothing in the passes looks after it: the allocator hands out the places of the plan without asking what is there. So the proof goes through the plan. `Needed` says, from the graph and the two orders alone, in which steps
of the passes somebody may read a tensor: a result from the layer that writes it to the last that reads or saved it, a gradient from the first layer backward that adds to it, which keeps it (`Keeps`), to the one that takes it, and to the end what the caller gets. Three facts meet there. First, the trace covers it
(`Traced`): a record for each of the six kinds of buffer begins no later and ends no earlier than the tensor is needed (`Suits`). With `NoOverlap` this gives `KeptApart` for the plan: what is needed in the same step has disjoint places (`TraceInv`, `PlacesKeptApart`).
Second, what is alive in a pass is needed now (`NeededNow`), where now is the step that the pass has come to. This takes the invariant `UseInv`: a tensor of a node in `data_` has readers that have not begun, or is one that nobody reads; a gradient in
`grads_` is in the buffer of the layer that the trace has foreseen, `KeptFor`, since the first to run backward is the first to add; what is in use, saved or with the caller is of a layer that has run. Third, a layer that writes its buffers writes what is needed now, so apart from all that is alive (`IntactWrite`); and
storing, releasing and returning only make fewer tensors alive.

*LayerOps.* A block's keys are those of its parts, prefixed: the lemma `BlockGood` says that parts with prefixes of their own do not
get into each other's way. What is not proved is done by evaluation: that each single layer finds what it saved (`EveryLayerFinds`).

Only model-checked: all liveness properties (they rest on fairness, hence on `ENABLED`, which this prover cannot reason about); and the findings, which are violations. The statements about numerical code and
the partitioner are evaluated for the sizes they name: most are about functions defined by recursion over data.

## Findings

* `update_parameters` (coordinator.hpp:147) waits with `join` for one PARAMETERS_UPDATED per worker, but, unlike `set_training`,
  never dequeues them, and `join` counts what is in the queue. From the second
  update on it returns at once, before any worker has applied the update, and the queue grows by one message per worker and update.
  `ModeAgreement`, `ResidualsReady` and the rest hold all the same, because
  a worker's UPDATE_PARAMETERS is served after the jobs delivered before it, and the mode change at the end of an epoch waits for fresh acknowledgements.
  Whether jobs of the next batch are run before the update is then up to the network.
* `BatchPrefetcher::next` (batch_prefetcher.hpp:77) rethrows an exception of `get_batch` before it hands out the batches
  read before it, against the header's "It does not change dataset semantics" (:5).
* `PacketHeader::packet_offset` is `uint32_t` (packet.hpp:25), while the slicer stores a 64-bit product in it (chunking.hpp:60) and the lengths are 64 bits wide: in a
  message of more than 2^32 bytes the later packets are taken from the beginning of the message and written over it, and `commit_packet` still "completes the
  message and the message is ready to be processed" (chunking.hpp:35).
* `IoContextPool::get` (io_context_pool.hpp:34) advances its index without a lock although the listening coroutine, senders and connecting threads
  call it at the same time. When one increments it to the size of the list and the other once more before the first compares (:36), both find the
  index unequal to the size and neither resets it. Both have returned, and the index stays one past the end, until a further lost update happens to bring it back: the next call of the
  "Round-robin assignment" (:32) reads past the list though nothing disturbs it. A call that merely reads the index between another's increment and its reset is
  given one past the end too, but the reset repairs that; `IndexInList` leaves it out and looks at the index when no call is under way.

## Remarks

What follows was met while modelling. Some of it is stated by an assumption of the module named, the rest was read.

* Distributed training and schedulers (`Optimizers`): the coordinator sends the configurations of optimizer and scheduler after its own scheduler has set the first warm-up rate
  (coordinator.hpp:615), and a worker builds a scheduler over that rate (worker.hpp:122): with sample_configs/distributed_v1.json the rate peaks at about half of what
  is configured. The default scheduler type `no_op` (train_config.cpp:34) is unknown to the factory. `ReduceLROnPlateau::step(metric)` is called by no program, OneCycleLR rises again past its last step,
  CosineAnnealing never takes the value `eta_min`, `reset()` of the warm-up kinds sets `base_lr`.
* Optimizers (`Optimizers`): SGD's clone and its factory drop `weight_decay`; without momentum it names `velocities_[i]` of an empty vector (optimizers.cpp:96); attaching twice doubles the parameters; the
  vector path of CUDA's Adam tests the alignment of `params` only.
* Training loop (`TrainingLoop`): gradients left over at the end of an epoch go into the next one's first update (train.cpp:374), fewer batches than accumulation steps never make an update, an epoch with
  a limit reads one batch too many (:334), the best state is saved only if accuracy is logged.
* Losses and metrics: the kernels of logsoftmax read the maximum from shared memory that the sum is already written to (loss_ops.cu:109); the gradient of a mean absolute error is -1 for
  a perfect prediction; losses of single elements are kept in the element type; classes missing from a batch count as 0 in macro averages; CUDA's top-k holds 32.
* Tensors (`TensorOps`): `+ - * /` overwrite their left operand, whose memory the copy shares (arithmetic.hpp:44); a tensor without dimensions comes back from a file with the shape {0}; `span` is right only for
  boxes that are contiguous; operations check devices but not sizes and types, some only the type of the device, so that two GPUs pass.
* Images, convolutions, pools: CUDA's col2im starts too few threads in some geometries (ops.cu:131); im2col's span wraps for kernels wider than the padded image; `maxpool2d_infer` on CUDA writes a mask that is null (pool.cu:305, 414);
  the legacy layers derive their input's size from the output, so that gradients are cut and a mask may point behind the end where the stride does not divide (legacy_conv2d.cpp:111, legacy_maxpool2d.cpp:86);
  on the CPU the legacy convolution adds its bias in the other layout.
* Activations (`Activations`): `Linear::apply` copies nothing, so that an activation layer named "linear" gives out a tensor as it was allocated; "none" is a name the configuration knows and the
  layer refuses; gelu's gradient takes size and device from its input where the others take them from the gradient; relu's vector loop tests no alignment; the softmax kernels have no caller.
* Normalisation (`Norms`): CUDA's layer normalisation starts `batch_size` blocks for `batch_size * seq_len` rows (norm.cu:661-730), so that of a tensor with three dimensions only the first rows are written; its backward adds the gradients of
  gamma and beta to a workspace that nobody has cleared (norm.cu:694); two block reductions in a row share their shared memory without a barrier between them (norm.cu:44); the workspace of the
  sums is sized by the type of the parameters and used with the compute type (norm.cu:525, 600), where the two arrays overlap if that is wider. The legacy batch norm makes input gradients from gradients of gamma and beta that were
  accumulated before (cpu/norm.cpp:358) and divides by one less than the count.
* Matrix products (`Gemm`): `all_aligned` of doubles tests the base pointers only (dgemm.cpp:465); `legacy_gemm` ignores the flags for types other than float and double; the path of dgemm without AVX2 names a
  constant that is not declared, and applies beta twice.
* Kernels: CUDA's reciprocal casts every type to float (kernels.cu:532); the fast logarithm (skernels.cpp:1339) is low by ln 2; indices are `int` where sizes are `size_t`; `fill_normal`'s lanes do not guard against the
  logarithm of 0; a xorshift state of 0 stays 0.
* Graphs (`GraphState`): a file of version 1 is accepted (graph.cpp:520-525) and never loads, for it marks no outputs and compiling needs one; versions 2 and 4 are rejected although the reader has branches for them. `set_uid` leaves the set of
  names in use alone, so a graph with two nodes of one name is saved but does not load. A graph is compiled once: when the output was forgotten, compiling throws after the layers are initialised, and
  throws for good. An edge that reads a node with two writers is taken for ready after the first of them. Seeds of dropout are not in the file; the comment at graph.cpp:423, that types are not saved, is out of date.
* Datasets (`Datasets`): a sample that MNIST or TinyImageNet cannot read leaves its place in the batch as it was in memory (mnist_dataset.hpp:178, tiny_imagenet_dataset.hpp:88), where ImageNet100 writes zeros and the label -1. A load that
  fails leaves the order of the one before (cifar10_dataset.hpp:127), which may lead beyond the samples. ImageNet100's shuffle depends on all shuffles before it until the seed is set again. OpenWebText leaves out the last
  batch when it is not full, never reads its last token, and shuffle cannot be undone.
* Augmentation (`Augmentations`): rotation leaves the last row and column black even for an angle of zero, and a source just outside of the picture becomes an unsigned number: what it is then is undefined in C++, and on x86-64 the cell before the picture is read (rotation.hpp:82-88).
  A cutout larger than the picture draws from a range that has wrapped (cutout.hpp:47); random crop makes its square from the width only (random_crop.hpp:71) and needs pictures that are not higher than wide. ImageNet100's validation pictures are resized and cropped when they are
  loaded and again by the strategy. `set_disable_augmentation` affects ImageNet100's random crop, not the strategy.
* Allocators: `DeviceAllocator::allocate` adds to its counter without the mutex its deleter takes (device_allocator.hpp:43), although two allocators of one device may be at it at once; what the device
  returns is not tested for null.
* A failed first configuration finds the worker without the coordinator's endpoint, so that its ERROR_REPORT and CONFIG_RECEIVED are both dropped and the coordinator's wait runs out.

## Not modelled

* In Pipeline and Deployment: the requests of the same pattern as a mode change (profiling, learning rate, saving); the training
  loop by steps; a lost message (the TCP transport loses one only with its channel, or strands one while a thread connects: see `TcpTransport`). Connects to a process that listens succeed; training begins when
  connections under way have been accepted; a second deployment by the same coordinator. DATA mode is used by no program.
* In Mailbox: `pop_all`, `message_count` of one type and the output queue: only the coordinator calls the first two, from one thread, and never looks at the total counter.
* In TcpTransport: connecting and accepting (in `Deployment`, by their keys), the loss of the peer's context with its last channel and a later reconnection,
  disconnecting and stopping; `NWaySlicer`, which nothing uses. Packets are told apart by their number, their bytes by `Chunking`.
* In RoceChannel: setting up devices and queue pairs; `disconnect`, which nothing calls; the buffers read after the lock is given up while `close` may run (roce_channel.hpp:109, 396); ids that wrap. A peer that dies after it has
  acknowledged everything is never noticed: there is nothing to fail.
* In the allocators: `merge_slabs`, which is disabled in the code; the hooks and peaks; the arithmetic of the alignment; requests of zero bytes, which
  return a null `dptr` and change nothing.
* In GraphExecutor: the profiling pass itself with offloading to the host and the guard of the parameters around it; graph inputs that are outputs too; layers with several outputs, of which
  there are none. In MacroSolver the naive and partial options.
* Numerical code: rounding, and with it whether two orders of a sum give the same float; transcendental functions (terms or tables); attention, dense and embedding engines; the cuDNN engine but for its matrix products, which is calls
  of a library; loops of the other element types, which are the plain loop.
* In GraphState: the configuration of layers and the bytes of a file. In Datasets: decoding of pictures, the WiFi and regression datasets. In Augmentations: gaussian noise, and how the augmented numbers are rounded.
* Serialization and configuration (parsing and layout), the tokenizer (a greedy search in a table), devices and streams (wrappers of the
  CUDA runtime), logging and profiling (output), examples, benchmarks, simulation and Python scripts (callers, or other programs).

## Plan

1. Pipeline: the training loop by steps, and the jobs that may overtake an update.
2. TcpTransport: the loss of a peer's context and reconnection, disconnect and stop.
3. GraphExecutor: the profiling pass, whose offloading moves tensors while others name them.
4. Dense, embedding and attention engines in the style of `Convolutions` and `Norms`.
