---------------------------- MODULE GraphExecutor ----------------------------
(***************************************************************************)
(* GraphExecutor (nn/graph_executor.cpp) runs a graph of layers forward,   *)
(* and backward in training, again and again.  Before the first pass in a  *)
(* mode it builds a plan: an order of the layers (MacroSolver), a trace of *)
(* when each buffer will be alive in that order, and a place for each      *)
(* buffer in one block of memory (MemoryPacker).  Then the tensors of all  *)
(* passes live at those places (PackedAllocator), whatever their reference *)
(* counts say: nothing but the plan keeps them apart.                      *)
(*                                                                         *)
(* A tensor is named by what it is made for.  mem says whose data each     *)
(* unit of the block holds.  The numbers that the layers compute are left  *)
(* out, and so is the profiling pass itself: it runs the same steps over   *)
(* the workspace allocator to see which buffers each layer asks for.       *)
(***************************************************************************)
EXTENDS MemoryPacker, MacroSolver, LayerOps

CONSTANTS
    Ops,      \* the layers: name -> what it does (LayerOps)
    Graphs,   \* [edges, inputs, outputs, size]; an edge has reads, writes, op
    Profiles  \* the memory an edge is measured to take and to keep

(* Graph::compile has sorted the layers and refused circles (GraphState).  *)
ASSUME GraphsAssumption ==
    /\ Profiles \subseteq Int \X Int
    /\ \A g \in Graphs :
          /\ g.edges \in Seq([reads : Seq(STRING), writes : Seq(STRING), op : DOMAIN Ops])
          /\ g.size \in [DOMAIN g.size -> Nat \ {0}] /\ IsFiniteSet(DOMAIN g.size)
          /\ \A d, e \in DOMAIN g.edges :
                 Range(g.edges[d].writes) \cap Range(g.edges[e].reads) # {} => d < e

(* What the executor takes for granted of its layers and of its graph, a   *)
(* premise of proofs. Calling layers with nodes makes such a graph, as the *)
(* node for the result is new (functional_layer.hpp, Apply in GraphState),  *)
(* when all that is read has been made so, or set as an input.             *)
WellBuilt ==
    /\ \A op \in DOMAIN Ops : BackwardFinds(Ops[op])
    /\ \A g \in Graphs :
          LET edges   == DOMAIN g.edges
              written == UNION {Range(g.edges[e].writes) : e \in edges}
          IN  /\ g.inputs \cup written = DOMAIN g.size
              /\ g.inputs \cap written = {} /\ g.outputs \subseteq written
              /\ \A e \in edges :
                     /\ g.edges[e].writes # <<>>
                     /\ Range(g.edges[e].reads) \subseteq DOMAIN g.size
                     /\ \A key \in DOMAIN Ops[g.edges[e].op].saves :
                            LET value == Ops[g.edges[e].op].saves[key]
                            IN  value[1] = "in" => value[2] \in DOMAIN g.edges[e].reads
              /\ \A d, e \in edges :
                     \A k \in DOMAIN g.edges[d].writes, l \in DOMAIN g.edges[e].writes :
                         g.edges[d].writes[k] = g.edges[e].writes[l] => d = e /\ k = l

VARIABLES
    graph,
    training,   \* the mode of the pass
    phase,      \* "idle", building a plan, or where the pass is
    plans,      \* built_plans_: for each mode, the orders and the places
    building,   \* the orders of the plan that is being built
    position,   \* in the order of the pass
    data,       \* data_: node -> tensor and references
    grads,      \* grads_: node -> tensor, references and contributions so far
    residuals,  \* residuals_: edge -> key -> value
    using,      \* the tensors that the running layer works with
    held,       \* the tensors that the caller of forward or backward holds
    mem         \* the block of the plan: unit -> the tensor written last

entries == <<data, grads, residuals, using, held, mem>>
planVars == <<plans, building>>
vars == <<packerVars, solverVars, graph, training, phase, planVars, position, entries>>

Empty == [x \in {} |-> x]
Layers == DOMAIN graph.edges
Reads(e) == graph.edges[e].reads    \* edge->producers()
Writes(e) == graph.edges[e].writes  \* edge->consumers()
Occurrences(n, s) == Cardinality({k \in DOMAIN s : s[k] = n})
Slots == UNION {{e} \X DOMAIN Reads(e) : e \in Layers}
ReadersOf(n) == {slot \in Slots : Reads(slot[1])[slot[2]] = n}
Writers(n) == {e \in Layers : n \in Range(Writes(e))}
Nodes == DOMAIN graph.size

(* Mutant: counts the layers that read a node, not how often they do.      *)
DataRefsOfLayers(n) ==
    Cardinality({slot[1] : slot \in ReadersOf(n)}) + (IF n \in graph.outputs THEN 1 ELSE 0)

(* The counts that the constructor makes.                                  *)
DataRefs(n) == Cardinality(ReadersOf(n)) + (IF n \in graph.outputs THEN 1 ELSE 0)

GradRefs(n) == Cardinality(Writers(n)) + (IF n \in graph.inputs THEN 1 ELSE 0)

(* The tensors.                                                            *)
Data(n) == IF n \in graph.inputs THEN <<"input", n>> ELSE <<"data", n>>
Mask(e) == <<"mask", e>>          \* all that a layer keeps of its own
Grad(e, k) == <<"grad", e, k>>
OutputGrad(n) == <<"outgrad", n>>
External(t) == t[1] \in {"input", "outgrad"}

Does(e) == Ops[graph.edges[e].op]

(* The values that forward saves, and the tensors among them.              *)
Residual(e) == [key \in SavedKeys(Does(e), training) |-> Does(e).saves[key]]
TensorsAt(e, saved) ==
    LET values == {saved[key] : key \in DOMAIN saved}
    IN  {Data(Reads(e)[v[2]]) : v \in {x \in values : x[1] = "in"}}
          \cup (IF values \cap {Out, Spoiled} # {} THEN {Data(Writes(e)[1])} ELSE {})
          \cup (IF Own \in values THEN {Mask(e)} ELSE {})
Saved(e) == TensorsAt(e, Residual(e))
AllSaved == UNION {TensorsAt(e, residuals[e]) : e \in DOMAIN residuals}

Scratch(e, pass, t) == IF pass \in Does(e).scratch THEN {t} ELSE {}
ForwardBuffers(e) ==
    {<<"data", n>> : n \in Range(Writes(e))} \cup (Saved(e) \cap {Mask(e)})
      \cup Scratch(e, "forward", <<"work", e>>)
BackwardBuffers(e) ==
    {Grad(e, k) : k \in DOMAIN Reads(e)} \cup Scratch(e, "backward", <<"backwork", e>>)

----------------------------------------------------------------------------
(* The trace of the buffers (profile_edge_backward, pack_memory)           *)

StepOf(e, orderOf) == CHOOSE i \in DOMAIN orderOf : orderOf[i] = e
ForwardStep(e) == StepOf(e, building.forward)
BackwardStep(e) == Len(building.forward) + StepOf(e, building.backward)
LastStep == Len(building.forward) + Len(building.backward) + 1

(* From the step in which it is made to the last of those that use it; or  *)
(* to the end, if nobody uses it or the caller is given it.                *)
Lifetime(t, size, start, uses, kept) ==
    [iid |-> t, size |-> size, start |-> start,
     end |-> IF kept \/ uses = {} THEN LastStep
             ELSE CHOOSE s \in uses : \A u \in uses : u <= s]

(* Read by the layers forward, and backward by those that saved it.        *)
DataUses(n) ==
    {ForwardStep(slot[1]) : slot \in ReadersOf(n)}
      \cup {BackwardStep(e) : e \in {x \in Range(building.backward) : Data(n) \in Saved(x)}}

(* Mutant: the roles of the first profiling, for the reversed order of the *)
(* graph, are used with the order that the solver has found.               *)
KeeperInGraphOrder(e, k) ==
    LET n == Reads(e)[k]
    IN  /\ n \notin graph.outputs
        /\ \A slot \in ReadersOf(n) : slot[1] < e \/ (slot[1] = e /\ slot[2] >= k)

(* The buffer that the gradient is kept in: that of the first layer in the *)
(* order that adds to it, unless the caller has given one.                 *)
Keeper(e, k) ==
    LET n == Reads(e)[k]
    IN  /\ n \notin graph.outputs
        /\ \A slot \in ReadersOf(n) :
               \/ BackwardStep(slot[1]) > BackwardStep(e)
               \/ slot[1] = e /\ slot[2] >= k

GradUses(n) == {BackwardStep(e) : e \in Writers(n)}

(* The records of the trace.  What is not kept lives for the step of its   *)
(* layer; the gradients of the outputs are there when the backward begins. *)
Born(n) == IF n \in graph.inputs THEN 0 ELSE ForwardStep(CHOOSE e \in Writers(n) : TRUE)

Trace ==
    LET size == graph.size
        backward == Range(building.backward)
        Within(t, units, step) == Lifetime(t, units, step, {step}, FALSE)
        GradLifetime(e, k) ==
            LET n == Reads(e)[k]
            IN  IF Keeper(e, k)
                THEN Lifetime(Grad(e, k), size[n], BackwardStep(e), GradUses(n), n \in graph.inputs)
                ELSE Within(Grad(e, k), size[n], BackwardStep(e))
    IN  {Lifetime(Data(n), size[n], Born(n), DataUses(n), n \in graph.outputs) : n \in Nodes}
        \cup {Within(<<"work", e>>, 1, ForwardStep(e)) :
                 e \in {x \in Layers : "forward" \in Does(x).scratch}}
        \cup {Lifetime(Mask(e), 1, ForwardStep(e),
                       IF e \in backward THEN {BackwardStep(e)} ELSE {}, FALSE) :
                 e \in {x \in Layers : Mask(x) \in Saved(x)}}
        \cup {Lifetime(OutputGrad(n), size[n], Len(building.forward),
                       IF backward = {} THEN {} ELSE GradUses(n), n \in graph.inputs) :
                 n \in graph.outputs}
        \cup {Within(<<"backwork", e>>, 1, BackwardStep(e)) :
                 e \in {x \in backward : "backward" \in Does(x).scratch}}
        \cup {GradLifetime(slot[1], slot[2]) : slot \in {x \in Slots : x[1] \in backward}}

----------------------------------------------------------------------------
(* Building a plan (build_plans)                                           *)

Init ==
    /\ graph \in Graphs
    /\ training = FALSE /\ phase = "idle" /\ position = 0
    /\ plans = Empty /\ building = [forward |-> <<>>, backward |-> <<>>]
    /\ SolverIdle /\ todo = {} /\ placed = {}
    /\ data = Empty /\ grads = Empty /\ residuals = Empty
    /\ using = {} /\ held = {} /\ mem = Empty

Oriented(reads, writes) ==
    [e \in Layers |-> [reads |-> graph.edges[e][reads], writes |-> graph.edges[e][writes]]]

(* The solver runs with what the profiling measured.  Nodes that a layer   *)
(* writes and saves are cached.                                            *)
SolveForward ==
    \E profile \in [Layers -> Profiles] :
        StartSolver(Oriented("reads", "writes"),
                    {n \in Nodes : \E e \in Writers(n) :
                        training' /\ Data(n) \in TensorsAt(e, Does(e).saves)}, profile)

SolveBackward ==
    \E profile \in [Layers -> Profiles] : StartSolver(Oriented("writes", "reads"), {}, profile)

(* In training the gradient of every node is needed: the profiling fails   *)
(* if a layer writes what nobody reads.                                    *)
Trainable == \A n \in Nodes : n \in graph.outputs \/ ReadersOf(n) # {}

(* forward is called in a mode without a plan.                             *)
StartPlan ==
    /\ phase = "idle" /\ phase' = "forward order"
    /\ training' \in BOOLEAN \ DOMAIN plans
    /\ training' => Trainable
    /\ SolveForward
    /\ UNCHANGED <<packerVars, graph, planVars, position, entries>>

Solve ==
    /\ phase \in {"forward order", "backward order"}
    /\ SolverStep
    /\ UNCHANGED <<packerVars, graph, training, phase, planVars, position, entries>>

ForwardOrderFound ==
    /\ phase = "forward order" /\ Solved
    /\ building' = [building EXCEPT !.forward = order]
    /\ IF training THEN phase' = "backward order" /\ SolveBackward
                   ELSE phase' = "tracing" /\ SolverDone
    /\ UNCHANGED <<packerVars, graph, training, plans, position, entries>>

BackwardOrderFound ==
    /\ phase = "backward order" /\ Solved
    /\ building' = [building EXCEPT !.backward = order]
    /\ phase' = "tracing" /\ SolverDone
    /\ UNCHANGED <<packerVars, graph, training, plans, position, entries>>

TraceBuffers ==
    /\ phase = "tracing" /\ phase' = "packing"
    /\ todo' = Trace
    /\ UNCHANGED <<placed, solverVars, graph, training, planVars, position, entries>>

Pack ==
    /\ phase = "packing"
    /\ PlaceNext
    /\ UNCHANGED <<solverVars, graph, training, phase, planVars, position, entries>>

(* The inputs are set, and the allocator of the plan given to the layers.  *)
BeginForward ==
    /\ data' = [n \in graph.inputs |-> [tensor |-> Data(n), refs |-> DataRefs(n)]]
    /\ phase' = "forward" /\ position' = 1
    /\ UNCHANGED <<graph, solverVars, grads, using, held>>

Places == [t \in {p.iid : p \in placed} |->
              LET p == CHOOSE p \in placed : p.iid = t IN p.offset..(p.offset + p.size - 1)]

PlanBuilt ==
    /\ phase = "packing" /\ todo = {}
    /\ plans' = [t \in DOMAIN plans \cup {training} |->
                    IF t # training THEN plans[t]
                    ELSE [forward |-> building.forward, backward |-> building.backward,
                          places |-> Places]]
    /\ building' = [forward |-> <<>>, backward |-> <<>>]
    /\ placed' = {}
    /\ residuals' = Empty /\ mem' = Empty
    /\ BeginForward
    /\ UNCHANGED <<todo, training>>

(* forward is called in a mode that has a plan.  What an evaluation has    *)
(* saved is still there, in the block of its own plan.                     *)
CallForward ==
    /\ phase = "idle"
    /\ training' \in DOMAIN plans
    /\ mem' = IF training' = training THEN mem ELSE Empty
    /\ BeginForward
    /\ UNCHANGED <<packerVars, planVars, residuals>>

----------------------------------------------------------------------------
(* Helpers of both passes                                                  *)

Plan == plans[training]
Pass == IF phase = "forward" THEN Plan.forward ELSE Plan.backward
Layer == Pass[position]

(* What the layer allocates is written, at the places of the plan.         *)
Write(buffers) ==
    mem' = [u \in DOMAIN mem \cup UNION {Plan.places[t] : t \in buffers} |->
               IF \E t \in buffers : u \in Plan.places[t]
               THEN CHOOSE t \in buffers : u \in Plan.places[t]
               ELSE mem[u]]

(* at(node) throws, or a repeated node has been released before.           *)
Missing(map, nodes) ==
    \E n \in Range(nodes) : \/ n \notin DOMAIN map
                            \/ map[n].refs \in 1..(Occurrences(n, nodes) - 1)

(* release_data, release_grad, called times[n] times for a node n: each    *)
(* gives back a reference, and the last one erases the entry, which never  *)
(* happens without references.                                             *)
Released(map, times) ==
    [n \in {x \in DOMAIN map : map[x].refs = 0 \/ map[x].refs > times[x]} |->
        IF map[n].refs = 0 THEN map[n] ELSE [map[n] EXCEPT !.refs = @ - times[n]]]

(* How often each node of the map is released, once for each occurrence.   *)
EachIn(nodes, map) == [n \in DOMAIN map |-> Occurrences(n, nodes)]

(* cleanup_released.                                                       *)
Cleaned(map) == [n \in {x \in DOMAIN map : map[x].refs # 0} |-> map[n]]

Tensors(map) == {map[n].tensor : n \in DOMAIN map}

Packed(S) == {t \in S : ~External(t)}

(* evict_unused: the block goes back if no tensor in it is alive.          *)
Evict(alive) == mem' = IF Packed(alive) = {} THEN Empty ELSE mem

Fail ==
    /\ phase' = "failed"
    /\ UNCHANGED <<packerVars, solverVars, graph, training, planVars, position, entries>>

passVars == <<packerVars, solverVars, graph, training, planVars>>

----------------------------------------------------------------------------
(* forward                                                                 *)

Running(pass) == phase = pass /\ using = {} /\ position <= Len(Pass)

(* forward_edge up to the end of layer->forward.                           *)
ForwardLayer ==
    /\ Running("forward")
    /\ IF Missing(data, Reads(Layer)) THEN Fail
       ELSE /\ using' = {data[n].tensor : n \in Range(Reads(Layer))} \cup ForwardBuffers(Layer)
            /\ Write(ForwardBuffers(Layer))
            /\ data' = Released(data, EachIn(Reads(Layer), data))
            /\ UNCHANGED <<passVars, phase, position, grads, residuals, held>>

(* The rest: residuals and results are kept, outputs given to the caller.  *)
StoreForward ==
    /\ phase = "forward" /\ using # {}
    /\ using' = {}
    /\ residuals' = [e \in DOMAIN residuals \cup {Layer} |->
                        IF e # Layer THEN residuals[e] ELSE Residual(e)]
    /\ LET written == Range(Writes(Layer))
           stored == [n \in DOMAIN data \cup written |->
                         IF n \in written THEN [tensor |-> Data(n), refs |-> DataRefs(n)]
                         ELSE data[n]]
           given  == [n \in DOMAIN stored |->
                         IF n \in graph.outputs THEN Occurrences(n, Writes(Layer)) ELSE 0]
       IN  /\ data' = Released(stored, given)
           /\ held' = held \cup {Data(n) : n \in written \cap graph.outputs}
    /\ position' = position + 1
    /\ UNCHANGED <<passVars, phase, grads, mem>>

(* Mutant: what nobody reads is not cleaned up.                            *)
ReturnOutputsOnly ==
    /\ phase = "forward" /\ using = {} /\ position > Len(Pass)
    /\ phase' = "computed"
    /\ Evict(held \cup Tensors(data) \cup AllSaved)
    /\ UNCHANGED <<passVars, position, data, grads, residuals, using, held>>

ReturnOutputs ==
    /\ phase = "forward" /\ using = {} /\ position > Len(Pass)
    /\ phase' = "computed"
    /\ data' = Cleaned(data)
    /\ Evict(held \cup AllSaved)
    /\ UNCHANGED <<passVars, position, grads, residuals, using, held>>

(* The caller may drop the outputs at once or keep them for a while.       *)
DropOutputs ==
    /\ phase = "computed" /\ held # {}
    /\ held' = {}
    /\ UNCHANGED <<passVars, phase, position, data, grads, residuals, using, mem>>

----------------------------------------------------------------------------
(* backward                                                                *)

BeginBackward ==
    /\ phase = "computed" /\ training
    /\ phase' = "backward" /\ position' = 1
    /\ grads' = [n \in graph.outputs |->
                    [tensor |-> OutputGrad(n), refs |-> GradRefs(n), parts |-> 1]]
    /\ UNCHANGED <<passVars, data, residuals, using, held, mem>>

(* backward_edge up to the end of layer->backward.                         *)
BackwardLayer ==
    /\ Running("backward")
    /\ IF \/ Missing(grads, Writes(Layer)) \/ Layer \notin DOMAIN residuals
          \/ \E key \in DOMAIN Does(Layer).reads : ~LooksUp(Does(Layer), residuals[Layer], key)
       THEN Fail
       ELSE /\ using' = {grads[n].tensor : n \in Range(Writes(Layer))}
                          \cup TensorsAt(Layer, residuals[Layer]) \cup BackwardBuffers(Layer)
            /\ Write(BackwardBuffers(Layer))
            /\ grads' = Released(grads, EachIn(Writes(Layer), grads))
            /\ UNCHANGED <<passVars, phase, position, data, residuals, held>>

(* Mutant: a contribution replaces those before it.                        *)
AccumulatedLast(e) ==
    [n \in DOMAIN grads \cup Range(Reads(e)) |->
        IF n \notin Range(Reads(e)) THEN grads[n]
        ELSE [tensor |-> Grad(e, CHOOSE k \in DOMAIN Reads(e) : Reads(e)[k] = n),
              refs |-> GradRefs(n), parts |-> 1]]

(* accumulate_grad: the first contribution is kept and the others added to *)
(* it, in its memory.                                                      *)
Accumulated(e) ==
    LET news == Range(Reads(e)) \ DOMAIN grads
        Earliest(n) == CHOOSE k \in DOMAIN Reads(e) :
                        Reads(e)[k] = n /\ \A j \in 1..(k - 1) : Reads(e)[j] # n
    IN  [n \in DOMAIN grads \cup news |->
            IF n \in news THEN [tensor |-> Grad(e, Earliest(n)), refs |-> GradRefs(n),
                               parts |-> Occurrences(n, Reads(e))]
            ELSE [grads[n] EXCEPT !.parts = @ + Occurrences(n, Reads(e))]]

StoreBackward ==
    /\ phase = "backward" /\ using # {}
    /\ using' = {}
    /\ grads' = Accumulated(Layer)
    /\ residuals' = [e \in DOMAIN residuals \ {Layer} |-> residuals[e]]
    /\ position' = position + 1
    /\ UNCHANGED <<passVars, phase, data, held, mem>>

ReturnGradients ==
    /\ phase = "backward" /\ using = {} /\ position > Len(Pass)
    /\ IF graph.inputs \subseteq DOMAIN grads
         THEN /\ phase' = "differentiated"
              /\ held' = held \cup {grads[n].tensor : n \in graph.inputs}
              /\ grads' = LET once == [n \in DOMAIN grads |-> IF n \in graph.inputs THEN 1 ELSE 0]
                          IN  Cleaned(Released(grads, once))
              /\ Evict(held' \cup Tensors(data) \cup Tensors(grads'))
              /\ UNCHANGED <<passVars, position, data, residuals, using>>
         ELSE Fail

(* The caller is done with the outputs and gradients of the pass.          *)
DropAll ==
    /\ phase = (IF training THEN "differentiated" ELSE "computed")
    /\ phase' = "idle" /\ held' = {} /\ position' = 0
    /\ UNCHANGED <<passVars, data, grads, residuals, using, mem>>

Build == StartPlan \/ Solve \/ ForwardOrderFound \/ BackwardOrderFound \/ TraceBuffers
           \/ Pack \/ PlanBuilt
Forward == CallForward \/ ForwardLayer \/ StoreForward \/ ReturnOutputs \/ DropOutputs
Backward == BeginBackward \/ BackwardLayer \/ StoreBackward \/ ReturnGradients

Next == Build \/ Forward \/ Backward \/ DropAll

Spec == Init /\ [][Next]_vars

----------------------------------------------------------------------------
(* Properties.                                                             *)

(* The plan keeps apart what is alive together: a tensor that somebody may *)
(* still read has all of its memory (no later layer was given a part of    *)
(* it), be it waiting for a reader, saved for the backward, a gradient     *)
(* that others have still to add to, in use, or with the caller.  This is  *)
(* what the comment at graph_executor.cpp:282-298 is about.                *)
AwaitedBackward ==
    IF ~training THEN {}
    ELSE IF phase = "forward" THEN {Plan.forward[i] : i \in 1..(position - 1)}
    ELSE IF phase \in {"computed", "backward"} THEN DOMAIN residuals ELSE {}

Alive == Tensors(data) \cup Tensors(grads) \cup using \cup held
           \cup UNION {TensorsAt(e, residuals[e]) : e \in AwaitedBackward}

Intact == \A t \in Packed(Alive) : \A u \in Plan.places[t] : u \in DOMAIN mem /\ mem[u] = t

(* Every layer finds its inputs, and backward its gradients and residuals, *)
(* with the types that it expects: "out_of_range for ..." (:799, :847),    *)
(* "Residuals not found" (:853), the at() of backward (:462) and the       *)
(* conversions of ResidualObject (residuals.hpp:71, :78) do not throw.     *)
NeverMissing == phase # "failed"

(* A gradient is taken by the layer that wrote the node, or returned, only *)
(* when everybody who reads the node has added to it (accumulate_grad,     *)
(* :121), and the caller if it is an output.                               *)
Contributions(n) == Cardinality(ReadersOf(n)) + (IF n \in graph.outputs THEN 1 ELSE 0)

CompleteGradients ==
    [][\A n \in DOMAIN grads \ DOMAIN grads' : grads[n].parts = Contributions(n)]_vars

(* The reference counts let go of everything, also of what nobody reads:   *)
(* after forward there is no data, after backward no gradient and residual.*)
AllReleased ==
    /\ phase \in {"computed", "differentiated"} => data = Empty
    /\ phase = "differentiated" => grads = Empty /\ residuals = Empty
=============================================================================
