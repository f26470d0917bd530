------------------------------ MODULE GraphState ------------------------------
(***************************************************************************)
(* nn/graph.cpp: a graph while it is built, sorted, compiled, saved and    *)
(* loaded.  The coordinator saves the part of a stage and the worker loads *)
(* it; the training loops save a model and a later program loads it.       *)
(*                                                                         *)
(* A node is the number under which it was made, and uid gives its name,   *)
(* which set_uid may change.  A layer is its place in layers, with its     *)
(* name, the number of parameters that its configuration asks for, and the *)
(* parameters it has once it is initialised.  A tensor is a value.         *)
(***************************************************************************)
EXTENDS Integers, Sequences, FiniteSets, SequencesExt, FiniteSetsExt, TLC

NewLayer(name, size) == [name |-> name, size |-> size, initialised |-> FALSE, params |-> <<>>]

DefaultTypes == [io |-> "FP32", param |-> "FP32", compute |-> "FP32"]

(* A graph that is just constructed, with the layers of the program.       *)
EmptyGraph(layers) ==
    [nodes |-> <<>>, uid |-> <<>>, edges |-> <<>>, layers |-> layers,
     inputs |-> {}, outputs |-> {}, types |-> DefaultTypes,
     nodeCount |-> 0, edgeCount |-> 0, nodeUids |-> {}, edgeUids |-> {}]

(* generate_node_uid and generate_edge_uid: the first number from the      *)
(* counter on whose name is free; the counter goes on behind it.           *)
Numbered(prefix, k) == prefix \o ToString(k)
FreeNumber(prefix, used, count) ==
    Min({k \in count..(count + Cardinality(used)) : Numbered(prefix, k) \notin used})

(* make_node ends in an exception for a name that is in use.               *)
UidFree(g, uid) == uid \notin g.nodeUids

MakeNode(g, uid) ==
    LET k    == FreeNumber("node_", g.nodeUids, g.nodeCount)
        name == IF uid = "" THEN Numbered("node_", k) ELSE uid
    IN  [g EXCEPT !.nodes = Append(@, Len(g.uid) + 1), !.uid = Append(@, name),
                  !.nodeUids = @ \cup {name}, !.nodeCount = IF uid = "" THEN k + 1 ELSE @]

(* The names in use are left as they are.                                  *)
SetUid(g, node, uid) == [g EXCEPT !.uid[node] = uid]

(* An edge is called like its layer, or edge_k when that name is in use.   *)
AddEdge(g, layer, reads, writes) ==
    LET name  == g.layers[layer].name
        taken == name \in g.edgeUids
        k     == FreeNumber("edge_", g.edgeUids, g.edgeCount)
        uid   == IF taken THEN Numbered("edge_", k) ELSE name
    IN  [g EXCEPT !.edges = Append(@, [layer |-> layer, uid |-> uid,
                                       reads |-> reads, writes |-> writes]),
                  !.edgeUids = @ \cup {uid}, !.edgeCount = IF taken THEN k + 1 ELSE @]

(* Calling a layer with nodes.                                             *)
Apply(g, layer, reads) ==
    LET made == MakeNode(g, "") IN AddEdge(made, layer, reads, <<Len(made.uid)>>)

(* set_input and set_output end in an exception for a node of another graph. *)
SetInput(g, node)  == [g EXCEPT !.inputs = @ \cup {node}]
SetOutput(g, node) == [g EXCEPT !.outputs = @ \cup {node}]

AddInput(g, uid) == SetInput(MakeNode(g, uid), Len(g.uid) + 1)

(* In the order of the nodes, which is that of a stage's messages.         *)
UidsOf(g, S) ==
    LET marked == SelectSeq(g.nodes, LAMBDA n : n \in S)
    IN  [i \in DOMAIN marked |-> g.uid[marked[i]]]
InputUids(g)  == UidsOf(g, g.inputs)
OutputUids(g) == UidsOf(g, g.outputs)

----------------------------------------------------------------------------
(* sort                                                                    *)

Produced(edges) == UNION {ToSet(edges[e].writes) : e \in DOMAIN edges}

Times(seq, x) == Cardinality({i \in DOMAIN seq : seq[i] = x})

(* node_to_dependent_edges: an edge once for every time that it reads node. *)
Dependents(edges, node) ==
    FlattenSeq([e \in DOMAIN edges |-> [i \in 1..Times(edges[e].reads, node) |-> e]])

(* The edges that are told that edge has run, in the order of the loops.   *)
Told(edges, edge) ==
    LET nodes == Reverse(edges[edge].writes)
    IN  FlattenSeq([i \in DOMAIN nodes |-> Reverse(Dependents(edges, nodes[i]))])

(* ready is a stack: an edge is pushed when the last read it waited for is *)
(* told, and the one that was pushed last is taken.                        *)
TakeReady(edges, s) ==
    LET edge == Last(s.ready)
        told == Told(edges, edge)
        Frees(k) == s.pending[told[k]] = Times(SubSeq(told, 1, k), told[k])
        freed == SelectSeq([k \in DOMAIN told |-> k], Frees)
    IN  [sorted  |-> Append(s.sorted, edge),
         ready   |-> Front(s.ready) \o [i \in DOMAIN freed |-> told[freed[i]]],
         pending |-> [e \in DOMAIN edges |-> s.pending[e] - Times(told, e)]]

SortOrder(edges) ==
    LET count == [e \in DOMAIN edges |->
                     Len(SelectSeq(edges[e].reads, LAMBDA n : n \in Produced(edges)))]
        free  == SelectSeq([e \in DOMAIN edges |-> e], LAMBDA e : count[e] = 0)
        steps[k \in 0..Len(edges)] ==
            IF k = 0 THEN [sorted |-> <<>>, ready |-> Reverse(free), pending |-> count]
            ELSE IF steps[k - 1].ready = <<>> THEN steps[k - 1]
            ELSE TakeReady(edges, steps[k - 1])
    IN  steps[Len(edges)].sorted

(* sort ends in an exception when it does not reach every edge.            *)
Sortable(edges) == Len(SortOrder(edges)) = Len(edges)

FirstOnes(seq) ==
    LET New(i) == \A j \in 1..(i - 1) : seq[j] # seq[i]
        first  == SelectSeq([i \in DOMAIN seq |-> i], New)
    IN  [i \in DOMAIN first |-> seq[first[i]]]

(* The nodes that no edge writes come first, then the others as written.   *)
SortGraph(g) ==
    LET order == SortOrder(g.edges)
        edges == [i \in DOMAIN order |-> g.edges[order[i]]]
    IN  [g EXCEPT !.edges = edges,
                  !.nodes = SelectSeq(@, LAMBDA n : n \notin Produced(edges))
                              \o FirstOnes(FlattenSeq([i \in DOMAIN edges |-> edges[i].writes]))]

----------------------------------------------------------------------------
(* compile                                                                 *)

(* In the order of the first edge of each.                                 *)
UniqueLayers(g) == FirstOnes([i \in DOMAIN g.edges |-> g.edges[i].layer])

(* LayerImpl::init; make_param gives every parameter a gradient of zeros.  *)
InitLayer(layer) ==
    [layer EXCEPT !.initialised = TRUE,
                  !.params = [i \in 1..layer.size |-> [data |-> "initial", grad |-> "zero"]]]

(* Every exception but the last leaves the graph half way; that of a graph *)
(* without outputs comes when all of its layers are initialised.           *)
Compilable(g) ==
    /\ Sortable(g.edges)
    /\ \A l \in ToSet(UniqueLayers(g)) : ~g.layers[l].initialised
Compiles(g) == Compilable(g) /\ g.outputs # {}

CompileGraph(g, types) ==
    LET used == ToSet(UniqueLayers(g))
    IN  [SortGraph(g) EXCEPT !.types = types,
            !.layers = [l \in DOMAIN @ |-> IF l \in used THEN InitLayer(@[l]) ELSE @[l]]]

ParamsOf(g) == FlattenSeq([i \in DOMAIN g.edges |-> g.layers[g.edges[i].layer].params])

----------------------------------------------------------------------------
(* save_state and load_state                                               *)

GraphStateVersion == 5

PlaceIn(seq, x) == CHOOSE i \in DOMAIN seq : seq[i] = x
PlacesIn(seq, xs) == [i \in DOMAIN xs |-> PlaceIn(seq, xs[i])]

(* save_state ends in an exception otherwise.                              *)
Savable(g) ==
    g.inputs \cup g.outputs \cup Produced(g.edges)
      \cup UNION {ToSet(g.edges[e].reads) : e \in DOMAIN g.edges} \subseteq ToSet(g.nodes)

SaveState(g) ==
    LET layers == UniqueLayers(g)
    IN  [version |-> GraphStateVersion,
         types   |-> g.types,
         uids    |-> [i \in DOMAIN g.nodes |-> g.uid[g.nodes[i]]],
         inputs  |-> {PlaceIn(g.nodes, n) : n \in g.inputs},
         outputs |-> {PlaceIn(g.nodes, n) : n \in g.outputs},
         layers  |-> [i \in DOMAIN layers |->
                         NewLayer(g.layers[layers[i]].name, g.layers[layers[i]].size)],
         edges   |-> [e \in DOMAIN g.edges |->
                         [layer  |-> PlaceIn(layers, g.edges[e].layer),
                          reads  |-> PlacesIn(g.nodes, g.edges[e].reads),
                          writes |-> PlacesIn(g.nodes, g.edges[e].writes)]],
         params  |-> [i \in DOMAIN layers |-> g.layers[layers[i]].params]]

(* What the files of older versions lack; the reader takes 1, 3 and 5.     *)
HasMarks(file)     == file.version >= 2
HasTypes(file)     == file.version >= 4
HasGradients(file) == file.version >= 5

(* The graph before it is compiled: nodes, marks and edges made again.     *)
Assembled(file) ==
    LET nodes  == FoldLeft(MakeNode, EmptyGraph(file.layers), file.uids)
        marked == IF HasMarks(file)
                  THEN [nodes EXCEPT !.inputs = file.inputs, !.outputs = file.outputs]
                  ELSE nodes
        Add(g, e) == AddEdge(g, e.layer, e.reads, e.writes)
    IN  FoldLeft(Add, marked, file.edges)

TypesOf(file) == IF HasTypes(file) THEN file.types ELSE DefaultTypes

(* load_state ends in an exception otherwise.                              *)
Loads(file) ==
    /\ file.version \in {1, 3, GraphStateVersion}
    /\ \A i, j \in DOMAIN file.uids : file.uids[i] = file.uids[j] => i = j
    /\ Compiles(Assembled(file))
    /\ Len(file.params) = Len(file.layers)
    /\ \A l \in DOMAIN file.layers : Len(file.params[l]) = file.layers[l].size

LoadState(file) ==
    [CompileGraph(Assembled(file), TypesOf(file)) EXCEPT
        !.layers = [l \in DOMAIN @ |-> [@[l] EXCEPT
            !.params = [i \in DOMAIN @ |->
                IF HasGradients(file) THEN file.params[l][i]
                ELSE [file.params[l][i] EXCEPT !.grad = "zero"]]]]]

----------------------------------------------------------------------------
(* Graphs on every small way to connect their layers.                      *)

UpToTwo(S) == {<<a>> : a \in S} \cup {<<a, b>> : a \in S, b \in S}

(* Four edges, the first with two outputs, each of which reads one or two  *)
(* of the nodes before it, the same one twice too; added in several orders.*)
Connected(reads, writes) == [layer |-> 1, uid |-> "", reads |-> reads, writes |-> writes]
Connections ==
    {<<Connected(<<1>>, <<2, 3>>), Connected(a, <<4>>),
       Connected(b, <<5>>), Connected(c, <<6>>)>> :
        a \in UpToTwo(1..3), b \in UpToTwo(2..4), c \in UpToTwo(4..5) \cup {<<1>>, <<2, 5>>}}
AddedAs == {<<4, 3, 2, 1>>, <<2, 4, 1, 3>>}
Orders == {[i \in 1..4 |-> c[s[i]]] : c \in Connections, s \in AddedAs}

Reordered(edges, order) == [i \in DOMAIN order |-> edges[order[i]]]

(* sort keeps every edge, and puts none before one whose output it reads.  *)
ASSUME SortPutsWritersFirst ==
    \A edges \in Orders :
        LET order  == SortOrder(edges)
            sorted == Reordered(edges, order)
        IN  /\ ToSet(order) = DOMAIN edges /\ Sortable(edges)
            /\ \A i \in DOMAIN edges :
                   ToSet(sorted[i].reads) \subseteq {1} \cup Produced(SubSeq(sorted, 1, i - 1))

(* What is sorted stays as it is: the stage that loads a graph, and sorts  *)
(* its edges again, runs them in the order of the one that saved it.       *)
ASSUME SortIsStable ==
    \A edges \in Orders :
        SortOrder(Reordered(edges, SortOrder(edges))) = <<1, 2, 3, 4>>

(* A circle is found, wherever its edges are.                              *)
ASSUME CirclesAreFound ==
    \A edges \in Orders :
        LET circle == edges \o <<Connected(<<6, 8>>, <<7>>), Connected(<<7>>, <<8>>)>>
        IN  ~Sortable(Reverse(circle))

(* Only when two edges write one node may a reader come too early.         *)
ASSUME TwoWritersAreNotAwaited ==
    LET edges == <<Connected(<<1>>, <<2>>), Connected(<<2>>, <<3>>), Connected(<<1>>, <<2>>)>>
    IN  SortOrder(edges) = <<1, 2, 3>>

----------------------------------------------------------------------------
(* Models of three layers, the first of which may be used again.           *)
ModelLayers == <<NewLayer("dense", 2), NewLayer("relu", 0), NewLayer("dense", 1)>>
LayerChoices == {<<1, 2, 3>>, <<1, 1, 2>>, <<1, 2, 1>>, <<3, 1, 2>>}

(* The last node is given the name of an output, as the examples do.       *)
BuiltModels ==
    LET start == AddInput(MakeNode(EmptyGraph(ModelLayers), "node_1"), "input")
        Built(layers, a, b, c) ==
            Apply(Apply(Apply(start, layers[1], a), layers[2], b), layers[3], c)
    IN  {SetOutput(SetUid(Built(layers, a, b, c), 5, "output"), 5) :
            layers \in LayerChoices,
            a \in UpToTwo(1..2), b \in UpToTwo(2..3), c \in {<<3>>, <<4>>, <<2, 4>>, <<4, 3>>}}

Half == [io |-> "FP16", param |-> "FP32", compute |-> "FP32"]

(* After training: other data in every parameter, a gradient in some.      *)
AfterTraining(g) ==
    [g EXCEPT !.layers = [l \in DOMAIN @ |-> [@[l] EXCEPT
        !.params = [i \in DOMAIN @ |-> [data |-> <<l, i>>,
                                        grad |-> IF i = 1 THEN "none" ELSE <<"grad", l, i>>]]]]]
TrainedModels == {AfterTraining(CompileGraph(g, Half)) : g \in BuiltModels}

(* A model that is saved can be loaded, and is then the same in everything *)
(* that a file holds: saving it again gives the same file.                 *)
ASSUME SavedModelsReturn ==
    \A g \in TrainedModels :
        /\ Savable(g) /\ Loads(SaveState(g))
        /\ SaveState(LoadState(SaveState(g))) = SaveState(g)

(* Its stages take and give the same messages, and an optimizer sees the   *)
(* same parameters in the same order.                                      *)
ASSUME LoadedModelsFit ==
    \A g \in TrainedModels :
        LET loaded == LoadState(SaveState(g))
        IN  /\ InputUids(loaded) = InputUids(g) /\ OutputUids(loaded) = OutputUids(g)
            /\ ParamsOf(loaded) = ParamsOf(g)

(* No two nodes and no two edges get one name, also in a graph that is     *)
(* loaded, whose counters start again, and is then built further.          *)
ASSUME NamesAreUnique ==
    \A g \in TrainedModels :
        LET loaded == LoadState(SaveState(g))
            more   == Apply(Apply(loaded, 1, <<5>>), 1, <<6>>)
        IN  /\ Cardinality(ToSet(more.uid)) = Len(more.uid)
            /\ Cardinality({more.edges[e].uid : e \in DOMAIN more.edges}) = Len(more.edges)

(* set_uid leaves the names in use alone: two nodes may get one name, and  *)
(* what is saved then does not load.                                       *)
ASSUME RenamedTwiceIsLost ==
    \A g \in BuiltModels :
        LET double == CompileGraph(MakeNode(g, "output"), Half)
        IN  UidFree(g, "output") /\ Savable(double) /\ ~Loads(SaveState(double))

(* Files of version 1 are let in and never load; those of version 3 come   *)
(* without types and gradients.                                            *)
ASSUME OldVersions ==
    \A g \in TrainedModels :
        LET file == SaveState(g)
            old  == LoadState([file EXCEPT !.version = 3])
        IN  /\ ~Loads([file EXCEPT !.version = 1])
            /\ Loads([file EXCEPT !.version = 3])
            /\ old.types = DefaultTypes
            /\ SaveState(old) # file

(* A graph is compiled once: one that had no output has its layers         *)
(* initialised, and an output that is set later does not help.             *)
ASSUME CompiledOnce ==
    \A g \in BuiltModels :
        LET forgotten == [g EXCEPT !.outputs = {}]
        IN  /\ Compiles(g) /\ ~Compiles(CompileGraph(g, Half))
            /\ Compilable(forgotten) /\ ~Compiles(forgotten)
            /\ ~Compiles(SetOutput(CompileGraph(forgotten, Half), 5))

=============================================================================
