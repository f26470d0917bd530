---------------------------- MODULE MCDeployment ----------------------------
(***************************************************************************)
(* A small model to deploy, and the partitioner on every small graph.      *)
(***************************************************************************)
EXTENDS Deployment

Layer(reads, write) == [reads |-> reads, writes |-> {write}]

(* A residual connection inside of the second stage; its layers are not in *)
(* the order in which they run.                                            *)
MCModel == <<Layer({"a"}, "b"), Layer({"x"}, "a"), Layer({"a", "b"}, "y")>>
MCRatios == <<1, 2>>

----------------------------------------------------------------------------
(* Each layer reads any of the nodes before it: 0 is the input, i is what  *)
(* layer i writes; the list of layers is in any order.                     *)
Readers == [i \in 1..4 |-> (SUBSET (0..(i - 1))) \ {{}}]
Dags == {<<[reads |-> a, writes |-> {1}], [reads |-> b, writes |-> {2}],
           [reads |-> c, writes |-> {3}], [reads |-> d, writes |-> {4}]>> :
             a \in Readers[1], b \in Readers[2], c \in Readers[3], d \in Readers[4]}
Shuffles == {<<1, 2, 3, 4>>, <<4, 3, 2, 1>>, <<2, 4, 1, 3>>}
Graphs == {[i \in 1..4 |-> g[s[i]]] : g \in Dags, s \in Shuffles}

(* Sorting keeps every layer, and puts none before one that it needs.      *)
ASSUME SortIsTopological ==
    \A g \in Graphs :
        /\ Acyclic(g)
        /\ Range(SortedIndices(g)) = DOMAIN g
        /\ LET sorted == Sorted(g)
           IN  \A i \in DOMAIN g :
                   sorted[i].reads \subseteq {0} \cup Written(sorted, 1..(i - 1))

(* A circle is found.                                                      *)
ASSUME CyclesAreFound ==
    \A g \in Graphs : ~Acyclic(g \o <<[reads |-> {6}, writes |-> {5}],
                                      [reads |-> {5, 0}, writes |-> {6}]>>)

(* The ratios give every layer to one stage, no stage a layer more or less *)
(* than its share, and no stage fewer than one of a smaller ratio.         *)
ASSUME RatiosAreKept ==
    \A ratios \in [1..3 -> 1..4], layers \in 1..9 :
        LET counts == LayerCounts(ratios, layers)
            total  == ratios[1] + ratios[2] + ratios[3]
        IN  /\ counts[1] + counts[2] + counts[3] = layers
            /\ \A i \in 1..3 : /\ (counts[i] - 1) * total < ratios[i] * layers
                               /\ (counts[i] + 1) * total > ratios[i] * layers
            /\ \A i, j \in 1..3 : ratios[i] > ratios[j] => counts[i] >= counts[j]

(* Those in which the last layer reads what an early one writes.           *)
Skips == {g \in Dags : g[2].reads = {0, 1} /\ 1 \in g[4].reads}

(* No other way to cut has a smaller bottleneck than the one that is found.*)
Meshes == {<<<<1, 1, 1>>, <<3, 1>>>>, <<<<1, 3, 2>>, <<0, 5>>>>, <<<<4, 1, 1>>, <<1, 1>>>>}
Costs == {<<1, 1, 1, 1>>, <<1, 2, 7, 3>>}
Sizes == {[n \in 0..4 |-> 1], [n \in 0..4 |-> IF n \in {1, 3} THEN 4 ELSE 2]}

Bottleneck(sorted, cost, size, slow, lag, cuts) ==
    LET times == {ComputeTime(cost, slow, k, cuts[k - 1], cuts[k]) : k \in 1..3}
                 \cup {LinkTime(sorted, size, lag, k, cuts[k]) : k \in 1..3}
    IN  CHOOSE t \in times : \A u \in times : u <= t

ASSUME CutsAreBest ==
    \A g \in Skips, cost \in Costs, size \in Sizes, mesh \in Meshes :
        LET sorted == Sorted(g)
            Worst(cuts) == Bottleneck(sorted, cost, size, mesh[1], mesh[2], cuts)
            found == CostCuts(sorted, cost, size, mesh[1], mesh[2])
        IN  /\ found[0] = 0 /\ found[3] = 4
            /\ \A k \in 1..3 : found[k - 1] < found[k]
            /\ \A i \in 1..2 : \A j \in (i + 1)..3 :
                   Worst(found) <= Worst([k \in 0..3 |-> CASE k = 0 -> 0 [] k = 1 -> i
                                                           [] k = 2 -> j [] k = 3 -> 4])

(* The stages of the model above pass on what the next one takes in: the   *)
(* steps of Pipeline rely on it.                                           *)
ASSUME StagesFit == HandsOver(Sorted(MCModel), RatioCuts(MCRatios, Len(MCModel)))
=============================================================================
