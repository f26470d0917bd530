-------------------------- MODULE GraphPartitioner --------------------------
(***************************************************************************)
(* partitioner/graph_partitioner.cpp: cuts a graph into stages that follow *)
(* each other, one per worker.  The layers ("edges") are sorted, the cuts  *)
(* are found from ratios or from costs, and of every stage the nodes that  *)
(* it takes in and gives out are determined.                               *)
(*                                                                         *)
(* A graph is a sequence of edges, each with the set of nodes it reads and *)
(* the set of those it writes; a node is written by one edge at most.      *)
(* Ratios, costs, sizes and the time that a machine or a link needs for a  *)
(* unit of them are natural numbers, where the code has doubles.           *)
(***************************************************************************)
EXTENDS Integers, Sequences, FiniteSets, SequencesExt

Written(edges, S) == UNION {edges[e].writes : e \in S}
Read(edges, S)    == UNION {edges[e].reads : e \in S}

ByIndex(S) == SetToSortSeq(S, <)

(* topologically_sorted_edges: from the queue of ready edges the first is  *)
(* taken, and those that waited for it alone are put at the end; queued[k] *)
(* is what was ever in the queue when k edges have been taken.             *)
SortedIndices(edges) ==
    LET all == DOMAIN edges
        Needs(e) == edges[e].reads \cap Written(edges, all)
        queued[k \in 0..Len(edges)] ==
            IF k = 0 THEN ByIndex({e \in all : Needs(e) = {}})
            ELSE LET before == queued[k - 1]
                     taken  == {before[i] : i \in 1..k}
                     ready  == {e \in all \ Range(before) :
                                    Needs(e) \subseteq Written(edges, taken)}
                 IN  IF Len(before) < k THEN before ELSE before \o ByIndex(ready)
    IN  queued[Len(edges)]

Acyclic(edges) == Len(SortedIndices(edges)) = Len(edges)
Sorted(edges)  == LET order == SortedIndices(edges) IN [i \in DOMAIN edges |-> edges[order[i]]]

----------------------------------------------------------------------------
(* The cuts by ratios                                                      *)

SumTo(f) == LET sum[i \in 0..Len(f)] == IF i = 0 THEN 0 ELSE sum[i - 1] + f[i] IN sum

(* resolve_layer_counts: every stage gets the floor of its share, and the  *)
(* layers that are left go to the largest remainders.                      *)
LayerCounts(ratios, layers) ==
    LET total     == SumTo(ratios)[Len(ratios)]
        share     == [i \in DOMAIN ratios |-> (ratios[i] * layers) \div total]
        remainder == [i \in DOMAIN ratios |-> (ratios[i] * layers) % total]
        left      == layers - SumTo(share)[Len(share)]
        Before(i) == {j \in DOMAIN ratios : \/ remainder[j] > remainder[i]
                                            \/ remainder[j] = remainder[i] /\ j < i}
    IN  [i \in DOMAIN ratios |->
            share[i] + IF Cardinality(Before(i)) < left THEN 1 ELSE 0]

(* GraphPartitioner::partition ends in an exception without these.         *)
Resolves(ratios, layers) ==
    \A i \in DOMAIN ratios : LayerCounts(ratios, layers)[i] > 0

(* Stage i has the sorted edges after cuts[i - 1] and up to cuts[i].       *)
RatioCuts(ratios, layers) == SumTo(LayerCounts(ratios, layers))

----------------------------------------------------------------------------
(* The cuts by costs                                                       *)

Larger(a, b) == IF a > b THEN a ELSE b
LeastOf(S)   == CHOOSE x \in S : \A y \in S : x <= y

(* The activations that cross a cut, with producer_idx 0 for the inputs of *)
(* the graph; the nodes that are never read cross none.                    *)
BoundarySize(sorted, size, cut) ==
    LET before == Written(sorted, 1..cut)
        inputs == Read(sorted, DOMAIN sorted) \ Written(sorted, DOMAIN sorted)
        late   == Read(sorted, (cut + 1)..Len(sorted))
        sizes  == SetToSeq((before \cup inputs) \cap late)
    IN  IF cut \notin 1..(Len(sorted) - 1) THEN 0
        ELSE SumTo([i \in DOMAIN sizes |-> size[sizes[i]]])[Len(sizes)]

(* The time of machine k for the edges after p and up to i, and of the     *)
(* link behind it.                                                         *)
ComputeTime(cost, slow, k, p, i) == slow[k] * (SumTo(cost)[i] - SumTo(cost)[p])
LinkTime(sorted, size, lag, k, i) ==
    IF k \in DOMAIN lag THEN lag[k] * BoundarySize(sorted, size, i) ELSE 0

(* ComputeBandwidthPartitioner::partition: best[k][i] is the bottleneck of *)
(* the best way to give the first i edges to k machines.                   *)
CostCuts(sorted, cost, size, slow, lag) ==
    LET N == Len(sorted)
        K == Len(slow)
        Time(k, p, i) == Larger(ComputeTime(cost, slow, k, p, i),
                                LinkTime(sorted, size, lag, k, i))
        From(k, i) == IF k = 1 THEN {0} ELSE (k - 1)..(i - 1)
        best[k \in 1..K] ==
            LET less == IF k = 1 THEN [p \in {0} |-> 0] ELSE best[k - 1]
            IN  [i \in k..N |-> LeastOf({Larger(less[p], Time(k, p, i)) : p \in From(k, i)})]
        Parent(k, i) ==
            LET less == IF k = 1 THEN [p \in {0} |-> 0] ELSE best[k - 1]
            IN  LeastOf({p \in From(k, i) : Larger(less[p], Time(k, p, i)) = best[k][i]})
        back[j \in 0..K] == IF j = 0 THEN N ELSE Parent(K - j + 1, back[j - 1])
    IN  [k \in 0..K |-> back[K - k]]

----------------------------------------------------------------------------
(* The stages                                                              *)

(* build_partition: what the edges after a and up to b read without        *)
(* writing it, and what they write that they do not read or that a later   *)
(* edge reads.                                                             *)
InputUids(sorted, a, b) ==
    Read(sorted, (a + 1)..b) \ Written(sorted, (a + 1)..b)

OutputUids(sorted, a, b) ==
    {u \in Written(sorted, (a + 1)..b) :
        \/ u \notin Read(sorted, (a + 1)..b)
        \/ u \in Read(sorted, (b + 1)..Len(sorted))}

(* What a stage gives out is what the next one takes in: a tensor that it  *)
(* does not know, and one that it misses, are exceptions in its worker.    *)
HandsOver(sorted, cuts) ==
    \A i \in DOMAIN cuts \ {0} : i + 1 \in DOMAIN cuts =>
        OutputUids(sorted, cuts[i - 1], cuts[i]) = InputUids(sorted, cuts[i], cuts[i + 1])
=============================================================================
