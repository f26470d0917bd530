----------------------------- MODULE MacroSolver -----------------------------
(***************************************************************************)
(* MacroSolver (nn/macro_solver.cpp): finds an order in which to run the   *)
(* layers ("edges") of a graph.  It merges them step by step into macros,  *)
(* sequences of edges that stay together, and then runs the macros in the  *)
(* order of their ranks as their dependencies allow.                       *)
(*                                                                         *)
(* find_forward_order and find_backward_order are the same program on the  *)
(* graph and on the reversed graph: work is the graph in the direction     *)
(* that is solved, with the nodes that each edge reads and writes.  An     *)
(* edge is its index, a merged macro the next number: this is the order in *)
(* which the code, whose macros are sorted by name, goes through them.     *)
(***************************************************************************)
EXTENDS Integers, Sequences, FiniteSets, SequencesExt

VARIABLES
    work,      \* [edges, cached]: reads and writes of each edge; cached nodes
    quotient,  \* macros_, macro_deps_ and macro_dependents_
    pending,   \* the macros the loop has still to look at
    branch,    \* where prepare_join_branches is
    stage,     \* which part of the solver runs
    order      \* final_order

solverVars == <<work, quotient, pending, branch, stage, order>>

None == -1
VirtualJoin == 0   \* "__virtual_join__"
Unbounded == 1000  \* the largest long long

NoMacros == [macros |-> <<>>, deps |-> <<>>, dependents |-> <<>>]
NoBranch == [join |-> None, todo |-> <<>>, at |-> None, merged |-> "no"]

SolverIdle ==
    /\ work = [edges |-> <<>>, cached |-> {}]
    /\ quotient = NoMacros /\ pending = <<>> /\ branch = NoBranch
    /\ stage = "idle" /\ order = <<>>

SolverDone ==
    /\ work' = [edges |-> <<>>, cached |-> {}]
    /\ quotient' = NoMacros /\ pending' = <<>> /\ branch' = NoBranch
    /\ stage' = "idle" /\ order' = <<>>

Ids == DOMAIN quotient.macros
Edges == DOMAIN work.edges
Ascending(S) ==
    CHOOSE q \in [1..Cardinality(S) -> S] : \A i, j \in DOMAIN q : i < j => q[i] < q[j]
First(S) == CHOOSE m \in S : \A n \in S : m <= n

----------------------------------------------------------------------------
(* Ranks and merging                                                       *)

Rank(m) ==
    LET macro == quotient.macros[m]
    IN  IF macro.b < 0 THEN <<0, macro.a>> ELSE <<1, macro.b - macro.a>>

Less(m, n) == \/ Rank(m)[1] < Rank(n)[1]
              \/ Rank(m)[1] = Rank(n)[1] /\ Rank(m)[2] < Rank(n)[2]

Fresh == 1 + CHOOSE m \in Ids \cup Edges : \A n \in Ids \cup Edges : n <= m

(* The first of the lowest, and the first of the highest.                  *)
Lowest(S)  == First({m \in S : \A n \in S : ~Less(n, m)})
Highest(S) == First({m \in S : \A n \in S : ~Less(m, n)})

(* merge_macros: the child's edges after the parent's.                     *)
Merge(parent, child) ==
    LET p    == quotient.macros[parent]
        c    == quotient.macros[child]
        ids  == (Ids \ {parent, child}) \cup {Fresh}
        both == [edges |-> p.edges \o c.edges,
                 a |-> IF p.a > p.b + c.a THEN p.a ELSE p.b + c.a, b |-> p.b + c.b]
        deps       == quotient.deps[parent] \cup (quotient.deps[child] \ {parent})
        dependents == (quotient.dependents[parent] \ {child}) \cup quotient.dependents[child]
        Renamed(S) == (S \ {parent, child}) \cup {Fresh}
    IN  quotient' =
          [macros |-> [m \in ids |-> IF m = Fresh THEN both ELSE quotient.macros[m]],
           deps   |-> [m \in ids |-> IF m = Fresh THEN deps
                                     ELSE IF m \in dependents THEN Renamed(quotient.deps[m])
                                     ELSE quotient.deps[m]],
           dependents |-> [m \in ids |-> IF m = Fresh THEN dependents
                                         ELSE IF m \in deps THEN Renamed(quotient.dependents[m])
                                         ELSE quotient.dependents[m]]]

(* A macro whose only parent has no other dependent, and a higher rank.    *)
FollowsParent(m) ==
    \E parent \in quotient.deps[m] :
        quotient.deps[m] = {parent} /\ quotient.dependents[parent] = {m} /\ Less(m, parent)

Parent(m) == CHOOSE parent \in quotient.deps[m] : TRUE

(* has_peers: somebody outside of the macro reads what it reads.           *)
Readers(node) ==
    {slot \in UNION {{e} \X DOMAIN work.edges[e].reads : e \in Edges} :
        work.edges[slot[1]].reads[slot[2]] = node}

HasPeers(m) ==
    \E e \in Range(quotient.macros[m].edges) :
        \E node \in Range(work.edges[e].reads) \ work.cached :
            \E slot \in Readers(node) : slot[1] \notin Range(quotient.macros[m].edges)

----------------------------------------------------------------------------
(* Ancestors                                                               *)

(* ancestor_distances: the longest way to each ancestor, and to m itself.  *)
AncestorDistances(m) ==
    LET above[n \in Ids]    == {n} \cup UNION {above[d] : d \in quotient.deps[n]}
        far[n \in above[m]] ==
            IF n = m THEN 0
            ELSE LET below == {far[c] : c \in quotient.dependents[n] \cap above[m]}
                 IN  1 + CHOOSE d \in below : \A e \in below : e <= d
    IN  far

(* The common ancestors that have two dependents or more, the nearest only *)
(* by the longer of the two ways, and then by their sum.                   *)
NearestBranching(m, n) ==
    LET first  == AncestorDistances(m)
        second == AncestorDistances(n)
        common == {x \in DOMAIN first \cap DOMAIN second :
                      Cardinality(quotient.dependents[x]) >= 2}
        Longer(x) == IF first[x] > second[x] THEN first[x] ELSE second[x]
        Nearer(x, y) == \/ Longer(x) < Longer(y)
                        \/ /\ Longer(x) = Longer(y)
                           /\ first[x] + second[x] < first[y] + second[y]
        nearest == {x \in common : \A y \in common : ~Nearer(y, x)}
    IN  IF common = {} THEN {} ELSE {First(nearest)}

(* The ancestors to prepare, from the nearest to the join.                 *)
BranchingAncestors(join) ==
    LET far == AncestorDistances(join)
        pairs == {pair \in quotient.deps[join] \X quotient.deps[join] : pair[1] < pair[2]}
    IN  SetToSortSeq(UNION {NearestBranching(pair[1], pair[2]) : pair \in pairs},
                     LAMBDA x, y : far[x] < far[y] \/ (far[x] = far[y] /\ x < y))

----------------------------------------------------------------------------
(* The loop over the pending macros                                        *)

(* A queue: the edges without dependencies, then each when the last of its *)
(* dependencies, the i-th of the queue, has left it.                       *)
Roots(deps) == {e \in DOMAIN deps : deps[e] = {}}

Unlocked(deps, queue, i) ==
    queue \o Ascending({e \in DOMAIN deps :
                           /\ queue[i] \in deps[e]
                           /\ deps[e] \subseteq Range(SubSeq(queue, 1, i))})

TopologicalOrder(deps) ==
    LET queue[i \in 0..Cardinality(DOMAIN deps)] ==
            IF i = 0 THEN Ascending(Roots(deps)) ELSE Unlocked(deps, queue[i - 1], i)
    IN  queue[Cardinality(DOMAIN deps)]

(* profile gives the memory that each edge takes (a) and keeps (b).  A     *)
(* virtual join ties the ends together if there are several.               *)
StartSolver(edges, cached, profile) ==
    LET es == DOMAIN edges
        deps == [e \in es |-> {d \in es : Range(edges[d].writes) \cap Range(edges[e].reads) # {}}]
        dependents == [d \in es |-> {e \in es : d \in deps[e]}]
        ends == {e \in es : dependents[e] = {}}
        macros == [e \in es |-> [edges |-> <<e>>, a |-> profile[e][1], b |-> profile[e][2]]]
        ids == {VirtualJoin} \cup es
        virtual == [edges |-> <<>>, a |-> 0, b |-> Unbounded]
    IN  /\ work' = [edges |-> edges, cached |-> cached]
        /\ quotient' =
             IF Cardinality(ends) <= 1
             THEN [macros |-> macros, deps |-> deps, dependents |-> dependents]
             ELSE [macros |-> [m \in ids |-> IF m \in es THEN macros[m] ELSE virtual],
                   deps |-> [m \in ids |-> IF m \in es THEN deps[m] ELSE ends],
                   dependents |-> [m \in ids |-> IF m \notin es THEN {}
                                                 ELSE IF m \in ends THEN {VirtualJoin}
                                                 ELSE dependents[m]]]
        /\ pending' = TopologicalOrder(deps)
        /\ branch' = NoBranch /\ stage' = "merging" /\ order' = <<>>

Looking == stage = "merging" /\ branch = NoBranch /\ pending # <<>>
Current == Head(pending)

(* It has been merged away, or is neither to be merged nor a join.         *)
PassOver ==
    /\ Looking
    /\ Current \in Ids => Cardinality(quotient.deps[Current]) <= 1 /\ ~FollowsParent(Current)
    /\ pending' = Tail(pending)
    /\ UNCHANGED <<work, quotient, branch, stage, order>>

MergeLinear ==
    /\ Looking /\ Current \in Ids /\ FollowsParent(Current)
    /\ Merge(Parent(Current), Current)
    /\ pending' = <<Fresh>> \o Tail(pending)
    /\ UNCHANGED <<work, branch, stage, order>>

Prepare(join) ==
    branch' = [join |-> join, todo |-> BranchingAncestors(join), at |-> None, merged |-> "no"]

PrepareJoin ==
    /\ Looking /\ Current \in Ids /\ Cardinality(quotient.deps[Current]) > 1
    /\ Prepare(Current)
    /\ pending' = Tail(pending)
    /\ UNCHANGED <<work, quotient, stage, order>>

----------------------------------------------------------------------------
(* prepare_join_branches: merge_branch_recursively from each ancestor      *)

Preparing == branch # NoBranch

NextAncestor ==
    /\ Preparing /\ branch.at = None /\ branch.todo # <<>>
    /\ branch' = [branch EXCEPT !.todo = Tail(@), !.merged = "no",
                                !.at = IF Head(branch.todo) \in Ids THEN Head(branch.todo)
                                       ELSE None]
    /\ UNCHANGED <<work, quotient, pending, stage, order>>

Branches(ancestor) ==
    {m \in quotient.dependents[ancestor] :
        Cardinality(quotient.deps[m]) = 1 /\ Less(m, ancestor)}

MergeBranch ==
    /\ Preparing /\ branch.at # None /\ branch.merged # "upward"
    /\ Branches(branch.at) # {}
    /\ Merge(branch.at, Lowest(Branches(branch.at)))
    /\ branch' = [branch EXCEPT !.at = Fresh, !.merged = "branch"]
    /\ UNCHANGED <<work, pending, stage, order>>

BranchesMerged ==
    branch.at # None /\ (branch.merged = "upward" \/ Branches(branch.at) = {})

(* merge_upward_recursively, when a branch has been merged.                *)
MergeUpward ==
    /\ Preparing /\ BranchesMerged /\ branch.merged # "no" /\ FollowsParent(branch.at)
    /\ Merge(Parent(branch.at), branch.at)
    /\ branch' = [branch EXCEPT !.at = Fresh, !.merged = "upward"]
    /\ UNCHANGED <<work, pending, stage, order>>

(* The join may have been merged itself: then the result is next.          *)
EndBranch ==
    /\ Preparing /\ BranchesMerged /\ (branch.merged = "no" \/ ~FollowsParent(branch.at))
    /\ IF branch.join \in Ids
         THEN branch' = [branch EXCEPT !.at = None] /\ UNCHANGED pending
         ELSE /\ branch' = NoBranch
              /\ pending' = <<branch.at>> \o pending
    /\ UNCHANGED <<work, quotient, stage, order>>

BranchesPrepared == Preparing /\ branch.at = None /\ branch.todo = <<>>

(* Mutant: others may depend on the parent too.                            *)
JoinParentsShared(join) == {m \in quotient.deps[join] : ~HasPeers(m) /\ Less(join, m)}

(* The parents that nobody else needs.                                     *)
JoinParents(join) ==
    {m \in quotient.deps[join] :
        quotient.dependents[m] = {join} /\ ~HasPeers(m) /\ Less(join, m)}

(* The join goes with the parent of the highest rank.                      *)
MergeJoin ==
    /\ stage = "merging" /\ BranchesPrepared
    /\ branch' = NoBranch
    /\ LET parents == JoinParents(branch.join)
       IN  IF parents = {} THEN UNCHANGED <<quotient, pending>>
           ELSE /\ Merge(Highest(parents), branch.join)
                /\ pending' = <<Fresh>> \o pending
    /\ UNCHANGED <<work, stage, order>>

----------------------------------------------------------------------------
(* The end: the virtual join is prepared and removed, the macros ordered   *)

PrepareVirtual ==
    /\ stage = "merging" /\ pending = <<>> /\ branch = NoBranch
    /\ stage' = "virtual"
    /\ IF VirtualJoin \in Ids THEN Prepare(VirtualJoin) ELSE UNCHANGED branch
    /\ UNCHANGED <<work, quotient, pending, order>>

Without(f) == [m \in Ids \ {VirtualJoin} |-> f[m]]

RemoveVirtual ==
    /\ stage = "virtual" /\ (branch = NoBranch \/ BranchesPrepared)
    /\ quotient' = [macros |-> Without(quotient.macros), deps |-> Without(quotient.deps),
                    dependents |-> [m \in Ids \ {VirtualJoin} |->
                                       quotient.dependents[m] \ {VirtualJoin}]]
    /\ branch' = NoBranch /\ stage' = "ordering"
    /\ UNCHANGED <<work, pending, order>>

Executed == {m \in Ids : quotient.macros[m].edges[1] \in Range(order)}
Ready == {m \in Ids \ Executed : quotient.deps[m] \subseteq Executed}

(* The queue of what is ready does not say which of equal ranks is first.  *)
Emit ==
    /\ stage = "ordering" /\ Len(order) < Len(work.edges)
    /\ IF Ready = {} THEN stage' = "unresolved" /\ UNCHANGED order
       ELSE \E m \in Ready :
                /\ \A n \in Ready : ~Less(n, m)
                /\ order' = order \o quotient.macros[m].edges
                /\ UNCHANGED stage
    /\ UNCHANGED <<work, quotient, pending, branch>>

Solved == stage = "ordering" /\ Len(order) = Len(work.edges)

SolverStep ==
    \/ PassOver \/ MergeLinear \/ PrepareJoin
    \/ NextAncestor \/ MergeBranch \/ MergeUpward \/ EndBranch \/ MergeJoin
    \/ PrepareVirtual \/ RemoveVirtual \/ Emit

----------------------------------------------------------------------------
(* Properties.                                                             *)

Precedes(d, e) == Range(work.edges[d].writes) \cap Range(work.edges[e].reads) # {}

(* Merging keeps the graph: every edge is in one macro, and after those of *)
(* its dependencies that are in the same; the two maps of dependencies say *)
(* what the edges do; and the macros are not circular, so that an order is *)
(* always found ("Graph has unresolved macro dependencies" is not thrown). *)
MacrosOrdered ==
    stage # "idle" =>
    /\ stage # "unresolved"
    /\ \A e \in Edges : Cardinality({m \in Ids : e \in Range(quotient.macros[m].edges)}) = 1
    /\ \A m \in Ids : \A i, j \in DOMAIN quotient.macros[m].edges :
           Precedes(quotient.macros[m].edges[i], quotient.macros[m].edges[j]) => i < j
    /\ \A m \in Ids \ {VirtualJoin} :
           quotient.deps[m] = {n \in Ids \ {m} : \E d \in Range(quotient.macros[n].edges),
                                  e \in Range(quotient.macros[m].edges) : Precedes(d, e)}
    /\ \A m, n \in Ids : m \in quotient.deps[n] <=> n \in quotient.dependents[m]
    /\ \A S \in SUBSET Ids : S # {} => \E m \in S : quotient.deps[m] \cap S = {}
=============================================================================
