------------------------------ MODULE StaticReach ------------------------------
(***************************************************************************)
(* dfs of parse_static_reachable_funcs.py: a worklist walk over the static *)
(* call graph of glibc from the routines a benchmark called, which counts  *)
(* the nodes, edges, depth and missing entries of what they can reach.     *)
(***************************************************************************)
EXTENDS Integers, Sequences, FiniteSets

CONSTANTS
    Func,            \* names of routines
    MaxCallees,      \* bound: callees of one routine
    MaxRoots,        \* bound: routines called by the benchmark
    NonDivergent     \* non_divFunctionsList

ASSUME ReachAssumption ==
    /\ IsFiniteSet(Func) /\ NonDivergent \subseteq Func
    /\ MaxCallees \in Nat /\ MaxRoots \in Nat

VARIABLES
    roots,           \* the argument of dfs, without the depths
    static_cg,       \* routine -> its callees, for the routines the file lists
    worklist, visited, max_depth, num_edges, num_non_divergent, key_errors

graph == <<roots, static_cg>>
reachVars == <<graph, worklist, visited, max_depth, num_edges, num_non_divergent, key_errors>>

Lists(n) == UNION {[1 .. k -> Func] : k \in 0 .. n}

\* Every line of staticReachableFuncs has at least one callee, none twice.
CalleeLists ==
    {s \in Lists(MaxCallees) : s # <<>> /\ \A i, j \in 1 .. Len(s) : s[i] = s[j] => i = j}

AtDepth(s, d) == [i \in 1 .. Len(s) |-> <<s[i], d>>]

InitReach ==
    /\ roots \in Lists(MaxRoots)
    /\ \E listed \in SUBSET Func : static_cg \in [listed -> CalleeLists]
    /\ worklist = AtDepth(roots, 1)
    /\ visited = {} /\ max_depth = 0
    /\ num_edges = 0 /\ num_non_divergent = 0 /\ key_errors = 0

Top == worklist[Len(worklist)][1]
TopDepth == worklist[Len(worklist)][2]
Rest == SubSeq(worklist, 1, Len(worklist) - 1)
Deeper(d) == IF d > max_depth THEN d ELSE max_depth

\* A routine met before: only its depth counts.
Revisit ==
    /\ worklist # <<>> /\ Top \in visited
    /\ worklist' = Rest
    /\ max_depth' = Deeper(TopDepth)
    /\ UNCHANGED <<graph, visited, num_edges, num_non_divergent, key_errors>>

\* A routine met for the first time; the parameters say what is then visited,
\* and at which depth its callees go to the list.
VisitAs(visitedNow, depth) ==
    /\ worklist # <<>> /\ Top \notin visited
    /\ max_depth' = Deeper(TopDepth)
    /\ visited' = visitedNow
    /\ num_non_divergent' = num_non_divergent + (IF Top \in NonDivergent THEN 1 ELSE 0)
    /\ IF Top \in DOMAIN static_cg
       THEN /\ num_edges' = num_edges + Len(static_cg[Top])
            /\ worklist' = Rest \o AtDepth(static_cg[Top], depth)
            /\ UNCHANGED key_errors
       ELSE /\ key_errors' = key_errors + 1
            /\ worklist' = Rest
            /\ UNCHANGED num_edges
    /\ UNCHANGED graph

\* Faulty variants: the depth of the callees is their caller's; a routine
\* missing from the graph is not kept as visited.
VisitSameDepth == VisitAs(visited \union {Top}, TopDepth)
VisitListedOnly == VisitAs(visited \union ({Top} \intersect DOMAIN static_cg), TopDepth + 1)

Visit == VisitAs(visited \union {Top}, TopDepth + 1)

NextReach == Revisit \/ Visit

ReachSpec == InitReach /\ [][NextReach]_reachVars
--------------------------------------------------------------------------------
\* The type of every variable.
ReachTypeOK ==
    /\ roots \in Seq(Func)
    /\ DOMAIN static_cg \subseteq Func /\ static_cg \in [DOMAIN static_cg -> Seq(Func)]
    /\ worklist \in Seq(Func \X Nat)
    /\ visited \subseteq Func
    /\ max_depth \in Nat /\ num_edges \in Nat
    /\ num_non_divergent \in Nat /\ key_errors \in Nat

InList(s) == {s[i] : i \in 1 .. Len(s)}
Callees(f) == IF f \in DOMAIN static_cg THEN InList(static_cg[f]) ELSE {}
Closed(S) == \A f \in S : Callees(f) \subseteq S

\* When the walk ends it has visited exactly what the benchmark can reach: the
\* smallest set with the routines it called that is closed under calls.
VisitsReachable ==
    worklist = <<>> =>
        /\ InList(roots) \subseteq visited /\ Closed(visited)
        /\ \A S \in SUBSET Func : InList(roots) \subseteq S /\ Closed(S) => visited \subseteq S

\* At every moment each routine visited is counted once, with all its edges.
CountsGraph ==
    /\ num_edges = Cardinality(UNION {{f} \X (1 .. Len(static_cg[f])) :
                                          f \in visited \intersect DOMAIN static_cg})
    /\ key_errors = Cardinality(visited \ DOMAIN static_cg)
    /\ num_non_divergent = Cardinality(visited \intersect NonDivergent)

\* f is at the end of a chain of n calls from a routine the benchmark called.
EndsChain(f, n) ==
    \E p \in [0 .. n -> Func] :
        /\ p[0] \in InList(roots) /\ p[n] = f
        /\ \A i \in 1 .. n : p[i] \in Callees(p[i - 1])

\* The depth reported depends on the order of the visits, but it is never less
\* than the longest of the shortest call chains (a routine at the end of n
\* calls has depth n + 1), nor more than a chain through all the routines
\* reached and one call back.
DepthBounded ==
    worklist = <<>> =>
        /\ \A f \in visited : \E n \in 0 .. max_depth - 1 : EndsChain(f, n)
        /\ max_depth <= Cardinality(visited) + 1
================================================================================
