--------------------------- MODULE StaticReachProofs ---------------------------
(***************************************************************************)
(* The walk over the static call graph visits what the benchmark reaches   *)
(* and counts it once, for every graph and every list of routines.         *)
(***************************************************************************)
EXTENDS StaticReach, SequenceTheorems, FiniteSetTheorems, TLAPS

\* The routines, and the entries, of a worklist.
Names(w) == {w[i][1] : i \in 1 .. Len(w)}
Entries(w) == {w[i] : i \in 1 .. Len(w)}

\* Popping the last entry of a worklist leaves the others.
LEMMA PopNames ==
    ASSUME NEW w \in Seq(Func \X Nat), w # <<>>
    PROVE  /\ SubSeq(w, 1, Len(w) - 1) \in Seq(Func \X Nat)
           /\ w[Len(w)][1] \in Func /\ w[Len(w)][2] \in Nat
           /\ Names(w) = Names(SubSeq(w, 1, Len(w) - 1)) \union {w[Len(w)][1]}
           /\ Entries(SubSeq(w, 1, Len(w) - 1)) \subseteq Entries(w)
           /\ w[Len(w)] \in Entries(w)
<1> DEFINE n == Len(w) - 1
<1>1. Len(w) \in Nat /\ Len(w) > 0 /\ \A i \in 1 .. Len(w) : w[i] \in Func \X Nat
  BY EmptySeq, LenProperties
<1>2. w[Len(w)] \in Func \X Nat
  BY <1>1
<1>3. /\ SubSeq(w, 1, n) \in Seq(Func \X Nat)
      /\ Len(SubSeq(w, 1, n)) = IF 1 <= n THEN n - 1 + 1 ELSE 0
      /\ \A i \in 1 .. n - 1 + 1 : SubSeq(w, 1, n)[i] = w[1 + i - 1]
  <2>1. n \in Int /\ 1 \in Int
    BY <1>1
  <2>2. \A i \in 1 .. n : w[i] \in Func \X Nat
    BY <1>1
  <2> HIDE DEF n
  <2> QED BY <2>1, <2>2, SubSeqProperties
<1>4. /\ Len(SubSeq(w, 1, n)) = n /\ n \in Nat
      /\ \A i \in 1 .. n : SubSeq(w, 1, n)[i] = w[i]
  <2>1. n \in Nat
    BY <1>1
  <2> DEFINE v == SubSeq(w, 1, n)
  <2> HIDE DEF n, v
  <2>2. Len(v) = (IF 1 <= n THEN n - 1 + 1 ELSE 0) /\ \A i \in 1 .. n - 1 + 1 : v[i] = w[1 + i - 1]
    BY <1>3 DEF v
  <2>3. \A i \in 1 .. n : i \in 1 .. n - 1 + 1 /\ 1 + i - 1 = i
    BY <2>1
  <2>4. Len(v) = n /\ \A i \in 1 .. n : v[i] = w[i]
    BY <2>1, <2>2, <2>3
  <2> QED BY <2>1, <2>4 DEF v
<1>5. 1 .. Len(w) = (1 .. n) \union {Len(w)}
  BY <1>1
<1>6. Names(w) = Names(SubSeq(w, 1, n)) \union {w[Len(w)][1]}
  <2> DEFINE v == SubSeq(w, 1, n)
  <2>1. Len(v) = n /\ \A i \in 1 .. n : v[i] = w[i]
    BY <1>4
  <2> HIDE DEF n, v
  <2>2. Names(v) = {w[i][1] : i \in 1 .. n}
    BY <2>1 DEF Names
  <2>3. Names(w) = {w[i][1] : i \in 1 .. n} \union {w[Len(w)][1]}
    BY <1>5 DEF Names
  <2> QED BY <2>2, <2>3 DEF v
<1>7. Entries(SubSeq(w, 1, n)) \subseteq Entries(w) /\ w[Len(w)] \in Entries(w)
  <2> DEFINE v == SubSeq(w, 1, n)
  <2>1. Len(v) = n /\ \A i \in 1 .. n : v[i] = w[i]
    BY <1>4
  <2> HIDE DEF n, v
  <2>2. Entries(v) = {w[i] : i \in 1 .. n}
    BY <2>1 DEF Entries
  <2> QED BY <1>5, <2>2 DEF Entries, v
<1> QED BY <1>2, <1>3, <1>6, <1>7

\* Pushing the callees of a routine adds their names.
LEMMA PushNames ==
    ASSUME NEW w \in Seq(Func \X Nat), NEW s \in Seq(Func), NEW d \in Nat
    PROVE  /\ w \o AtDepth(s, d) \in Seq(Func \X Nat)
           /\ Names(w \o AtDepth(s, d)) = Names(w) \union InList(s)
           /\ Entries(w \o AtDepth(s, d)) \subseteq Entries(w) \union {<<f, d>> : f \in InList(s)}
<1> DEFINE t == AtDepth(s, d)
<1>1. Len(w) \in Nat /\ Len(s) \in Nat /\ \A i \in 1 .. Len(s) : s[i] \in Func
  BY LenProperties
<1>2. t \in [1 .. Len(s) -> Func \X Nat]
  BY <1>1 DEF AtDepth
<1>3. /\ t \in Seq(Func \X Nat) /\ Len(t) = Len(s)
      /\ \A i \in 1 .. Len(s) : t[i][1] = s[i] /\ t[i] = <<s[i], d>>
  <2>1. t \in Seq(Func \X Nat)
    BY <1>1, <1>2, SeqDef
  <2>2. DOMAIN t = 1 .. Len(s) /\ DOMAIN t = 1 .. Len(t) /\ Len(t) \in Nat
    BY <1>2, <2>1, LenProperties
  <2>3. Len(t) = Len(s)
    <3> HIDE DEF t
    <3> QED BY <1>1, <2>2
  <2>4. \A i \in 1 .. Len(s) : t[i][1] = s[i] /\ t[i] = <<s[i], d>>
    BY DEF AtDepth
  <2> QED BY <2>1, <2>3, <2>4
<1> HIDE DEF t
<1>4. /\ w \o t \in Seq(Func \X Nat) /\ Len(w \o t) = Len(w) + Len(s)
      /\ \A i \in 1 .. Len(w) + Len(s) :
            (w \o t)[i] = IF i <= Len(w) THEN w[i] ELSE t[i - Len(w)]
  <2>1. /\ w \o t \in Seq(Func \X Nat) /\ Len(w \o t) = Len(w) + Len(t)
        /\ \A i \in 1 .. Len(w) + Len(t) :
              (w \o t)[i] = IF i <= Len(w) THEN w[i] ELSE t[i - Len(w)]
    <3>1. t \in Seq(Func \X Nat)
      BY <1>3
    <3> QED BY <3>1, ConcatProperties
  <2> QED BY <1>3, <2>1
<1>5. \A x : x \in Names(w \o t) => x \in Names(w) \union InList(s)
  <2> SUFFICES ASSUME NEW i \in 1 .. Len(w) + Len(s)
               PROVE  (w \o t)[i][1] \in Names(w) \union InList(s)
    BY <1>4 DEF Names
  <2>1. CASE i <= Len(w)
    BY <1>1, <1>4, <2>1 DEF Names
  <2>2. CASE ~ (i <= Len(w))
    <3>1. i - Len(w) \in 1 .. Len(s)
      BY <1>1, <2>2
    <3> QED BY <1>3, <1>4, <2>2, <3>1 DEF InList
  <2> QED BY <2>1, <2>2
<1>6. \A x \in Names(w) : x \in Names(w \o t)
  <2> SUFFICES ASSUME NEW i \in 1 .. Len(w)
               PROVE  w[i][1] \in Names(w \o t)
    BY DEF Names
  <2>1. i \in 1 .. Len(w) + Len(s) /\ i <= Len(w)
    BY <1>1
  <2> QED BY <1>4, <2>1 DEF Names
<1>7. \A x \in InList(s) : x \in Names(w \o t)
  <2> SUFFICES ASSUME NEW i \in 1 .. Len(s)
               PROVE  s[i] \in Names(w \o t)
    BY DEF InList
  <2>1. /\ Len(w) + i \in 1 .. Len(w) + Len(s) /\ ~ (Len(w) + i <= Len(w))
        /\ Len(w) + i - Len(w) = i
    BY <1>1
  <2>2. (w \o t)[Len(w) + i][1] = s[i]
    BY <1>3, <1>4, <2>1
  <2> QED BY <1>4, <2>1, <2>2 DEF Names
<1>8. Names(w \o t) = Names(w) \union InList(s)
  BY <1>5, <1>6, <1>7
<1>9. \A x \in Entries(w \o t) : x \in Entries(w) \union {<<f, d>> : f \in InList(s)}
  <2> SUFFICES ASSUME NEW i \in 1 .. Len(w) + Len(s)
               PROVE  (w \o t)[i] \in Entries(w) \union {<<f, d>> : f \in InList(s)}
    BY <1>4 DEF Entries
  <2>1. CASE i <= Len(w)
    BY <1>1, <1>4, <2>1 DEF Entries
  <2>2. CASE ~ (i <= Len(w))
    <3>1. i - Len(w) \in 1 .. Len(s)
      BY <1>1, <2>2
    <3>2. (w \o t)[i] = <<s[i - Len(w)], d>> /\ s[i - Len(w)] \in InList(s)
      BY <1>3, <1>4, <2>2, <3>1 DEF InList
    <3> QED BY <3>2
  <2> QED BY <2>1, <2>2
<1> QED BY <1>4, <1>8, <1>9 DEF t

\* What waits is reachable, what was visited has its callees visited or
\* waiting, and what the benchmark called is one of both.
Sound == \A S \in SUBSET Func :
            InList(roots) \subseteq S /\ Closed(S) => visited \union Names(worklist) \subseteq S
Complete ==
    /\ InList(roots) \subseteq visited \union Names(worklist)
    /\ \A f \in visited : Callees(f) \subseteq visited \union Names(worklist)

ReachInv == ReachTypeOK /\ Sound /\ Complete /\ CountsGraph

Edges(S) == UNION {{f} \X (1 .. Len(static_cg[f])) : f \in S \intersect DOMAIN static_cg}

\* The edges of a set of routines are finitely many; those of one more routine
\* are as many as it has callees.
LEMMA EdgesOfOneMore ==
    ASSUME ReachTypeOK, NEW S \in SUBSET Func, NEW f \in DOMAIN static_cg, f \notin S
    PROVE  /\ IsFiniteSet(Edges(S)) /\ IsFiniteSet(Edges(S \union {f}))
           /\ Cardinality(Edges(S \union {f})) = Cardinality(Edges(S)) + Len(static_cg[f])
<1> DEFINE Of(g) == {g} \X (1 .. Len(static_cg[g]))
<1>1. \A g \in DOMAIN static_cg : Len(static_cg[g]) \in Nat
  BY LenProperties DEF ReachTypeOK
<1>2. \A g \in DOMAIN static_cg : IsFiniteSet(Of(g)) /\ Cardinality(Of(g)) = Len(static_cg[g])
  <2> SUFFICES ASSUME NEW g \in DOMAIN static_cg
               PROVE  IsFiniteSet(Of(g)) /\ Cardinality(Of(g)) = Len(static_cg[g])
    OBVIOUS
  <2> DEFINE n == Len(static_cg[g])
  <2>1. n \in Nat /\ n \in Int /\ 1 \in Int
    BY <1>1
  <2> HIDE DEF n
  <2>2. IsFiniteSet(1 .. n) /\ Cardinality(1 .. n) = n
    BY <2>1, FS_Interval
  <2>3. IsFiniteSet({g}) /\ Cardinality({g}) = 1
    BY FS_Singleton
  <2>4. /\ IsFiniteSet({g} \X (1 .. n))
        /\ Cardinality({g} \X (1 .. n)) = Cardinality({g}) * Cardinality(1 .. n)
    BY <2>2, <2>3, FS_Product
  <2> QED BY <2>1, <2>2, <2>3, <2>4 DEF n
<1>3. IsFiniteSet(S \intersect DOMAIN static_cg)
  BY FS_Subset, ReachAssumption
<1>4. IsFiniteSet(Edges(S))
  <2> DEFINE T == S \intersect DOMAIN static_cg
  <2> DEFINE All == {Of(g) : g \in T}
  <2>1. IsFiniteSet(All)
    <3> DEFINE of == [g \in T |-> Of(g)]
    <3>1. of \in Surjection(T, All)
      BY DEF Surjection
    <3> HIDE DEF of, All
    <3> QED BY <1>3, <3>1, FS_Surjection
  <2>2. \A E \in All : IsFiniteSet(E)
    BY <1>2
  <2>3. IsFiniteSet(UNION All)
    <3> HIDE DEF All
    <3> QED BY <2>1, <2>2, FS_UNION
  <2> QED BY <2>3 DEF Edges
<1>5. Edges(S \union {f}) = Edges(S) \union Of(f)
  BY DEF Edges
<1>6. Edges(S) \intersect Of(f) = {}
  BY DEF Edges
<1>7. IsFiniteSet(Edges(S) \union Of(f)) /\
      Cardinality(Edges(S) \union Of(f)) =
          Cardinality(Edges(S)) + Cardinality(Of(f)) - Cardinality(Edges(S) \intersect Of(f))
  <2> HIDE DEF Of
  <2> QED BY <1>2, <1>4, FS_Union
<1>8. Cardinality({}) = 0 /\ Cardinality(Edges(S)) \in Nat
  BY <1>4, FS_EmptySet, FS_CardinalityType
<1>9. Cardinality(Of(f)) = Len(static_cg[f]) /\ Len(static_cg[f]) \in Nat
  BY <1>1, <1>2
<1>10. IsFiniteSet(Edges(S \union {f}))
  BY <1>5, <1>7
<1>11. Cardinality(Edges(S \union {f})) =
          Cardinality(Edges(S)) + Cardinality(Of(f)) - Cardinality({})
  BY <1>5, <1>6, <1>7
<1> HIDE DEF Of
<1> QED BY <1>4, <1>8, <1>9, <1>10, <1>11

\* Both kinds of step take the last entry of the worklist.
LEMMA Taken ==
    ASSUME ReachInv, worklist # <<>>
    PROVE  /\ Rest \in Seq(Func \X Nat) /\ Top \in Func /\ TopDepth \in Nat
           /\ Names(worklist) = Names(Rest) \union {Top}
           /\ Deeper(TopDepth) \in Nat
<1>1. worklist \in Seq(Func \X Nat) /\ max_depth \in Nat
  BY DEF ReachInv, ReachTypeOK
<1>2. /\ Rest \in Seq(Func \X Nat) /\ Top \in Func /\ TopDepth \in Nat
      /\ Names(worklist) = Names(Rest) \union {Top}
  BY <1>1, PopNames DEF Rest, Top, TopDepth
<1>3. Deeper(TopDepth) \in Nat
  BY <1>1, <1>2 DEF Deeper
<1> QED BY <1>2, <1>3

LEMMA ReachInit == InitReach => ReachInv
<1> SUFFICES ASSUME InitReach PROVE ReachInv
  OBVIOUS
<1>1. roots \in Seq(Func)
  <2>1. PICK k \in 0 .. MaxRoots : roots \in [1 .. k -> Func]
    BY DEF InitReach, Lists
  <2> QED BY <2>1, SeqDef, ReachAssumption
<1>2. PICK listed \in SUBSET Func : static_cg \in [listed -> CalleeLists]
  BY DEF InitReach
<1>3. CalleeLists \subseteq Seq(Func)
  <2>1. Lists(MaxCallees) \subseteq Seq(Func)
    <3> SUFFICES ASSUME NEW k \in 0 .. MaxCallees, NEW s \in [1 .. k -> Func]
                 PROVE  s \in Seq(Func)
      BY DEF Lists
    <3> QED BY SeqDef, ReachAssumption
  <2> QED BY <2>1 DEF CalleeLists
<1>4. DOMAIN static_cg \subseteq Func /\ static_cg \in [DOMAIN static_cg -> Seq(Func)]
  BY <1>2, <1>3
<1>5. <<>> \in Seq(Func \X Nat) /\ Names(<<>>) = {} /\ 1 \in Nat
  BY EmptySeq DEF Names
<1>6. AtDepth(roots, 1) = <<>> \o AtDepth(roots, 1) /\ AtDepth(roots, 1) \in Seq(Func \X Nat)
  <2>1. AtDepth(roots, 1) \in [1 .. Len(roots) -> Func \X Nat] /\ Len(roots) \in Nat
    BY <1>1, LenProperties DEF AtDepth
  <2>2. AtDepth(roots, 1) \in Seq(Func \X Nat)
    BY <2>1, SeqDef
  <2> QED BY <2>2, ConcatEmptySeq
<1>7. worklist \in Seq(Func \X Nat) /\ Names(worklist) = InList(roots)
  <2>1. worklist = <<>> \o AtDepth(roots, 1)
    BY <1>6 DEF InitReach
  <2>2. /\ <<>> \o AtDepth(roots, 1) \in Seq(Func \X Nat)
        /\ Names(<<>> \o AtDepth(roots, 1)) = Names(<<>>) \union InList(roots)
    BY <1>1, <1>5, PushNames
  <2> QED BY <1>5, <2>1, <2>2
<1>8. ReachTypeOK
  BY <1>1, <1>4, <1>7 DEF ReachTypeOK, InitReach
<1>9. visited = {}
  BY DEF InitReach
<1>10. Sound /\ Complete
  BY <1>7, <1>9 DEF Sound, Complete
<1>11. CountsGraph
  BY <1>9, FS_EmptySet DEF CountsGraph, InitReach
<1> QED BY <1>8, <1>10, <1>11 DEF ReachInv

LEMMA RevisitKeepsInv ==
    ASSUME ReachInv, Revisit
    PROVE  ReachInv'
<1>1. worklist # <<>> /\ Top \in visited /\ worklist' = Rest /\ max_depth' = Deeper(TopDepth)
  BY DEF Revisit
<1>2. UNCHANGED <<roots, static_cg, visited, num_edges, num_non_divergent, key_errors>>
  BY DEF Revisit, graph
<1>3. visited \union Names(worklist') = visited \union Names(worklist)
  BY <1>1, Taken
<1>4. ReachTypeOK'
  BY <1>1, <1>2, Taken DEF ReachInv, ReachTypeOK
<1>5. Sound'
  <2>1. \A S : Closed(S)' <=> Closed(S)
    BY <1>2 DEF Closed, Callees, InList
  <2>2. InList(roots)' = InList(roots) /\ Names(worklist)' = Names(worklist')
    BY <1>2 DEF InList, Names
  <2> QED BY <1>2, <1>3, <2>1, <2>2 DEF ReachInv, Sound
<1>6. Complete'
  <2>1. /\ InList(roots)' = InList(roots) /\ Names(worklist)' = Names(worklist')
        /\ \A f : Callees(f)' = Callees(f)
    BY <1>2 DEF InList, Names, Callees
  <2> QED BY <1>2, <1>3, <2>1 DEF ReachInv, Complete
<1>7. CountsGraph'
  BY <1>2 DEF ReachInv, CountsGraph
<1> QED BY <1>4, <1>5, <1>6, <1>7 DEF ReachInv

\* What a visit puts on the worklist: the callees of the routine.
LEMMA VisitPushes ==
    ASSUME ReachInv, Visit
    PROVE  /\ worklist' \in Seq(Func \X Nat)
           /\ Names(worklist') = Names(Rest) \union Callees(Top)
<1>1. worklist # <<>>
  BY DEF Visit, VisitAs
<1>2. Rest \in Seq(Func \X Nat) /\ TopDepth + 1 \in Nat
  BY <1>1, Taken
<1>3. CASE Top \in DOMAIN static_cg
  <2>1. static_cg[Top] \in Seq(Func)
    BY <1>3 DEF ReachInv, ReachTypeOK
  <2>2. worklist' = Rest \o AtDepth(static_cg[Top], TopDepth + 1)
    BY <1>3 DEF Visit, VisitAs
  <2> QED BY <1>2, <1>3, <2>1, <2>2, PushNames DEF Callees
<1>4. CASE Top \notin DOMAIN static_cg
  BY <1>2, <1>4 DEF Visit, VisitAs, Callees
<1> QED BY <1>3, <1>4

LEMMA VisitCounts ==
    ASSUME ReachInv, Visit
    PROVE  CountsGraph'
<1>1. /\ Top \in Func /\ Top \notin visited /\ visited' = visited \union {Top}
      /\ UNCHANGED static_cg
      /\ num_non_divergent' = num_non_divergent + (IF Top \in NonDivergent THEN 1 ELSE 0)
  BY Taken DEF Visit, VisitAs, graph
<1>2. /\ num_edges = Cardinality(Edges(visited))
      /\ key_errors = Cardinality(visited \ DOMAIN static_cg)
      /\ num_non_divergent = Cardinality(visited \intersect NonDivergent)
  BY DEF ReachInv, CountsGraph, Edges
<1>3. visited \subseteq Func /\ num_edges \in Nat /\ key_errors \in Nat /\ num_non_divergent \in Nat
  BY DEF ReachInv, ReachTypeOK
<1>4. /\ IsFiniteSet(visited \ DOMAIN static_cg)
      /\ IsFiniteSet(visited \intersect NonDivergent)
  BY <1>3, FS_Subset, ReachAssumption
<1>5. num_non_divergent' = Cardinality(visited' \intersect NonDivergent)
  <2>1. CASE Top \in NonDivergent
    <3>1. /\ visited' \intersect NonDivergent = (visited \intersect NonDivergent) \union {Top}
          /\ Top \notin visited \intersect NonDivergent
      BY <1>1, <2>1
    <3> QED BY <1>1, <1>2, <1>4, <2>1, <3>1, FS_AddElement
  <2>2. CASE Top \notin NonDivergent
    <3>1. visited' \intersect NonDivergent = visited \intersect NonDivergent
      BY <1>1, <2>2
    <3> QED BY <1>1, <1>2, <1>3, <2>2, <3>1
  <2> QED BY <2>1, <2>2
<1>6. /\ num_edges' = Cardinality(Edges(visited'))
      /\ key_errors' = Cardinality(visited' \ DOMAIN static_cg)
  <2>1. CASE Top \in DOMAIN static_cg
    <3>1. /\ visited' \ DOMAIN static_cg = visited \ DOMAIN static_cg
          /\ key_errors' = key_errors
          /\ num_edges' = num_edges + Len(static_cg[Top])
      BY <1>1, <2>1 DEF Visit, VisitAs
    <3>2. Cardinality(Edges(visited \union {Top})) = Cardinality(Edges(visited)) + Len(static_cg[Top])
      BY <1>1, <1>3, <2>1, EdgesOfOneMore DEF ReachInv
    <3> QED BY <1>1, <1>2, <3>1, <3>2
  <2>2. CASE Top \notin DOMAIN static_cg
    <3>1. /\ visited' \ DOMAIN static_cg = (visited \ DOMAIN static_cg) \union {Top}
          /\ Top \notin visited \ DOMAIN static_cg
          /\ key_errors' = key_errors + 1 /\ num_edges' = num_edges
      BY <1>1, <2>2 DEF Visit, VisitAs
    <3>2. Edges(visited') = Edges(visited)
      BY <1>1, <2>2 DEF Edges
    <3>3. Cardinality(visited' \ DOMAIN static_cg) = key_errors + 1
      BY <1>2, <1>4, <3>1, FS_AddElement
    <3> QED BY <1>2, <3>1, <3>2, <3>3
  <2> QED BY <2>1, <2>2
<1>7. Edges(visited)' = Edges(visited')
  BY <1>1 DEF Edges
<1> QED BY <1>1, <1>5, <1>6, <1>7 DEF CountsGraph, Edges

LEMMA VisitKeepsInv ==
    ASSUME ReachInv, Visit
    PROVE  ReachInv'
<1>1. /\ worklist # <<>> /\ visited' = visited \union {Top}
      /\ UNCHANGED <<roots, static_cg>> /\ max_depth' = Deeper(TopDepth)
  BY DEF Visit, VisitAs, graph
<1>2. /\ Rest \in Seq(Func \X Nat) /\ Top \in Func
      /\ Names(worklist) = Names(Rest) \union {Top} /\ max_depth' \in Nat
  BY <1>1, Taken
<1>3. /\ worklist' \in Seq(Func \X Nat)
      /\ Names(worklist') = Names(Rest) \union Callees(Top)
  BY VisitPushes
<1>4. /\ InList(roots)' = InList(roots) /\ Names(worklist)' = Names(worklist')
      /\ \A f : Callees(f)' = Callees(f)
      /\ \A S : Closed(S)' <=> Closed(S)
  BY <1>1 DEF InList, Names, Callees, Closed
<1>5. CountsGraph'
  BY VisitCounts
<1>6. ReachTypeOK'
  <2>1. num_non_divergent' \in Nat /\ key_errors' \in Nat /\ num_edges' \in Nat
    <3>1. num_non_divergent \in Nat /\ key_errors \in Nat /\ num_edges \in Nat
      BY DEF ReachInv, ReachTypeOK
    <3>2. \A f \in DOMAIN static_cg : Len(static_cg[f]) \in Nat
      BY LenProperties DEF ReachInv, ReachTypeOK
    <3>3. num_non_divergent' \in Nat
      BY <3>1 DEF Visit, VisitAs
    <3>4. CASE Top \in DOMAIN static_cg
      BY <3>1, <3>2, <3>3, <3>4 DEF Visit, VisitAs
    <3>5. CASE Top \notin DOMAIN static_cg
      BY <3>1, <3>3, <3>5 DEF Visit, VisitAs
    <3> QED BY <3>4, <3>5
  <2> QED BY <1>1, <1>2, <1>3, <2>1 DEF ReachInv, ReachTypeOK
<1>7. Sound'
  <2> SUFFICES ASSUME NEW S \in SUBSET Func, InList(roots) \subseteq S, Closed(S)
               PROVE  visited' \union Names(worklist') \subseteq S
    BY <1>4 DEF Sound
  <2>1. visited \union Names(worklist) \subseteq S
    BY DEF ReachInv, Sound
  <2>2. Top \in S
    BY <1>2, <2>1
  <2>3. Callees(Top) \subseteq S
    BY <2>2 DEF Closed
  <2> QED BY <1>1, <1>2, <1>3, <2>1, <2>2, <2>3
<1>8. Complete'
  <2>1. visited \union Names(worklist) \subseteq visited' \union Names(worklist')
    BY <1>1, <1>2, <1>3
  <2>2. Callees(Top) \subseteq visited' \union Names(worklist')
    BY <1>3
  <2> QED BY <1>1, <1>4, <2>1, <2>2 DEF ReachInv, Complete
<1> QED BY <1>5, <1>6, <1>7, <1>8 DEF ReachInv

LEMMA ReachStays == ReachSpec => []ReachInv
<1>1. ReachInv /\ [NextReach]_reachVars => ReachInv'
  <2> SUFFICES ASSUME ReachInv, [NextReach]_reachVars PROVE ReachInv'
    OBVIOUS
  <2>1. CASE Revisit
    BY <2>1, RevisitKeepsInv
  <2>2. CASE Visit
    BY <2>2, VisitKeepsInv
  <2>3. CASE UNCHANGED reachVars
    <3>1. UNCHANGED <<roots, static_cg, worklist, visited, max_depth, num_edges,
                      num_non_divergent, key_errors>>
      BY <2>3 DEF reachVars, graph
    <3>2. ReachTypeOK' /\ CountsGraph'
      BY <3>1 DEF ReachInv, ReachTypeOK, CountsGraph
    <3>3. Sound' /\ Complete'
      BY <3>1 DEF ReachInv, Sound, Complete, InList, Names, Callees, Closed
    <3> QED BY <3>2, <3>3 DEF ReachInv
  <2> QED BY <2>1, <2>2, <2>3 DEF NextReach
<1> QED BY <1>1, ReachInit, PTL DEF ReachSpec

\* The type invariant of the walk.
THEOREM ReachTypeCorrect == ReachSpec => []ReachTypeOK
<1>1. ReachInv => ReachTypeOK
  BY DEF ReachInv
<1> QED BY <1>1, ReachStays, PTL

\* The walk visits the least set of routines closed under calls that holds what
\* the benchmark called, whatever the graph.
THEOREM ReachCorrect == ReachSpec => []VisitsReachable
<1>1. ReachInv => VisitsReachable
  <2> SUFFICES ASSUME ReachInv, worklist = <<>>
               PROVE  /\ InList(roots) \subseteq visited /\ Closed(visited)
                      /\ \A S \in SUBSET Func :
                            InList(roots) \subseteq S /\ Closed(S) => visited \subseteq S
    BY DEF VisitsReachable
  <2>1. Names(worklist) = {}
    BY EmptySeq DEF Names
  <2> QED BY <2>1 DEF ReachInv, Sound, Complete, Closed
<1> QED BY <1>1, ReachStays, PTL

\* The counters of the walk count each visited routine and each of its edges once.
THEOREM CountsCorrect == ReachSpec => []CountsGraph
<1>1. ReachInv => CountsGraph
  BY DEF ReachInv
<1> QED BY <1>1, ReachStays, PTL

--------------------------------------------------------------------------------
(***************************************************************************)
(* The depth.                                                              *)
(***************************************************************************)

\* A routine called at the end of a chain is at the end of a longer one.
LEMMA ChainGrows ==
    ASSUME NEW f \in Func, NEW n \in Nat, EndsChain(f, n), NEW g \in Func, g \in Callees(f)
    PROVE  EndsChain(g, n + 1)
<1>1. PICK p \in [0 .. n -> Func] :
         /\ p[0] \in InList(roots) /\ p[n] = f
         /\ \A i \in 1 .. n : p[i] \in Callees(p[i - 1])
  BY DEF EndsChain
<1> DEFINE q == [i \in 0 .. n + 1 |-> IF i <= n THEN p[i] ELSE g]
<1>2. q \in [0 .. n + 1 -> Func]
  BY <1>1
<1>3. q[0] = p[0] /\ q[n + 1] = g
  OBVIOUS
<1>4. ASSUME NEW i \in 1 .. n + 1
      PROVE  q[i] \in Callees(q[i - 1])
  <2>1. CASE i <= n
    <3>1. q[i] = p[i] /\ q[i - 1] = p[i - 1] /\ i \in 1 .. n
      BY <2>1
    <3> HIDE DEF q
    <3> QED BY <1>1, <3>1
  <2>2. CASE i = n + 1
    <3>1. q[i] = g /\ q[i - 1] = p[n]
      BY <2>2
    <3> HIDE DEF q
    <3> QED BY <1>1, <3>1
  <2> QED BY <2>1, <2>2
<1> HIDE DEF q
<1> QED BY <1>1, <1>2, <1>3, <1>4 DEF EndsChain

\* What waits at depth d ends a chain of d - 1 calls, what was visited a chain
\* no longer than the depth so far; and no depth outgrows the routines visited.
DepthInv ==
    /\ \A e \in Entries(worklist) :
         /\ e[2] >= 1 /\ EndsChain(e[1], e[2] - 1)
         /\ e[2] <= Cardinality(visited) + 1
    /\ \A f \in visited : \E n \in 0 .. max_depth - 1 : EndsChain(f, n)
    /\ max_depth <= Cardinality(visited) + 1

LEMMA DepthInit == InitReach => DepthInv
<1> SUFFICES ASSUME InitReach PROVE DepthInv
  OBVIOUS
<1>1. roots \in Seq(Func) /\ visited = {} /\ max_depth = 0 /\ worklist = AtDepth(roots, 1)
  BY ReachInit DEF InitReach, ReachInv, ReachTypeOK
<1>2. Cardinality(visited) = 0
  BY <1>1, FS_EmptySet
<1>3. Entries(worklist) \subseteq {<<f, 1>> : f \in InList(roots)}
  <2>1. worklist \in [1 .. Len(roots) -> Func \X Nat] /\ Len(roots) \in Nat
    BY <1>1, LenProperties DEF AtDepth
  <2>2. worklist \in Seq(Func \X Nat) /\ DOMAIN worklist = 1 .. Len(roots)
    BY <2>1, SeqDef
  <2>3. DOMAIN worklist = 1 .. Len(worklist)
    BY <2>2, LenProperties
  <2>4. \A i \in 1 .. Len(roots) : worklist[i] = <<roots[i], 1>> /\ roots[i] \in InList(roots)
    BY <1>1 DEF AtDepth, InList
  <2> QED BY <2>2, <2>3, <2>4 DEF Entries
<1>4. \A f \in InList(roots) : EndsChain(f, 0)
  <2> SUFFICES ASSUME NEW f \in InList(roots) PROVE EndsChain(f, 0)
    OBVIOUS
  <2>1. f \in Func
    BY <1>1, LenProperties DEF InList
  <2> DEFINE p == [i \in 0 .. 0 |-> f]
  <2>2. p \in [0 .. 0 -> Func] /\ p[0] = f /\ 1 .. 0 = {}
    BY <2>1
  <2> HIDE DEF p
  <2> QED BY <2>2 DEF EndsChain
<1>5. \A e \in Entries(worklist) : e[2] = 1 /\ e[1] \in InList(roots)
  BY <1>3
<1> QED BY <1>1, <1>2, <1>4, <1>5 DEF DepthInv

\* Both kinds of step keep the depths bounded.
LEMMA DepthStep ==
    ASSUME ReachInv, ReachInv', DepthInv, NextReach
    PROVE  DepthInv'
<1>1. /\ worklist # <<>> /\ UNCHANGED graph /\ max_depth' = Deeper(TopDepth)
      /\ visited' = visited \union {Top}
  BY DEF NextReach, Revisit, Visit, VisitAs
<1>2. /\ visited \subseteq Func /\ visited' \subseteq Func /\ max_depth \in Nat
      /\ worklist \in Seq(Func \X Nat)
      /\ static_cg \in [DOMAIN static_cg -> Seq(Func)]
  BY DEF ReachInv, ReachTypeOK
<1>3. /\ Rest \in Seq(Func \X Nat) /\ Top \in Func /\ TopDepth \in Nat
      /\ Entries(Rest) \subseteq Entries(worklist)
      /\ worklist[Len(worklist)] \in Entries(worklist)
  BY <1>1, <1>2, PopNames DEF Rest, Top, TopDepth
<1>4. /\ TopDepth >= 1 /\ EndsChain(Top, TopDepth - 1)
      /\ TopDepth <= Cardinality(visited) + 1
  BY <1>3 DEF DepthInv, Top, TopDepth
<1>5. \A f, n : EndsChain(f, n)' <=> EndsChain(f, n)
  BY <1>1 DEF EndsChain, InList, Callees, graph
<1>6. /\ Cardinality(visited) \in Nat
      /\ Cardinality(visited') = Cardinality(visited) + (IF Top \in visited THEN 0 ELSE 1)
  <2>1. IsFiniteSet(visited)
    BY <1>2, FS_Subset, ReachAssumption
  <2> QED BY <1>1, <1>3, <2>1, FS_AddElement, FS_CardinalityType
<1>7. /\ max_depth' \in Nat /\ max_depth' >= max_depth /\ max_depth' >= TopDepth
      /\ max_depth' <= Cardinality(visited') + 1
  BY <1>1, <1>2, <1>3, <1>4, <1>6 DEF Deeper, DepthInv
<1>8. \A f \in visited' : \E n \in 0 .. max_depth' - 1 : EndsChain(f, n)
  <2>1. ASSUME NEW f \in visited
        PROVE  \E n \in 0 .. max_depth' - 1 : EndsChain(f, n)
    <3>1. PICK n \in 0 .. max_depth - 1 : EndsChain(f, n)
      BY DEF DepthInv
    <3>2. n \in 0 .. max_depth' - 1
      BY <1>2, <1>7, <3>1
    <3> QED BY <3>1, <3>2
  <2>2. TopDepth - 1 \in 0 .. max_depth' - 1
    <3>1. TopDepth \in Nat /\ TopDepth >= 1 /\ max_depth' \in Nat /\ max_depth' >= TopDepth
      BY <1>3, <1>4, <1>7
    <3>2. PICK d \in Nat, m \in Nat : d = TopDepth /\ m = max_depth'
      BY <3>1
    <3>3. d >= 1 /\ m >= d
      BY <3>1, <3>2
    <3>4. d - 1 \in 0 .. m - 1
      BY <3>3
    <3> QED BY <3>2, <3>4
  <2> QED BY <1>1, <1>4, <2>1, <2>2
<1>9. ASSUME NEW e \in Entries(Rest)
      PROVE  e[2] >= 1 /\ EndsChain(e[1], e[2] - 1) /\ e[2] <= Cardinality(visited') + 1
  <2>1. /\ e \in Func \X Nat /\ e[2] >= 1 /\ EndsChain(e[1], e[2] - 1)
        /\ e[2] <= Cardinality(visited) + 1
    <3>1. PICK i \in 1 .. Len(Rest) : e = Rest[i]
      BY DEF Entries
    <3>2. e \in Func \X Nat
      BY <1>3, <3>1, LenProperties
    <3> QED BY <1>3, <3>2 DEF DepthInv
  <2>2. e[2] \in Nat
    BY <2>1
  <2>3. e[2] <= Cardinality(visited') + 1
    BY <1>6, <2>1, <2>2
  <2> QED BY <2>1, <2>3
<1>10. ASSUME NEW e \in Entries(worklist')
       PROVE  e[2] >= 1 /\ EndsChain(e[1], e[2] - 1) /\ e[2] <= Cardinality(visited') + 1
  <2>1. CASE worklist' = Rest
    BY <1>9, <2>1
  <2>2. CASE worklist' # Rest
    <3>1. /\ Visit /\ Top \in DOMAIN static_cg /\ Top \notin visited
          /\ worklist' = Rest \o AtDepth(static_cg[Top], TopDepth + 1)
      BY <2>2 DEF NextReach, Revisit, Visit, VisitAs
    <3>2. static_cg[Top] \in Seq(Func) /\ TopDepth + 1 \in Nat
      BY <1>2, <1>3, <3>1
    <3>3. Entries(worklist') \subseteq Entries(Rest)
              \union {<<f, TopDepth + 1>> : f \in InList(static_cg[Top])}
      <4> DEFINE d == TopDepth + 1
                 s == static_cg[Top]
      <4>1. d \in Nat /\ s \in Seq(Func) /\ Rest \in Seq(Func \X Nat)
        BY <1>3, <3>2
      <4>2. worklist' = Rest \o AtDepth(s, d)
        BY <3>1
      <4> HIDE DEF d, s
      <4>3. Entries(Rest \o AtDepth(s, d)) \subseteq Entries(Rest) \union {<<f, d>> : f \in InList(s)}
        BY <4>1, PushNames
      <4> QED BY <4>2, <4>3 DEF d, s
    <3>4. CASE e \in Entries(Rest)
      BY <1>9, <3>4
    <3>5. CASE e \notin Entries(Rest)
      <4>1. e[2] = TopDepth + 1 /\ e[1] \in InList(static_cg[Top])
        BY <3>3, <3>5
      <4>2. e[1] \in Callees(Top) /\ e[1] \in Func
        BY <3>1, <3>2, <4>1, LenProperties DEF Callees, InList
      <4>3. PICK d \in Nat : d = TopDepth
        BY <1>3
      <4>4. d - 1 \in Nat /\ d - 1 + 1 = d
        BY <1>4, <4>3
      <4>5. EndsChain(Top, d - 1)
        BY <1>4, <4>3
      <4>6. EndsChain(e[1], d - 1 + 1)
        BY <1>3, <4>2, <4>4, <4>5, ChainGrows
      <4>7. EndsChain(e[1], d)
        BY <4>4, <4>6
      <4>8. e[2] = d + 1
        BY <4>1, <4>3
      <4>9. e[2] - 1 = d /\ e[2] >= 1
        BY <4>8
      <4>10. e[2] <= Cardinality(visited') + 1
        <5>1. Cardinality(visited') = Cardinality(visited) + 1 /\ Cardinality(visited) \in Nat
          BY <1>6, <3>1
        <5>2. d <= Cardinality(visited) + 1
          BY <1>4, <4>3
        <5> QED BY <4>8, <5>1, <5>2
      <4> QED BY <4>7, <4>9, <4>10
    <3> QED BY <3>4, <3>5
  <2> QED BY <2>1, <2>2
<1>11. Entries(worklist)' = Entries(worklist')
  BY DEF Entries
<1> QED BY <1>5, <1>7, <1>8, <1>10, <1>11 DEF DepthInv

\* The depth the walk reports is at least one more than the calls it takes to
\* come to any routine visited, and at most one more than their number.
THEOREM DepthCorrect == ReachSpec => []DepthBounded
<1>1. ReachInv /\ ReachInv' /\ DepthInv /\ [NextReach]_reachVars => DepthInv'
  <2> SUFFICES ASSUME ReachInv, ReachInv', DepthInv, [NextReach]_reachVars PROVE DepthInv'
    OBVIOUS
  <2>1. CASE UNCHANGED reachVars
    <3>1. UNCHANGED <<roots, static_cg, worklist, visited, max_depth>>
      BY <2>1 DEF reachVars, graph
    <3>2. \A f, n : EndsChain(f, n)' <=> EndsChain(f, n)
      BY <3>1 DEF EndsChain, InList, Callees
    <3> QED BY <3>1, <3>2 DEF DepthInv, Entries
  <2> QED BY <2>1, DepthStep
<1>2. DepthInv => DepthBounded
  BY DEF DepthInv, DepthBounded
<1> QED BY <1>1, <1>2, DepthInit, ReachStays, PTL DEF ReachSpec
================================================================================
