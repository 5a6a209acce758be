---------------------------- MODULE CallChainProofs ----------------------------
(***************************************************************************)
(* The rows of the call chain parser as a function of the gdb log, for     *)
(* every log and every set of call sites.                                  *)
(***************************************************************************)
EXTENDS CallChain, SequenceTheorems, FiniteSetTheorems, TLAPS

AnyFunc == AppFunc \union LibFunc
GdbLine == [kind : {"frame"}, name : AnyFunc]
              \union [kind : {"site"}, site : Site, values : UNION {[A -> Value] : A \in SUBSET Shown}]
              \union [kind : {"rdf"}, rdf : RDF]
Prefix == [rdf : [Arg -> RDF \union {Unknown}], arg : [Arg -> Value \union {Unknown}]]
StaticIDs == {FuncOf[s] : s \in Site} \union {0}
RowType == [chain : SUBSET AnyFunc, func : StaticIDs, site : Site \union {NoSite},
            features : Prefix]

ChainTyped ==
    /\ gdblog \in Seq(GdbLine) /\ rows \in Seq(RowType)
    /\ state_in_libc \in BOOLEAN /\ top_func \in AnyFunc \union {NoFunc}
    /\ currentCallChain_set \in SUBSET AnyFunc
    /\ enteringFunc_callsite_ID \in Site \union {NoSite}
    /\ enteringFunc_static_ID \in StaticIDs
    /\ prefix \in [Site \union {NoSite} -> Prefix] /\ prefix[NoSite] = NoPrefix

\* The instrumentation before line j, the row printed there, and the RDFs that
\* were the last seen for argument a of site s.
Since(j) == IF Before(Instrumented, j) = {} THEN 0 ELSE LastOf(Before(Instrumented, j))
RankOf(j) == Cardinality({i \in RowLines : i <= j})
Hits(s, a, j) == {i \in Before(Lines("rdf"), j) :
                    DependentArgs(s, gdblog[i].rdf) # {} /\ a = FirstArg(DependentArgs(s, gdblog[i].rdf))}

--------------------------------------------------------------------------------
(***************************************************************************)
(* How the definitions over the log grow with a line.                      *)
(***************************************************************************)

\* A line read leaves the lines before it alone.
LEMMA GdbLogGrows ==
    ASSUME gdblog \in Seq(GdbLine), NEW event \in GdbLine, gdblog' = Append(gdblog, event),
           NEW n \in Nat, n = Len(gdblog)
    PROVE  /\ gdblog' \in Seq(GdbLine) /\ Len(gdblog') = n + 1
           /\ gdblog'[n + 1] = event
           /\ \A i \in 1 .. n : gdblog'[i] = gdblog[i]
BY AppendProperties

LEMMA KindsGrow ==
    ASSUME gdblog \in Seq(GdbLine), NEW event \in GdbLine, gdblog' = Append(gdblog, event),
           NEW n \in Nat, n = Len(gdblog)
    PROVE  /\ \A k : /\ Lines(k)' = Lines(k) \union (IF event.kind = k THEN {n + 1} ELSE {})
                     /\ Lines(k) \subseteq 1 .. n
           /\ Stops \subseteq 1 .. n /\ Instrumented \subseteq 1 .. n
           /\ Stops' = Stops \union (IF event.kind = "frame" THEN {n + 1} ELSE {})
           /\ Instrumented' = Instrumented \union (IF event.kind = "frame" THEN {} ELSE {n + 1})
<1>1. /\ Len(gdblog') = n + 1 /\ gdblog'[n + 1] = event
      /\ \A i \in 1 .. n : gdblog'[i] = gdblog[i]
  BY GdbLogGrows
<1>2. 1 .. n + 1 = (1 .. n) \union {n + 1} /\ n + 1 \notin 1 .. n
  OBVIOUS
<1>3. ASSUME NEW k
      PROVE  /\ Lines(k)' = Lines(k) \union (IF event.kind = k THEN {n + 1} ELSE {})
             /\ Lines(k) \subseteq 1 .. n
  BY <1>1, <1>2 DEF Lines
<1>4. event.kind \in {"frame", "site", "rdf"}
  BY DEF GdbLine
<1>5. /\ Stops \subseteq 1 .. n
      /\ Stops' = Stops \union (IF event.kind = "frame" THEN {n + 1} ELSE {})
  BY <1>3 DEF Stops
<1>6. /\ Instrumented \subseteq 1 .. n
      /\ Instrumented' = Instrumented \union (IF event.kind = "frame" THEN {} ELSE {n + 1})
  BY <1>3, <1>4 DEF Instrumented
<1> QED BY <1>3, <1>5, <1>6

\* What lies before a line does not change any more.
LEMMA PastStays ==
    ASSUME gdblog \in Seq(GdbLine), NEW event \in GdbLine, gdblog' = Append(gdblog, event),
           NEW n \in Nat, n = Len(gdblog), NEW j \in 1 .. n + 1
    PROVE  /\ Since(j)' = Since(j) /\ Recorded(j)' = Recorded(j) /\ Entered(j)' = Entered(j)
           /\ SiteOf(j)' = SiteOf(j) /\ \A s, a : Hits(s, a, j)' = Hits(s, a, j)
           /\ Recorded(j) \subseteq 1 .. n /\ Entered(j) \subseteq Recorded(j)
           /\ SiteOf(j) \subseteq 1 .. n /\ \A s, a : Hits(s, a, j) \subseteq 1 .. n
<1>1. /\ gdblog'[n + 1] = event
      /\ \A i \in 1 .. n : gdblog'[i] = gdblog[i]
  BY GdbLogGrows
<1>2. /\ \A k : /\ Lines(k)' = Lines(k) \union (IF event.kind = k THEN {n + 1} ELSE {})
                /\ Lines(k) \subseteq 1 .. n
      /\ Stops \subseteq 1 .. n /\ Instrumented \subseteq 1 .. n
      /\ Stops' = Stops \union (IF event.kind = "frame" THEN {n + 1} ELSE {})
      /\ Instrumented' = Instrumented \union (IF event.kind = "frame" THEN {} ELSE {n + 1})
  BY KindsGrow
<1>3. \A S \in SUBSET (1 .. n), k \in 1 .. n + 1 :
         Before(S \union {n + 1}, k) = Before(S, k) /\ Before(S, k) \subseteq 1 .. n
  <2> SUFFICES ASSUME NEW S \in SUBSET (1 .. n), NEW k \in 1 .. n + 1
               PROVE  Before(S \union {n + 1}, k) = Before(S, k) /\ Before(S, k) \subseteq 1 .. n
    OBVIOUS
  <2>1. ~(n + 1 < k) /\ k \in Nat
    OBVIOUS
  <2>2. {i \in S \union {n + 1} : i < k} = {i \in S : i < k}
    BY <2>1
  <2> QED BY <2>2 DEF Before
<1>4. /\ \A k \in 1 .. n + 1 : Before(Stops', k) = Before(Stops, k)
      /\ Before(Instrumented', j) = Before(Instrumented, j)
      /\ \A k : Before(Lines(k)', j) = Before(Lines(k), j) /\ Before(Lines(k), j) \subseteq 1 .. n
  <2>1. Stops \in SUBSET (1 .. n) /\ (Stops' = Stops \/ Stops' = Stops \union {n + 1})
    BY <1>2
  <2>2. /\ Instrumented \in SUBSET (1 .. n)
        /\ Instrumented' = Instrumented \/ Instrumented' = Instrumented \union {n + 1}
    BY <1>2
  <2>3. \A k : Lines(k) \in SUBSET (1 .. n) /\ (Lines(k)' = Lines(k) \/ Lines(k)' = Lines(k) \union {n + 1})
    BY <1>2
  <2>4. \A k \in 1 .. n + 1 : Before(Stops', k) = Before(Stops, k)
    <3>1. CASE Stops' = Stops
      BY <3>1
    <3>2. CASE Stops' = Stops \union {n + 1}
      BY <1>3, <2>1, <3>2
    <3> QED BY <2>1, <3>1, <3>2
  <2>5. Before(Instrumented', j) = Before(Instrumented, j)
    <3>1. CASE Instrumented' = Instrumented
      BY <3>1
    <3>2. CASE Instrumented' = Instrumented \union {n + 1}
      BY <1>3, <2>2, <3>2
    <3> QED BY <2>2, <3>1, <3>2
  <2>6. ASSUME NEW k
        PROVE  Before(Lines(k)', j) = Before(Lines(k), j) /\ Before(Lines(k), j) \subseteq 1 .. n
    <3>1. Before(Lines(k), j) \subseteq 1 .. n
      BY <1>3, <2>3
    <3>2. CASE Lines(k)' = Lines(k)
      BY <3>1, <3>2
    <3>3. CASE Lines(k)' = Lines(k) \union {n + 1}
      BY <1>3, <2>3, <3>3
    <3> QED BY <2>3, <3>1, <3>2, <3>3
  <2> QED BY <2>4, <2>5, <2>6
<1>5. Since(j)' = Since(j)
  <2>1. Since(j)' = IF Before(Instrumented', j) = {} THEN 0 ELSE LastOf(Before(Instrumented', j))
    BY DEF Since, Before, LastOf
  <2> QED BY <1>4, <2>1 DEF Since
<1>6. SiteOf(j)' = SiteOf(j) /\ SiteOf(j) \subseteq 1 .. n
  <2>1. SiteOf(j)' = Before(Lines("site")', j)
    BY DEF SiteOf, Before
  <2> QED BY <1>4, <2>1 DEF SiteOf
<1>7. ASSUME NEW s, NEW a
      PROVE  Hits(s, a, j)' = Hits(s, a, j) /\ Hits(s, a, j) \subseteq 1 .. n
  <2>1. Hits(s, a, j)' = {i \in Before(Lines("rdf")', j) :
             DependentArgs(s, gdblog'[i].rdf) # {} /\ a = FirstArg(DependentArgs(s, gdblog'[i].rdf))}
    BY DEF Hits, Before, DependentArgs, FirstArg
  <2> QED BY <1>1, <1>4, <2>1 DEF Hits
<1>8. /\ Recorded(j) \subseteq 1 .. n
      /\ Recorded(j) = {i \in Stops : \E k \in Stops : /\ Since(j) < k /\ k < j /\ i < k
                                         /\ Before(Stops, k) \intersect (i + 1 .. k) = {}}
  BY <1>2 DEF Recorded, Since
<1>9. Recorded(j)' = Recorded(j)
  <2>1. Recorded(j)' = {i \in Stops' : \E k \in Stops' : /\ Since(j)' < k /\ k < j /\ i < k
                                          /\ Before(Stops', k) \intersect (i + 1 .. k) = {}}
    BY DEF Recorded, Since, Before, LastOf
  <2>2. \A k \in Stops' : k < j => k \in Stops /\ k \in 1 .. n + 1
    BY <1>2
  <2>3. \A k \in Stops : k \in Stops' /\ k \in 1 .. n + 1
    BY <1>2
  <2>4. \A i \in Stops', k \in Stops : i < k => i \in Stops
    BY <1>2
  <2>5. ASSUME NEW i \in Recorded(j)'
        PROVE  i \in Recorded(j)
    <3>1. PICK k \in Stops' : /\ Since(j)' < k /\ k < j /\ i < k
                              /\ Before(Stops', k) \intersect (i + 1 .. k) = {}
      BY <2>1
    <3>2. k \in Stops /\ i \in Stops /\ Before(Stops', k) = Before(Stops, k)
      BY <1>4, <2>1, <2>2, <2>4, <3>1
    <3> QED BY <1>5, <1>8, <3>1, <3>2
  <2>6. ASSUME NEW i \in Recorded(j)
        PROVE  i \in Recorded(j)'
    <3>1. PICK k \in Stops : /\ Since(j) < k /\ k < j /\ i < k
                             /\ Before(Stops, k) \intersect (i + 1 .. k) = {}
      BY <1>8
    <3>2. k \in Stops' /\ i \in Stops' /\ Before(Stops', k) = Before(Stops, k)
      BY <1>4, <1>8, <2>3
    <3> QED BY <1>5, <2>1, <3>1, <3>2
  <2> QED BY <2>5, <2>6
<1>10. Entered(j)' = Entered(j) /\ Entered(j) \subseteq Recorded(j)
  <2>1. Entered(j)' = {i \in Recorded(j)' : \E e \in Recorded(j)' : e <= i /\ gdblog'[e].name \in LibFunc}
    BY DEF Entered
  <2> QED BY <1>1, <1>8, <1>9, <2>1 DEF Entered
<1> QED BY <1>5, <1>6, <1>7, <1>8, <1>9, <1>10

LEMMA LastIs ==
    ASSUME NEW S \in SUBSET Nat, NEW t \in S, \A i \in S : i <= t
    PROVE  LastOf(S) = t
<1>1. PICK l \in S : l = LastOf(S) /\ \A i \in S : i <= l
  BY DEF LastOf
<1>2. l \in Nat /\ t \in Nat /\ l <= t /\ t <= l
  BY <1>1
<1> QED BY <1>1, <1>2

\* The line read is the last of what it joins.
LEMMA LastGrows ==
    ASSUME NEW n \in Nat, NEW S \in SUBSET (1 .. n)
    PROVE  /\ LastOf(S \union {n + 1}) = n + 1
           /\ Before(S, n + 1) = S /\ Before(S \union {n + 1}, n + 2) = S \union {n + 1}
           /\ Before(S, n + 2) = S
<1>1. LastOf(S \union {n + 1}) = n + 1
  <2>1. S \union {n + 1} \in SUBSET Nat /\ \A i \in S \union {n + 1} : i <= n + 1
    OBVIOUS
  <2> QED BY <2>1, LastIs
<1>2. \A i \in S : i < n + 1 /\ i < n + 2
  OBVIOUS
<1>3. {i \in S : i < n + 1} = S /\ {i \in S : i < n + 2} = S
  BY <1>2
<1>4. n + 1 < n + 2
  OBVIOUS
<1>5. {i \in S \union {n + 1} : i < n + 2} = S \union {n + 1}
  BY <1>2, <1>4
<1> QED BY <1>1, <1>3, <1>5 DEF Before

\* What lies before the line after it.
LEMMA PresentGrows ==
    ASSUME gdblog \in Seq(GdbLine), NEW event \in GdbLine, gdblog' = Append(gdblog, event),
           NEW n \in Nat, n = Len(gdblog)
    PROVE  /\ SiteOf(n + 2)' = SiteOf(n + 1) \union (IF event.kind = "site" THEN {n + 1} ELSE {})
           /\ \A s, a : Hits(s, a, n + 2)' = Hits(s, a, n + 1) \union
                 (IF /\ event.kind = "rdf" /\ DependentArgs(s, event.rdf) # {}
                     /\ a = FirstArg(DependentArgs(s, event.rdf)) THEN {n + 1} ELSE {})
<1>1. /\ gdblog'[n + 1] = event
      /\ \A i \in 1 .. n : gdblog'[i] = gdblog[i]
  BY GdbLogGrows
<1>2. \A k : /\ Lines(k)' = Lines(k) \union (IF event.kind = k THEN {n + 1} ELSE {})
             /\ Lines(k) \in SUBSET (1 .. n)
  BY KindsGrow
<1>3. ASSUME NEW k
      PROVE  Before(Lines(k)', n + 2) = Lines(k)' /\ Before(Lines(k), n + 1) = Lines(k)
  <2>1. CASE event.kind = k
    BY <1>2, <2>1, LastGrows
  <2>2. CASE event.kind # k
    BY <1>2, <2>2, LastGrows
  <2> QED BY <2>1, <2>2
<1>4. SiteOf(n + 2)' = Lines("site")' /\ SiteOf(n + 1) = Lines("site")
  <2>1. SiteOf(n + 2)' = Before(Lines("site")', n + 2)
    BY DEF SiteOf, Before
  <2> QED BY <1>3, <2>1 DEF SiteOf
<1>5. ASSUME NEW s, NEW a
      PROVE  Hits(s, a, n + 2)' = Hits(s, a, n + 1) \union
                 (IF /\ event.kind = "rdf" /\ DependentArgs(s, event.rdf) # {}
                     /\ a = FirstArg(DependentArgs(s, event.rdf)) THEN {n + 1} ELSE {})
  <2> DEFINE Hit(r) == DependentArgs(s, r) # {} /\ a = FirstArg(DependentArgs(s, r))
  <2>1. Hits(s, a, n + 2)' = {i \in Before(Lines("rdf")', n + 2) : Hit(gdblog'[i].rdf)}
    BY DEF Hits, Before, DependentArgs, FirstArg
  <2>2. Hits(s, a, n + 1) = {i \in Before(Lines("rdf"), n + 1) : Hit(gdblog[i].rdf)}
    BY DEF Hits
  <2> HIDE DEF Hit
  <2>3. \A i \in Lines("rdf") : gdblog'[i] = gdblog[i]
    BY <1>1, <1>2
  <2>4. Hits(s, a, n + 2)' = {i \in Lines("rdf")' : Hit(gdblog'[i].rdf)}
    BY <1>3, <2>1
  <2>5. Hits(s, a, n + 1) = {i \in Lines("rdf") : Hit(gdblog[i].rdf)}
    BY <1>3, <2>2
  <2>6. Hits(s, a, n + 2)' = Hits(s, a, n + 1) \union
                 (IF event.kind = "rdf" /\ Hit(event.rdf) THEN {n + 1} ELSE {})
    BY <1>1, <1>2, <2>3, <2>4, <2>5
  <2> QED BY <2>6 DEF Hit
<1> QED BY <1>2, <1>4, <1>5

\* An instrumented line starts over: nothing is recorded behind it.
LEMMA InstrumentationStarts ==
    ASSUME gdblog \in Seq(GdbLine), NEW event \in GdbLine, gdblog' = Append(gdblog, event),
           NEW n \in Nat, n = Len(gdblog), event.kind # "frame"
    PROVE  /\ Since(n + 2)' = n + 1 /\ Recorded(n + 2)' = {} /\ Entered(n + 2)' = {}
           /\ Stops' = Stops
<1>1. /\ Instrumented \in SUBSET (1 .. n) /\ Instrumented' = Instrumented \union {n + 1}
      /\ Stops' = Stops /\ Stops \subseteq 1 .. n
  BY KindsGrow
<1>2. Since(n + 2)' = n + 1
  <2>1. Since(n + 2)' = IF Before(Instrumented', n + 2) = {} THEN 0
                        ELSE LastOf(Before(Instrumented', n + 2))
    BY DEF Since, Before, LastOf
  <2>2. Before(Instrumented', n + 2) = Instrumented \union {n + 1}
    BY <1>1, LastGrows
  <2> QED BY <1>1, <2>1, <2>2, LastGrows
<1>3. Recorded(n + 2)' = {}
  <2>1. Recorded(n + 2)' = {i \in Stops' : \E k \in Stops' : /\ Since(n + 2)' < k /\ k < n + 2 /\ i < k
                                          /\ Before(Stops', k) \intersect (i + 1 .. k) = {}}
    BY DEF Recorded, Since, Before, LastOf
  <2>2. \A k \in Stops' : ~(Since(n + 2)' < k)
    BY <1>1, <1>2
  <2> QED BY <2>1, <2>2
<1>4. Entered(n + 2)' = {}
  BY <1>3 DEF Entered
<1> QED BY <1>1, <1>2, <1>3, <1>4

\* A stop records the stop before it.
LEMMA StopRecords ==
    ASSUME gdblog \in Seq(GdbLine), NEW event \in GdbLine, gdblog' = Append(gdblog, event),
           NEW n \in Nat, n = Len(gdblog), event.kind = "frame", Since(n + 1) \in 0 .. n
    PROVE  /\ Since(n + 2)' = Since(n + 1)
           /\ Recorded(n + 2)' = Recorded(n + 1) \union {i \in Stops : \A h \in Stops : h <= i}
           /\ Stops' = Stops \union {n + 1} /\ Instrumented' = Instrumented
<1>1. /\ Instrumented \in SUBSET (1 .. n) /\ Instrumented' = Instrumented
      /\ Stops' = Stops \union {n + 1} /\ Stops \in SUBSET (1 .. n)
  BY KindsGrow
<1>2. Since(n + 2)' = Since(n + 1)
  <2>1. Since(n + 2)' = IF Before(Instrumented', n + 2) = {} THEN 0
                        ELSE LastOf(Before(Instrumented', n + 2))
    BY DEF Since, Before, LastOf
  <2>2. Before(Instrumented, n + 2) = Before(Instrumented, n + 1)
    <3>1. Before(Instrumented, n + 2) = Instrumented
      BY <1>1, LastGrows
    <3>2. Before(Instrumented, n + 1) = Instrumented
      BY <1>1, LastGrows
    <3> QED BY <3>1, <3>2
  <2> QED BY <1>1, <2>1, <2>2 DEF Since
<1> DEFINE Follows(S, since, i, k) == /\ since < k /\ i < k
                                      /\ Before(S, k) \intersect (i + 1 .. k) = {}
<1>3. Recorded(n + 2)' = {i \in Stops' : \E k \in Stops' : k < n + 2 /\ Follows(Stops', Since(n + 1), i, k)}
  <2>1. Recorded(n + 2)' = {i \in Stops' : \E k \in Stops' : /\ Since(n + 2)' < k /\ k < n + 2 /\ i < k
                                          /\ Before(Stops', k) \intersect (i + 1 .. k) = {}}
    BY DEF Recorded, Since, Before, LastOf
  <2> QED BY <1>2, <2>1
<1>4. Recorded(n + 1) = {i \in Stops : \E k \in Stops : k < n + 1 /\ Follows(Stops, Since(n + 1), i, k)}
  BY DEF Recorded, Since
<1>5. \A k \in Stops : Before(Stops', k) = Before(Stops, k)
  BY <1>1 DEF Before
<1>6. Before(Stops', n + 1) = Stops
  <2>1. \A i \in Stops : i < n + 1
    BY <1>1
  <2>2. ~(n + 1 < n + 1)
    OBVIOUS
  <2>3. {i \in Stops \union {n + 1} : i < n + 1} = Stops
    BY <2>1, <2>2
  <2> QED BY <1>1, <2>3 DEF Before
<1>7. \A i \in Stops : Follows(Stops', Since(n + 1), i, n + 1) <=> \A h \in Stops : h <= i
  <2> SUFFICES ASSUME NEW i \in Stops
               PROVE  Follows(Stops', Since(n + 1), i, n + 1) <=> \A h \in Stops : h <= i
    OBVIOUS
  <2>1. i \in 1 .. n /\ \A h \in Stops : h \in 1 .. n
    BY <1>1
  <2>2. Stops \intersect (i + 1 .. n + 1) = {} <=> \A h \in Stops : h <= i
    BY <2>1
  <2> QED BY <1>6, <2>1, <2>2
<1>8. \A i \in Stops, k \in Stops : Follows(Stops', Since(n + 1), i, k) <=> Follows(Stops, Since(n + 1), i, k)
  BY <1>5
<1>9. \A k \in Stops' : ~Follows(Stops', Since(n + 1), n + 1, k)
  <2>1. \A k \in Stops' : ~(n + 1 < k)
    BY <1>1
  <2> QED BY <2>1
<1>10. \A k \in Stops : k < n + 1 /\ k < n + 2 /\ k \in Stops'
  BY <1>1
<1>11. Stops' = Stops \union {n + 1} /\ n + 1 < n + 2
  BY <1>1
<1> HIDE DEF Follows
<1>12. Recorded(n + 2)' = Recorded(n + 1) \union {i \in Stops : \A h \in Stops : h <= i}
  <2>1. ASSUME NEW i \in Recorded(n + 2)'
        PROVE  i \in Stops /\ (i \in Recorded(n + 1) \/ \A h \in Stops : h <= i)
    <3>1. /\ i \in Stops'
          /\ \E k \in Stops' : k < n + 2 /\ Follows(Stops', Since(n + 1), i, k)
      BY <1>3
    <3> PICK k \in Stops' : Follows(Stops', Since(n + 1), i, k)
      BY <3>1
    <3>2. i \in Stops
      <4>1. i # n + 1
        BY <1>9
      <4> QED BY <1>11, <3>1, <4>1
    <3>3. CASE k = n + 1
      BY <1>7, <3>1, <3>2, <3>3
    <3>4. CASE k \in Stops
      BY <1>4, <1>8, <1>10, <3>1, <3>2, <3>4
    <3> QED BY <1>11, <3>2, <3>3, <3>4
  <2>2. ASSUME NEW i \in Recorded(n + 1)
        PROVE  i \in Recorded(n + 2)'
    BY <1>3, <1>4, <1>8, <1>10, <1>11
  <2>3. ASSUME NEW i \in Stops, \A h \in Stops : h <= i
        PROVE  i \in Recorded(n + 2)'
    BY <1>3, <1>7, <1>11, <2>3
  <2> QED BY <2>1, <2>2, <2>3
<1> QED BY <1>1, <1>2, <1>12

\* The rank of a row line is its place among the rows; later lines rank higher.
LEMMA RanksIncrease ==
    ASSUME IsFiniteSet(RowLines), RowLines \subseteq Nat, NEW j \in RowLines, NEW k \in RowLines, j <= k
    PROVE  RankOf(j) \in Nat /\ RankOf(k) \in Nat /\ RankOf(j) <= RankOf(k)
<1> DEFINE J == {i \in RowLines : i <= j}
           K == {i \in RowLines : i <= k}
<1>1. J \subseteq K
  <2>1. \A i \in RowLines : i <= j => i <= k
    <3>1. \A i \in Nat, x \in Nat, y \in Nat : i <= x /\ x <= y => i <= y
      OBVIOUS
    <3> QED BY <3>1
  <2> QED BY <2>1
<1>2. K \in SUBSET RowLines
  OBVIOUS
<1>3. RankOf(j) = Cardinality(J) /\ RankOf(k) = Cardinality(K)
  BY DEF RankOf
<1> HIDE DEF J, K
<1>4. IsFiniteSet(K) /\ IsFiniteSet(J) /\ Cardinality(J) <= Cardinality(K)
  BY <1>1, <1>2, FS_Subset
<1> QED BY <1>3, <1>4, FS_CardinalityType

Prints(event, n) == event.kind # "frame" /\ Entered(n + 1) # {}

\* A line prints at most one row, behind all others; the rows keep their ranks.
LEMMA RowLinesGrow ==
    ASSUME gdblog \in Seq(GdbLine), NEW event \in GdbLine, gdblog' = Append(gdblog, event),
           NEW n \in Nat, n = Len(gdblog)
    PROVE  /\ RowLines' = RowLines \union (IF Prints(event, n) THEN {n + 1} ELSE {})
           /\ RowLines \subseteq 1 .. n /\ IsFiniteSet(RowLines)
           /\ Cardinality(RowLines) \in Nat
           /\ Cardinality(RowLines') = Cardinality(RowLines) + (IF Prints(event, n) THEN 1 ELSE 0)
           /\ \A i \in RowLines : RankOf(i)' = RankOf(i) /\ RankOf(i) \in 1 .. Cardinality(RowLines)
           /\ Prints(event, n) => RankOf(n + 1)' = Cardinality(RowLines) + 1
<1>1. /\ Instrumented \subseteq 1 .. n
      /\ Instrumented' = Instrumented \union (IF event.kind = "frame" THEN {} ELSE {n + 1})
  BY KindsGrow
<1>2. RowLines \subseteq 1 .. n
  BY <1>1 DEF RowLines
<1>3. RowLines' = RowLines \union (IF Prints(event, n) THEN {n + 1} ELSE {})
  <2>1. \A j \in 1 .. n + 1 : Entered(j)' = Entered(j)
    BY PastStays
  <2>2. n + 1 \in 1 .. n + 1 /\ \A i \in 1 .. n : i \in 1 .. n + 1 /\ i # n + 1
    OBVIOUS
  <2>3. RowLines' = {j \in Instrumented' : Entered(j)' # {}}
    BY DEF RowLines
  <2>4. \A j : j \in RowLines' <=> j \in RowLines \/ (j = n + 1 /\ Prints(event, n))
    BY <1>1, <2>1, <2>2, <2>3 DEF RowLines, Prints
  <2> QED BY <2>4
<1>4. IsFiniteSet(1 .. n) /\ IsFiniteSet(RowLines) /\ Cardinality(RowLines) \in Nat
  <2>1. n \in Int /\ 1 \in Int
    OBVIOUS
  <2>2. IsFiniteSet(1 .. n)
    BY <2>1, FS_Interval
  <2> QED BY <1>2, <2>2, FS_Subset, FS_CardinalityType
<1>5. Cardinality(RowLines \union {n + 1}) = Cardinality(RowLines) + 1
  <2>1. n + 1 \notin RowLines
    BY <1>2
  <2> QED BY <1>4, <2>1, FS_AddElement
<1>6. ASSUME NEW i \in RowLines
      PROVE  RankOf(i)' = RankOf(i) /\ RankOf(i) \in 1 .. Cardinality(RowLines)
  <2> DEFINE R == {j \in RowLines : j <= i}
  <2>1. {j \in RowLines' : j <= i} = R
    <3>1. ~(n + 1 <= i)
      BY <1>2
    <3> QED BY <1>3, <3>1
  <2>2. i \in R /\ R \subseteq RowLines
    BY <1>2
  <2>3. RankOf(i) = Cardinality(R) /\ RankOf(i)' = Cardinality(R)
    BY <2>1 DEF RankOf
  <2> HIDE DEF R
  <2>4. IsFiniteSet(R) /\ Cardinality(R) \in Nat /\ Cardinality(R) <= Cardinality(RowLines)
    BY <1>4, <2>2, FS_Subset, FS_CardinalityType
  <2>5. Cardinality(R) # 0
    BY <2>2, <2>4, FS_EmptySet
  <2> QED BY <1>4, <2>3, <2>4, <2>5
<1>7. Prints(event, n) => RankOf(n + 1)' = Cardinality(RowLines) + 1
  <2> SUFFICES ASSUME Prints(event, n) PROVE RankOf(n + 1)' = Cardinality(RowLines) + 1
    OBVIOUS
  <2>1. RowLines' = RowLines \union {n + 1}
    BY <1>3
  <2>2. \A j \in RowLines \union {n + 1} : j <= n + 1
    BY <1>2
  <2>3. {j \in RowLines' : j <= n + 1} = RowLines \union {n + 1}
    BY <2>1, <2>2
  <2>4. RankOf(n + 1)' = Cardinality({j \in RowLines' : j <= n + 1})
    BY DEF RankOf
  <2> QED BY <1>5, <2>3, <2>4
<1>8. Cardinality(RowLines') = Cardinality(RowLines) + (IF Prints(event, n) THEN 1 ELSE 0)
  <2>1. CASE Prints(event, n)
    BY <1>3, <1>5, <2>1
  <2>2. CASE ~Prints(event, n)
    <3>1. RowLines' = RowLines
      BY <1>3, <2>2
    <3> QED BY <1>4, <2>2, <3>1
  <2> QED BY <2>1, <2>2
<1> HIDE DEF Prints
<1> QED BY <1>2, <1>3, <1>4, <1>6, <1>7, <1>8

--------------------------------------------------------------------------------
(***************************************************************************)
(* The inductive invariant: the parser's state is a function of the log.   *)
(***************************************************************************)

\* The routine still to be recorded is that of the last stop.
TopMatches ==
    IF Stops = {} THEN top_func = NoFunc
    ELSE \E t \in Stops : (\A i \in Stops : i <= t) /\ top_func = gdblog[t].name

HasLast(S) == S # {} => LastOf(S) \in S

\* What is known before line j: the call site last read, the RDF last seen for
\* each argument of site s, and values of its arguments that no row before has
\* spoken of.
SiteIs(j, s, id) ==
    /\ HasLast(SiteOf(j))
    /\ IF SiteOf(j) = {} THEN s = NoSite
       ELSE s = gdblog[LastOf(SiteOf(j))].site /\ id = FuncOf[s]
RdfIs(j, s, a, r) ==
    /\ HasLast(Hits(s, a, j))
    /\ r = IF Hits(s, a, j) = {} THEN Unknown ELSE gdblog[LastOf(Hits(s, a, j))].rdf
FreshValue(j, s, a, v) ==
    \E i \in SiteOf(j) :
       /\ gdblog[i].site = s /\ a \in DOMAIN gdblog[i].values /\ gdblog[i].values[a] = v
       /\ \A m \in RowLines : m < j /\ rows[RankOf(m)].site = s => m <= i
FeaturesFit(j, s, f) ==
    \A a \in Arg : RdfIs(j, s, a, f.rdf[a]) /\ (f.arg[a] # Unknown => FreshValue(j, s, a, f.arg[a]))

NamesOf(S) == {gdblog[i].name : i \in S}

NowMatches(p) ==
    /\ Since(p) \in 0 .. p - 1
    /\ state_in_libc <=> Entered(p) # {}
    /\ state_in_libc => currentCallChain_set = NamesOf(Entered(p))
    /\ SiteIs(p, enteringFunc_callsite_ID, enteringFunc_static_ID)
    /\ \A s \in Site, f \in Prefix : f = prefix[s] => FeaturesFit(p, s, f)

RowFits(j, row) ==
    /\ row.chain = NamesOf(Entered(j))
    /\ SiteIs(j, row.site, row.func)
    /\ IF SiteOf(j) = {} THEN row.features = NoPrefix
       ELSE FeaturesFit(j, row.site, row.features)

\* The row printed at line j; a bound row keeps its value in the next state.
RowMatches(j) ==
    /\ RankOf(j) \in 1 .. Len(rows)
    /\ \A row \in RowType : row = rows[RankOf(j)] => RowFits(j, row)

ChainInv ==
    /\ ChainTyped /\ TopMatches
    /\ Len(rows) = Cardinality(RowLines)
    /\ \A n \in 1 .. Len(rows) : \E j \in RowLines : RankOf(j) = n
    /\ \A j \in RowLines : RowMatches(j)
    /\ \A p \in Nat : p = Len(gdblog) + 1 => NowMatches(p)

--------------------------------------------------------------------------------

\* The rows printed stay, at their ranks.
RowsKept == \A m \in RowLines : RankOf(m)' = RankOf(m) /\ rows'[RankOf(m)] = rows[RankOf(m)]

\* What was known before a line read stays known.
LEMMA KnownStays ==
    ASSUME gdblog \in Seq(GdbLine), NEW event \in GdbLine, gdblog' = Append(gdblog, event),
           NEW n \in Nat, n = Len(gdblog), RowsKept, NEW j \in 1 .. n + 1
    PROVE  /\ NamesOf(Entered(j))' = NamesOf(Entered(j))
           /\ \A s, id : SiteIs(j, s, id) => SiteIs(j, s, id)'
           /\ \A s, a, r : RdfIs(j, s, a, r) => RdfIs(j, s, a, r)'
           /\ \A s, a, v : FreshValue(j, s, a, v) => FreshValue(j, s, a, v)'
<1>1. \A i \in 1 .. n : gdblog'[i] = gdblog[i]
  BY GdbLogGrows
<1>2. /\ Entered(j)' = Entered(j) /\ SiteOf(j)' = SiteOf(j)
      /\ \A s, a : Hits(s, a, j)' = Hits(s, a, j) /\ Hits(s, a, j) \subseteq 1 .. n
      /\ Entered(j) \subseteq 1 .. n /\ SiteOf(j) \subseteq 1 .. n
  BY PastStays
<1>3. NamesOf(Entered(j))' = NamesOf(Entered(j))
  <2>1. NamesOf(Entered(j))' = {gdblog'[i].name : i \in Entered(j)'}
    BY DEF NamesOf
  <2>2. \A i \in Entered(j) : gdblog'[i].name = gdblog[i].name
    BY <1>1, <1>2
  <2>3. {gdblog'[i].name : i \in Entered(j)} = {gdblog[i].name : i \in Entered(j)}
    BY <2>2
  <2> QED BY <1>2, <2>1, <2>3 DEF NamesOf
<1>4. ASSUME NEW s, NEW id, SiteIs(j, s, id)
      PROVE  SiteIs(j, s, id)'
  <2>1. LastOf(SiteOf(j))' = LastOf(SiteOf(j)') /\ LastOf(SiteOf(j)') = LastOf(SiteOf(j))
    BY <1>2 DEF LastOf
  <2>2. SiteOf(j) # {} => gdblog'[LastOf(SiteOf(j))] = gdblog[LastOf(SiteOf(j))]
    BY <1>1, <1>2, <1>4 DEF SiteIs, HasLast
  <2> QED BY <1>2, <1>4, <2>1, <2>2 DEF SiteIs, HasLast
<1>5. ASSUME NEW s, NEW a, NEW r, RdfIs(j, s, a, r)
      PROVE  RdfIs(j, s, a, r)'
  <2>1. /\ LastOf(Hits(s, a, j))' = LastOf(Hits(s, a, j)')
        /\ LastOf(Hits(s, a, j)') = LastOf(Hits(s, a, j))
    BY <1>2 DEF LastOf
  <2>2. Hits(s, a, j) # {} => gdblog'[LastOf(Hits(s, a, j))] = gdblog[LastOf(Hits(s, a, j))]
    BY <1>1, <1>2, <1>5 DEF RdfIs, HasLast
  <2> QED BY <1>2, <1>5, <2>1, <2>2 DEF RdfIs, HasLast
<1>6. ASSUME NEW s, NEW a, NEW v, FreshValue(j, s, a, v)
      PROVE  FreshValue(j, s, a, v)'
  <2>1. PICK i \in SiteOf(j) :
           /\ gdblog[i].site = s /\ a \in DOMAIN gdblog[i].values /\ gdblog[i].values[a] = v
           /\ \A m \in RowLines : m < j /\ rows[RankOf(m)].site = s => m <= i
    BY <1>6 DEF FreshValue
  <2>2. i \in SiteOf(j)' /\ gdblog'[i] = gdblog[i]
    BY <1>1, <1>2
  <2>3. \A m \in RowLines' : m < j => m \in RowLines
    <3>1. RowLines' = RowLines \union (IF Prints(event, n) THEN {n + 1} ELSE {})
      BY RowLinesGrow
    <3>2. ~(n + 1 < j)
      OBVIOUS
    <3> QED BY <3>1, <3>2
  <2>4. \A m \in RowLines' : m < j /\ rows'[RankOf(m)'].site = s => m <= i
    BY <2>1, <2>3 DEF RowsKept
  <2> QED BY <2>1, <2>2, <2>4 DEF FreshValue
<1> QED BY <1>3, <1>4, <1>5, <1>6

\* Hence a row printed keeps fitting its line.
LEMMA RowStays ==
    ASSUME gdblog \in Seq(GdbLine), NEW event \in GdbLine, gdblog' = Append(gdblog, event),
           NEW n \in Nat, n = Len(gdblog), RowsKept, NEW j \in 1 .. n + 1,
           NEW row, RowFits(j, row)
    PROVE  RowFits(j, row)'
<1>1. SiteOf(j)' = SiteOf(j)
  BY PastStays
<1>2. NamesOf(Entered(j))' = NamesOf(Entered(j)) /\ SiteIs(j, row.site, row.func)'
  BY KnownStays DEF RowFits
<1>3. FeaturesFit(j, row.site, row.features) => FeaturesFit(j, row.site, row.features)'
  BY KnownStays DEF FeaturesFit
<1> QED BY <1>1, <1>2, <1>3 DEF RowFits, NoPrefix

\* Whether a line is an RDF of argument a at site s.
HitBy(event, s, a) ==
    /\ event.kind = "rdf" /\ DependentArgs(s, event.rdf) # {}
    /\ a = FirstArg(DependentArgs(s, event.rdf))

\* What is known after a line read.
LEMMA KnownGrows ==
    ASSUME gdblog \in Seq(GdbLine), NEW event \in GdbLine, gdblog' = Append(gdblog, event),
           NEW n \in Nat, n = Len(gdblog), RowsKept
    PROVE  /\ event.kind # "site" => \A s, id : SiteIs(n + 1, s, id) => SiteIs(n + 2, s, id)'
           /\ event.kind = "site" => SiteIs(n + 2, event.site, FuncOf[event.site])'
           /\ \A s, a, r : ~HitBy(event, s, a) /\ RdfIs(n + 1, s, a, r) => RdfIs(n + 2, s, a, r)'
           /\ \A s, a : HitBy(event, s, a) => RdfIs(n + 2, s, a, event.rdf)'
           /\ \A s, a, v : /\ FreshValue(n + 1, s, a, v)
                           /\ ~(Prints(event, n) /\ rows'[RankOf(n + 1)'].site = s)
                           => FreshValue(n + 2, s, a, v)'
           /\ event.kind = "site" => \A a \in DOMAIN event.values :
                 FreshValue(n + 2, event.site, a, event.values[a])'
<1>1. gdblog'[n + 1] = event /\ \A i \in 1 .. n : gdblog'[i] = gdblog[i]
  BY GdbLogGrows
<1>2. /\ SiteOf(n + 2)' = SiteOf(n + 1) \union (IF event.kind = "site" THEN {n + 1} ELSE {})
      /\ \A s, a : Hits(s, a, n + 2)' = Hits(s, a, n + 1) \union
                       (IF HitBy(event, s, a) THEN {n + 1} ELSE {})
  BY PresentGrows DEF HitBy
<1>3. SiteOf(n + 1) \in SUBSET (1 .. n) /\ \A s, a : Hits(s, a, n + 1) \in SUBSET (1 .. n)
  <2>1. n + 1 \in 1 .. n + 1
    OBVIOUS
  <2> QED BY <2>1, PastStays
<1>4. ASSUME event.kind # "site", NEW s, NEW id, SiteIs(n + 1, s, id)
      PROVE  SiteIs(n + 2, s, id)'
  <2>1. SiteOf(n + 2)' = SiteOf(n + 1)
    BY <1>2, <1>4
  <2>2. LastOf(SiteOf(n + 2))' = LastOf(SiteOf(n + 2)') /\ LastOf(SiteOf(n + 2)') = LastOf(SiteOf(n + 1))
    BY <2>1 DEF LastOf
  <2>3. SiteOf(n + 1) # {} => gdblog'[LastOf(SiteOf(n + 1))] = gdblog[LastOf(SiteOf(n + 1))]
    BY <1>1, <1>3, <1>4 DEF SiteIs, HasLast
  <2> QED BY <1>4, <2>1, <2>2, <2>3 DEF SiteIs, HasLast
<1>5. ASSUME event.kind = "site"
      PROVE  SiteIs(n + 2, event.site, FuncOf[event.site])'
  <2>1. SiteOf(n + 2)' = SiteOf(n + 1) \union {n + 1}
    BY <1>2, <1>5
  <2>2. LastOf(SiteOf(n + 2))' = LastOf(SiteOf(n + 2)') /\ LastOf(SiteOf(n + 2)') = n + 1
    <3>1. LastOf(SiteOf(n + 1) \union {n + 1}) = n + 1
      BY <1>3, LastGrows
    <3> QED BY <2>1, <3>1 DEF LastOf
  <2> QED BY <1>1, <2>1, <2>2 DEF SiteIs, HasLast
<1>6. ASSUME NEW s, NEW a, NEW r, ~HitBy(event, s, a), RdfIs(n + 1, s, a, r)
      PROVE  RdfIs(n + 2, s, a, r)'
  <2>1. Hits(s, a, n + 2)' = Hits(s, a, n + 1)
    BY <1>2, <1>6
  <2>2. /\ LastOf(Hits(s, a, n + 2))' = LastOf(Hits(s, a, n + 2)')
        /\ LastOf(Hits(s, a, n + 2)') = LastOf(Hits(s, a, n + 1))
    BY <2>1 DEF LastOf
  <2>3. Hits(s, a, n + 1) # {} => gdblog'[LastOf(Hits(s, a, n + 1))] = gdblog[LastOf(Hits(s, a, n + 1))]
    BY <1>1, <1>3, <1>6 DEF RdfIs, HasLast
  <2> QED BY <1>6, <2>1, <2>2, <2>3 DEF RdfIs, HasLast
<1>7. ASSUME NEW s, NEW a, HitBy(event, s, a)
      PROVE  RdfIs(n + 2, s, a, event.rdf)'
  <2>1. Hits(s, a, n + 2)' = Hits(s, a, n + 1) \union {n + 1}
    BY <1>2, <1>7
  <2>2. LastOf(Hits(s, a, n + 2))' = LastOf(Hits(s, a, n + 2)') /\ LastOf(Hits(s, a, n + 2)') = n + 1
    <3>1. LastOf(Hits(s, a, n + 1) \union {n + 1}) = n + 1
      BY <1>3, LastGrows
    <3> QED BY <2>1, <3>1 DEF LastOf
  <2> QED BY <1>1, <2>1, <2>2 DEF RdfIs, HasLast
<1>8. RowLines' = RowLines \union (IF Prints(event, n) THEN {n + 1} ELSE {}) /\ RowLines \subseteq 1 .. n
  BY RowLinesGrow
<1>9. ASSUME NEW s, NEW a, NEW v, FreshValue(n + 1, s, a, v),
             ~(Prints(event, n) /\ rows'[RankOf(n + 1)'].site = s)
      PROVE  FreshValue(n + 2, s, a, v)'
  <2>1. PICK i \in SiteOf(n + 1) :
           /\ gdblog[i].site = s /\ a \in DOMAIN gdblog[i].values /\ gdblog[i].values[a] = v
           /\ \A m \in RowLines : m < n + 1 /\ rows[RankOf(m)].site = s => m <= i
    BY <1>9 DEF FreshValue
  <2>2. i \in SiteOf(n + 2)' /\ gdblog'[i] = gdblog[i]
    BY <1>1, <1>2, <1>3
  <2>3. \A m \in RowLines : m < n + 1
    BY <1>8
  <2>4. \A m \in RowLines' : rows'[RankOf(m)'].site = s => m <= i
    BY <1>8, <1>9, <2>1, <2>3 DEF RowsKept
  <2> QED BY <2>1, <2>2, <2>4 DEF FreshValue
<1>10. ASSUME event.kind = "site", NEW a \in DOMAIN event.values
       PROVE  FreshValue(n + 2, event.site, a, event.values[a])'
  <2>1. n + 1 \in SiteOf(n + 2)'
    BY <1>2, <1>10
  <2>2. \A m \in RowLines' : m <= n + 1
    BY <1>8
  <2> QED BY <1>1, <2>1, <2>2 DEF FreshValue
<1> QED BY <1>4, <1>5, <1>6, <1>7, <1>9, <1>10

\* A line read keeps every row and adds at most the one it prints.
LEMMA RowsStep ==
    ASSUME ChainInv, NEW event \in GdbLine, gdblog' = Append(gdblog, event),
           NEW n \in Nat, n = Len(gdblog), NEW new \in RowType,
           rows' = IF Prints(event, n) THEN Append(rows, new) ELSE rows,
           Prints(event, n) => RowFits(n + 1, new)
    PROVE  /\ RowsKept /\ rows' \in Seq(RowType)
           /\ Prints(event, n) => rows'[RankOf(n + 1)'] = new
           /\ Len(rows') = Cardinality(RowLines')
           /\ \A k \in 1 .. Len(rows') : \E j \in RowLines' : RankOf(j)' = k
           /\ \A j \in RowLines' : RowMatches(j)'
<1>1. /\ gdblog \in Seq(GdbLine) /\ rows \in Seq(RowType)
      /\ Len(rows) = Cardinality(RowLines) /\ Len(rows) \in Nat
      /\ \A k \in 1 .. Len(rows) : \E j \in RowLines : RankOf(j) = k
      /\ \A j \in RowLines : RowMatches(j)
  BY DEF ChainInv, ChainTyped
<1>2. /\ RowLines' = RowLines \union (IF Prints(event, n) THEN {n + 1} ELSE {})
      /\ RowLines \subseteq 1 .. n
      /\ Cardinality(RowLines') = Cardinality(RowLines) + (IF Prints(event, n) THEN 1 ELSE 0)
      /\ \A i \in RowLines : RankOf(i)' = RankOf(i) /\ RankOf(i) \in 1 .. Cardinality(RowLines)
      /\ Prints(event, n) => RankOf(n + 1)' = Cardinality(RowLines) + 1
  BY <1>1, RowLinesGrow
<1>3. /\ rows' \in Seq(RowType)
      /\ Len(rows') = Len(rows) + (IF Prints(event, n) THEN 1 ELSE 0)
      /\ \A k \in 1 .. Len(rows) : rows'[k] = rows[k]
      /\ Prints(event, n) => rows'[Len(rows) + 1] = new
  <2> HIDE DEF Prints, RowType
  <2>1. CASE Prints(event, n)
    <3>1. rows' = Append(rows, new)
      BY <2>1
    <3>2. /\ rows' \in Seq(RowType) /\ Len(rows') = Len(rows) + 1
          /\ \A k \in 1 .. Len(rows) : rows'[k] = rows[k]
          /\ rows'[Len(rows) + 1] = new
      BY <1>1, <3>1, AppendProperties
    <3> QED BY <2>1, <3>2
  <2>2. CASE ~Prints(event, n)
    BY <1>1, <2>2
  <2> QED BY <2>1, <2>2
<1>4. RowsKept
  BY <1>1, <1>2, <1>3 DEF RowsKept
<1>5. Prints(event, n) => rows'[RankOf(n + 1)'] = new
  BY <1>1, <1>2, <1>3
<1>6. \A k \in 1 .. Len(rows') : \E j \in RowLines' : RankOf(j)' = k
  <2> SUFFICES ASSUME NEW k \in 1 .. Len(rows') PROVE \E j \in RowLines' : RankOf(j)' = k
    OBVIOUS
  <2>1. CASE k \in 1 .. Len(rows)
    BY <1>1, <1>2, <2>1
  <2>2. CASE k \notin 1 .. Len(rows)
    <3>1. Prints(event, n) /\ k = Len(rows) + 1
      BY <1>1, <1>3, <2>2
    <3>2. n + 1 \in RowLines' /\ RankOf(n + 1)' = k
      BY <1>1, <1>2, <3>1
    <3> QED BY <3>2
  <2> QED BY <2>1, <2>2
<1>7. ASSUME NEW j \in RowLines
      PROVE  RowMatches(j)'
  <2>1. /\ RankOf(j) \in 1 .. Len(rows)
        /\ \A row \in RowType : row = rows[RankOf(j)] => RowFits(j, row)
    BY <1>1 DEF RowMatches
  <2>2. RankOf(j)' \in 1 .. Len(rows')
    BY <1>1, <1>2, <1>3, <2>1
  <2>3. ASSUME NEW row \in RowType, row = rows'[RankOf(j)']
        PROVE  RowFits(j, row)'
    <3>1. RowFits(j, row)
      BY <1>4, <2>1, <2>3 DEF RowsKept
    <3>2. j \in 1 .. n + 1
      BY <1>2
    <3> QED BY <1>1, <1>4, <3>1, <3>2, RowStays
  <2> QED BY <2>2, <2>3 DEF RowMatches
<1>8. Prints(event, n) => RowMatches(n + 1)'
  <2> SUFFICES ASSUME Prints(event, n) PROVE RowMatches(n + 1)'
    OBVIOUS
  <2>1. RankOf(n + 1)' \in 1 .. Len(rows')
    BY <1>1, <1>2, <1>3
  <2>2. n + 1 \in 1 .. n + 1
    OBVIOUS
  <2>3. RowFits(n + 1, new)'
    BY <1>1, <1>4, <2>2, RowStays
  <2>4. ASSUME NEW row \in RowType, row = rows'[RankOf(n + 1)']
        PROVE  RowFits(n + 1, row)'
    <3>1. row = new
      BY <1>5, <2>4
    <3> QED BY <2>3, <3>1
  <2> QED BY <2>1, <2>4 DEF RowMatches
<1>9. \A j \in RowLines' : RowMatches(j)'
  BY <1>2, <1>7, <1>8
<1> QED BY <1>1, <1>2, <1>3, <1>4, <1>5, <1>6, <1>9

\* What an instrumented line prints: the chain entered, for the site before it.
LEMMA PrintedRow ==
    ASSUME ChainInv, NEW event \in GdbLine, NEW n \in Nat, n = Len(gdblog),
           event.kind # "frame", OutOfLastCallchain
    PROVE  \E new \in RowType :
              /\ rows' = IF Prints(event, n) THEN Append(rows, new) ELSE rows
              /\ state_in_libc' = FALSE /\ (state_in_libc <=> Prints(event, n))
              /\ Prints(event, n) => RowFits(n + 1, new)
              /\ new.site = enteringFunc_callsite_ID
<1> DEFINE site == enteringFunc_callsite_ID
           new == [chain |-> currentCallChain_set, func |-> enteringFunc_static_ID,
                   site |-> site, features |-> prefix[site]]
<1>1. /\ state_in_libc <=> Entered(n + 1) # {}
      /\ state_in_libc => currentCallChain_set = NamesOf(Entered(n + 1))
      /\ SiteIs(n + 1, site, enteringFunc_static_ID)
      /\ \A s \in Site, f \in Prefix : f = prefix[s] => FeaturesFit(n + 1, s, f)
  BY DEF ChainInv, NowMatches
<1>2. /\ state_in_libc \in BOOLEAN /\ currentCallChain_set \in SUBSET AnyFunc
      /\ site \in Site \union {NoSite} /\ enteringFunc_static_ID \in StaticIDs
      /\ prefix[site] \in Prefix /\ prefix[NoSite] = NoPrefix
  BY DEF ChainInv, ChainTyped
<1>3. new \in RowType
  BY <1>2 DEF RowType
<1>4. state_in_libc <=> Prints(event, n)
  BY <1>1 DEF Prints
<1>5. /\ rows' = IF Prints(event, n) THEN Append(rows, new) ELSE rows
      /\ state_in_libc' = FALSE
  BY <1>2, <1>4 DEF OutOfLastCallchain
<1>6. SiteOf(n + 1) = {} => site = NoSite
  BY <1>1 DEF SiteIs
<1>7. SiteOf(n + 1) # {} => site \in Site
  <2> SUFFICES ASSUME SiteOf(n + 1) # {} PROVE site \in Site
    OBVIOUS
  <2>1. site = gdblog[LastOf(SiteOf(n + 1))].site /\ LastOf(SiteOf(n + 1)) \in SiteOf(n + 1)
    BY <1>1 DEF SiteIs, HasLast
  <2>2. \A i \in SiteOf(n + 1) : i \in 1 .. n /\ gdblog[i].kind = "site"
    BY DEF SiteOf, Before, Lines
  <2>3. \A i \in 1 .. n : gdblog[i] \in GdbLine
    BY LenProperties DEF ChainInv, ChainTyped
  <2>4. \A i \in SiteOf(n + 1) : gdblog[i].site \in Site
    BY <2>2, <2>3 DEF GdbLine
  <2> QED BY <2>1, <2>4
<1>8. Prints(event, n) => RowFits(n + 1, new)
  <2> SUFFICES ASSUME Prints(event, n) PROVE RowFits(n + 1, new)
    OBVIOUS
  <2>1. /\ new.chain = NamesOf(Entered(n + 1)) /\ new.site = site
        /\ new.func = enteringFunc_static_ID /\ new.features = prefix[site]
    BY <1>1, <1>4
  <2> HIDE DEF new
  <2>2. SiteOf(n + 1) = {} => new.features = NoPrefix
    BY <1>2, <1>6, <2>1
  <2>3. SiteOf(n + 1) # {} => FeaturesFit(n + 1, new.site, new.features)
    BY <1>1, <1>2, <1>7, <2>1
  <2> QED BY <1>1, <2>1, <2>2, <2>3 DEF RowFits
<1> QED BY <1>3, <1>4, <1>5, <1>8

\* A row printed takes the values of its call site along.
LEMMA ClearedFacts ==
    ASSUME ChainInv
    PROVE  /\ DOMAIN Cleared = Site \union {NoSite} /\ Cleared[NoSite] = NoPrefix
           /\ \A s \in Site \union {NoSite} :
                 /\ Cleared[s] \in Prefix /\ Cleared[s].rdf = prefix[s].rdf
                 /\ \A a \in Arg : Cleared[s].arg[a] =
                       IF state_in_libc /\ s = enteringFunc_callsite_ID THEN Unknown
                       ELSE prefix[s].arg[a]
<1>1. prefix \in [Site \union {NoSite} -> Prefix] /\ prefix[NoSite] = NoPrefix
  BY DEF ChainInv, ChainTyped
<1>2. NoPrefix \in Prefix /\ \A a \in Arg : NoPrefix.arg[a] = Unknown
  BY DEF NoPrefix, Prefix
<1>3. ASSUME NEW g \in Prefix
      PROVE  /\ [g EXCEPT !.arg = NoPrefix.arg] \in Prefix
             /\ [g EXCEPT !.arg = NoPrefix.arg].rdf = g.rdf
             /\ [g EXCEPT !.arg = NoPrefix.arg].arg = NoPrefix.arg
             /\ g = NoPrefix => [g EXCEPT !.arg = NoPrefix.arg] = NoPrefix
  BY <1>2 DEF Prefix
<1>4. CASE state_in_libc
  <2>1. Cleared = [prefix EXCEPT ![enteringFunc_callsite_ID] =
                      [prefix[enteringFunc_callsite_ID] EXCEPT !.arg = NoPrefix.arg]]
    BY <1>4 DEF Cleared
  <2> QED BY <1>1, <1>2, <1>3, <1>4, <2>1
<1>5. CASE ~state_in_libc
  BY <1>1, <1>5 DEF Cleared
<1> QED BY <1>4, <1>5

\* Every instrumented line prints what was entered and keeps the invariant.
LEMMA InstrumentedStep ==
    ASSUME ChainInv, NEW event \in GdbLine, gdblog' = Append(gdblog, event),
           event.kind # "frame", OutOfLastCallchain,
           UNCHANGED <<top_func, currentCallChain_set>>,
           event.kind = "site" => enteringFunc_callsite_ID' = event.site
                                  /\ enteringFunc_static_ID' = FuncOf[event.site],
           event.kind # "site" => UNCHANGED sites,
           prefix' \in [Site \union {NoSite} -> Prefix], prefix'[NoSite] = NoPrefix,
           \A s \in Site, a \in Arg :
              /\ prefix'[s].rdf[a] = IF HitBy(event, s, a) THEN event.rdf ELSE prefix[s].rdf[a]
              /\ \/ prefix'[s].arg[a] = Cleared[s].arg[a]
                 \/ /\ event.kind = "site" /\ event.site = s /\ a \in DOMAIN event.values
                    /\ prefix'[s].arg[a] = event.values[a]
    PROVE  ChainInv'
<1>1. gdblog \in Seq(GdbLine) /\ Len(gdblog) \in Nat
  BY DEF ChainInv, ChainTyped
<1>2. PICK n \in Nat : n = Len(gdblog)
  BY <1>1
<1>3. PICK new \in RowType :
         /\ rows' = IF Prints(event, n) THEN Append(rows, new) ELSE rows
         /\ state_in_libc' = FALSE /\ (state_in_libc <=> Prints(event, n))
         /\ Prints(event, n) => RowFits(n + 1, new)
         /\ new.site = enteringFunc_callsite_ID
  BY <1>2, PrintedRow
<1>4. /\ RowsKept /\ rows' \in Seq(RowType)
      /\ Prints(event, n) => rows'[RankOf(n + 1)'] = new
      /\ Len(rows') = Cardinality(RowLines')
      /\ \A k \in 1 .. Len(rows') : \E j \in RowLines' : RankOf(j)' = k
      /\ \A j \in RowLines' : RowMatches(j)'
  BY <1>2, <1>3, RowsStep
<1>5. gdblog' \in Seq(GdbLine) /\ Len(gdblog') = n + 1 /\ \A i \in 1 .. n : gdblog'[i] = gdblog[i]
  BY <1>1, <1>2, GdbLogGrows
<1>6. event.kind = "site" => event.site \in Site
  BY DEF GdbLine
<1>7. ChainTyped'
  <2>1. /\ enteringFunc_callsite_ID \in Site \union {NoSite} /\ enteringFunc_static_ID \in StaticIDs
        /\ top_func \in AnyFunc \union {NoFunc} /\ currentCallChain_set \in SUBSET AnyFunc
    BY DEF ChainInv, ChainTyped
  <2>2. \A s \in Site : FuncOf[s] \in StaticIDs
    BY DEF StaticIDs
  <2>3. enteringFunc_callsite_ID' \in Site \union {NoSite} /\ enteringFunc_static_ID' \in StaticIDs
    BY <1>6, <2>1, <2>2 DEF sites
  <2> QED BY <1>3, <1>4, <1>5, <2>1, <2>3 DEF ChainTyped
<1>8. /\ Since(n + 2)' = n + 1 /\ Entered(n + 2)' = {} /\ Stops' = Stops
  BY <1>1, <1>2, InstrumentationStarts
<1>9. TopMatches'
  <2>1. Stops \subseteq 1 .. n
    BY <1>1, <1>2, KindsGrow
  <2>2. TopMatches
    BY DEF ChainInv
  <2> QED BY <1>5, <1>8, <2>1, <2>2 DEF TopMatches
<1>10. NowMatches(n + 1)
  BY <1>2 DEF ChainInv
<1>11. SiteIs(n + 2, enteringFunc_callsite_ID, enteringFunc_static_ID)'
  <2>1. \A s, id : s = enteringFunc_callsite_ID' /\ id = enteringFunc_static_ID' => SiteIs(n + 2, s, id)'
    <3>1. CASE event.kind = "site"
      BY <1>1, <1>2, <1>4, <3>1, KnownGrows
    <3>2. CASE event.kind # "site"
      <4>1. SiteIs(n + 1, enteringFunc_callsite_ID, enteringFunc_static_ID)
        BY <1>10 DEF NowMatches
      <4>2. enteringFunc_callsite_ID' = enteringFunc_callsite_ID /\ enteringFunc_static_ID' = enteringFunc_static_ID
        BY <3>2 DEF sites
      <4>3. \A s, id : SiteIs(n + 1, s, id) => SiteIs(n + 2, s, id)'
        BY <1>1, <1>2, <1>4, <3>2, KnownGrows
      <4> QED BY <4>1, <4>2, <4>3
    <3> QED BY <3>1, <3>2
  <2> QED BY <2>1 DEF SiteIs, HasLast
<1>12. ASSUME NEW s \in Site, NEW f \in Prefix, f = prefix'[s]
       PROVE  FeaturesFit(n + 2, s, f)'
  <2>1. prefix[s] \in Prefix
    BY DEF ChainInv, ChainTyped
  <2>2. PICK g \in Prefix : g = prefix[s]
    BY <2>1
  <2>3. FeaturesFit(n + 1, s, g)
    BY <1>10, <2>2 DEF NowMatches
  <2>4. ASSUME NEW a \in Arg
        PROVE  RdfIs(n + 2, s, a, f.rdf[a])'
    <3>1. f.rdf[a] = IF HitBy(event, s, a) THEN event.rdf ELSE g.rdf[a]
      BY <1>12, <2>2
    <3>2. RdfIs(n + 1, s, a, g.rdf[a])
      BY <2>3 DEF FeaturesFit
    <3>3. CASE HitBy(event, s, a)
      <4>1. RdfIs(n + 2, s, a, event.rdf)'
        BY <1>1, <1>2, <1>4, <3>3, KnownGrows
      <4> QED BY <3>1, <3>3, <4>1
    <3>4. CASE ~HitBy(event, s, a)
      <4>1. RdfIs(n + 2, s, a, g.rdf[a])'
        BY <1>1, <1>2, <1>4, <3>2, <3>4, KnownGrows
      <4> QED BY <3>1, <3>4, <4>1
    <3> QED BY <3>3, <3>4
  <2>5. ASSUME NEW a \in Arg, f.arg[a] # Unknown
        PROVE  FreshValue(n + 2, s, a, f.arg[a])'
    <3>1. CASE /\ event.kind = "site" /\ event.site = s /\ a \in DOMAIN event.values
               /\ f.arg[a] = event.values[a]
      <4>1. FreshValue(n + 2, event.site, a, event.values[a])'
        BY <1>1, <1>2, <1>4, <3>1, KnownGrows
      <4> QED BY <3>1, <4>1
    <3>2. CASE f.arg[a] = Cleared[s].arg[a]
      <4>1. /\ ~(state_in_libc /\ s = enteringFunc_callsite_ID)
            /\ f.arg[a] = g.arg[a]
        BY <2>2, <2>5, <3>2, ClearedFacts
      <4>2. FreshValue(n + 1, s, a, g.arg[a])
        BY <2>3, <2>5, <4>1 DEF FeaturesFit
      <4>3. ~(Prints(event, n) /\ rows'[RankOf(n + 1)'].site = s)
        BY <1>3, <1>4, <4>1
      <4>4. FreshValue(n + 2, s, a, g.arg[a])'
        BY <1>1, <1>2, <1>4, <4>2, <4>3, KnownGrows
      <4> QED BY <4>1, <4>4
    <3> QED BY <1>12, <3>1, <3>2
  <2> QED BY <2>4, <2>5 DEF FeaturesFit
<1>13. NowMatches(n + 2)'
  <2>1. Since(n + 2)' \in 0 .. n + 2 - 1
    BY <1>8
  <2>2. ~state_in_libc'
    BY <1>3
  <2> QED BY <1>8, <1>11, <1>12, <2>1, <2>2 DEF NowMatches
<1>14. \A p \in Nat : p = Len(gdblog') + 1 => NowMatches(p)'
  <2>1. \A p \in Nat : p = Len(gdblog') + 1 => p = n + 2
    BY <1>5
  <2> QED BY <1>13, <2>1
<1> QED BY <1>4, <1>7, <1>9, <1>14 DEF ChainInv

\* A stop records the routine of the stop before it, and enters a chain with
\* the first library routine.
LEMMA FrameRecords ==
    ASSUME ChainInv, NEW f \in AnyFunc, Frame(f), NEW n \in Nat, n = Len(gdblog)
    PROVE  /\ Entered(n + 2)' \subseteq 1 .. n
           /\ state_in_libc <=> Entered(n + 1) # {}
           /\ \/ /\ Entered(n + 1) = {} /\ Entered(n + 2)' = {} /\ ~state_in_libc'
                 /\ UNCHANGED <<enteringFunc, entryFunc_to_count_map>>
              \/ \E t \in 1 .. n :
                    /\ \A i \in Entered(n + 1) : i <= t
                    /\ Entered(n + 2)' = Entered(n + 1) \union {t}
                    /\ gdblog[t].name = top_func /\ state_in_libc'
                    /\ \/ /\ Entered(n + 1) # {}
                          /\ currentCallChain_set' = currentCallChain_set \union {top_func}
                          /\ UNCHANGED <<enteringFunc, entryFunc_to_count_map>>
                       \/ /\ Entered(n + 1) = {}
                          /\ currentCallChain_set' = {top_func}
                          /\ enteringFunc' = <<top_func, prefix[enteringFunc_callsite_ID]>>
                          /\ entryFunc_to_count_map' = Counted(enteringFunc')
<1> DEFINE event == [kind |-> "frame", name |-> f]
<1>1. /\ gdblog \in Seq(GdbLine) /\ event \in GdbLine /\ event.kind = "frame"
      /\ gdblog' = Append(gdblog, event)
  BY DEF ChainInv, ChainTyped, Frame, ReadLog, GdbLine
<1>3. IF top_func = NoFunc
      THEN UNCHANGED <<state_in_libc, currentCallChain_set, enteringFunc, entryFunc_to_count_map>>
      ELSE RecordStack(top_func)
  BY DEF Frame
<1> HIDE DEF event
<1>8. \A i \in 1 .. n : gdblog'[i] = gdblog[i]
  BY <1>1, GdbLogGrows
<1>9. /\ state_in_libc \in BOOLEAN /\ TopMatches /\ NoFunc \notin AnyFunc
  BY ChainAssumption DEF ChainInv, ChainTyped, AnyFunc
<1>11. NowMatches(n + 1)
  BY DEF ChainInv
<1>12. Since(n + 1) \in 0 .. n /\ Stops \subseteq 1 .. n
  BY <1>1, <1>11, KindsGrow DEF NowMatches
<1>13. Recorded(n + 2)' = Recorded(n + 1) \union {i \in Stops : \A h \in Stops : h <= i}
  BY <1>1, <1>12, StopRecords
<1>15. Recorded(n + 1) \subseteq Stops /\ Entered(n + 1) \subseteq Recorded(n + 1)
  BY DEF Recorded, Entered
<1>16. Entered(n + 2)' = {i \in Recorded(n + 2)' : \E e \in Recorded(n + 2)' :
                             e <= i /\ gdblog[e].name \in LibFunc}
  <2>1. Entered(n + 2)' = {i \in Recorded(n + 2)' : \E e \in Recorded(n + 2)' :
                             e <= i /\ gdblog'[e].name \in LibFunc}
    BY DEF Entered
  <2>2. \A e \in Recorded(n + 2)' : gdblog'[e] = gdblog[e]
    BY <1>8, <1>12, <1>13, <1>15
  <2> QED BY <2>1, <2>2
<1>18. state_in_libc <=> Entered(n + 1) # {}
  BY <1>11 DEF NowMatches
<1>19. Entered(n + 2)' \subseteq 1 .. n
  BY <1>12, <1>13, <1>15, <1>16
<1>20. CASE Stops = {}
  <2>1. top_func = NoFunc
    BY <1>9, <1>20 DEF TopMatches
  <2>2. Recorded(n + 2)' = {} /\ Entered(n + 2)' = {} /\ Entered(n + 1) = {}
    BY <1>13, <1>15, <1>16, <1>20
  <2> QED BY <1>3, <1>18, <2>1, <2>2
<1>21. CASE Stops # {}
  <2>1. PICK t \in Stops : (\A i \in Stops : i <= t) /\ top_func = gdblog[t].name
    BY <1>9, <1>21 DEF TopMatches
  <2>2. {i \in Stops : \A h \in Stops : h <= i} = {t}
    <3>1. \A i \in Stops : i <= t /\ t <= i => i = t
      BY <1>12
    <3> QED BY <2>1, <3>1
  <2>3. Recorded(n + 2)' = Recorded(n + 1) \union {t}
    BY <1>13, <2>2
  <2>4. top_func # NoFunc
    <3>1. gdblog[t] \in GdbLine /\ gdblog[t].kind = "frame"
      BY <1>1, <1>12, LenProperties DEF Stops, Lines
    <3>2. gdblog[t].name \in AnyFunc
      BY <3>1 DEF GdbLine
    <3> QED BY <1>9, <2>1, <3>2
  <2>5. RecordStack(top_func)
    BY <1>3, <2>4
  <2>6. t \in 1 .. n /\ \A i \in Recorded(n + 1) : i \in 1 .. n /\ i <= t
    BY <1>12, <1>15, <2>1
  <2>7. t <= t /\ \A i \in Recorded(n + 1) : i <= i /\ (t <= i => i = t)
    BY <2>6
  <2>8. CASE Entered(n + 1) # {}
    <3>1. state_in_libc /\ state_in_libc' = state_in_libc
          /\ currentCallChain_set' = currentCallChain_set \union {top_func}
          /\ UNCHANGED <<enteringFunc, entryFunc_to_count_map>>
      BY <1>18, <2>5, <2>8 DEF RecordStack
    <3>2. PICK e \in Recorded(n + 1) : gdblog[e].name \in LibFunc
      BY <2>8 DEF Entered
    <3>3. t \in Entered(n + 2)'
      BY <1>16, <2>3, <2>6, <3>2
    <3>4. \A i \in Recorded(n + 1) : i \in Entered(n + 2)' /\ i # t <=> i \in Entered(n + 1) /\ i # t
      <4> SUFFICES ASSUME NEW i \in Recorded(n + 1), i # t
                   PROVE  i \in Entered(n + 2)' <=> i \in Entered(n + 1)
        OBVIOUS
      <4>1. ~(t <= i)
        BY <2>7
      <4> QED BY <1>16, <2>3, <4>1 DEF Entered
    <3>5. Entered(n + 2)' = Entered(n + 1) \union {t}
      BY <1>15, <1>16, <2>3, <3>3, <3>4
    <3> QED BY <1>15, <1>18, <1>19, <2>1, <2>6, <2>8, <3>1, <3>5
  <2>9. CASE Entered(n + 1) = {} /\ top_func \in LibFunc
    <3>1. /\ state_in_libc' /\ currentCallChain_set' = {top_func}
          /\ enteringFunc' = <<top_func, prefix[enteringFunc_callsite_ID]>>
          /\ entryFunc_to_count_map' = Counted(enteringFunc')
      BY <1>18, <2>5, <2>9 DEF RecordStack
    <3>2. t \in Entered(n + 2)'
      BY <1>16, <2>1, <2>3, <2>7, <2>9
    <3>3. \A i \in Entered(n + 2)' : i = t
      <4> SUFFICES ASSUME NEW i \in Entered(n + 2)', i # t PROVE FALSE
        OBVIOUS
      <4>1. i \in Recorded(n + 1)
        BY <1>16, <2>3
      <4>2. PICK e \in Recorded(n + 2)' : e <= i /\ gdblog[e].name \in LibFunc
        BY <1>16
      <4>3. ~(t <= i)
        BY <2>7, <4>1
      <4>4. e \in Recorded(n + 1)
        BY <2>3, <4>2, <4>3
      <4> QED BY <2>9, <4>1, <4>2, <4>4 DEF Entered
    <3>4. Entered(n + 2)' = {t}
      BY <3>2, <3>3
    <3>5. Entered(n + 2)' = Entered(n + 1) \union {t}
      BY <2>9, <3>4
    <3> QED BY <1>18, <1>19, <2>1, <2>6, <2>9, <3>1, <3>5
  <2>10. CASE Entered(n + 1) = {} /\ top_func \notin LibFunc
    <3>1. ~state_in_libc' /\ UNCHANGED <<enteringFunc, entryFunc_to_count_map>>
      BY <1>18, <2>5, <2>10 DEF RecordStack
    <3>2. \A e \in Recorded(n + 1) : gdblog[e].name \notin LibFunc
      BY <2>7, <2>10 DEF Entered
    <3>3. Entered(n + 2)' = {}
      BY <1>16, <2>1, <2>3, <2>10, <3>2
    <3> QED BY <1>18, <1>19, <2>10, <3>1, <3>3
  <2> QED BY <2>8, <2>9, <2>10
<1> QED BY <1>18, <1>19, <1>20, <1>21

\* A stop keeps the invariant.
LEMMA FrameStep ==
    ASSUME ChainInv, NEW f \in AnyFunc, Frame(f)
    PROVE  ChainInv'
<1> DEFINE event == [kind |-> "frame", name |-> f]
<1>1. /\ gdblog \in Seq(GdbLine) /\ Len(gdblog) \in Nat /\ rows \in Seq(RowType)
      /\ event \in GdbLine /\ event.kind = "frame" /\ event.name = f
      /\ gdblog' = Append(gdblog, event)
  BY DEF ChainInv, ChainTyped, Frame, ReadLog, GdbLine
<1>2. PICK n \in Nat : n = Len(gdblog)
  BY <1>1
<1>3. /\ IF top_func = NoFunc THEN UNCHANGED <<state_in_libc, currentCallChain_set>>
         ELSE RecordStack(top_func)
      /\ top_func' = f /\ UNCHANGED <<sites, prefix, rows>>
  BY DEF Frame
<1> HIDE DEF event
<1>4. PICK new : new = [chain |-> {}, func |-> 0, site |-> NoSite, features |-> NoPrefix]
  OBVIOUS
<1>5. new \in RowType
  BY <1>4 DEF RowType, StaticIDs, Prefix, NoPrefix
<1>6. ~Prints(event, n)
  BY <1>1 DEF Prints
<1>7. /\ RowsKept /\ rows' \in Seq(RowType)
      /\ Len(rows') = Cardinality(RowLines')
      /\ \A k \in 1 .. Len(rows') : \E j \in RowLines' : RankOf(j)' = k
      /\ \A j \in RowLines' : RowMatches(j)'
  <2>1. rows' = IF Prints(event, n) THEN Append(rows, new) ELSE rows
    BY <1>3, <1>6
  <2> QED BY <1>1, <1>2, <1>5, <1>6, <2>1, RowsStep
<1>8. /\ gdblog' \in Seq(GdbLine) /\ Len(gdblog') = n + 1 /\ gdblog'[n + 1] = event
      /\ \A i \in 1 .. n : gdblog'[i] = gdblog[i]
  BY <1>1, <1>2, GdbLogGrows
<1>9. /\ top_func \in AnyFunc \union {NoFunc} /\ state_in_libc \in BOOLEAN
      /\ currentCallChain_set \in SUBSET AnyFunc /\ TopMatches
      /\ NoFunc \notin AnyFunc
  BY ChainAssumption DEF ChainInv, ChainTyped, AnyFunc
<1>10. ChainTyped'
  <2>1. state_in_libc' \in BOOLEAN /\ currentCallChain_set' \in SUBSET AnyFunc
    BY <1>3, <1>9 DEF RecordStack
  <2> QED BY <1>3, <1>7, <1>8, <2>1 DEF ChainInv, ChainTyped, sites
<1>11. NowMatches(n + 1)
  BY <1>2 DEF ChainInv
<1>12. Since(n + 1) \in 0 .. n /\ Stops \subseteq 1 .. n
  BY <1>1, <1>2, <1>11, KindsGrow DEF NowMatches
<1>13. /\ Since(n + 2)' = Since(n + 1)
       /\ Recorded(n + 2)' = Recorded(n + 1) \union {i \in Stops : \A h \in Stops : h <= i}
       /\ Stops' = Stops \union {n + 1}
  BY <1>1, <1>2, <1>12, StopRecords
<1>14. TopMatches'
  <2>1. n + 1 \in Stops' /\ \A i \in Stops' : i <= n + 1
    BY <1>12, <1>13
  <2> QED BY <1>1, <1>3, <1>8, <2>1 DEF TopMatches
<1>15. /\ Entered(n + 2)' \subseteq 1 .. n
       /\ state_in_libc <=> Entered(n + 1) # {}
       /\ \/ /\ Entered(n + 1) = {} /\ Entered(n + 2)' = {} /\ ~state_in_libc'
          \/ \E t \in 1 .. n :
                /\ Entered(n + 2)' = Entered(n + 1) \union {t}
                /\ gdblog[t].name = top_func /\ state_in_libc'
                /\ \/ /\ Entered(n + 1) # {}
                      /\ currentCallChain_set' = currentCallChain_set \union {top_func}
                   \/ /\ Entered(n + 1) = {}
                      /\ currentCallChain_set' = {top_func}
  <2> HIDE DEF ChainInv, Frame
  <2> QED BY <1>2, FrameRecords
<1>16. NamesOf(Entered(n + 2))' = NamesOf(Entered(n + 2)')
  <2>1. NamesOf(Entered(n + 2))' = {gdblog'[i].name : i \in Entered(n + 2)'}
    BY DEF NamesOf
  <2>2. \A i \in Entered(n + 2)' : gdblog'[i].name = gdblog[i].name
    BY <1>8, <1>15
  <2>3. {gdblog'[i].name : i \in Entered(n + 2)'} = {gdblog[i].name : i \in Entered(n + 2)'}
    BY <2>2
  <2> QED BY <2>1, <2>3 DEF NamesOf
<1>17. state_in_libc => currentCallChain_set = NamesOf(Entered(n + 1))
  BY <1>11 DEF NowMatches
<1>18. \A t : NamesOf(Entered(n + 1) \union {t}) = NamesOf(Entered(n + 1)) \union {gdblog[t].name}
  BY DEF NamesOf
<1>19. /\ state_in_libc' <=> Entered(n + 2)' # {}
       /\ state_in_libc' => currentCallChain_set' = NamesOf(Entered(n + 2))'
  <2>1. NamesOf({}) = {}
    BY DEF NamesOf
  <2> QED BY <1>15, <1>16, <1>17, <1>18, <2>1
<1>20. SiteIs(n + 2, enteringFunc_callsite_ID, enteringFunc_static_ID)'
  <2>1. SiteIs(n + 1, enteringFunc_callsite_ID, enteringFunc_static_ID)
    BY <1>11 DEF NowMatches
  <2>2. enteringFunc_callsite_ID' = enteringFunc_callsite_ID /\ enteringFunc_static_ID' = enteringFunc_static_ID
    BY <1>3 DEF sites
  <2>3. \A s, id : SiteIs(n + 1, s, id) => SiteIs(n + 2, s, id)'
    BY <1>1, <1>2, <1>7, KnownGrows
  <2>4. \A s, id : s = enteringFunc_callsite_ID' /\ id = enteringFunc_static_ID' => SiteIs(n + 2, s, id)'
    BY <2>1, <2>2, <2>3
  <2> QED BY <2>4 DEF SiteIs, HasLast
<1>21. ASSUME NEW s \in Site, NEW g \in Prefix, g = prefix'[s]
       PROVE  FeaturesFit(n + 2, s, g)'
  <2>1. FeaturesFit(n + 1, s, g)
    BY <1>3, <1>11, <1>21 DEF NowMatches
  <2>2. \A a : ~HitBy(event, s, a)
    BY <1>1 DEF HitBy
  <2>3. /\ \A a, r : RdfIs(n + 1, s, a, r) => RdfIs(n + 2, s, a, r)'
        /\ \A a, v : FreshValue(n + 1, s, a, v) => FreshValue(n + 2, s, a, v)'
    BY <1>1, <1>2, <1>6, <1>7, <2>2, KnownGrows
  <2> QED BY <2>1, <2>3 DEF FeaturesFit
<1>22. NowMatches(n + 2)'
  <2>1. Since(n + 2)' \in 0 .. n + 2 - 1
    BY <1>12, <1>13
  <2> QED BY <1>19, <1>20, <1>21, <2>1 DEF NowMatches
<1>23. \A p \in Nat : p = Len(gdblog') + 1 => NowMatches(p)'
  <2>1. \A p \in Nat : p = Len(gdblog') + 1 => p = n + 2
    BY <1>8
  <2> QED BY <1>22, <2>1
<1> QED BY <1>7, <1>10, <1>14, <1>23 DEF ChainInv

LEMMA CallStep ==
    ASSUME ChainInv, NEW s \in Site, NEW A \in SUBSET Shown, NEW values \in [A -> Value],
           CallStatement(s, values)
    PROVE  ChainInv'
<1> DEFINE event == [kind |-> "site", site |-> s, values |-> values]
<1>1. /\ event \in GdbLine /\ event.kind = "site" /\ event.site = s /\ event.values = values
      /\ gdblog' = Append(gdblog, event)
  BY DEF CallStatement, ReadLog, GdbLine
<1>2. /\ OutOfLastCallchain /\ UNCHANGED <<top_func, currentCallChain_set>>
      /\ enteringFunc_callsite_ID' = s /\ enteringFunc_static_ID' = FuncOf[s]
  BY DEF CallStatement
<1> HIDE DEF event
<1> DEFINE args == [a \in Arg |-> IF a \in DOMAIN values THEN values[a] ELSE Cleared[s].arg[a]]
<1>3. prefix' = [Cleared EXCEPT ![s] = [Cleared[s] EXCEPT !.arg = args]]
  BY DEF CallStatement
<1>4. /\ DOMAIN Cleared = Site \union {NoSite} /\ Cleared[NoSite] = NoPrefix
      /\ \A t \in Site \union {NoSite} : Cleared[t] \in Prefix /\ Cleared[t].rdf = prefix[t].rdf
  BY ClearedFacts
<1>5. \A a \in DOMAIN values : values[a] \in Value
  OBVIOUS
<1>6. args \in [Arg -> Value \union {Unknown}]
  <2>1. Cleared[s].arg \in [Arg -> Value \union {Unknown}]
    BY <1>4 DEF Prefix
  <2> QED BY <1>5, <2>1
<1>7. \A a \in Arg : args[a] = IF a \in DOMAIN values THEN values[a] ELSE Cleared[s].arg[a]
  OBVIOUS
<1> HIDE DEF args
<1>8. Cleared \in [Site \union {NoSite} -> Prefix]
  <2>1. Cleared = [t \in Site \union {NoSite} |-> Cleared[t]]
    <3>1. CASE state_in_libc
      BY <3>1, <1>4 DEF Cleared
    <3>2. CASE ~state_in_libc
      BY <3>2 DEF Cleared, ChainInv, ChainTyped
    <3> QED BY <3>1, <3>2
  <2> QED BY <1>4, <2>1
<1>9. /\ [Cleared[s] EXCEPT !.arg = args] \in Prefix
      /\ [Cleared[s] EXCEPT !.arg = args].rdf = Cleared[s].rdf
      /\ [Cleared[s] EXCEPT !.arg = args].arg = args
  BY <1>4, <1>6 DEF Prefix
<1>10. s # NoSite
  BY ChainAssumption
<1>11. prefix' \in [Site \union {NoSite} -> Prefix] /\ prefix'[NoSite] = NoPrefix
  BY <1>3, <1>4, <1>8, <1>9, <1>10
<1>12. \A t \in Site, a \in Arg :
          /\ prefix'[t].rdf[a] = IF HitBy(event, t, a) THEN event.rdf ELSE prefix[t].rdf[a]
          /\ \/ prefix'[t].arg[a] = Cleared[t].arg[a]
             \/ /\ event.kind = "site" /\ event.site = t /\ a \in DOMAIN event.values
                /\ prefix'[t].arg[a] = event.values[a]
  <2> SUFFICES ASSUME NEW t \in Site, NEW a \in Arg
               PROVE  /\ prefix'[t].rdf[a] = IF HitBy(event, t, a) THEN event.rdf ELSE prefix[t].rdf[a]
                      /\ \/ prefix'[t].arg[a] = Cleared[t].arg[a]
                         \/ /\ event.kind = "site" /\ event.site = t /\ a \in DOMAIN event.values
                            /\ prefix'[t].arg[a] = event.values[a]
    OBVIOUS
  <2>1. ~HitBy(event, t, a)
    BY <1>1 DEF HitBy
  <2>2. CASE t = s
    <3>1. prefix'[t].rdf = prefix[t].rdf /\ prefix'[t].arg = args
      BY <1>3, <1>4, <1>8, <1>9, <2>2
    <3> QED BY <1>1, <1>7, <2>1, <2>2, <3>1
  <2>3. CASE t # s
    <3>1. prefix'[t] = Cleared[t]
      BY <1>3, <1>8, <2>3
    <3> QED BY <1>4, <2>1, <3>1
  <2> QED BY <2>2, <2>3
<1> QED BY <1>1, <1>2, <1>11, <1>12, InstrumentedStep

LEMMA RdfStep ==
    ASSUME ChainInv, NEW r \in RDF, ControlDep(r)
    PROVE  ChainInv'
<1> DEFINE event == [kind |-> "rdf", rdf |-> r]
<1>1. /\ event \in GdbLine /\ event.kind = "rdf" /\ event.rdf = r
      /\ gdblog' = Append(gdblog, event)
  BY DEF ControlDep, ReadLog, GdbLine
<1>2. /\ OutOfLastCallchain /\ UNCHANGED <<top_func, currentCallChain_set>> /\ UNCHANGED sites
      /\ prefix' = RdfSeen(r)
  BY DEF ControlDep
<1> HIDE DEF event
<1>3. /\ DOMAIN Cleared = Site \union {NoSite} /\ Cleared[NoSite] = NoPrefix
      /\ \A t \in Site \union {NoSite} : Cleared[t] \in Prefix /\ Cleared[t].rdf = prefix[t].rdf
  BY ClearedFacts
<1>4. ASSUME NEW t \in Site
      PROVE  /\ prefix'[t] \in Prefix /\ prefix'[t].arg = Cleared[t].arg
             /\ \A a \in Arg : prefix'[t].rdf[a] = IF HitBy(event, t, a) THEN r ELSE prefix[t].rdf[a]
  <2> DEFINE D == DependentArgs(t, r)
  <2>1. prefix'[t] = IF D # {} THEN [Cleared[t] EXCEPT !.rdf = [Cleared[t].rdf EXCEPT ![FirstArg(D)] = r]]
                     ELSE Cleared[t]
    BY <1>2, <1>3 DEF RdfSeen
  <2>2. \A a : HitBy(event, t, a) <=> D # {} /\ a = FirstArg(D)
    BY <1>1 DEF HitBy
  <2> HIDE DEF D
  <2>3. Cleared[t] \in Prefix /\ Cleared[t].rdf = prefix[t].rdf
    BY <1>3
  <2>4. CASE D # {}
    <3> DEFINE seen == [Cleared[t].rdf EXCEPT ![FirstArg(D)] = r]
    <3>1. Cleared[t].rdf \in [Arg -> RDF \union {Unknown}]
      BY <2>3 DEF Prefix
    <3>2. /\ seen \in [Arg -> RDF \union {Unknown}]
          /\ \A a \in Arg : seen[a] = IF a = FirstArg(D) THEN r ELSE Cleared[t].rdf[a]
      BY <3>1
    <3> HIDE DEF seen
    <3>3. /\ [Cleared[t] EXCEPT !.rdf = seen] \in Prefix
          /\ [Cleared[t] EXCEPT !.rdf = seen].rdf = seen
          /\ [Cleared[t] EXCEPT !.rdf = seen].arg = Cleared[t].arg
      BY <2>3, <3>2 DEF Prefix
    <3>4. prefix'[t] = [Cleared[t] EXCEPT !.rdf = seen]
      BY <2>1, <2>4 DEF seen
    <3> QED BY <2>2, <2>3, <2>4, <3>2, <3>3, <3>4
  <2>5. CASE D = {}
    BY <2>1, <2>2, <2>3, <2>5
  <2> QED BY <2>4, <2>5
<1>5. prefix'[NoSite] = NoPrefix
  BY <1>2, <1>3, ChainAssumption DEF RdfSeen
<1>6. prefix' \in [Site \union {NoSite} -> Prefix]
  <2>1. prefix' = [t \in Site \union {NoSite} |-> prefix'[t]]
    BY <1>2, <1>3 DEF RdfSeen
  <2>2. NoPrefix \in Prefix
    BY <1>3
  <2> QED BY <1>4, <1>5, <2>1, <2>2
<1> QED BY <1>1, <1>2, <1>4, <1>5, <1>6, InstrumentedStep

LEMMA ChainInit == InitChain => ChainInv
<1> SUFFICES ASSUME InitChain PROVE ChainInv
  OBVIOUS
<1>1. gdblog = <<>> /\ Len(gdblog) = 0 /\ rows = <<>> /\ Len(rows) = 0
  BY DEF InitChain
<1>2. Stops = {} /\ Instrumented = {} /\ RowLines = {} /\ \A k : Lines(k) = {}
  BY <1>1 DEF Stops, Instrumented, RowLines, Lines
<1>3. Cardinality(RowLines) = 0
  BY <1>2, FS_EmptySet
<1>4. NoPrefix \in Prefix /\ \A a \in Arg : NoPrefix.arg[a] = Unknown /\ NoPrefix.rdf[a] = Unknown
  BY DEF NoPrefix, Prefix
<1>5. ChainTyped
  <2>1. prefix \in [Site \union {NoSite} -> Prefix] /\ prefix[NoSite] = NoPrefix
    BY <1>4 DEF InitChain
  <2>2. <<>> \in Seq(GdbLine) /\ <<>> \in Seq(RowType) /\ 0 \in StaticIDs
    BY DEF StaticIDs
  <2> HIDE DEF GdbLine, RowType, Prefix
  <2> QED BY <1>1, <2>1, <2>2 DEF InitChain, ChainTyped
<1>6. TopMatches
  BY <1>2 DEF TopMatches, InitChain
<1>7. NowMatches(1)
  <2>1. /\ Before(Instrumented, 1) = {} /\ Recorded(1) = {} /\ Entered(1) = {} /\ SiteOf(1) = {}
        /\ \A s, a : Hits(s, a, 1) = {}
    BY <1>2 DEF Before, Recorded, Entered, SiteOf, Hits
  <2>2. Since(1) = 0 /\ 0 \in 0 .. 1 - 1
    BY <2>1 DEF Since
  <2>3. ~state_in_libc /\ enteringFunc_callsite_ID = NoSite
    BY DEF InitChain
  <2>4. SiteIs(1, enteringFunc_callsite_ID, enteringFunc_static_ID)
    BY <2>1, <2>3 DEF SiteIs, HasLast
  <2>5. \A s \in Site : prefix[s] = NoPrefix
    BY DEF InitChain
  <2>6. \A s \in Site, f \in Prefix : f = prefix[s] => FeaturesFit(1, s, f)
    BY <1>4, <2>1, <2>5 DEF FeaturesFit, RdfIs, HasLast
  <2> QED BY <2>1, <2>2, <2>3, <2>4, <2>6 DEF NowMatches
<1>8. \A p \in Nat : p = Len(gdblog) + 1 => NowMatches(p)
  BY <1>1, <1>7
<1> QED BY <1>1, <1>2, <1>3, <1>5, <1>6, <1>8 DEF ChainInv

LEMMA ChainStep == ChainInv /\ [NextChain]_chainVars => ChainInv'
<1> SUFFICES ASSUME ChainInv, [NextChain]_chainVars PROVE ChainInv'
  OBVIOUS
<1>1. ASSUME NEW f \in AppFunc \union LibFunc, Frame(f) PROVE ChainInv'
  BY <1>1, FrameStep DEF AnyFunc
<1>2. ASSUME NEW s \in Site, NEW A \in SUBSET Shown, NEW values \in [A -> Value], CallStatement(s, values)
      PROVE  ChainInv'
  BY <1>2, CallStep
<1>3. ASSUME NEW r \in RDF, ControlDep(r) PROVE ChainInv'
  BY <1>3, RdfStep
<1>4. CASE UNCHANGED chainVars
  <2>1. /\ UNCHANGED <<gdblog, rows, state_in_libc, top_func, currentCallChain_set, prefix>>
        /\ UNCHANGED <<enteringFunc_callsite_ID, enteringFunc_static_ID>>
    BY <1>4 DEF chainVars, sites
  <2>2. /\ \A k : Lines(k)' = Lines(k)
        /\ Stops' = Stops /\ Instrumented' = Instrumented
    BY <2>1 DEF Lines, Stops, Instrumented
  <2>3. \A j : Since(j)' = Since(j)
    BY <2>2 DEF Since, Before, LastOf
  <2>4. \A j : Recorded(j)' = Recorded(j)
    BY <2>2, <2>3 DEF Recorded, Since, Before
  <2>5. \A j : Entered(j)' = Entered(j) /\ NamesOf(Entered(j))' = NamesOf(Entered(j))
    BY <2>1, <2>4 DEF Entered, NamesOf
  <2>6. \A j : SiteOf(j)' = SiteOf(j) /\ \A s, a : Hits(s, a, j)' = Hits(s, a, j)
    BY <2>1, <2>2 DEF SiteOf, Hits, Before, DependentArgs, FirstArg
  <2>7. RowLines' = RowLines
    BY <2>2, <2>5 DEF RowLines
  <2>8. \A j : RankOf(j)' = RankOf(j)
    BY <2>7 DEF RankOf
  <2>9. \A j, s, id : SiteIs(j, s, id)' <=> SiteIs(j, s, id)
    BY <2>1, <2>6 DEF SiteIs, HasLast, LastOf
  <2>10. \A j, s, a, r : RdfIs(j, s, a, r)' <=> RdfIs(j, s, a, r)
    <3>1. \A j, s, a : LastOf(Hits(s, a, j))' = LastOf(Hits(s, a, j)')
      BY DEF LastOf
    <3>2. \A j, s, a : LastOf(Hits(s, a, j))' = LastOf(Hits(s, a, j))
      BY <2>6, <3>1
    <3> QED BY <2>1, <2>6, <3>2 DEF RdfIs, HasLast
  <2>11. \A j, s, a, v : FreshValue(j, s, a, v)' <=> FreshValue(j, s, a, v)
    BY <2>1, <2>6, <2>7, <2>8 DEF FreshValue
  <2>12. \A j, s, f : FeaturesFit(j, s, f)' <=> FeaturesFit(j, s, f)
    BY <2>10, <2>11 DEF FeaturesFit
  <2>13. \A j, row : RowFits(j, row)' <=> RowFits(j, row)
    BY <2>5, <2>6, <2>9, <2>12 DEF RowFits, NoPrefix
  <2>14. \A j : RowMatches(j)' <=> RowMatches(j)
    BY <2>1, <2>8, <2>13 DEF RowMatches
  <2>15. \A j : SiteIs(j, enteringFunc_callsite_ID, enteringFunc_static_ID)'
                   <=> SiteIs(j, enteringFunc_callsite_ID, enteringFunc_static_ID)
    BY <2>1, <2>6 DEF SiteIs, HasLast, LastOf
  <2>16. \A p : NowMatches(p)' <=> NowMatches(p)
    BY <2>1, <2>3, <2>5, <2>12, <2>15 DEF NowMatches
  <2>17. ChainTyped' /\ TopMatches'
    BY <2>1, <2>2 DEF ChainInv, ChainTyped, TopMatches
  <2> QED BY <2>1, <2>7, <2>8, <2>14, <2>16, <2>17 DEF ChainInv
<1> QED BY <1>1, <1>2, <1>3, <1>4 DEF NextChain

\* Row n is the one of the row line of rank n.
LEMMA RowAtFacts ==
    ASSUME ChainInv, NEW n \in 1 .. Len(rows)
    PROVE  /\ RowAt(n) \in RowLines /\ RankOf(RowAt(n)) = n /\ RowAt(n) \in Nat
           /\ rows[n] \in RowType /\ RowFits(RowAt(n), rows[n])
<1>1. /\ \E j \in RowLines : RankOf(j) = n
      /\ \A j \in RowLines : RowMatches(j)
      /\ rows \in Seq(RowType) /\ gdblog \in Seq(GdbLine)
  BY DEF ChainInv, ChainTyped
<1>2. RowAt(n) \in RowLines /\ RankOf(RowAt(n)) = n
  <2>1. RowAt(n) = CHOOSE j \in RowLines : RankOf(j) = n
    BY DEF RowAt, RankOf
  <2> QED BY <1>1, <2>1
<1>3. rows[n] \in RowType
  BY <1>1, LenProperties
<1>4. RowFits(RowAt(n), rows[n])
  BY <1>1, <1>2, <1>3 DEF RowMatches
<1>5. RowLines \subseteq Nat
  BY <1>1, LenProperties DEF RowLines, Instrumented, Lines
<1> QED BY <1>2, <1>3, <1>4, <1>5

\* Every row holds the routines recorded since the instrumentation before it,
\* from the first library routine on: none is lost, none is printed twice.
THEOREM ChainsCorrect == ChainSpec => []ChainsMatchLog
<1>1. ChainInv => ChainsMatchLog
  <2> SUFFICES ASSUME ChainInv PROVE ChainsMatchLog
    OBVIOUS
  <2>1. Len(rows) = Cardinality(RowLines)
    BY DEF ChainInv
  <2>2. \A n \in 1 .. Len(rows) : rows[n].chain = {gdblog[i].name : i \in Entered(RowAt(n))}
    BY RowAtFacts DEF RowFits, NamesOf
  <2> QED BY <2>1, <2>2 DEF ChainsMatchLog
<1> QED BY <1>1, ChainInit, ChainStep, PTL DEF ChainSpec

\* Every row's features are those of the call site read last before it: the RDF
\* seen last for each of its arguments, whatever the chain that is printed.
THEOREM FeaturesCorrect == ChainSpec => []FeaturesMatchLog
<1>1. ChainInv => FeaturesMatchLog
  <2> SUFFICES ASSUME ChainInv, NEW n \in 1 .. Len(rows)
               PROVE  LET j == RowAt(n)
                          s == gdblog[LastOf(SiteOf(j))].site
                          H(a) == {i \in Before(Lines("rdf"), j) :
                                      LET D == DependentArgs(s, gdblog[i].rdf)
                                      IN D # {} /\ a = FirstArg(D)}
                      IN IF SiteOf(j) = {}
                         THEN rows[n].site = NoSite /\ rows[n].features = NoPrefix
                         ELSE /\ rows[n].site = s /\ rows[n].func = FuncOf[s]
                              /\ \A a \in Arg : rows[n].features.rdf[a] =
                                    IF H(a) = {} THEN Unknown ELSE gdblog[LastOf(H(a))].rdf
    BY DEF FeaturesMatchLog
  <2> DEFINE j == RowAt(n)
             s == gdblog[LastOf(SiteOf(j))].site
  <2>2. RowFits(j, rows[n])
    BY RowAtFacts
  <2> HIDE DEF j
  <2>3. CASE SiteOf(j) = {}
    BY <2>2, <2>3 DEF RowFits, SiteIs, j
  <2>4. CASE SiteOf(j) # {}
    <3>2. rows[n].site = s /\ rows[n].func = FuncOf[s] /\ FeaturesFit(j, s, rows[n].features)
      BY <2>2, <2>4 DEF RowFits, SiteIs
    <3> HIDE DEF s
    <3>3. \A a \in Arg : rows[n].features.rdf[a] =
             IF Hits(s, a, j) = {} THEN Unknown ELSE gdblog[LastOf(Hits(s, a, j))].rdf
      BY <3>2 DEF FeaturesFit, RdfIs
    <3>4. ASSUME NEW a \in Arg
          PROVE  LET H == {i \in Before(Lines("rdf"), j) :
                             LET D == DependentArgs(s, gdblog[i].rdf) IN D # {} /\ a = FirstArg(D)}
                 IN rows[n].features.rdf[a] = IF H = {} THEN Unknown ELSE gdblog[LastOf(H)].rdf
      <4> DEFINE H == {i \in Before(Lines("rdf"), j) :
                         LET D == DependentArgs(s, gdblog[i].rdf) IN D # {} /\ a = FirstArg(D)}
      <4>1. H = Hits(s, a, j)
        BY DEF Hits
      <4> HIDE DEF H
      <4>2. rows[n].features.rdf[a] = IF H = {} THEN Unknown ELSE gdblog[LastOf(H)].rdf
        BY <3>3, <4>1
      <4> QED BY <4>2 DEF H
    <3> QED BY <2>4, <3>2, <3>4 DEF s, j
  <2> QED BY <2>3, <2>4
<1> QED BY <1>1, ChainInit, ChainStep, PTL DEF ChainSpec

\* A value is printed for one row at most: each comes from a call of the row's
\* site that no earlier row of the site lies behind.
THEOREM ValuesCorrect == ChainSpec => []ValuesUsedOnce
<1>1. ChainInv => ValuesUsedOnce
  <2> SUFFICES ASSUME ChainInv, NEW n \in 1 .. Len(rows), NEW a \in Arg,
                      rows[n].features.arg[a] # Unknown
               PROVE  \E i \in Before(Lines("site"), RowAt(n)) :
                         /\ gdblog[i].site = rows[n].site
                         /\ a \in DOMAIN gdblog[i].values
                         /\ gdblog[i].values[a] = rows[n].features.arg[a]
                         /\ \A m \in 1 .. n - 1 : rows[m].site = rows[n].site => RowAt(m) <= i
    BY DEF ValuesUsedOnce
  <2>1. RowAt(n) \in RowLines /\ RankOf(RowAt(n)) = n /\ RowAt(n) \in Nat /\ RowFits(RowAt(n), rows[n])
    BY RowAtFacts
  <2>2. FreshValue(RowAt(n), rows[n].site, a, rows[n].features.arg[a])
    <3>1. SiteOf(RowAt(n)) # {}
      BY <2>1 DEF RowFits, NoPrefix
    <3> QED BY <2>1, <3>1 DEF RowFits, FeaturesFit
  <2>3. PICK i \in SiteOf(RowAt(n)) :
           /\ gdblog[i].site = rows[n].site /\ a \in DOMAIN gdblog[i].values
           /\ gdblog[i].values[a] = rows[n].features.arg[a]
           /\ \A m \in RowLines : m < RowAt(n) /\ rows[RankOf(m)].site = rows[n].site => m <= i
    BY <2>2 DEF FreshValue
  <2>4. Len(rows) \in Nat /\ gdblog \in Seq(GdbLine) /\ Len(gdblog) \in Nat
    BY DEF ChainInv, ChainTyped
  <2>5. IsFiniteSet(RowLines) /\ RowLines \subseteq Nat
    <3>1. 1 \in Int /\ Len(gdblog) \in Int
      BY <2>4
    <3>2. IsFiniteSet(1 .. Len(gdblog))
      BY <3>1, FS_Interval
    <3>3. RowLines \in SUBSET (1 .. Len(gdblog))
      BY DEF RowLines, Instrumented, Lines
    <3>4. \A l \in 1 .. Len(gdblog) : l \in Nat
      OBVIOUS
    <3>5. IsFiniteSet(RowLines)
      BY <3>2, <3>3, FS_Subset
    <3> QED BY <3>3, <3>4, <3>5
  <2>6. ASSUME NEW m \in 1 .. n - 1, rows[m].site = rows[n].site
        PROVE  RowAt(m) <= i
    <3>1. m \in 1 .. Len(rows) /\ m < n
      BY <2>4
    <3>2. RowAt(m) \in RowLines /\ RankOf(RowAt(m)) = m /\ RowAt(m) \in Nat
      BY <3>1, RowAtFacts
    <3>3. ~(RowAt(n) <= RowAt(m))
      <4>1. RowAt(n) <= RowAt(m) => RankOf(RowAt(n)) <= RankOf(RowAt(m))
        BY <2>1, <2>5, <3>2, RanksIncrease
      <4> QED BY <2>1, <3>1, <3>2, <4>1
    <3>4. RowAt(m) < RowAt(n)
      <4>1. \A x \in Nat, y \in Nat : ~(y <= x) => x < y
        OBVIOUS
      <4> QED BY <2>1, <3>2, <3>3, <4>1
    <3> QED BY <2>3, <2>6, <3>2, <3>4
  <2> QED BY <2>3, <2>6 DEF SiteOf
<1> QED BY <1>1, ChainInit, ChainStep, PTL DEF ChainSpec

--------------------------------------------------------------------------------
(***************************************************************************)
(* The counts of the entries.                                              *)
(***************************************************************************)

\* The first routine of every chain printed or open is known, and the counts are
\* those of the rows, for every entry.
HasFirst(S) == \E t \in S : \A i \in S : t <= i
Opened(p) ==
    \E t \in Entered(p) :
       /\ \A i \in Entered(p) : t <= i
       /\ enteringFunc = <<gdblog[t].name, prefix[enteringFunc_callsite_ID]>>
EntriesCounted ==
    \A e : TimesCalled(e) =
              Cardinality(RowsOf(e)) + (IF state_in_libc /\ e = enteringFunc THEN 1 ELSE 0)
EntryInv ==
    /\ \A e : TimesCalled(e) \in Nat
    /\ \A j \in RowLines : HasFirst(Entered(j))
    /\ \A p \in Nat : p = Len(gdblog) + 1 /\ state_in_libc => Opened(p)
    /\ EntriesCounted

\* The first of a set of lines, where there is one; a later line leaves it.
LEMMA FirstIs ==
    ASSUME NEW S \in SUBSET Nat, NEW t \in S, \A i \in S : t <= i
    PROVE  FirstOf(S) = t
<1>1. PICK l \in S : l = FirstOf(S) /\ \A i \in S : l <= i
  BY DEF FirstOf
<1>2. l \in Nat /\ t \in Nat /\ l <= t /\ t <= l
  BY <1>1
<1> QED BY <1>1, <1>2

\* No two rows were printed at one line.
LEMMA RanksDiffer ==
    ASSUME IsFiniteSet(RowLines), RowLines \subseteq Nat, NEW j \in RowLines, NEW k \in RowLines, j < k
    PROVE  RankOf(j) < RankOf(k)
<1> DEFINE J == {i \in RowLines : i <= j}
           K == {i \in RowLines : i <= k}
<1>1. j \in Nat /\ k \in Nat /\ ~(k <= j) /\ k <= k
  OBVIOUS
<1>2. J \union {k} \subseteq K /\ k \notin J
  <2>1. \A i \in RowLines : i <= j => i <= k
    <3>1. \A i \in Nat : i <= j => i <= k
      BY <1>1
    <3> QED BY <3>1
  <2> QED BY <1>1, <2>1
<1>3. K \in SUBSET RowLines /\ J \in SUBSET RowLines
  OBVIOUS
<1>4. RankOf(j) = Cardinality(J) /\ RankOf(k) = Cardinality(K)
  BY DEF RankOf
<1> HIDE DEF J, K
<1>5. IsFiniteSet(K) /\ IsFiniteSet(J) /\ Cardinality(J) \in Nat /\ Cardinality(K) \in Nat
  BY <1>3, FS_Subset, FS_CardinalityType
<1>6. Cardinality(J \union {k}) = Cardinality(J) + 1
  BY <1>2, <1>5, FS_AddElement
<1>7. Cardinality(J \union {k}) <= Cardinality(K)
  BY <1>2, <1>5, FS_Subset
<1> QED BY <1>4, <1>5, <1>6, <1>7

\* A line read leaves the entries of the rows alone; the row it prints is the
\* last, with the entry of its own line.
LEMMA EntriesStay ==
    ASSUME ChainInv, \A j \in RowLines : HasFirst(Entered(j)),
           NEW event \in GdbLine, gdblog' = Append(gdblog, event),
           NEW n \in Nat, n = Len(gdblog), NEW new \in RowType,
           rows' = IF Prints(event, n) THEN Append(rows, new) ELSE rows
    PROVE  /\ \A j \in 1 .. n + 1 : HasFirst(Entered(j))' <=> HasFirst(Entered(j))
           /\ \A k \in 1 .. Len(rows) : EntryOf(k)' = EntryOf(k)
           /\ \A k, t : /\ Prints(event, n) /\ k = Len(rows) + 1
                        /\ t \in Entered(n + 1) /\ \A i \in Entered(n + 1) : t <= i
                        => EntryOf(k)' = <<gdblog[t].name, new.features>>
<1>1. /\ gdblog \in Seq(GdbLine) /\ rows \in Seq(RowType) /\ Len(rows) \in Nat
      /\ Len(rows) = Cardinality(RowLines)
  BY DEF ChainInv, ChainTyped
<1>2. /\ RowLines' = RowLines \union (IF Prints(event, n) THEN {n + 1} ELSE {})
      /\ RowLines \subseteq 1 .. n /\ IsFiniteSet(RowLines)
      /\ \A i \in RowLines : RankOf(i)' = RankOf(i) /\ RankOf(i) \in 1 .. Len(rows)
      /\ Prints(event, n) => RankOf(n + 1)' = Len(rows) + 1
  BY <1>1, RowLinesGrow
<1>3. /\ \A k \in 1 .. Len(rows) : rows'[k] = rows[k]
      /\ Prints(event, n) => rows'[Len(rows) + 1] = new
  <2> HIDE DEF Prints, RowType
  <2> QED BY <1>1, AppendProperties
<1>4. \A i \in 1 .. n : gdblog'[i] = gdblog[i]
  BY <1>1, GdbLogGrows
<1>5. \A j \in 1 .. n + 1 : Entered(j)' = Entered(j) /\ Entered(j) \subseteq 1 .. n
  BY <1>1, PastStays
<1>6. \A j \in 1 .. n + 1 : HasFirst(Entered(j))' <=> HasFirst(Entered(j))
  BY <1>5 DEF HasFirst
<1>7. ASSUME NEW k, NEW j \in 1 .. n + 1, RowAt(k)' = j, NEW t \in Entered(j), \A i \in Entered(j) : t <= i
      PROVE  EntryOf(k)' = <<gdblog[t].name, rows'[k].features>>
  <2>1. EntryOf(k)' = <<gdblog'[FirstOf(Entered(RowAt(k))')].name, rows'[k].features>>
    BY DEF EntryOf, FirstOf
  <2>2. Entered(RowAt(k))' = Entered(j)
    <3>1. \A i : i = RowAt(k)' => Entered(RowAt(k))' = Entered(i)'
      BY DEF Entered, Recorded, Before
    <3> QED BY <1>5, <1>7, <3>1
  <2>3. FirstOf(Entered(j)) = t
    <3>1. Entered(j) \in SUBSET Nat
      BY <1>5
    <3> QED BY <1>7, <3>1, FirstIs
  <2>4. t \in 1 .. n
    BY <1>5
  <2> QED BY <1>4, <2>1, <2>2, <2>3, <2>4
<1>8. \A k : RowAt(k)' = CHOOSE j \in RowLines' : RankOf(j)' = k
  BY DEF RowAt, RankOf
<1>9. ASSUME NEW k \in 1 .. Len(rows)
      PROVE  EntryOf(k)' = EntryOf(k)
  <2>1. PICK j \in RowLines : j = RowAt(k) /\ RankOf(j) = k
    BY RowAtFacts
  <2>2. PICK x : x = RowAt(k)'
    OBVIOUS
  <2>3. j \in RowLines' /\ RankOf(j)' = k
    BY <1>2, <2>1
  <2>4. x \in RowLines' /\ RankOf(x)' = k
    <3>1. \E i \in RowLines' : RankOf(i)' = k
      BY <2>3
    <3>2. RowAt(k)' \in {i \in RowLines' : RankOf(i)' = k}
      BY <1>8, <3>1
    <3> QED BY <2>2, <3>2
  <2>5. x \in RowLines /\ RankOf(x) = k
    <3>1. k # Len(rows) + 1
      BY <1>1
    <3> QED BY <1>2, <2>4, <3>1
  <2>6. x = j
    <3>1. RowLines \subseteq Nat
      BY <1>2
    <3>2. ~(x < j) /\ ~(j < x)
      BY <1>1, <1>2, <2>1, <2>5, <3>1, RanksDiffer
    <3>3. x \in Nat /\ j \in Nat
      BY <2>5, <3>1
    <3> QED BY <3>2, <3>3
  <2>7. PICK t \in Entered(j) : \A i \in Entered(j) : t <= i
    BY DEF HasFirst
  <2>8. j \in 1 .. n + 1
    BY <1>2
  <2>9. EntryOf(k)' = <<gdblog[t].name, rows'[k].features>>
    BY <1>7, <2>2, <2>6, <2>7, <2>8
  <2>10. FirstOf(Entered(j)) = t
    <3>1. Entered(j) \in SUBSET Nat
      BY <1>5, <2>8
    <3> QED BY <2>7, <3>1, FirstIs
  <2> QED BY <1>3, <2>1, <2>9, <2>10 DEF EntryOf
<1>10. ASSUME Prints(event, n), NEW k, k = Len(rows) + 1,
              NEW t \in Entered(n + 1), \A i \in Entered(n + 1) : t <= i
       PROVE  EntryOf(k)' = <<gdblog[t].name, new.features>>
  <2>1. n + 1 \in RowLines' /\ RankOf(n + 1)' = k /\ n + 1 \in 1 .. n + 1
    BY <1>2, <1>10
  <2>2. \A x \in RowLines' : RankOf(x)' = k => x = n + 1
    <3>1. \A x \in RowLines : RankOf(x)' # k
      BY <1>1, <1>2, <1>10
    <3> QED BY <1>2, <3>1
  <2>3. RowAt(k)' = n + 1
    <3>1. \E i \in RowLines' : RankOf(i)' = k
      BY <2>1
    <3>2. RowAt(k)' \in {i \in RowLines' : RankOf(i)' = k}
      BY <1>8, <3>1
    <3> QED BY <2>2, <3>2
  <2>4. rows'[k].features = new.features
    BY <1>3, <1>10
  <2> QED BY <1>7, <1>10, <2>1, <2>3, <2>4
<1> QED BY <1>6, <1>9, <1>10

LEMMA RowsCounted ==
    ASSUME rows \in Seq(RowType), NEW e
    PROVE  RowsOf(e) \subseteq 1 .. Len(rows) /\ IsFiniteSet(RowsOf(e)) /\ Cardinality(RowsOf(e)) \in Nat
<1>1. 1 \in Int /\ Len(rows) \in Int
  OBVIOUS
<1>2. RowsOf(e) \in SUBSET (1 .. Len(rows))
  BY DEF RowsOf
<1> QED BY <1>1, <1>2, FS_Interval, FS_Subset, FS_CardinalityType

\* A frame enters or not; a chain entered is counted at once.
LEMMA EntryFrame ==
    ASSUME ChainInv, EntryInv, NEW f \in AnyFunc, Frame(f)
    PROVE  EntryInv'
<1> DEFINE event == [kind |-> "frame", name |-> f]
<1>1. /\ gdblog \in Seq(GdbLine) /\ Len(gdblog) \in Nat /\ rows \in Seq(RowType)
      /\ event \in GdbLine /\ event.kind = "frame" /\ gdblog' = Append(gdblog, event)
      /\ UNCHANGED <<sites, prefix, rows>> /\ state_in_libc \in BOOLEAN
  BY DEF ChainInv, ChainTyped, Frame, ReadLog, GdbLine
<1>2. PICK n \in Nat : n = Len(gdblog)
  BY <1>1
<1> HIDE DEF event
<1>3. PICK new : new = [chain |-> {}, func |-> 0, site |-> NoSite, features |-> NoPrefix]
  OBVIOUS
<1>4. new \in RowType
  BY <1>3 DEF RowType, StaticIDs, Prefix, NoPrefix
<1>5. ~Prints(event, n)
  BY <1>1 DEF Prints
<1>6. /\ RowLines' = RowLines /\ RowLines \subseteq 1 .. n
  BY <1>1, <1>2, <1>5, RowLinesGrow
<1>7. /\ \A j \in 1 .. n + 1 : HasFirst(Entered(j))' <=> HasFirst(Entered(j))
      /\ \A k \in 1 .. Len(rows) : EntryOf(k)' = EntryOf(k)
  <2>1. rows' = IF Prints(event, n) THEN Append(rows, new) ELSE rows
    BY <1>1, <1>5
  <2>2. \A j \in RowLines : HasFirst(Entered(j))
    BY DEF EntryInv
  <2> QED BY <1>1, <1>2, <1>4, <2>1, <2>2, EntriesStay
<1>8. \A e : RowsOf(e)' = RowsOf(e)
  <2>1. \A e : RowsOf(e)' = {k \in 1 .. Len(rows) : EntryOf(k)' = e}
    BY <1>1 DEF RowsOf
  <2> QED BY <1>7, <2>1 DEF RowsOf
<1>9. \A j \in RowLines' : HasFirst(Entered(j))'
  BY <1>6, <1>7 DEF EntryInv
<1>10. /\ Entered(n + 2)' \subseteq 1 .. n
       /\ state_in_libc <=> Entered(n + 1) # {}
       /\ \/ /\ Entered(n + 1) = {} /\ Entered(n + 2)' = {} /\ ~state_in_libc'
             /\ UNCHANGED <<enteringFunc, entryFunc_to_count_map>>
          \/ \E t \in 1 .. n :
                /\ \A i \in Entered(n + 1) : i <= t
                /\ Entered(n + 2)' = Entered(n + 1) \union {t}
                /\ gdblog[t].name = top_func /\ state_in_libc'
                /\ \/ /\ Entered(n + 1) # {}
                      /\ UNCHANGED <<enteringFunc, entryFunc_to_count_map>>
                   \/ /\ Entered(n + 1) = {}
                      /\ enteringFunc' = <<top_func, prefix[enteringFunc_callsite_ID]>>
                      /\ entryFunc_to_count_map' = Counted(enteringFunc')
  BY <1>2, FrameRecords
<1>11. gdblog' \in Seq(GdbLine) /\ Len(gdblog') = n + 1 /\ \A i \in 1 .. n : gdblog'[i] = gdblog[i]
  BY <1>1, <1>2, GdbLogGrows
<1>12. /\ state_in_libc => Opened(n + 1)
       /\ \A e : TimesCalled(e) \in Nat
       /\ \A e : TimesCalled(e) = Cardinality(RowsOf(e))
                    + (IF state_in_libc /\ e = enteringFunc THEN 1 ELSE 0)
  BY <1>2 DEF EntryInv, EntriesCounted
<1>13. ASSUME NEW t \in Entered(n + 2)', \A i \in Entered(n + 2)' : t <= i,
              enteringFunc' = <<gdblog[t].name, prefix[enteringFunc_callsite_ID]>>
       PROVE  Opened(n + 2)'
  <2>1. gdblog'[t] = gdblog[t]
    BY <1>10, <1>11
  <2>2. prefix' = prefix /\ enteringFunc_callsite_ID' = enteringFunc_callsite_ID
    BY <1>1 DEF sites
  <2> QED BY <1>13, <2>1, <2>2 DEF Opened
<1>14. \A e : TimesCalled(e) = IF e \in DOMAIN entryFunc_to_count_map
                                THEN entryFunc_to_count_map[e] ELSE 0
  BY DEF TimesCalled, BagIn, BagToSet
<1>15. \A e : TimesCalled(e)' = IF e \in DOMAIN entryFunc_to_count_map'
                                 THEN entryFunc_to_count_map'[e] ELSE 0
  BY DEF TimesCalled, BagIn, BagToSet
<1>16. (state_in_libc' => Opened(n + 2)') /\ (\A e : TimesCalled(e)' \in Nat) /\ EntriesCounted'
  <2>1. CASE ~state_in_libc /\ ~state_in_libc' /\ UNCHANGED <<enteringFunc, entryFunc_to_count_map>>
    <3>1. \A e : TimesCalled(e)' = TimesCalled(e)
      BY <1>14, <1>15, <2>1
    <3> QED BY <1>8, <1>12, <2>1, <3>1 DEF EntriesCounted
  <2>2. CASE state_in_libc /\ state_in_libc' /\ UNCHANGED <<enteringFunc, entryFunc_to_count_map>>
    <3>1. \A e : TimesCalled(e)' = TimesCalled(e)
      BY <1>14, <1>15, <2>2
    <3>2. PICK t \in Entered(n + 1) :
             /\ \A i \in Entered(n + 1) : t <= i
             /\ enteringFunc = <<gdblog[t].name, prefix[enteringFunc_callsite_ID]>>
      BY <1>12, <2>2 DEF Opened
    <3>3. PICK h \in 1 .. n : /\ \A i \in Entered(n + 1) : i <= h
                              /\ Entered(n + 2)' = Entered(n + 1) \union {h}
      BY <1>10, <2>2
    <3>4. t \in Entered(n + 2)' /\ \A i \in Entered(n + 2)' : t <= i
      BY <3>2, <3>3
    <3>5. enteringFunc' = <<gdblog[t].name, prefix[enteringFunc_callsite_ID]>>
      BY <2>2, <3>2
    <3>6. Opened(n + 2)'
      BY <1>13, <3>4, <3>5
    <3> QED BY <1>8, <1>12, <2>2, <3>1, <3>6 DEF EntriesCounted
  <2>3. CASE /\ ~state_in_libc /\ state_in_libc'
             /\ \E t \in 1 .. n : /\ Entered(n + 2)' = {t} /\ gdblog[t].name = top_func
                                  /\ enteringFunc' = <<top_func, prefix[enteringFunc_callsite_ID]>>
                                  /\ entryFunc_to_count_map' = Counted(enteringFunc')
    <3>1. PICK t \in 1 .. n : /\ Entered(n + 2)' = {t} /\ gdblog[t].name = top_func
                              /\ enteringFunc' = <<top_func, prefix[enteringFunc_callsite_ID]>>
                              /\ entryFunc_to_count_map' = Counted(enteringFunc')
      BY <2>3
    <3>2. Opened(n + 2)'
      <4>1. t \in Entered(n + 2)' /\ \A i \in Entered(n + 2)' : t <= i
        BY <3>1
      <4> QED BY <1>13, <3>1, <4>1
    <3>3. \A e : TimesCalled(e)' = TimesCalled(e) + (IF e = enteringFunc' THEN 1 ELSE 0)
      <4>1. PICK entry : entry = enteringFunc'
        OBVIOUS
      <4>2. entryFunc_to_count_map' =
               [e \in DOMAIN entryFunc_to_count_map \union {entry} |->
                   (IF e \in DOMAIN entryFunc_to_count_map THEN entryFunc_to_count_map[e] ELSE 0)
                 + (IF e \in {entry} THEN 1 ELSE 0)]
        BY <3>1, <4>1 DEF Counted, SetToBag, (+)
      <4>3. ASSUME NEW e
            PROVE  TimesCalled(e)' = TimesCalled(e) + (IF e = entry THEN 1 ELSE 0)
        <5>1. TimesCalled(e) \in Nat
          BY <1>12
        <5>2. TimesCalled(e) = IF e \in DOMAIN entryFunc_to_count_map
                               THEN entryFunc_to_count_map[e] ELSE 0
          BY <1>14
        <5>3. CASE e \in DOMAIN entryFunc_to_count_map \union {entry}
          <6>1. TimesCalled(e)' = entryFunc_to_count_map'[e]
            BY <1>15, <4>2, <5>3
          <6>2. entryFunc_to_count_map'[e] =
                   (IF e \in DOMAIN entryFunc_to_count_map THEN entryFunc_to_count_map[e] ELSE 0)
                 + (IF e \in {entry} THEN 1 ELSE 0)
            BY <4>2, <5>3
          <6> QED BY <5>2, <6>1, <6>2
        <5>4. CASE e \notin DOMAIN entryFunc_to_count_map \union {entry}
          <6>1. TimesCalled(e)' = 0
            BY <1>15, <4>2, <5>4
          <6> QED BY <5>2, <5>4, <6>1
        <5> QED BY <5>3, <5>4
      <4> QED BY <4>1, <4>3
    <3>4. \A e : TimesCalled(e) = Cardinality(RowsOf(e))
      <4>1. \A e : Cardinality(RowsOf(e)) \in Nat
        BY <1>1, RowsCounted
      <4>2. \A e : TimesCalled(e) = Cardinality(RowsOf(e)) + 0
        BY <1>12, <2>3
      <4> QED BY <4>1, <4>2
    <3> QED BY <1>8, <1>12, <2>3, <3>2, <3>3, <3>4 DEF EntriesCounted
  <2> QED BY <1>1, <1>10, <2>1, <2>2, <2>3
<1>17. \A p \in Nat : p = Len(gdblog') + 1 /\ state_in_libc' => Opened(p)'
  <2>1. \A p \in Nat : p = Len(gdblog') + 1 => p = n + 2
    BY <1>11
  <2> QED BY <1>16, <2>1
<1> QED BY <1>9, <1>16, <1>17 DEF EntryInv

\* An instrumented line prints the open chain: its entry is then that of a row.
LEMMA EntryInstrumented ==
    ASSUME ChainInv, EntryInv, NEW event \in GdbLine, gdblog' = Append(gdblog, event),
           event.kind # "frame", OutOfLastCallchain, UNCHANGED <<enteringFunc, entryFunc_to_count_map>>
    PROVE  EntryInv'
<1>1. /\ gdblog \in Seq(GdbLine) /\ Len(gdblog) \in Nat /\ rows \in Seq(RowType)
      /\ Len(rows) \in Nat /\ state_in_libc \in BOOLEAN
  BY DEF ChainInv, ChainTyped
<1>2. PICK n \in Nat : n = Len(gdblog)
  BY <1>1
<1>3. state_in_libc <=> Prints(event, n)
  <2>1. NowMatches(n + 1)
    BY <1>2 DEF ChainInv
  <2> QED BY <2>1 DEF NowMatches, Prints
<1>4. PICK new \in RowType :
         /\ rows' = IF Prints(event, n) THEN Append(rows, new) ELSE rows
         /\ new.features = prefix[enteringFunc_callsite_ID]
  <2> DEFINE new == [chain |-> currentCallChain_set, func |-> enteringFunc_static_ID,
                     site |-> enteringFunc_callsite_ID, features |-> prefix[enteringFunc_callsite_ID]]
  <2>1. new \in RowType
    BY DEF ChainInv, ChainTyped, RowType
  <2>2. rows' = IF Prints(event, n) THEN Append(rows, new) ELSE rows
    BY <1>3 DEF OutOfLastCallchain
  <2>3. new.features = prefix[enteringFunc_callsite_ID]
    OBVIOUS
  <2> HIDE DEF new, RowType, Prints
  <2> QED BY <2>1, <2>2, <2>3
<1>5. state_in_libc' = FALSE
  BY <1>1 DEF OutOfLastCallchain
<1>6. /\ RowLines' = RowLines \union (IF Prints(event, n) THEN {n + 1} ELSE {})
      /\ RowLines \subseteq 1 .. n
  BY <1>1, <1>2, RowLinesGrow
<1>7. /\ \A j \in 1 .. n + 1 : HasFirst(Entered(j))' <=> HasFirst(Entered(j))
      /\ \A k \in 1 .. Len(rows) : EntryOf(k)' = EntryOf(k)
      /\ \A k, t : /\ Prints(event, n) /\ k = Len(rows) + 1
                   /\ t \in Entered(n + 1) /\ \A i \in Entered(n + 1) : t <= i
                   => EntryOf(k)' = <<gdblog[t].name, new.features>>
  <2>1. \A j \in RowLines : HasFirst(Entered(j))
    BY DEF EntryInv
  <2> HIDE DEF Prints, RowType, ChainInv
  <2> QED BY <1>1, <1>2, <1>4, <2>1, EntriesStay
<1>8. /\ state_in_libc => Opened(n + 1)
      /\ \A e : TimesCalled(e) \in Nat
      /\ \A e : TimesCalled(e) = Cardinality(RowsOf(e))
                   + (IF state_in_libc /\ e = enteringFunc THEN 1 ELSE 0)
  BY <1>2 DEF EntryInv, EntriesCounted
<1>9. \A j \in RowLines' : HasFirst(Entered(j))'
  <2>1. \A j \in RowLines : HasFirst(Entered(j)) /\ j \in 1 .. n + 1
    BY <1>6 DEF EntryInv
  <2>2. Prints(event, n) => HasFirst(Entered(n + 1))
    BY <1>3, <1>8 DEF Opened, HasFirst
  <2>3. n + 1 \in 1 .. n + 1
    OBVIOUS
  <2> QED BY <1>6, <1>7, <2>1, <2>2, <2>3
<1>10. \A e : TimesCalled(e)' = TimesCalled(e)
  BY DEF TimesCalled
<1>11. \A e : RowsOf(e) \subseteq 1 .. Len(rows) /\ IsFiniteSet(RowsOf(e)) /\ Cardinality(RowsOf(e)) \in Nat
  BY <1>1, RowsCounted
<1>12. \A e : RowsOf(e)' = {k \in 1 .. Len(rows') : EntryOf(k)' = e}
  BY DEF RowsOf
<1>13. \A e : TimesCalled(e) = Cardinality(RowsOf(e)')
  <2>1. CASE ~state_in_libc
    <3>1. rows' = rows
      BY <1>3, <1>4, <2>1
    <3>2. \A e : RowsOf(e)' = RowsOf(e)
      BY <1>7, <1>12, <3>1 DEF RowsOf
    <3>3. \A e : TimesCalled(e) = Cardinality(RowsOf(e)) + 0
      BY <1>8, <2>1
    <3> QED BY <1>11, <3>2, <3>3
  <2>2. CASE state_in_libc
    <3>1. PICK k \in Nat : k = Len(rows) + 1
      BY <1>1
    <3>2. rows' = Append(rows, new)
      BY <1>3, <1>4, <2>2
    <3>3. Len(rows') = k
      <4> HIDE DEF RowType
      <4> QED BY <1>1, <1>4, <3>1, <3>2, AppendProperties
    <3>4. 1 .. k = (1 .. Len(rows)) \union {k} /\ k \notin 1 .. Len(rows)
      BY <1>1, <3>1
    <3>5. EntryOf(k)' = enteringFunc
      <4>1. PICK t \in Entered(n + 1) :
               /\ \A i \in Entered(n + 1) : t <= i
               /\ enteringFunc = <<gdblog[t].name, prefix[enteringFunc_callsite_ID]>>
        BY <1>8, <2>2 DEF Opened
      <4>2. EntryOf(k)' = <<gdblog[t].name, new.features>>
        BY <1>3, <1>7, <2>2, <3>1, <4>1
      <4> QED BY <1>4, <4>1, <4>2
    <3>6. ASSUME NEW e
          PROVE  TimesCalled(e) = Cardinality(RowsOf(e)')
      <4>1. RowsOf(e)' = RowsOf(e) \union (IF e = enteringFunc THEN {k} ELSE {})
        BY <1>7, <1>12, <3>3, <3>4, <3>5 DEF RowsOf
      <4>2. CASE e = enteringFunc
        <5>1. TimesCalled(e) = Cardinality(RowsOf(e)) + 1
          BY <1>8, <2>2, <4>2
        <5>2. k \notin RowsOf(e)
          BY <1>11, <3>4
        <5>3. Cardinality(RowsOf(e) \union {k}) = Cardinality(RowsOf(e)) + 1
          BY <1>11, <5>2, FS_AddElement
        <5> QED BY <4>1, <4>2, <5>1, <5>3
      <4>3. CASE e # enteringFunc
        <5>1. TimesCalled(e) = Cardinality(RowsOf(e)) + 0 /\ RowsOf(e)' = RowsOf(e)
          BY <1>8, <2>2, <4>1, <4>3
        <5> QED BY <1>11, <5>1
      <4> QED BY <4>2, <4>3
    <3> QED BY <3>6
  <2> QED BY <2>1, <2>2
<1>14. EntriesCounted'
  <2>1. \A e : Cardinality(RowsOf(e)') \in Nat
    BY <1>8, <1>13
  <2>2. \A e : Cardinality(RowsOf(e))' = Cardinality(RowsOf(e)')
    OBVIOUS
  <2>3. \A e : TimesCalled(e)' = Cardinality(RowsOf(e)') + 0
    BY <1>10, <1>13, <2>1
  <2> QED BY <1>5, <2>2, <2>3 DEF EntriesCounted
<1> QED BY <1>5, <1>8, <1>9, <1>10, <1>14 DEF EntryInv

LEMMA EntryInit == InitChain => EntryInv
<1> SUFFICES ASSUME InitChain PROVE EntryInv
  OBVIOUS
<1>1. gdblog = <<>> /\ Len(gdblog) = 0 /\ Len(rows) = 0 /\ ~state_in_libc
      /\ entryFunc_to_count_map = [e \in {} |-> 1]
  BY DEF InitChain, EmptyBag, SetToBag
<1>2. RowLines = {}
  BY <1>1 DEF RowLines, Instrumented, Lines
<1>3. \A e : TimesCalled(e) = 0
  BY <1>1 DEF TimesCalled, BagIn, BagToSet
<1>4. \A e : Cardinality(RowsOf(e)) = 0
  <2>1. \A e : RowsOf(e) = {}
    BY <1>1 DEF RowsOf
  <2> QED BY <2>1, FS_EmptySet
<1>5. EntriesCounted
  BY <1>1, <1>3, <1>4 DEF EntriesCounted
<1> QED BY <1>1, <1>2, <1>3, <1>5 DEF EntryInv

LEMMA EntryStep == ChainInv /\ EntryInv /\ [NextChain]_chainVars => EntryInv'
<1> SUFFICES ASSUME ChainInv, EntryInv, [NextChain]_chainVars PROVE EntryInv'
  OBVIOUS
<1>1. ASSUME NEW f \in AppFunc \union LibFunc, Frame(f) PROVE EntryInv'
  BY <1>1, EntryFrame DEF AnyFunc
<1>2. ASSUME NEW s \in Site, NEW A \in SUBSET Shown, NEW values \in [A -> Value], CallStatement(s, values)
      PROVE  EntryInv'
  <2> DEFINE event == [kind |-> "site", site |-> s, values |-> values]
  <2>1. /\ event \in GdbLine /\ event.kind # "frame" /\ gdblog' = Append(gdblog, event)
        /\ OutOfLastCallchain /\ UNCHANGED <<enteringFunc, entryFunc_to_count_map>>
    BY <1>2 DEF CallStatement, ReadLog, GdbLine
  <2> HIDE DEF event
  <2> QED BY <2>1, EntryInstrumented
<1>3. ASSUME NEW r \in RDF, ControlDep(r) PROVE EntryInv'
  <2> DEFINE event == [kind |-> "rdf", rdf |-> r]
  <2>1. /\ event \in GdbLine /\ event.kind # "frame" /\ gdblog' = Append(gdblog, event)
        /\ OutOfLastCallchain /\ UNCHANGED <<enteringFunc, entryFunc_to_count_map>>
    BY <1>3 DEF ControlDep, ReadLog, GdbLine
  <2> HIDE DEF event
  <2> QED BY <2>1, EntryInstrumented
<1>4. CASE UNCHANGED chainVars
  <2>1. /\ UNCHANGED <<gdblog, rows, state_in_libc, enteringFunc, prefix, entryFunc_to_count_map>>
        /\ UNCHANGED enteringFunc_callsite_ID
    BY <1>4 DEF chainVars, sites
  <2>2. /\ \A k : Lines(k)' = Lines(k)
        /\ Stops' = Stops /\ Instrumented' = Instrumented
    BY <2>1 DEF Lines, Stops, Instrumented
  <2>3. \A j : Since(j)' = Since(j)
    BY <2>2 DEF Since, Before, LastOf
  <2>4. \A j : Recorded(j)' = Recorded(j)
    BY <2>2, <2>3 DEF Recorded, Since, Before
  <2>5. \A j : Entered(j)' = Entered(j)
    BY <2>1, <2>4 DEF Entered
  <2>6. RowLines' = RowLines
    BY <2>2, <2>5 DEF RowLines
  <2>7. \A k : RowAt(k)' = RowAt(k)
    BY <2>6 DEF RowAt
  <2>8. \A k : EntryOf(k)' = EntryOf(k)
    <3>1. ASSUME NEW k
          PROVE  EntryOf(k)' = EntryOf(k)
      <4>1. \A j : j = RowAt(k) => Entered(RowAt(k))' = Entered(j)'
        BY <2>7 DEF Entered, Recorded, Before
      <4>2. EntryOf(k)' = <<gdblog[FirstOf(Entered(RowAt(k))')].name, rows[k].features>>
        BY <2>1 DEF EntryOf, FirstOf
      <4> QED BY <2>5, <4>1, <4>2 DEF EntryOf
    <3> QED BY <3>1
  <2>9. \A e : RowsOf(e)' = RowsOf(e) /\ TimesCalled(e)' = TimesCalled(e)
    BY <2>1, <2>8 DEF RowsOf, TimesCalled
  <2>10. EntriesCounted'
    BY <2>1, <2>9 DEF EntryInv, EntriesCounted
  <2>11. \A p : Opened(p)' <=> Opened(p)
    BY <2>1, <2>5 DEF Opened
  <2>12. \A j : HasFirst(Entered(j))' <=> HasFirst(Entered(j))
    BY <2>5 DEF HasFirst
  <2> QED BY <2>1, <2>6, <2>9, <2>10, <2>11, <2>12 DEF EntryInv
<1> QED BY <1>1, <1>2, <1>3, <1>4 DEF NextChain

\* Called_times of an entry is the number of rows printed for it, with its
\* routine first in the chain and its features, and one for an open chain.
THEOREM EntriesCorrect == ChainSpec => []EntriesMatchRows
<1>1. EntryInv => EntriesMatchRows
  BY DEF EntryInv, EntriesCounted, EntriesMatchRows
<1> QED BY <1>1, ChainInit, ChainStep, EntryInit, EntryStep, PTL DEF ChainSpec
================================================================================
