-------------------------- MODULE TraceContextProofs ---------------------------
(***************************************************************************)
(* The trace parser and what becomes of its ids, for every set of call     *)
(* sites and functions, every length of the traces and number of runs.     *)
(***************************************************************************)
EXTENDS PredictionIndex, FiniteSetTheorems, SequenceTheorems, TLAPS

\* The numbering stays finite, and no RDF is ever recorded: the set read back
\* from an earlier run's RDF sets is the empty one.
Numbering ==
    /\ IsFiniteSet(DOMAIN calledFuncs_str2id_map)
    /\ callsite2rdfSet_map = [s \in Site |-> {}]
    /\ rdf_seq \in Seq({{}})

\* RowsAligned, with the stack written out.
Aligned ==
    /\ Len(rdf_seq) = Len(callSite_seq)
    /\ Len(callSite_seq) = Len(calledFuncs_seq) + (IF insideCall THEN 1 ELSE 0)
    /\ call_stack = IF insideCall THEN <<callSite_seq[Len(callSite_seq)]>> ELSE <<>>
    /\ \A i \in 1 .. Len(callSite_seq) : callSite_seq[i] \in DOMAIN callsite2fID_map
    /\ \A i \in 1 .. Len(calledFuncs_seq) :
          calledFuncs_seq[i] \in DOMAIN calledFuncs_str2id_map

TraceInv == TypeOK /\ Numbering /\ Aligned

\* Numbering a set keeps every number given before and, inside a call, leaves
\* the set numbered.
LEMMA NumberedFacts ==
    ASSUME TypeOK, Numbering, NEW set \in Labels
    PROVE  /\ DOMAIN Numbered(set) \subseteq Labels
           /\ IsFiniteSet(DOMAIN Numbered(set))
           /\ \A l \in DOMAIN Numbered(set) : Numbered(set)[l] \in Nat
           /\ DOMAIN calledFuncs_str2id_map \subseteq DOMAIN Numbered(set)
           /\ \A l \in DOMAIN calledFuncs_str2id_map :
                 Numbered(set)[l] = calledFuncs_str2id_map[l]
           /\ insideCall => set \in DOMAIN Numbered(set)
<1> DEFINE map == calledFuncs_str2id_map
           n == Cardinality(DOMAIN map)
<1>1. CASE insideCall /\ set \notin DOMAIN map
  <2>1. Numbered(set) = Put(map, set, n)
    BY <1>1 DEF Numbered
  <2>2. n \in Nat
    BY FS_CardinalityType DEF Numbering
  <2>3. IsFiniteSet(DOMAIN map \union {set})
    BY FS_AddElement DEF Numbering
  <2> HIDE DEF map, n
  <2>4. /\ DOMAIN Put(map, set, n) = DOMAIN map \union {set}
        /\ Put(map, set, n)[set] = n
        /\ \A k \in DOMAIN map : k # set => Put(map, set, n)[k] = map[k]
    BY DEF Put
  <2>5. DOMAIN map \subseteq Labels /\ \A l \in DOMAIN map : map[l] \in Nat
    BY DEF TypeOK, map
  <2>6. \A l \in DOMAIN map : l # set
    BY <1>1
  <2>7. \A l \in DOMAIN map : Put(map, set, n)[l] = map[l]
    BY <2>4, <2>6
  <2>8. \A l \in DOMAIN map \union {set} : Put(map, set, n)[l] \in Nat
    BY <2>2, <2>4, <2>5, <2>7
  <2> QED BY <2>1, <2>3, <2>4, <2>5, <2>7, <2>8 DEF map
<1>2. CASE ~(insideCall /\ set \notin DOMAIN map)
  <2>1. Numbered(set) = calledFuncs_str2id_map
    BY <1>2 DEF Numbered
  <2> QED BY <1>2, <2>1 DEF TypeOK, Numbering
<1> QED BY <1>1, <1>2

\* After a call is finalized every row has a numbered label and the stack is empty.
LEMMA FinalizedFacts ==
    ASSUME TraceInv, NEW set \in Labels
    PROVE  /\ Labelled(set) \in Seq(Labels)
           /\ Len(Labelled(set)) = Len(callSite_seq)
           /\ \A i \in 1 .. Len(Labelled(set)) : Labelled(set)[i] \in DOMAIN Numbered(set)
           /\ Popped = <<>>
<1>1. calledFuncs_seq \in Seq(Labels) /\ Len(calledFuncs_seq) \in Nat
  BY DEF TraceInv, TypeOK
<1>2. DOMAIN calledFuncs_str2id_map \subseteq DOMAIN Numbered(set)
  BY NumberedFacts DEF TraceInv
<1>3. CASE insideCall
  <2>1. Labelled(set) = Append(calledFuncs_seq, set) /\ set \in DOMAIN Numbered(set)
    BY <1>3, NumberedFacts DEF Labelled, TraceInv
  <2>2. Len(call_stack) = 1
    BY <1>3 DEF TraceInv, Aligned
  <2>3. Popped = <<>>
    BY <1>3, <2>2, SubSeqEmpty DEF Popped
  <2>4. /\ Append(calledFuncs_seq, set) \in Seq(Labels)
        /\ Len(Append(calledFuncs_seq, set)) = Len(calledFuncs_seq) + 1
        /\ \A i \in 1 .. Len(calledFuncs_seq) :
              Append(calledFuncs_seq, set)[i] = calledFuncs_seq[i]
        /\ Append(calledFuncs_seq, set)[Len(calledFuncs_seq) + 1] = set
    BY <1>1
  <2>5. \A i \in 1 .. Len(calledFuncs_seq) : calledFuncs_seq[i] \in DOMAIN Numbered(set)
    BY <1>2 DEF TraceInv, Aligned
  <2>6. Len(callSite_seq) = Len(calledFuncs_seq) + 1
    BY <1>3 DEF TraceInv, Aligned
  <2>7. \A i \in 1 .. Len(calledFuncs_seq) + 1 :
           Append(calledFuncs_seq, set)[i] \in DOMAIN Numbered(set)
    BY <1>1, <2>1, <2>4, <2>5
  <2> QED BY <2>1, <2>3, <2>4, <2>6, <2>7
<1>4. CASE ~insideCall
  <2>1. Labelled(set) = calledFuncs_seq /\ Popped = call_stack
    BY <1>4 DEF Labelled, Popped
  <2>2. Len(callSite_seq) = Len(calledFuncs_seq) /\ call_stack = <<>>
    BY <1>1, <1>4 DEF TraceInv, Aligned
  <2> QED BY <1>1, <1>2, <2>1, <2>2 DEF TraceInv, Aligned
<1> QED BY <1>3, <1>4 DEF TraceInv, TypeOK

\* What a run begins with has the type of what it collects.
LEMMA NothingTyped ==
    /\ DOMAIN Empty = {} /\ {} \in Labels
    /\ <<>> \in Seq(Site) /\ <<>> \in Seq(Labels) /\ <<>> \in Seq(SUBSET Rdf)
    /\ [s \in Site |-> {}] \in [Site -> SUBSET Rdf]
BY DEF Empty, Labels

\* The invariant holds before the first run.
LEMMA InitTrace == Init => TraceInv
<1> SUFFICES ASSUME Init PROVE TraceInv
  OBVIOUS
<1>1. TypeOK
  <2>1. 0 \in 0 .. MaxRuns
    BY TraceAssumption DEF MaxRuns
  <2>2. run = 0 /\ callsite2fID_map = Empty /\ calledFuncs_str2id_map = Empty
    BY DEF Init
  <2> QED BY <2>1, <2>2, NothingTyped DEF Init, TypeOK
<1>2. Numbering
  BY FS_EmptySet DEF Init, Numbering, Empty
<1>3. Aligned
  BY DEF Init, Aligned
<1> QED BY <1>1, <1>2, <1>3 DEF TraceInv

\* A step that finalizes the call in progress, if any, preserves it.
LEMMA FinalizeStep ==
    ASSUME TraceInv, NEW set \in Labels, FinalizeCalledFuncs(set),
           mainAppCalled' \in BOOLEAN, recent' = NoSite,
           currentCalledFunc_set' \in Labels,
           UNCHANGED <<callSite_seq, rdf_seq, callsite2fID_map, callsite2rdfSet_map, run>>
    PROVE  TraceInv'
<1>1. /\ calledFuncs_seq' = Labelled(set) /\ calledFuncs_str2id_map' = Numbered(set)
      /\ call_stack' = <<>> /\ insideCall' = FALSE
  BY FinalizedFacts DEF FinalizeCalledFuncs
<1>2. TypeOK'
  <2>1. call_stack' \in Seq(Site) /\ insideCall' \in BOOLEAN
    BY <1>1, NothingTyped
  <2>2. /\ calledFuncs_seq' \in Seq(Labels)
        /\ DOMAIN calledFuncs_str2id_map' \subseteq Labels
        /\ \A l \in DOMAIN calledFuncs_str2id_map' : calledFuncs_str2id_map'[l] \in Nat
    BY <1>1, NumberedFacts, FinalizedFacts DEF TraceInv
  <2> QED BY <2>1, <2>2 DEF TypeOK, TraceInv
<1>3. Numbering'
  BY <1>1, NumberedFacts DEF Numbering, TraceInv
<1>4. Aligned'
  <2>1. Len(callSite_seq) \in Nat
    BY DEF TraceInv, TypeOK
  <2> QED BY <1>1, <2>1, FinalizedFacts DEF Aligned, TraceInv
<1> QED BY <1>2, <1>3, <1>4 DEF TraceInv

\* A row begins behind one that has just been finalized.
LEMMA RecordStep ==
    ASSUME TraceInv, NEW s \in Site, NEW id \in FuncID, RecordCallsite(s, id),
           mainAppCalled' \in BOOLEAN, recent' = NoSite,
           currentCalledFunc_set' \in Labels, UNCHANGED run
    PROVE  TraceInv'
<1>1. {} \in Labels
  BY DEF Labels
<1>2. /\ calledFuncs_seq' = Labelled({}) /\ calledFuncs_str2id_map' = Numbered({})
      /\ callSite_seq' = Append(callSite_seq, s) /\ rdf_seq' = Append(rdf_seq, {})
      /\ callsite2rdfSet_map' = callsite2rdfSet_map
      /\ callsite2fID_map' = Put(callsite2fID_map, s, id)
      /\ call_stack' = Append(<<>>, s) /\ insideCall' = TRUE
  BY <1>1, FinalizedFacts DEF RecordCallsite, TraceInv, Numbering
<1>3. callSite_seq \in Seq(Site) /\ rdf_seq \in Seq({{}}) /\ rdf_seq \in Seq(SUBSET Rdf)
  BY DEF TraceInv, TypeOK, Numbering
<1>4. /\ callSite_seq' \in Seq(Site) /\ Len(callSite_seq') = Len(callSite_seq) + 1
      /\ callSite_seq'[Len(callSite_seq) + 1] = s
      /\ \A i \in 1 .. Len(callSite_seq) : callSite_seq'[i] = callSite_seq[i]
      /\ rdf_seq' \in Seq({{}}) /\ rdf_seq' \in Seq(SUBSET Rdf)
      /\ Len(rdf_seq') = Len(rdf_seq) + 1 /\ Len(callSite_seq) \in Nat
  BY <1>2, <1>3
<1>5. /\ DOMAIN callsite2fID_map' = DOMAIN callsite2fID_map \union {s}
      /\ \A k \in DOMAIN callsite2fID_map' : callsite2fID_map'[k] \in FuncID
  BY <1>2 DEF Put, TraceInv, TypeOK
<1>6. TypeOK'
  <2>1. call_stack' \in Seq(Site)
    BY <1>2
  <2> QED BY <1>1, <1>2, <1>4, <1>5, <2>1, NumberedFacts, FinalizedFacts
          DEF TypeOK, TraceInv
<1>7. Numbering'
  BY <1>1, <1>2, <1>4, NumberedFacts DEF Numbering, TraceInv
<1>8. Aligned'
  <2>1. \A i \in 1 .. Len(callSite_seq) + 1 : callSite_seq'[i] \in DOMAIN callsite2fID_map'
    BY <1>4, <1>5 DEF TraceInv, Aligned
  <2>2. call_stack' = <<callSite_seq'[Len(callSite_seq')]>>
    BY <1>2, <1>4
  <2>3. /\ Len(calledFuncs_seq') = Len(callSite_seq)
        /\ \A i \in 1 .. Len(calledFuncs_seq') :
              calledFuncs_seq'[i] \in DOMAIN calledFuncs_str2id_map'
    BY <1>1, <1>2, FinalizedFacts
  <2> QED BY <1>2, <1>4, <2>1, <2>2, <2>3 DEF Aligned, TraceInv
<1> QED BY <1>6, <1>7, <1>8 DEF TraceInv

\* What the next run reads: every set with functions keeps its number.
LEMMA LoadedFacts ==
    ASSUME TraceInv, EndOfTrace
    PROVE  /\ DOMAIN calledFuncs_str2id_map' \subseteq Labels
           /\ IsFiniteSet(DOMAIN calledFuncs_str2id_map')
           /\ \A l \in DOMAIN calledFuncs_str2id_map' : calledFuncs_str2id_map'[l] \in Nat
           /\ DOMAIN calledFuncs_str2id_map \subseteq DOMAIN calledFuncs_str2id_map'
           /\ \A l \in DOMAIN calledFuncs_str2id_map \ {{}} :
                 calledFuncs_str2id_map'[l] = calledFuncs_str2id_map[l]
<1> DEFINE n == Cardinality(DOMAIN calledFuncs_str2id_map)
           rdfs == {rdf_seq[i] : i \in DOMAIN rdf_seq}
<1>1. PICK ids \in [rdfs -> n .. n + RandRange - 1] :
         /\ string2id_map' = [sets |-> calledFuncs_str2id_map, strs |-> ids]
         /\ NewContext(string2id_map')
  BY DEF EndOfTrace
<1>2. rdfs \subseteq {{}}
  <2>1. \A i \in 1 .. Len(rdf_seq) : rdf_seq[i] = {}
    BY DEF TraceInv, Numbering
  <2>2. DOMAIN rdf_seq = 1 .. Len(rdf_seq)
    BY DEF TraceInv, Numbering
  <2> QED BY <2>1, <2>2
<1>3. n \in Nat /\ n .. n + RandRange - 1 \subseteq Nat
  BY FS_CardinalityType, TraceAssumption DEF TraceInv, Numbering
<1> HIDE DEF n, rdfs
<1>4. calledFuncs_str2id_map' = Loaded([sets |-> calledFuncs_str2id_map, strs |-> ids])
  BY <1>1 DEF NewContext
<1>5. calledFuncs_str2id_map' =
        [l \in DOMAIN calledFuncs_str2id_map \union rdfs |->
            IF l \in rdfs THEN ids[l] ELSE calledFuncs_str2id_map[l]]
  BY <1>1, <1>4 DEF Loaded
<1>6. IsFiniteSet(DOMAIN calledFuncs_str2id_map \union rdfs)
  <2>1. IsFiniteSet(DOMAIN calledFuncs_str2id_map \union {{}})
    BY FS_AddElement DEF TraceInv, Numbering
  <2>2. DOMAIN calledFuncs_str2id_map \union rdfs
           \in SUBSET (DOMAIN calledFuncs_str2id_map \union {{}})
    BY <1>2
  <2> QED BY <2>1, <2>2, FS_Subset
<1>7. rdfs \subseteq Labels /\ \A l \in rdfs : ids[l] \in Nat
  BY <1>1, <1>2, <1>3 DEF Labels
<1> QED BY <1>2, <1>5, <1>6, <1>7 DEF TraceInv, TypeOK

\* The next run begins like the first, but for the numbering.
LEMMA EndStep == TraceInv /\ EndOfTrace => TraceInv'
<1> SUFFICES ASSUME TraceInv, EndOfTrace PROVE TraceInv'
  OBVIOUS
<1>1. /\ mainAppCalled' = FALSE /\ recent' = NoSite
      /\ callSite_seq' = <<>> /\ rdf_seq' = <<>> /\ calledFuncs_seq' = <<>>
      /\ callsite2fID_map' = Empty
      /\ callsite2rdfSet_map' = [s \in Site |-> {}]
      /\ currentCalledFunc_set' = {} /\ call_stack' = <<>> /\ insideCall' = FALSE
      /\ run < MaxRuns /\ run' = run + 1
  BY DEF EndOfTrace, NewContext
<1>2. TypeOK'
  <2>1. run' \in 0 .. MaxRuns
    BY <1>1, TraceAssumption DEF TraceInv, TypeOK, MaxRuns
  <2> QED BY <1>1, <2>1, LoadedFacts, NothingTyped DEF TypeOK
<1>3. Numbering'
  BY <1>1, LoadedFacts DEF Numbering
<1>4. Aligned'
  BY <1>1 DEF Aligned
<1> QED BY <1>2, <1>3, <1>4 DEF TraceInv

\* Every step preserves the invariant.
LEMMA TraceStep == TraceInv /\ [Next]_vars => TraceInv'
<1> SUFFICES ASSUME TraceInv, [Next]_vars PROVE TraceInv'
  OBVIOUS
<1>1. CASE CalledMain
  BY <1>1 DEF CalledMain, TraceInv, TypeOK, Numbering, Aligned
<1>2. ASSUME NEW r \in Rdf, NEW s \in Site, RdfLine(r, s) PROVE TraceInv'
  <2>1. {} \in Labels /\ currentCalledFunc_set' \in Labels
    BY <1>2 DEF RdfLine, TraceInv, TypeOK, Labels
  <2>2. FinalizeCalledFuncs({}) /\ insideCall' = FALSE /\ recent' = NoSite
    BY <1>2 DEF RdfLine, FinalizeCalledFuncs
  <2>3. UNCHANGED <<mainAppCalled, callSite_seq, rdf_seq, callsite2fID_map,
                    callsite2rdfSet_map, run>>
    BY <1>2, <2>2 DEF RdfLine, RecordRDF, Line
  <2>4. mainAppCalled' \in BOOLEAN
    BY <2>3 DEF TraceInv, TypeOK
  <2> QED BY <2>1, <2>2, <2>3, <2>4, FinalizeStep
<1>3. ASSUME NEW s \in Site, NEW id \in FuncID, CallsiteLine(s, id) PROVE TraceInv'
  BY <1>3 DEF CallsiteLine, Line, TraceInv, TypeOK, Numbering, Aligned
<1>4. CASE ReturnLine
  <2>1. currentCalledFunc_set \in Labels /\ currentCalledFunc_set' \in Labels
    BY <1>4 DEF ReturnLine, TraceInv, TypeOK
  <2>2. /\ FinalizeCalledFuncs(currentCalledFunc_set) /\ recent' = NoSite
        /\ UNCHANGED <<mainAppCalled, callSite_seq, rdf_seq, callsite2fID_map,
                       callsite2rdfSet_map, run>>
    BY <1>4 DEF ReturnLine, Line
  <2>3. mainAppCalled' \in BOOLEAN
    BY <2>2 DEF TraceInv, TypeOK
  <2> QED BY <2>1, <2>2, <2>3, FinalizeStep
<1>5. ASSUME NEW f \in Func, CalledLine(f) PROVE TraceInv'
  <2>1. recent' = NoSite /\ UNCHANGED <<mainAppCalled, run>>
    BY <1>5 DEF CalledLine, Line
  <2>2. CASE recent # NoSite
    <3>1. recent.site \in Site /\ recent.func \in FuncID
      BY <2>2 DEF TraceInv, TypeOK
    <3>2. RecordCallsite(recent.site, recent.func) /\ currentCalledFunc_set' = {f}
      BY <1>5, <2>2 DEF CalledLine
    <3>3. currentCalledFunc_set' \in Labels /\ mainAppCalled' \in BOOLEAN
      BY <2>1, <3>2 DEF Labels, TraceInv, TypeOK
    <3> QED BY <2>1, <3>1, <3>2, <3>3, RecordStep
  <2>3. CASE recent = NoSite
    <3>1. /\ currentCalledFunc_set' \in Labels
          /\ UNCHANGED <<callSite_seq, rdf_seq, calledFuncs_seq, callsite2fID_map,
                         callsite2rdfSet_map, calledFuncs_str2id_map, call_stack,
                         insideCall>>
      BY <1>5, <2>3 DEF CalledLine, TraceInv, TypeOK, Labels
    <3> QED BY <2>1, <3>1 DEF TraceInv, TypeOK, Numbering, Aligned
  <2> QED BY <2>2, <2>3
<1>6. CASE EndOfTrace
  BY <1>6, EndStep
<1>7. CASE UNCHANGED vars
  BY <1>7 DEF vars, context, TraceInv, TypeOK, Numbering, Aligned
<1> QED BY <1>1, <1>2, <1>3, <1>4, <1>5, <1>6, <1>7 DEF Next

\* In every run over every trace: the numbering is of sets of functions only.
THEOREM TypeCorrect == Spec => []TypeOK
<1>1. TraceInv => TypeOK
  BY DEF TraceInv
<1> QED BY <1>1, InitTrace, TraceStep, PTL DEF Spec

\* Labels never slip against the rows: each row but the one in progress has
\* its label, which is numbered, and the stack holds the site in progress.
THEOREM AlignedCorrect == Spec => []RowsAligned
<1>1. TraceInv => RowsAligned
  <2> SUFFICES ASSUME TraceInv PROVE RowsAligned
    OBVIOUS
  <2> DEFINE n == Len(callSite_seq)
  <2>1. callSite_seq \in Seq(Site) /\ n \in Nat /\ calledFuncs_seq \in Seq(Labels)
        /\ Len(calledFuncs_seq) \in Nat
    BY DEF TraceInv, TypeOK
  <2>2. DOMAIN callSite_seq = 1 .. n /\ DOMAIN calledFuncs_seq = 1 .. Len(calledFuncs_seq)
    BY <2>1
  <2>3. CASE insideCall
    <3>1. n = Len(calledFuncs_seq) + 1 /\ n \in 1 .. n /\ call_stack = <<callSite_seq[n]>>
      BY <2>1, <2>3 DEF TraceInv, Aligned
    <3>2. SubSeq(callSite_seq, n, n) = <<callSite_seq[n]>> \o SubSeq(callSite_seq, n + 1, n)
      BY <2>1, <3>1, SubSeqRecursiveFirst
    <3>3. SubSeq(callSite_seq, n + 1, n) = <<>>
      BY <2>1, SubSeqEmpty
    <3>4. <<callSite_seq[n]>> \in Seq(Site)
      BY <2>1, <3>1
    <3>5. SubSeq(callSite_seq, n, n) = <<callSite_seq[n]>>
      BY <3>2, <3>3, <3>4, ConcatEmptySeq
    <3>6. n - 1 + 1 = n
      BY <2>1
    <3> QED BY <2>1, <2>2, <2>3, <3>1, <3>5, <3>6 DEF RowsAligned, TraceInv, Aligned
  <2>4. CASE ~insideCall
    <3>1. n = Len(calledFuncs_seq) /\ call_stack = <<>>
      BY <2>1, <2>4 DEF TraceInv, Aligned
    <3>2. SubSeq(callSite_seq, n - 0 + 1, n) = <<>>
      BY <2>1, SubSeqEmpty
    <3> QED BY <2>1, <2>2, <2>4, <3>1, <3>2 DEF RowsAligned, TraceInv, Aligned
  <2> QED BY <2>3, <2>4
<1> QED BY <1>1, InitTrace, TraceStep, PTL DEF Spec

\* A row that ends is numbered and labelled with one set.
EndsRowWith(set) ==
    calledFuncs_str2id_map' = Numbered(set) /\ calledFuncs_seq' = Labelled(set)

\* What a step that is not the end of a trace does to the numbering.
LEMMA MapChanges ==
    ASSUME TraceInv, [Next]_vars, ~EndOfTrace
    PROVE  /\ UNCHANGED <<run, train, string2id_map>>
           /\ \/ UNCHANGED <<calledFuncs_str2id_map, calledFuncs_seq>>
              \/ \E set \in Labels : EndsRowWith(set)
<1>1. CASE CalledMain
  BY <1>1 DEF CalledMain
<1>2. ASSUME NEW r \in Rdf, NEW s \in Site, RdfLine(r, s)
      PROVE  UNCHANGED <<run, train, string2id_map>> /\ EndsRowWith({})
  BY <1>2 DEF RdfLine, Line, FinalizeCalledFuncs, EndsRowWith
<1>3. ASSUME NEW s \in Site, NEW id \in FuncID, CallsiteLine(s, id)
      PROVE  /\ UNCHANGED <<run, train, string2id_map>>
             /\ UNCHANGED <<calledFuncs_str2id_map, calledFuncs_seq>>
  BY <1>3 DEF CallsiteLine, Line
<1>4. ASSUME ReturnLine
      PROVE  /\ UNCHANGED <<run, train, string2id_map>> /\ currentCalledFunc_set \in Labels
             /\ EndsRowWith(currentCalledFunc_set)
  BY <1>4 DEF ReturnLine, Line, FinalizeCalledFuncs, EndsRowWith, TraceInv, TypeOK
<1>5. ASSUME NEW f \in Func, CalledLine(f)
      PROVE  /\ UNCHANGED <<run, train, string2id_map>>
             /\ \/ UNCHANGED <<calledFuncs_str2id_map, calledFuncs_seq>>
                \/ EndsRowWith({})
  BY <1>5 DEF CalledLine, Line, RecordCallsite, EndsRowWith
<1>6. CASE UNCHANGED vars
  BY <1>6 DEF vars, context
<1>7. {} \in Labels
  BY NothingTyped
<1> QED BY <1>1, <1>2, <1>3, <1>4, <1>5, <1>6, <1>7 DEF Next

\* A set with functions keeps its number within a run and into all later ones.
THEOREM LabelsKept == Spec => LabelsKeepIds
<1> DEFINE Keep == \A l \in DOMAIN calledFuncs_str2id_map \ {{}} :
                      /\ l \in DOMAIN calledFuncs_str2id_map'
                      /\ calledFuncs_str2id_map'[l] = calledFuncs_str2id_map[l]
<1>1. TraceInv /\ [Next]_vars => [Keep]_vars
  <2> SUFFICES ASSUME TraceInv, [Next]_vars PROVE Keep
    OBVIOUS
  <2>1. CASE EndOfTrace
    BY <2>1, LoadedFacts
  <2>2. CASE ~EndOfTrace
    <3>1. CASE UNCHANGED calledFuncs_str2id_map
      BY <3>1
    <3>2. ASSUME NEW set \in Labels, EndsRowWith(set) PROVE Keep
      BY <3>2, NumberedFacts DEF TraceInv, EndsRowWith
    <3> QED BY <2>2, <3>1, <3>2, MapChanges
  <2> QED BY <2>1, <2>2
<1> QED BY <1>1, InitTrace, TraceStep, PTL DEF Spec, LabelsKeepIds

\* FirstRunIdsDense for the numbering alone.
DenseMap(map) ==
    /\ \A a, b \in DOMAIN map : map[a] = map[b] => a = b
    /\ \A a \in DOMAIN map : map[a] < Cardinality(DOMAIN map)

\* The size of the map is the next free number, if the numbers are dense.
LEMMA PutDense ==
    ASSUME NEW map, NEW set, IsFiniteSet(DOMAIN map), set \notin DOMAIN map,
           \A l \in DOMAIN map : map[l] \in Nat, DenseMap(map)
    PROVE  DenseMap(Put(map, set, Cardinality(DOMAIN map)))
<1> DEFINE n == Cardinality(DOMAIN map)
           new == Put(map, set, n)
<1>1. n \in Nat /\ Cardinality(DOMAIN map \union {set}) = n + 1
  BY FS_CardinalityType, FS_AddElement
<1> HIDE DEF n
<1>2. /\ DOMAIN new = DOMAIN map \union {set} /\ new[set] = n
      /\ \A k \in DOMAIN map : k # set /\ new[k] = map[k]
  BY DEF Put
<1>3. \A k \in DOMAIN map : map[k] < n
  BY DEF DenseMap, n
<1> HIDE DEF new
<1>4. \A a \in DOMAIN new : new[a] < Cardinality(DOMAIN new)
  BY <1>1, <1>2, <1>3
<1>5. \A a, b \in DOMAIN new : new[a] = new[b] => a = b
  BY <1>1, <1>2, <1>3 DEF DenseMap
<1> QED BY <1>4, <1>5 DEF DenseMap, new, n

\* Numbering one more set keeps the numbers dense.
LEMMA NumberedDense ==
    ASSUME TraceInv, DenseMap(calledFuncs_str2id_map), NEW set \in Labels
    PROVE  DenseMap(Numbered(set))
<1>1. CASE insideCall /\ set \notin DOMAIN calledFuncs_str2id_map
  <2>1. /\ IsFiniteSet(DOMAIN calledFuncs_str2id_map)
        /\ \A l \in DOMAIN calledFuncs_str2id_map : calledFuncs_str2id_map[l] \in Nat
    BY DEF TraceInv, TypeOK, Numbering
  <2>2. DenseMap(Put(calledFuncs_str2id_map, set,
                     Cardinality(DOMAIN calledFuncs_str2id_map)))
    BY <1>1, <2>1, PutDense
  <2> QED BY <1>1, <2>2 DEF Numbered
<1>2. CASE ~(insideCall /\ set \notin DOMAIN calledFuncs_str2id_map)
  BY <1>2 DEF Numbered
<1> QED BY <1>1, <1>2

\* The ids of the first run are 0, 1, 2... without gap or repetition: a class
\* of the decision tree and an id of the parser are the same number.
THEOREM DenseCorrect == Spec => []FirstRunIdsDense
<1> DEFINE Dense == run = 0 => DenseMap(calledFuncs_str2id_map)
<1>1. Init => Dense
  BY NothingTyped DEF Init, DenseMap
<1>2. TraceInv /\ Dense /\ [Next]_vars => Dense'
  <2> SUFFICES ASSUME TraceInv, Dense, [Next]_vars, run' = 0
               PROVE  DenseMap(calledFuncs_str2id_map')
    OBVIOUS
  <2>1. ~EndOfTrace
    BY DEF EndOfTrace, TraceInv, TypeOK
  <2>2. DenseMap(calledFuncs_str2id_map)
    BY <2>1, MapChanges
  <2>3. CASE UNCHANGED calledFuncs_str2id_map
    BY <2>2, <2>3
  <2>4. ASSUME NEW set \in Labels, EndsRowWith(set)
        PROVE  DenseMap(calledFuncs_str2id_map')
    BY <2>2, <2>4, NumberedDense DEF EndsRowWith
  <2> QED BY <2>1, <2>3, <2>4, MapChanges
<1>3. Dense => FirstRunIdsDense
  BY DEF DenseMap, FirstRunIdsDense
<1> QED BY <1>1, <1>2, <1>3, InitTrace, TraceStep, PTL DEF Spec

\* No trace of any length brings an RDF into a row, wherever its lines stand.
THEOREM RdfDropped == Spec => []RdfNeverRecorded
<1>1. TraceInv => RdfNeverRecorded
  BY DEF TraceInv, Numbering, RdfNeverRecorded
<1> QED BY <1>1, InitTrace, TraceStep, PTL DEF Spec
--------------------------------------------------------------------------------
(***************************************************************************)
(* The rows as a function of the log.                                      *)
(***************************************************************************)
LogLine == [kind : {"rdf"}, rdf : Rdf, site : Site]
              \union [kind : {"site"}, site : Site, func : FuncID]
              \union [kind : {"return"}] \union [kind : {"called"}, func : Func]

\* Whether a line behind the first n begins a row, or ends the one in progress.
Starts(event, n) == event.kind = "called" /\ n >= 1 /\ log[n].kind = "site"
Finishes(event, n) == Starts(event, n) \/ event.kind \in {"return", "rdf"}

HasFirst(S) == \E x \in S : \A y \in S : x <= y

\* Of row i: its call site; if it ended, its label; if not, it is the last one,
\* in progress, and the set being collected is what was called in it.
RowMatches(i) ==
    /\ callSite_seq[Rank(i)] = log[i - 1].site
    /\ Ends(i) # {} => /\ Rank(i) <= Len(calledFuncs_seq) /\ HasFirst(Ends(i))
                       /\ calledFuncs_seq[Rank(i)] = LabelOf(i)
    /\ Ends(i) = {} => /\ insideCall /\ Rank(i) = Len(callSite_seq)
                       /\ \A n \in Nat : n = Len(log) =>
                             currentCalledFunc_set = CalledIn(i, n)

LogInv ==
    /\ log \in Seq(LogLine)
    /\ \A n \in Nat : n = Len(log) =>
         /\ recent # NoSite <=> n >= 1 /\ log[n].kind = "site"
         /\ recent # NoSite => recent.site = log[n].site
    /\ Len(callSite_seq) = Cardinality(Begins)
    /\ \A i \in Begins : RowMatches(i)

\* A line read leaves the lines before it alone.
LEMMA LogGrows ==
    ASSUME log \in Seq(LogLine), NEW event \in LogLine, log' = Append(log, event),
           NEW n \in Nat, n = Len(log)
    PROVE  /\ log' \in Seq(LogLine) /\ Len(log') = n + 1
           /\ DOMAIN log = 1 .. n /\ DOMAIN log' = 1 .. n + 1
           /\ log'[n + 1] = event
           /\ \A i \in 1 .. n : log'[i] = log[i]
<1>1. /\ log' \in Seq(LogLine) /\ Len(log') = n + 1 /\ log'[n + 1] = event
      /\ \A i \in 1 .. n : log'[i] = log[i]
  BY AppendProperties
<1> QED BY <1>1, LenProperties

\* The first of some lines stays the first when a later one joins them.
LEMMA FirstStays ==
    ASSUME NEW n \in Nat, NEW S, S \subseteq 1 .. n
    PROVE  /\ HasFirst(S) => /\ FirstOf(S \union {n + 1}) = FirstOf(S) /\ FirstOf(S) \in S
                             /\ HasFirst(S \union {n + 1})
           /\ FirstOf({n + 1}) = n + 1 /\ HasFirst({n + 1})
<1>1. ASSUME NEW x \in S, \A y \in S : x <= y
      PROVE  FirstOf(S) = x /\ FirstOf(S \union {n + 1}) = x
  <2>1. \A y \in S : y \in Nat /\ y <= n
    OBVIOUS
  <2>2. \A z \in S : (\A y \in S : z <= y) => z = x
    BY <1>1, <2>1
  <2>3. \A y \in S \union {n + 1} : x <= y
    BY <1>1, <2>1
  <2>4. \A z \in S \union {n + 1} : (\A y \in S \union {n + 1} : z <= y) => z = x
    BY <1>1, <2>1, <2>2
  <2> QED BY <1>1, <2>2, <2>3, <2>4 DEF FirstOf
<1>2. HasFirst(S) => HasFirst(S \union {n + 1})
  <2>1. \A y \in S : y \in Nat /\ y <= n
    OBVIOUS
  <2> QED BY <2>1 DEF HasFirst
<1>3. FirstOf({n + 1}) = n + 1 /\ HasFirst({n + 1})
  BY DEF FirstOf, HasFirst
<1> QED BY <1>1, <1>2, <1>3 DEF HasFirst

\* A line begins at most one row, behind all others; the rows keep their ranks.
LEMMA RowsGrow ==
    ASSUME log \in Seq(LogLine), NEW event \in LogLine, log' = Append(log, event),
           NEW n \in Nat, n = Len(log)
    PROVE  /\ Begins' = Begins \union (IF Starts(event, n) THEN {n + 1} ELSE {})
           /\ Begins \subseteq 1 .. n /\ \A i \in Begins : i - 1 \in 1 .. n
           /\ Cardinality(Begins) \in Nat
           /\ Cardinality(Begins') = Cardinality(Begins) + (IF Starts(event, n) THEN 1 ELSE 0)
           /\ \A i \in Begins : Rank(i)' = Rank(i) /\ Rank(i) \in 1 .. Cardinality(Begins)
           /\ Starts(event, n) => Rank(n + 1)' = Cardinality(Begins) + 1
<1>1. /\ DOMAIN log = 1 .. n /\ DOMAIN log' = 1 .. n + 1 /\ log'[n + 1] = event
      /\ \A i \in 1 .. n : log'[i] = log[i]
  BY LogGrows
<1>2. Begins \subseteq 1 .. n /\ \A i \in Begins : i - 1 \in 1 .. n
  BY <1>1 DEF Begins
<1>3. Begins' = Begins \union (IF Starts(event, n) THEN {n + 1} ELSE {})
  <2>1. \A i \in 1 .. n + 1 : i \in 1 .. n \/ i = n + 1
    OBVIOUS
  <2>2. n + 1 \in Begins' <=> Starts(event, n)
    BY <1>1 DEF Begins, Starts
  <2>3. \A i \in 1 .. n : i \in Begins' <=> i \in Begins
    BY <1>1 DEF Begins
  <2>4. Begins' \subseteq 1 .. n + 1
    BY <1>1 DEF Begins
  <2> QED BY <1>2, <2>1, <2>2, <2>3, <2>4
<1>4. IsFiniteSet(1 .. n) /\ IsFiniteSet(Begins) /\ Cardinality(Begins) \in Nat
  <2>1. n \in Int /\ 1 \in Int
    OBVIOUS
  <2>2. IsFiniteSet(1 .. n)
    BY <2>1, FS_Interval
  <2> QED BY <1>2, <2>2, FS_Subset, FS_CardinalityType
<1>5. Cardinality(Begins \union {n + 1}) = Cardinality(Begins) + 1
  <2>1. n + 1 \notin Begins
    BY <1>2
  <2> QED BY <1>4, <2>1, FS_AddElement
<1>6. ASSUME NEW i \in Begins
      PROVE  Rank(i)' = Rank(i) /\ Rank(i) \in 1 .. Cardinality(Begins)
  <2> DEFINE R == {j \in Begins : j <= i}
  <2>1. {j \in Begins' : j <= i} = R
    BY <1>2, <1>3
  <2>2. i \in R /\ R \subseteq Begins
    BY <1>2
  <2>3. Rank(i) = Cardinality(R) /\ Rank(i)' = Cardinality(R)
    BY <2>1 DEF Rank
  <2> HIDE DEF R
  <2>4. IsFiniteSet(R) /\ Cardinality(R) \in Nat /\ Cardinality(R) <= Cardinality(Begins)
    BY <1>4, <2>2, FS_Subset, FS_CardinalityType
  <2>5. Cardinality(R) # 0
    BY <2>2, <2>4, FS_EmptySet
  <2> QED BY <1>4, <2>3, <2>4, <2>5
<1>7. Starts(event, n) => Rank(n + 1)' = Cardinality(Begins) + 1
  <2> SUFFICES ASSUME Starts(event, n) PROVE Rank(n + 1)' = Cardinality(Begins) + 1
    OBVIOUS
  <2>1. Begins' = Begins \union {n + 1}
    BY <1>3
  <2>2. \A j \in Begins \union {n + 1} : j <= n + 1
    BY <1>2
  <2>3. {j \in Begins' : j <= n + 1} = Begins \union {n + 1}
    BY <2>1, <2>2
  <2>4. Rank(n + 1)' = Cardinality({j \in Begins' : j <= n + 1})
    BY DEF Rank
  <2> QED BY <1>5, <2>3, <2>4
<1>8. Cardinality(Begins') = Cardinality(Begins) + (IF Starts(event, n) THEN 1 ELSE 0)
  <2>1. CASE Starts(event, n)
    BY <1>3, <1>5, <2>1
  <2>2. CASE ~Starts(event, n)
    <3>1. Begins' = Begins
      BY <1>3, <2>2
    <3> QED BY <1>4, <2>2, <3>1
  <2> QED BY <2>1, <2>2
<1> QED BY <1>2, <1>3, <1>4, <1>6, <1>7, <1>8

\* What was called in a row up to the line read.
LEMMA CalledGrows ==
    ASSUME log \in Seq(LogLine), NEW event \in LogLine, log' = Append(log, event),
           NEW n \in Nat, n = Len(log)
    PROVE  /\ \A i, k \in 1 .. n : CalledIn(i, k)' = CalledIn(i, k)
           /\ \A i \in 1 .. n : CalledIn(i, n + 1)' =
                CalledIn(i, n) \union (IF event.kind = "called" THEN {event.func} ELSE {})
           /\ CalledIn(n + 1, n + 1)' = IF event.kind = "called" THEN {event.func} ELSE {}
<1>1. /\ log'[n + 1] = event
      /\ \A i \in 1 .. n : log'[i] = log[i]
  BY LogGrows
<1>2. ASSUME NEW i \in 1 .. n, NEW k \in 1 .. n
      PROVE  CalledIn(i, k)' = CalledIn(i, k)
  <2>1. \A l \in i .. k : l \in 1 .. n
    OBVIOUS
  <2>2. {l \in i .. k : log'[l].kind = "called"} = {l \in i .. k : log[l].kind = "called"}
    BY <1>1, <2>1
  <2>3. CalledIn(i, k)' = {log'[l].func : l \in {l \in i .. k : log'[l].kind = "called"}}
    BY DEF CalledIn
  <2> QED BY <1>1, <2>1, <2>2, <2>3 DEF CalledIn
<1>3. ASSUME NEW i \in 1 .. n
      PROVE  CalledIn(i, n + 1)' =
                CalledIn(i, n) \union (IF event.kind = "called" THEN {event.func} ELSE {})
  <2> DEFINE old == {l \in i .. n : log[l].kind = "called"}
             new == IF event.kind = "called" THEN {n + 1} ELSE {}
  <2>1. i .. n + 1 = (i .. n) \union {n + 1} /\ \A l \in i .. n : l \in 1 .. n
    OBVIOUS
  <2>2. {l \in i .. n + 1 : log'[l].kind = "called"} = old \union new
    BY <1>1, <2>1
  <2>3. CalledIn(i, n + 1)' = {log'[l].func : l \in old \union new}
    BY <2>2 DEF CalledIn
  <2>4. CalledIn(i, n) = {log'[l].func : l \in old}
    BY <1>1, <2>1 DEF CalledIn
  <2>5. {log'[l].func : l \in new} = IF event.kind = "called" THEN {event.func} ELSE {}
    BY <1>1
  <2> HIDE DEF old, new
  <2> QED BY <2>3, <2>4, <2>5
<1>4. CalledIn(n + 1, n + 1)' = IF event.kind = "called" THEN {event.func} ELSE {}
  <2>1. (n + 1) .. (n + 1) = {n + 1}
    OBVIOUS
  <2> QED BY <1>1, <2>1 DEF CalledIn
<1> QED BY <1>2, <1>3, <1>4

\* A row ends once: its end and its label stay.
LEMMA EndsGrow ==
    ASSUME log \in Seq(LogLine), NEW event \in LogLine, log' = Append(log, event),
           NEW n \in Nat, n = Len(log)
    PROVE  /\ \A i \in Begins :
                /\ Ends(i) \subseteq 1 .. n
                /\ Ends(i)' = Ends(i) \union (IF Finishes(event, n) THEN {n + 1} ELSE {})
                /\ HasFirst(Ends(i)) => HasFirst(Ends(i)') /\ LabelOf(i)' = LabelOf(i)
                /\ Ends(i) = {} /\ Finishes(event, n) =>
                      /\ HasFirst(Ends(i)')
                      /\ LabelOf(i)' = IF event.kind = "return" THEN CalledIn(i, n) ELSE {}
           /\ Ends(n + 1)' = {}
<1>1. /\ DOMAIN log = 1 .. n /\ DOMAIN log' = 1 .. n + 1 /\ log'[n + 1] = event
      /\ \A i \in 1 .. n : log'[i] = log[i]
  BY LogGrows
<1>2. /\ Begins' = Begins \union (IF Starts(event, n) THEN {n + 1} ELSE {})
      /\ Begins \subseteq 1 .. n
  BY RowsGrow
<1>3. Ends(n + 1)' = {}
  <2>1. \A j \in 1 .. n + 1 : ~(j > n + 1)
    OBVIOUS
  <2> QED BY <1>1, <2>1 DEF Ends
<1>4. ASSUME NEW i \in Begins
      PROVE  /\ Ends(i) \subseteq 1 .. n
             /\ Ends(i)' = Ends(i) \union (IF Finishes(event, n) THEN {n + 1} ELSE {})
             /\ HasFirst(Ends(i)) => HasFirst(Ends(i)') /\ LabelOf(i)' = LabelOf(i)
             /\ Ends(i) = {} /\ Finishes(event, n) =>
                   /\ HasFirst(Ends(i)')
                   /\ LabelOf(i)' = IF event.kind = "return" THEN CalledIn(i, n) ELSE {}
  <2>1. i \in 1 .. n
    BY <1>2
  <2>2. Ends(i) \subseteq 1 .. n
    BY <1>1 DEF Ends
  <2>3. Ends(i)' = Ends(i) \union (IF Finishes(event, n) THEN {n + 1} ELSE {})
    <3>1. Ends(i)' = {j \in 1 .. n + 1 : j > i /\ (j \in Begins' \/ log'[j].kind \in {"return", "rdf"})}
      BY <1>1 DEF Ends
    <3>2. \A j \in 1 .. n : j \in Ends(i)' <=> j \in Ends(i)
      <4>1. \A j \in 1 .. n : j \in Begins' <=> j \in Begins
        BY <1>2
      <4> QED BY <1>1, <3>1, <4>1 DEF Ends
    <3>3. n + 1 \in Ends(i)' <=> Finishes(event, n)
      <4>1. n + 1 > i /\ n + 1 \in 1 .. n + 1 /\ n + 1 \notin 1 .. n
        BY <2>1
      <4>2. n + 1 \in Begins' <=> Starts(event, n)
        BY <1>2, <4>1
      <4> QED BY <1>1, <3>1, <4>1, <4>2 DEF Finishes
    <3>4. Ends(i)' \subseteq (1 .. n) \union {n + 1}
      BY <3>1
    <3> QED BY <2>2, <3>2, <3>3, <3>4
  <2>4. ASSUME HasFirst(Ends(i))
        PROVE  HasFirst(Ends(i)') /\ LabelOf(i)' = LabelOf(i)
    <3>1. /\ FirstOf(Ends(i) \union {n + 1}) = FirstOf(Ends(i)) /\ FirstOf(Ends(i)) \in Ends(i)
          /\ HasFirst(Ends(i) \union {n + 1})
      BY <2>2, <2>4, FirstStays
    <3>2. HasFirst(Ends(i)') /\ FirstOf(Ends(i)') = FirstOf(Ends(i))
      BY <2>3, <2>4, <3>1
    <3>3. PICK j \in 1 .. n : j = FirstOf(Ends(i))
      BY <2>2, <3>1
    <3>4. CalledIn(i, j)' = CalledIn(i, j)
      BY <2>1, CalledGrows
    <3>5. LabelOf(i) = IF log[j].kind = "return" THEN CalledIn(i, j) ELSE {}
      BY <3>3 DEF LabelOf
    <3>6. LabelOf(i)' = IF log'[j].kind = "return" THEN CalledIn(i, j)' ELSE {}
      <4>1. FirstOf(Ends(i)') = j
        BY <3>2, <3>3
      <4> QED BY <4>1 DEF LabelOf, CalledIn
    <3> QED BY <1>1, <3>2, <3>4, <3>5, <3>6
  <2>5. ASSUME Ends(i) = {}, Finishes(event, n)
        PROVE  /\ HasFirst(Ends(i)')
               /\ LabelOf(i)' = IF event.kind = "return" THEN CalledIn(i, n) ELSE {}
    <3>1. Ends(i)' = {n + 1}
      BY <2>3, <2>5
    <3>2. HasFirst(Ends(i)') /\ FirstOf(Ends(i)') = n + 1
      BY <2>2, <3>1, FirstStays
    <3>3. LabelOf(i)' = IF event.kind = "return" THEN CalledIn(i, n + 1)' ELSE {}
      BY <1>1, <3>2 DEF LabelOf, CalledIn
    <3>4. event.kind = "return" => CalledIn(i, n + 1)' = CalledIn(i, n)
      <4>1. CalledIn(i, n + 1)' =
               CalledIn(i, n) \union (IF event.kind = "called" THEN {event.func} ELSE {})
        BY <2>1, CalledGrows
      <4> QED BY <4>1
    <3> QED BY <3>2, <3>3, <3>4
  <2> QED BY <2>2, <2>3, <2>4, <2>5
<1> QED BY <1>3, <1>4

\* What every line does to the parser.
Parses(event, n) ==
    /\ log' = Append(log, event)
    /\ recent' # NoSite <=> event.kind = "site"
    /\ event.kind = "site" => recent'.site = event.site
    /\ callSite_seq' = IF Starts(event, n) THEN Append(callSite_seq, log[n].site)
                       ELSE callSite_seq
    /\ calledFuncs_seq' =
          IF Finishes(event, n)
          THEN Labelled(IF event.kind = "return" THEN currentCalledFunc_set ELSE {})
          ELSE calledFuncs_seq
    /\ Starts(event, n) => insideCall' /\ currentCalledFunc_set' = {event.func}
    /\ ~Finishes(event, n) /\ insideCall =>
          /\ insideCall'
          /\ currentCalledFunc_set' = currentCalledFunc_set
                 \union (IF event.kind = "called" THEN {event.func} ELSE {})

LEMMA LineKeepsRows ==
    ASSUME TraceInv, LogInv, NEW event \in LogLine, NEW n \in Nat, n = Len(log),
           Parses(event, n)
    PROVE  LogInv'
<1> USE DEF Parses
<1>1. /\ log \in Seq(LogLine) /\ log' = Append(log, event)
      /\ calledFuncs_seq \in Seq(Labels) /\ callSite_seq \in Seq(Site)
      /\ currentCalledFunc_set \in Labels /\ {} \in Labels
      /\ Len(calledFuncs_seq) \in Nat /\ Len(callSite_seq) \in Nat
      /\ Len(callSite_seq) = Len(calledFuncs_seq) + (IF insideCall THEN 1 ELSE 0)
      /\ Len(callSite_seq) = Cardinality(Begins)
  BY DEF LogInv, TraceInv, TypeOK, Aligned, Labels
<1>2. /\ log' \in Seq(LogLine) /\ Len(log') = n + 1 /\ log'[n + 1] = event
      /\ \A i \in 1 .. n : log'[i] = log[i]
  BY <1>1, LogGrows
<1>3. /\ Begins' = Begins \union (IF Starts(event, n) THEN {n + 1} ELSE {})
      /\ Begins \subseteq 1 .. n /\ \A i \in Begins : i - 1 \in 1 .. n
      /\ Cardinality(Begins) \in Nat
      /\ Cardinality(Begins') = Cardinality(Begins) + (IF Starts(event, n) THEN 1 ELSE 0)
      /\ \A i \in Begins : Rank(i)' = Rank(i) /\ Rank(i) \in 1 .. Cardinality(Begins)
      /\ Starts(event, n) => Rank(n + 1)' = Cardinality(Begins) + 1
  BY <1>1, RowsGrow
<1>4. Starts(event, n) => n >= 1 /\ log[n].site \in Site /\ event.kind = "called"
  <2> SUFFICES ASSUME Starts(event, n) PROVE log[n].site \in Site
    BY DEF Starts
  <2>1. n \in 1 .. n /\ log[n].kind = "site"
    BY DEF Starts
  <2>2. log[n] \in LogLine
    BY <1>1, <2>1, LenProperties
  <2> QED BY <2>1, <2>2 DEF LogLine
<1>5. /\ Len(callSite_seq') = Cardinality(Begins')
      /\ \A k \in 1 .. Cardinality(Begins) : callSite_seq'[k] = callSite_seq[k]
      /\ Starts(event, n) => callSite_seq'[Cardinality(Begins) + 1] = log[n].site
  <2>1. CASE Starts(event, n)
    <3>1. callSite_seq' = Append(callSite_seq, log[n].site) /\ log[n].site \in Site
      BY <1>4, <2>1
    <3>2. /\ Len(callSite_seq') = Len(callSite_seq) + 1
          /\ \A k \in 1 .. Len(callSite_seq) : callSite_seq'[k] = callSite_seq[k]
          /\ callSite_seq'[Len(callSite_seq) + 1] = log[n].site
      BY <1>1, <3>1, AppendProperties
    <3> QED BY <1>1, <1>3, <2>1, <3>2
  <2>2. CASE ~Starts(event, n)
    BY <1>1, <1>3, <2>2
  <2> QED BY <2>1, <2>2
<1> DEFINE label == IF event.kind = "return" THEN currentCalledFunc_set ELSE {}
<1>6. /\ Len(calledFuncs_seq') \in Nat /\ Len(calledFuncs_seq') >= Len(calledFuncs_seq)
      /\ \A k \in 1 .. Len(calledFuncs_seq) : calledFuncs_seq'[k] = calledFuncs_seq[k]
      /\ insideCall /\ Finishes(event, n) =>
            Len(calledFuncs_seq') = Cardinality(Begins) /\ calledFuncs_seq'[Cardinality(Begins)] = label
  <2>1. CASE insideCall /\ Finishes(event, n)
    <3>1. calledFuncs_seq' = Append(calledFuncs_seq, label) /\ label \in Labels
      BY <1>1, <2>1 DEF Labelled
    <3> HIDE DEF label, Parses
    <3>2. /\ Len(calledFuncs_seq') = Len(calledFuncs_seq) + 1
          /\ \A k \in 1 .. Len(calledFuncs_seq) : calledFuncs_seq'[k] = calledFuncs_seq[k]
          /\ calledFuncs_seq'[Len(calledFuncs_seq) + 1] = label
      <4>1. calledFuncs_seq \in Seq(Labels)
        BY <1>1
      <4> QED BY <3>1, <4>1, AppendProperties
    <3> QED BY <1>1, <2>1, <3>2
  <2>2. CASE ~(insideCall /\ Finishes(event, n))
    BY <1>1, <2>2 DEF Labelled
  <2> QED BY <2>1, <2>2
<1>7. ASSUME NEW i \in Begins
      PROVE  RowMatches(i)'
  <2>1. i \in 1 .. n /\ i - 1 \in 1 .. n /\ Rank(i)' = Rank(i) /\ Rank(i) \in 1 .. Cardinality(Begins)
    BY <1>3
  <2>2. RowMatches(i)
    BY DEF LogInv
  <2>3. callSite_seq'[Rank(i)'] = log'[i - 1].site
    BY <1>2, <1>5, <2>1, <2>2 DEF RowMatches
  <2>4. /\ Ends(i)' = Ends(i) \union (IF Finishes(event, n) THEN {n + 1} ELSE {})
        /\ HasFirst(Ends(i)) => HasFirst(Ends(i)') /\ LabelOf(i)' = LabelOf(i)
        /\ Ends(i) = {} /\ Finishes(event, n) =>
              /\ HasFirst(Ends(i)')
              /\ LabelOf(i)' = IF event.kind = "return" THEN CalledIn(i, n) ELSE {}
    BY <1>1, EndsGrow
  <2>5. CASE Ends(i) # {}
    <3>1. /\ Rank(i) <= Len(calledFuncs_seq) /\ HasFirst(Ends(i))
          /\ calledFuncs_seq[Rank(i)] = LabelOf(i)
      BY <2>2, <2>5 DEF RowMatches
    <3>2. Rank(i) <= Len(calledFuncs_seq') /\ calledFuncs_seq'[Rank(i)] = calledFuncs_seq[Rank(i)]
      BY <1>1, <1>6, <2>1, <3>1
    <3>3. Ends(i)' # {} /\ HasFirst(Ends(i)') /\ LabelOf(i)' = LabelOf(i)
      BY <2>4, <2>5, <3>1
    <3> QED BY <2>1, <2>3, <3>1, <3>2, <3>3 DEF RowMatches, HasFirst
  <2>6. CASE Ends(i) = {}
    <3>1. /\ insideCall /\ Rank(i) = Len(callSite_seq)
          /\ currentCalledFunc_set = CalledIn(i, n)
      BY <2>2, <2>6 DEF RowMatches
    <3>2. CASE Finishes(event, n)
      <4>1. Ends(i)' # {} /\ HasFirst(Ends(i)') /\ LabelOf(i)' = label
        BY <2>4, <2>6, <3>1, <3>2
      <4>2. Rank(i) <= Len(calledFuncs_seq') /\ calledFuncs_seq'[Rank(i)] = label
        BY <1>1, <1>3, <1>6, <3>1, <3>2
      <4> HIDE DEF label
      <4> QED BY <2>1, <2>3, <4>1, <4>2 DEF RowMatches, HasFirst
    <3>3. CASE ~Finishes(event, n)
      <4>1. Ends(i)' = {} /\ insideCall' /\ Len(callSite_seq') = Len(callSite_seq)
        BY <2>4, <2>6, <3>1, <3>3 DEF Finishes
      <4>2. CalledIn(i, n + 1)' =
               CalledIn(i, n) \union (IF event.kind = "called" THEN {event.func} ELSE {})
        BY <1>1, <2>1, CalledGrows
      <4>3. currentCalledFunc_set' = CalledIn(i, n + 1)'
        BY <3>1, <3>3, <4>2
      <4>4. \A m \in Nat : m = Len(log') => m = n + 1
        BY <1>2
      <4> QED BY <2>1, <2>3, <3>1, <4>1, <4>3, <4>4 DEF RowMatches
    <3> QED BY <3>2, <3>3
  <2> QED BY <2>5, <2>6
<1>8. Starts(event, n) => RowMatches(n + 1)'
  <2> SUFFICES ASSUME Starts(event, n) PROVE RowMatches(n + 1)'
    OBVIOUS
  <2>1. Rank(n + 1)' = Cardinality(Begins) + 1 /\ n + 1 - 1 = n /\ n \in 1 .. n
    BY <1>3, <1>4
  <2>2. callSite_seq'[Rank(n + 1)'] = log'[n + 1 - 1].site
    BY <1>2, <1>5, <2>1
  <2>3. Ends(n + 1)' = {}
    BY <1>1, EndsGrow
  <2>4. insideCall' /\ Rank(n + 1)' = Len(callSite_seq')
    BY <1>3, <1>5, <2>1
  <2>5. CalledIn(n + 1, n + 1)' = {event.func}
    BY <1>1, <1>4, CalledGrows
  <2>6. \A m \in Nat : m = Len(log') => m = n + 1
    BY <1>2
  <2>7. \A m \in Nat : m = Len(log') => currentCalledFunc_set' = CalledIn(n + 1, m)'
    BY <2>5, <2>6
  <2> HIDE DEF Parses
  <2> DEFINE i == n + 1
  <2>8. /\ callSite_seq'[Rank(i)'] = log'[i - 1].site /\ Ends(i)' = {}
        /\ insideCall' /\ Rank(i)' = Len(callSite_seq')
        /\ \A m \in Nat : m = Len(log') => currentCalledFunc_set' = CalledIn(i, m)'
    BY <2>2, <2>3, <2>4, <2>7
  <2> HIDE DEF i
  <2>9. RowMatches(i)'
    BY <2>8 DEF RowMatches
  <2> QED BY <2>9 DEF i
<1>9. \A i \in Begins' : RowMatches(i)'
  BY <1>3, <1>7, <1>8
<1>10. \A m \in Nat : m = Len(log') =>
          /\ recent' # NoSite <=> m >= 1 /\ log'[m].kind = "site"
          /\ recent' # NoSite => recent'.site = log'[m].site
  <2>1. \A m \in Nat : m = Len(log') => m = n + 1
    BY <1>2
  <2>2. n + 1 >= 1
    OBVIOUS
  <2> QED BY <1>2, <2>1, <2>2
<1> HIDE DEF Parses
<1> QED BY <1>2, <1>5, <1>9, <1>10 DEF LogInv

LEMMA InitRows == Init => LogInv
<1> SUFFICES ASSUME Init PROVE LogInv
  OBVIOUS
<1>1. /\ log \in Seq(LogLine) /\ Len(log) = 0 /\ Begins = {} /\ Len(callSite_seq) = 0
      /\ recent = NoSite
  BY DEF Init, Begins
<1>2. Cardinality(Begins) = 0
  BY <1>1, FS_EmptySet
<1> QED BY <1>1, <1>2 DEF LogInv

\* Every step parses one line, ends the run or leaves the rows alone.
LEMMA RowsStep == TraceInv /\ LogInv /\ [Next]_vars => LogInv'
<1> SUFFICES ASSUME TraceInv, LogInv, [Next]_vars PROVE LogInv'
  OBVIOUS
<1>1. log \in Seq(LogLine) /\ Len(log) \in Nat
  BY DEF LogInv
<1>2. PICK n \in Nat : n = Len(log)
  BY <1>1
<1>3. /\ recent # NoSite <=> n >= 1 /\ log[n].kind = "site"
      /\ recent # NoSite => recent.site = log[n].site
      /\ recent \in [site : Site, func : FuncID] \union {NoSite} /\ insideCall \in BOOLEAN
  BY <1>2 DEF LogInv, TraceInv, TypeOK
<1>4. ASSUME NEW r \in Rdf, NEW s \in Site, RdfLine(r, s) PROVE LogInv'
  <2> DEFINE event == [kind |-> "rdf", rdf |-> r, site |-> s]
  <2>1. event \in LogLine /\ event.kind = "rdf" /\ log' = Append(log, event)
    BY <1>4 DEF LogLine, RdfLine, Line
  <2>2. recent' = NoSite /\ callSite_seq' = callSite_seq /\ calledFuncs_seq' = Labelled({})
    BY <1>4 DEF RdfLine, FinalizeCalledFuncs
  <2> HIDE DEF event
  <2>3. ~Starts(event, n) /\ Finishes(event, n)
    BY <2>1 DEF Starts, Finishes
  <2>4. Parses(event, n)
    BY <2>1, <2>2, <2>3 DEF Parses
  <2> QED BY <1>2, <2>1, <2>4, LineKeepsRows
<1>5. ASSUME NEW s \in Site, NEW id \in FuncID, CallsiteLine(s, id) PROVE LogInv'
  <2> DEFINE event == [kind |-> "site", site |-> s, func |-> id]
  <2>1. /\ event \in LogLine /\ event.kind = "site" /\ event.site = s
        /\ log' = Append(log, event)
    BY <1>5 DEF LogLine, CallsiteLine, Line
  <2>2. /\ recent' = [site |-> s, func |-> id]
        /\ UNCHANGED <<callSite_seq, calledFuncs_seq, insideCall, currentCalledFunc_set>>
    BY <1>5 DEF CallsiteLine
  <2>3. recent'.site = s /\ recent' # NoSite
    BY <2>2, TraceAssumption
  <2> HIDE DEF event
  <2>4. ~Starts(event, n) /\ ~Finishes(event, n)
    BY <2>1 DEF Starts, Finishes
  <2>5. Parses(event, n)
    BY <2>1, <2>2, <2>3, <2>4 DEF Parses
  <2> QED BY <1>2, <2>1, <2>5, LineKeepsRows
<1>6. ASSUME ReturnLine PROVE LogInv'
  <2> DEFINE event == [kind |-> "return"]
  <2>1. event \in LogLine /\ event.kind = "return" /\ log' = Append(log, event)
    BY <1>6 DEF LogLine, ReturnLine, Line
  <2>2. /\ recent' = NoSite /\ callSite_seq' = callSite_seq
        /\ calledFuncs_seq' = Labelled(currentCalledFunc_set)
    BY <1>6 DEF ReturnLine, FinalizeCalledFuncs
  <2> HIDE DEF event
  <2>3. ~Starts(event, n) /\ Finishes(event, n)
    BY <2>1 DEF Starts, Finishes
  <2>4. Parses(event, n)
    BY <2>1, <2>2, <2>3 DEF Parses
  <2> QED BY <1>2, <2>1, <2>4, LineKeepsRows
<1>7. ASSUME NEW f \in Func, CalledLine(f) PROVE LogInv'
  <2> DEFINE event == [kind |-> "called", func |-> f]
  <2>1. /\ event \in LogLine /\ event.kind = "called" /\ event.func = f
        /\ log' = Append(log, event) /\ recent' = NoSite
    BY <1>7 DEF LogLine, CalledLine, Line
  <2> HIDE DEF event
  <2>2. Starts(event, n) <=> recent # NoSite
    BY <1>3, <2>1 DEF Starts
  <2>3. Finishes(event, n) <=> Starts(event, n)
    BY <2>1 DEF Finishes
  <2>4. CASE recent # NoSite
    <3>1. /\ calledFuncs_seq' = Labelled({}) /\ insideCall'
          /\ callSite_seq' = Append(callSite_seq, log[n].site)
          /\ currentCalledFunc_set' = {f}
      BY <1>3, <1>7, <2>4 DEF CalledLine, RecordCallsite
    <3>2. Parses(event, n)
      BY <2>1, <2>2, <2>3, <2>4, <3>1 DEF Parses
    <3> QED BY <1>2, <2>1, <3>2, LineKeepsRows
  <2>5. CASE recent = NoSite
    <3>1. /\ UNCHANGED <<callSite_seq, calledFuncs_seq, insideCall>>
          /\ insideCall => currentCalledFunc_set' = currentCalledFunc_set \union {f}
      BY <1>7, <2>5 DEF CalledLine
    <3>2. Parses(event, n)
      BY <1>3, <2>1, <2>2, <2>3, <2>5, <3>1 DEF Parses
    <3> QED BY <1>2, <2>1, <3>2, LineKeepsRows
  <2> QED BY <2>4, <2>5
<1>8. CASE EndOfTrace
  <2>1. log' = <<>> /\ callSite_seq' = <<>> /\ recent' = NoSite
    BY <1>8 DEF EndOfTrace, NewContext
  <2>2. /\ log' \in Seq(LogLine) /\ Len(log') = 0 /\ Begins' = {} /\ Len(callSite_seq') = 0
    BY <2>1 DEF Begins
  <2>3. Cardinality(Begins') = 0
    BY <2>2, FS_EmptySet
  <2> QED BY <2>1, <2>2, <2>3 DEF LogInv
<1>9. CASE CalledMain \/ UNCHANGED vars
  <2>1. UNCHANGED <<log, callSite_seq, recent, calledFuncs_seq, insideCall, currentCalledFunc_set>>
    BY <1>9 DEF CalledMain, vars, context
  <2>2. Begins' = Begins
    BY <2>1 DEF Begins
  <2>3. \A i : /\ Ends(i)' = Ends(i) /\ Rank(i)' = Rank(i)
               /\ \A k : CalledIn(i, k)' = CalledIn(i, k)
    BY <2>1, <2>2 DEF Ends, Rank, CalledIn
  <2>4. \A i : LabelOf(i)' = LabelOf(i)
    BY <2>1, <2>2 DEF LabelOf, Ends, CalledIn
  <2>5. \A i : RowMatches(i)' <=> RowMatches(i)
    BY <2>1, <2>3, <2>4 DEF RowMatches
  <2> QED BY <2>1, <2>2, <2>5 DEF LogInv
<1> QED BY <1>4, <1>5, <1>6, <1>7, <1>8, <1>9 DEF Next

\* For every trace the rows are those its log determines: the n-th begun row
\* has its call site and, once ended, the functions called until its return,
\* or none if it was cut off.
THEOREM RowsCorrect == Spec => []RowsMatchLog
<1>1. LogInv => RowsMatchLog
  <2> SUFFICES ASSUME LogInv PROVE RowsMatchLog
    OBVIOUS
  <2>1. Len(log) \in Nat
    BY DEF LogInv
  <2> QED BY <2>1 DEF LogInv, RowMatches, RowsMatchLog
<1>2. Init => TraceInv
  BY InitTrace
<1> QED BY <1>1, <1>2, InitRows, TraceStep, RowsStep, PTL DEF Spec
--------------------------------------------------------------------------------
(***************************************************************************)
(* The index a call is made with.                                          *)
(***************************************************************************)

\* Ranks in a finite set of naturals are 1, 2, ... up to its size.
LEMMA RanksFill ==
    ASSUME NEW N, N \subseteq Nat, IsFiniteSet(N)
    PROVE  /\ Cardinality(N) \in Nat
           /\ \A p \in N : RankIn(N, p) \in 1 .. Cardinality(N)
           /\ \A p, q \in N : RankIn(N, p) = RankIn(N, q) => p = q
           /\ \A k \in 1 .. Cardinality(N) : \E p \in N : RankIn(N, p) = k
<1> DEFINE n == Cardinality(N)
           Upto(p) == {q \in N : q <= p}
           rank == [p \in N |-> RankIn(N, p)]
<1>1. n \in Nat
  BY FS_CardinalityType
<1>2. ASSUME NEW p \in N
      PROVE  /\ IsFiniteSet(Upto(p)) /\ Cardinality(Upto(p)) \in 1 .. n
             /\ RankIn(N, p) = Cardinality(Upto(p))
  <2>1. Upto(p) \in SUBSET N /\ p \in Upto(p)
    OBVIOUS
  <2>2. RankIn(N, p) = Cardinality(Upto(p))
    BY DEF RankIn
  <2> HIDE DEF Upto
  <2>3. IsFiniteSet(Upto(p)) /\ Cardinality(Upto(p)) <= n
    BY <2>1, FS_Subset
  <2>4. Cardinality(Upto(p)) \in Nat /\ Cardinality(Upto(p)) # 0
    BY <2>1, <2>3, FS_CardinalityType, FS_EmptySet
  <2> QED BY <1>1, <2>2, <2>3, <2>4
<1>3. ASSUME NEW p \in N, NEW q \in N, p < q
      PROVE  RankIn(N, p) # RankIn(N, q)
  <2>1. Upto(p) \in SUBSET Upto(q) /\ q \in Upto(q) /\ q \notin Upto(p)
    <3>1. p \in Nat /\ q \in Nat /\ \A x \in N : x \in Nat
      OBVIOUS
    <3>2. \A x \in N : x <= p => x <= q
      BY <1>3, <3>1
    <3>3. q <= q /\ ~(q <= p)
      BY <1>3, <3>1
    <3>4. \A x \in Upto(p) : x \in Upto(q)
      BY <3>2
    <3> QED BY <3>3, <3>4
  <2> HIDE DEF Upto
  <2>2. Upto(p) # Upto(q)
    BY <2>1
  <2>3. Cardinality(Upto(p)) # Cardinality(Upto(q))
    BY <1>2, <2>1, <2>2, FS_Subset
  <2> QED BY <1>2, <2>3
<1>4. ASSUME NEW p \in N, NEW q \in N, RankIn(N, p) = RankIn(N, q) PROVE p = q
  <2>1. p < q \/ q < p \/ p = q
    OBVIOUS
  <2> QED BY <1>3, <1>4, <2>1
<1>5. rank \in Injection(N, 1 .. n)
  <2>1. \A p \in N : RankIn(N, p) \in 1 .. n
    BY <1>2
  <2>2. \A p \in N : rank[p] = RankIn(N, p)
    OBVIOUS
  <2> HIDE DEF n
  <2>3. rank \in [N -> 1 .. n]
    BY <2>1
  <2> HIDE DEF rank
  <2>4. \A p, q \in N : rank[p] = rank[q] => p = q
    BY <1>4, <2>2
  <2> QED BY <2>3, <2>4 DEF Injection, IsInjective
<1>6. IsFiniteSet(1 .. n) /\ Cardinality(1 .. n) = n
  <2>1. 1 \in Int /\ n \in Int
    BY <1>1
  <2>2. 1 .. n = 1 .. n /\ (1 > n => n = 0)
    BY <1>1
  <2> HIDE DEF n
  <2>3. IsFiniteSet(1 .. n) /\ Cardinality(1 .. n) = IF 1 > n THEN 0 ELSE n - 1 + 1
    BY <2>1, FS_Interval
  <2> QED BY <1>1, <2>2, <2>3
<1> HIDE DEF rank
<1>7. rank \in Surjection(N, 1 .. n)
  BY <1>5, <1>6, FS_Injection
<1>8. \A k \in 1 .. n : \E p \in N : RankIn(N, p) = k
  BY <1>7 DEF Surjection, rank
<1> QED BY <1>1, <1>2, <1>4, <1>8

\* A map of sets is written with one line for each of its sets.
LEMMA LinesFacts ==
    ASSUME NEW map, DOMAIN map \subseteq Labels
    PROVE  /\ Len(LinesOf(map)) \in Nat /\ DOMAIN LinesOf(map) = 1 .. Len(LinesOf(map))
           /\ \E S : LinesOf(map) \in Seq(S)
           /\ \A k \in DOMAIN LinesOf(map) :
                /\ LinesOf(map)[k].set \in DOMAIN map
                /\ LinesOf(map)[k].id = map[LinesOf(map)[k].set]
           /\ \A j, k \in DOMAIN LinesOf(map) :
                LinesOf(map)[j].set = LinesOf(map)[k].set => j = k
           /\ \A l \in DOMAIN map : \E k \in DOMAIN LinesOf(map) : LinesOf(map)[k].set = l
<1> DEFINE named == {p \in DOMAIN LabelOrder : LabelOrder[p] \in DOMAIN map}
           n == Cardinality(named)
           At(k) == CHOOSE p \in named : RankIn(named, p) = k
           file == [k \in 1 .. n |-> [set |-> LabelOrder[At(k)], id |-> map[LabelOrder[At(k)]]]]
<1>1. LinesOf(map) = file
  BY DEF LinesOf
<1>2. named \subseteq Nat /\ IsFiniteSet(named)
  <2>1. Len(LabelOrder) \in Nat /\ DOMAIN LabelOrder = 1 .. Len(LabelOrder)
    BY OrderAssumption, LenProperties
  <2>2. IsFiniteSet(1 .. Len(LabelOrder))
    BY <2>1, FS_Interval
  <2>3. named \in SUBSET (1 .. Len(LabelOrder))
    BY <2>1
  <2>4. named \subseteq Nat
    BY <2>1
  <2> HIDE DEF named
  <2> QED BY <2>2, <2>3, <2>4, FS_Subset
<1>3. \A p \in named : p \in DOMAIN LabelOrder /\ LabelOrder[p] \in DOMAIN map
  OBVIOUS
<1>4. \A l \in DOMAIN map : \E p \in named : LabelOrder[p] = l
  BY OrderAssumption DEF Labels
<1> HIDE DEF named
<1>5. /\ n \in Nat /\ \A p \in named : RankIn(named, p) \in 1 .. n
      /\ \A p, q \in named : RankIn(named, p) = RankIn(named, q) => p = q
      /\ \A k \in 1 .. n : \E p \in named : RankIn(named, p) = k
  BY <1>2, RanksFill
<1> HIDE DEF n
<1>6. \A k \in 1 .. n : At(k) \in named /\ RankIn(named, At(k)) = k
  BY <1>5
<1>7. \A p \in named : At(RankIn(named, p)) = p
  BY <1>5, <1>6
<1> HIDE DEF At
<1>8. /\ DOMAIN file = 1 .. n
      /\ \A k \in 1 .. n : file[k].set = LabelOrder[At(k)] /\ file[k].id = map[LabelOrder[At(k)]]
  OBVIOUS
<1>9. \E S : file \in Seq(S)
  <2> DEFINE S == {file[k] : k \in 1 .. n}
  <2>1. file \in [1 .. n -> S]
    OBVIOUS
  <2>2. file \in Seq(S)
    BY <1>5, <2>1
  <2> QED BY <2>2
<1> HIDE DEF file
<1>10. Len(file) = n
  BY <1>5, <1>8, <1>9
<1>11. \A j, k \in 1 .. n : file[j].set = file[k].set => j = k
  <2> SUFFICES ASSUME NEW j \in 1 .. n, NEW k \in 1 .. n, file[j].set = file[k].set PROVE j = k
    OBVIOUS
  <2>1. LabelOrder[At(j)] = LabelOrder[At(k)] /\ At(j) \in DOMAIN LabelOrder /\ At(k) \in DOMAIN LabelOrder
    BY <1>3, <1>6, <1>8
  <2>2. At(j) = At(k)
    BY <2>1, OrderAssumption
  <2> QED BY <1>6, <2>2
<1>12. \A l \in DOMAIN map : \E k \in 1 .. n : file[k].set = l
  <2> SUFFICES ASSUME NEW l \in DOMAIN map PROVE \E k \in 1 .. n : file[k].set = l
    OBVIOUS
  <2>1. PICK p \in named : LabelOrder[p] = l
    BY <1>4
  <2>2. RankIn(named, p) \in 1 .. n /\ At(RankIn(named, p)) = p
    BY <1>5, <1>7
  <2> QED BY <1>8, <2>1, <2>2
<1>13. \A k \in 1 .. n : file[k].set \in DOMAIN map /\ file[k].id = map[file[k].set]
  BY <1>3, <1>6, <1>8
<1> QED BY <1>1, <1>5, <1>8, <1>9, <1>10, <1>11, <1>12, <1>13

\* A row without a label, or one labelled with a set and its id.
LabelsRow(m, row, l) == row.labels = {l} /\ row.id = m[l]
Exported(m, row) ==
    \/ row.labels = {} /\ row.id = 0
    \/ \E l \in DOMAIN m : LabelsRow(m, row, l)

\* What the first run leaves: dense ids in the file, other ids for the RDF
\* sets, and rows for every id.
FirstExport(m, strs, t) ==
    /\ IsFiniteSet(DOMAIN m) /\ DOMAIN m \subseteq Labels
    /\ \A l \in DOMAIN m : m[l] \in Nat
    /\ DenseMap(m)
    /\ DOMAIN strs \subseteq Labels
    /\ \A x \in DOMAIN strs : strs[x] \in Nat /\ strs[x] >= Cardinality(DOMAIN m)
    /\ \A i \in DOMAIN t : Exported(m, t[i])
    /\ \A l \in DOMAIN m : \E i \in DOMAIN t : LabelsRow(m, t[i], l)

\* In the first run every numbered set is the label of a row.
IndexInv ==
    /\ run = 0 =>
         /\ train = <<>> /\ DenseMap(calledFuncs_str2id_map)
         /\ \A l \in DOMAIN calledFuncs_str2id_map :
               \E i \in 1 .. Len(calledFuncs_seq) : calledFuncs_seq[i] = l
    /\ run = 1 => FirstExport(string2id_map.sets, string2id_map.strs, train)

\* A row that ends labels the set it numbers.
LEMMA LabelledCovers ==
    ASSUME TraceInv, NEW set \in Labels,
           \A l \in DOMAIN calledFuncs_str2id_map :
               \E i \in 1 .. Len(calledFuncs_seq) : calledFuncs_seq[i] = l
    PROVE  \A l \in DOMAIN Numbered(set) :
               \E i \in 1 .. Len(Labelled(set)) : Labelled(set)[i] = l
<1> DEFINE n == Len(calledFuncs_seq)
<1>1. calledFuncs_seq \in Seq(Labels) /\ n \in Nat
  BY DEF TraceInv, TypeOK
<1>2. CASE insideCall
  <2>1. Labelled(set) = Append(calledFuncs_seq, set)
    BY <1>2 DEF Labelled
  <2>2. /\ Len(Labelled(set)) = n + 1 /\ Labelled(set)[n + 1] = set
        /\ \A i \in 1 .. n : Labelled(set)[i] = calledFuncs_seq[i]
    BY <1>1, <2>1, AppendProperties
  <2>3. \A l \in DOMAIN Numbered(set) : l = set \/ l \in DOMAIN calledFuncs_str2id_map
    BY DEF Numbered, Put
  <2>4. n + 1 \in 1 .. n + 1 /\ \A i \in 1 .. n : i \in 1 .. n + 1
    BY <1>1
  <2> HIDE DEF n
  <2>5. \A l \in DOMAIN calledFuncs_str2id_map : \E i \in 1 .. n : calledFuncs_seq[i] = l
    BY DEF n
  <2> QED BY <2>2, <2>3, <2>4, <2>5
<1>3. CASE ~insideCall
  BY <1>3 DEF Labelled, Numbered
<1> QED BY <1>2, <1>3

\* The end of the first trace.
LEMMA FirstExported ==
    ASSUME TraceInv, IndexInv, EndOfTrace, run = 0
    PROVE  FirstExport(string2id_map.sets, string2id_map.strs, train)'
<1> DEFINE m == calledFuncs_str2id_map
           size == Cardinality(DOMAIN m)
           rdfs == {rdf_seq[i] : i \in DOMAIN rdf_seq}
           n == Len(callSite_seq)
           k == Len(calledFuncs_seq)
           printed == [i \in DOMAIN callSite_seq |-> Row(i)]
<1>1. PICK ids \in [rdfs -> size .. size + RandRange - 1] :
         string2id_map' = [sets |-> m, strs |-> ids]
  BY DEF EndOfTrace
<1>2. rdfs \subseteq {{}}
  <2>1. rdf_seq \in Seq({{}})
    BY DEF TraceInv, Numbering
  <2>2. \A i \in DOMAIN rdf_seq : rdf_seq[i] = {}
    BY <2>1
  <2> QED BY <2>2
<1>3. size \in Nat /\ IsFiniteSet(DOMAIN m)
  BY FS_CardinalityType DEF TraceInv, Numbering
<1>4. string2id_map'.sets = m /\ string2id_map'.strs = ids
  BY <1>1
<1>5. /\ DOMAIN ids \subseteq Labels
      /\ \A x \in DOMAIN ids : ids[x] \in Nat /\ ids[x] >= size
  <2> HIDE DEF size, rdfs
  <2>1. RandRange \in Nat
    BY TraceAssumption
  <2>2. DOMAIN ids = rdfs /\ \A x \in rdfs : ids[x] \in size .. size + RandRange - 1
    BY <1>1
  <2>3. {} \in Labels
    BY NothingTyped
  <2> QED BY <1>2, <1>3, <2>1, <2>2, <2>3
<1>6. /\ callSite_seq \in Seq(Site) /\ n \in Nat /\ k \in Nat /\ k <= n
      /\ DOMAIN callSite_seq = 1 .. n
      /\ \A i \in 1 .. k : calledFuncs_seq[i] \in DOMAIN m
  BY DEF TraceInv, TypeOK, Aligned
<1>7. train' = printed
  <2>1. train' = <<>> \o printed
    BY DEF EndOfTrace, IndexInv
  <2> DEFINE S == {Row(i) : i \in 1 .. n}
  <2>2. printed \in [1 .. n -> S]
    BY <1>6
  <2> HIDE DEF printed, n, S
  <2>3. printed \in Seq(S)
    BY <1>6, <2>2
  <2> QED BY <2>1, <2>3, ConcatEmptySeq
<1>8. DOMAIN train' = 1 .. n /\ \A i \in 1 .. n : train'[i] = Row(i)
  <2>1. DOMAIN printed = 1 .. n /\ \A i \in 1 .. n : printed[i] = Row(i)
    BY <1>6
  <2> QED BY <1>7, <2>1
<1>9. \A i \in 1 .. n :
         /\ i <= k => LabelsRow(m, Row(i), calledFuncs_seq[i])
         /\ ~(i <= k) => Row(i).labels = {} /\ Row(i).id = 0
  BY DEF Row, LabelsRow
<1>10. \A i \in DOMAIN train' : Exported(m, train'[i])
  <2> SUFFICES ASSUME NEW i \in 1 .. n PROVE Exported(m, Row(i))
    BY <1>8
  <2>1. CASE i <= k
    <3>1. i \in 1 .. k
      BY <1>6, <2>1
    <3>2. calledFuncs_seq[i] \in DOMAIN m /\ LabelsRow(m, Row(i), calledFuncs_seq[i])
      BY <1>6, <1>9, <2>1, <3>1
    <3> HIDE DEF m
    <3> QED BY <3>2 DEF Exported
  <2>2. CASE ~(i <= k)
    BY <1>9, <2>2 DEF Exported
  <2> QED BY <2>1, <2>2
<1>11. \A l \in DOMAIN m : \E i \in DOMAIN train' : LabelsRow(m, train'[i], l)
  <2> SUFFICES ASSUME NEW l \in DOMAIN m
               PROVE  \E i \in DOMAIN train' : LabelsRow(m, train'[i], l)
    OBVIOUS
  <2>1. PICK i \in 1 .. k : calledFuncs_seq[i] = l
    BY DEF IndexInv
  <2>2. i \in 1 .. n /\ i <= k
    BY <1>6
  <2>3. i \in DOMAIN train' /\ LabelsRow(m, train'[i], l)
    BY <1>8, <1>9, <2>1, <2>2
  <2> QED BY <2>3
<1>12. /\ DOMAIN m \subseteq Labels /\ \A l \in DOMAIN m : m[l] \in Nat
       /\ DenseMap(m)
  BY DEF TraceInv, TypeOK, IndexInv
<1> HIDE DEF m
<1>13. FirstExport(m, ids, train')
  BY <1>3, <1>5, <1>10, <1>11, <1>12 DEF FirstExport
<1>14. FirstExport(string2id_map'.sets, string2id_map'.strs, train')
  BY <1>4, <1>13
<1> QED BY <1>14 DEF FirstExport, Exported, LabelsRow, DenseMap

LEMMA IndexStep == TraceInv /\ IndexInv /\ [Next]_vars => IndexInv'
<1> SUFFICES ASSUME TraceInv, IndexInv, [Next]_vars PROVE IndexInv'
  OBVIOUS
<1>1. CASE EndOfTrace
  <2>1. run' = run + 1 /\ run \in Nat
    BY <1>1 DEF EndOfTrace, TraceInv, TypeOK
  <2>2. run' # 0 /\ (run' = 1 => run = 0)
    BY <2>1
  <2> QED BY <1>1, <2>2, FirstExported DEF IndexInv
<1>2. CASE ~EndOfTrace
  <2>1. UNCHANGED <<run, train, string2id_map>>
    BY <1>2, MapChanges
  <2>2. CASE UNCHANGED <<calledFuncs_str2id_map, calledFuncs_seq>>
    BY <2>1, <2>2 DEF IndexInv, FirstExport, Exported, LabelsRow, DenseMap
  <2>3. ASSUME NEW set \in Labels, EndsRowWith(set) PROVE IndexInv'
    <3>1. ASSUME run = 0
          PROVE  /\ DenseMap(calledFuncs_str2id_map')
                 /\ \A l \in DOMAIN calledFuncs_str2id_map' :
                       \E i \in 1 .. Len(calledFuncs_seq') : calledFuncs_seq'[i] = l
      <4>1. /\ DenseMap(calledFuncs_str2id_map)
            /\ \A l \in DOMAIN calledFuncs_str2id_map :
                  \E i \in 1 .. Len(calledFuncs_seq) : calledFuncs_seq[i] = l
        BY <3>1 DEF IndexInv
      <4>2. DenseMap(Numbered(set))
        BY <4>1, NumberedDense
      <4>3. \A l \in DOMAIN Numbered(set) :
               \E i \in 1 .. Len(Labelled(set)) : Labelled(set)[i] = l
        BY <4>1, LabelledCovers
      <4> QED BY <2>3, <4>2, <4>3 DEF EndsRowWith
    <3>2. run = 1 => FirstExport(string2id_map.sets, string2id_map.strs, train)'
      BY <2>1 DEF IndexInv, FirstExport, Exported, LabelsRow, DenseMap
    <3>3. DenseMap(calledFuncs_str2id_map)' <=> DenseMap(calledFuncs_str2id_map')
      BY DEF DenseMap
    <3> QED BY <2>1, <3>1, <3>2, <3>3 DEF IndexInv
  <2> QED BY <1>2, <2>2, <2>3, MapChanges
<1> QED BY <1>1, <1>2

\* After the first run the classes of the tree are 0, 1, 2... themselves, so a
\* leaf is an id.
LEMMA LeafIsId ==
    ASSUME FirstExport(string2id_map.sets, string2id_map.strs, train),
           NEW l \in DOMAIN string2id_map.sets
    PROVE  /\ LeafOf(string2id_map.sets[l]) = string2id_map.sets[l]
           /\ string2id_map.sets[l] \in 0 .. Cardinality(DOMAIN string2id_map.sets) - 1
<1> DEFINE m == string2id_map.sets
           n == Cardinality(DOMAIN m)
<1>1. /\ IsFiniteSet(DOMAIN m) /\ DenseMap(m) /\ \A x \in DOMAIN m : m[x] \in Nat
      /\ \A i \in DOMAIN train : Exported(m, train[i])
      /\ \A x \in DOMAIN m : \E i \in DOMAIN train : LabelsRow(m, train[i], x)
  BY DEF FirstExport
<1> HIDE DEF m
<1>2. n \in Nat /\ \A x \in DOMAIN m : m[x] \in 0 .. n - 1
  <2>1. n \in Nat
    BY <1>1, FS_CardinalityType
  <2>2. \A x \in DOMAIN m : m[x] < n
    BY <1>1 DEF DenseMap
  <2> HIDE DEF n
  <2> QED BY <1>1, <2>1, <2>2
<1>3. \A k \in 0 .. n - 1 : \E x \in DOMAIN m : m[x] = k
  <2> DEFINE id == [x \in DOMAIN m |-> m[x]]
  <2>1. IsFiniteSet(0 .. n - 1) /\ Cardinality(0 .. n - 1) = n
    <3>1. 0 \in Int /\ n - 1 \in Int
      BY <1>2
    <3> HIDE DEF n
    <3>2. /\ IsFiniteSet(0 .. n - 1)
          /\ Cardinality(0 .. n - 1) = IF 0 > n - 1 THEN 0 ELSE n - 1 - 0 + 1
      BY <3>1, FS_Interval
    <3> QED BY <1>2, <3>2
  <2>2. id \in [DOMAIN m -> 0 .. n - 1] /\ \A x \in DOMAIN m : id[x] = m[x]
    <3> HIDE DEF n
    <3> QED BY <1>2
  <2>3. \A x, y \in DOMAIN m : id[x] = id[y] => x = y
    BY <1>1, <2>2 DEF DenseMap
  <2> HIDE DEF id
  <2>4. id \in Injection(DOMAIN m, 0 .. n - 1)
    <3> HIDE DEF n
    <3> QED BY <2>2, <2>3 DEF Injection, IsInjective
  <2>5. id \in Surjection(DOMAIN m, 0 .. n - 1)
    BY <2>1, <2>4, FS_Injection
  <2> HIDE DEF n
  <2> QED BY <2>2, <2>5 DEF Surjection
<1>4. l \in DOMAIN m /\ m[l] \in 0 .. n - 1
  BY <1>2 DEF m
<1> HIDE DEF n
<1>5. Classes = 0 .. n - 1
  <2>1. ASSUME NEW i \in DOMAIN train PROVE train[i].id \in 0 .. n - 1
    <3>1. 0 \in 0 .. n - 1
      BY <1>2, <1>4
    <3>2. CASE train[i].id = 0
      BY <3>1, <3>2
    <3>3. CASE \E x \in DOMAIN m : LabelsRow(m, train[i], x)
      BY <1>2, <3>3 DEF LabelsRow
    <3> QED BY <1>1, <3>2, <3>3 DEF Exported
  <2>2. ASSUME NEW k \in 0 .. n - 1 PROVE \E i \in DOMAIN train : train[i].id = k
    <3>1. PICK x \in DOMAIN m : m[x] = k
      BY <1>3
    <3> QED BY <1>1, <3>1 DEF LabelsRow
  <2>3. Classes \subseteq 0 .. n - 1
    BY <2>1 DEF Classes
  <2>4. 0 .. n - 1 \subseteq Classes
    BY <2>2 DEF Classes
  <2> QED BY <2>3, <2>4
<1>6. PICK k \in Nat : k = m[l]
  BY <1>4
<1>7. {c \in Classes : c < k} = 0 .. k - 1
  BY <1>2, <1>4, <1>5, <1>6
<1>8. Cardinality(0 .. k - 1) = k
  <2>1. 0 \in Int /\ k - 1 \in Int
    OBVIOUS
  <2>2. Cardinality(0 .. k - 1) = IF 0 > k - 1 THEN 0 ELSE k - 1 - 0 + 1
    BY <2>1, FS_Interval
  <2> QED BY <2>2
<1>9. LeafOf(k) = k
  BY <1>7, <1>8 DEF LeafOf
<1> QED BY <1>4, <1>6, <1>9 DEF m, n

\* The file of the first run has one line with the id of a set, and its set is it.
LEMMA OneLine ==
    ASSUME FirstExport(string2id_map.sets, string2id_map.strs, train),
           NEW l \in DOMAIN string2id_map.sets,
           NEW id, id = string2id_map.sets[l]
    PROVE  \E k \in DOMAIN Lines :
              /\ k # 0 /\ Lines[k].set = l /\ Lines[k].id = id
              /\ \A j \in DOMAIN Lines : Lines[j].id = id => j = k
              /\ k <= k
<1> DEFINE m == string2id_map.sets
           strs == string2id_map.strs
           A == LinesOf(m)
           B == LinesOf(strs)
           a == Len(A)
           b == Len(B)
           n == Cardinality(DOMAIN m)
<1>1. /\ DOMAIN m \subseteq Labels /\ DenseMap(m)
      /\ DOMAIN strs \subseteq Labels
      /\ \A x \in DOMAIN strs : strs[x] \in Nat /\ strs[x] >= n
  BY DEF FirstExport
<1>2. id \in 0 .. n - 1 /\ n \in Nat
  BY LeafIsId, FS_CardinalityType DEF FirstExport
<1>3. l \in DOMAIN m /\ m[l] = id
  OBVIOUS
<1>4. Lines = A \o B
  BY DEF Lines
<1> HIDE DEF m, strs, n
<1>5. /\ a \in Nat /\ DOMAIN A = 1 .. a
      /\ \A k \in 1 .. a : A[k].set \in DOMAIN m /\ A[k].id = m[A[k].set]
      /\ \A j, k \in 1 .. a : A[j].set = A[k].set => j = k
      /\ \A x \in DOMAIN m : \E k \in 1 .. a : A[k].set = x
  BY <1>1, LinesFacts
<1>6. /\ b \in Nat /\ DOMAIN B = 1 .. b
      /\ \A k \in 1 .. b : B[k].set \in DOMAIN strs /\ B[k].id = strs[B[k].set]
  BY <1>1, LinesFacts
<1>7. /\ DOMAIN Lines = 1 .. a + b
      /\ \A i \in 1 .. a : Lines[i] = A[i]
      /\ \A i \in a + 1 .. a + b : Lines[i] = B[i - a]
  <2>1. PICK S : A \in Seq(S)
    BY <1>1, LinesFacts
  <2>2. PICK T : B \in Seq(T)
    BY <1>1, LinesFacts
  <2> HIDE DEF A, B
  <2>3. A \in Seq(S \union T) /\ B \in Seq(S \union T)
    BY <2>1, <2>2
  <2>4. /\ Len(A \o B) = a + b /\ A \o B \in Seq(S \union T)
        /\ \A i \in 1 .. a + b : (A \o B)[i] = IF i <= a THEN A[i] ELSE B[i - a]
    BY <2>3, ConcatProperties
  <2>5. DOMAIN (A \o B) = 1 .. a + b
    BY <2>4, LenProperties
  <2> HIDE DEF a, b
  <2>6. a \in Nat /\ b \in Nat
    BY <1>5, <1>6
  <2> QED BY <1>4, <2>4, <2>5, <2>6
<1> HIDE DEF A, B
<1>8. PICK k \in 1 .. a : A[k].set = l
  BY <1>3, <1>5
<1> HIDE DEF a, b
<1>9. k \in DOMAIN Lines /\ Lines[k] = A[k] /\ k # 0 /\ k <= k
  BY <1>5, <1>6, <1>7
<1>10. Lines[k].set = l /\ Lines[k].id = id
  BY <1>3, <1>5, <1>8, <1>9
<1>11. ASSUME NEW j \in DOMAIN Lines, Lines[j].id = id PROVE j = k
  <2>1. CASE j \in 1 .. a
    <3>1. A[j].set \in DOMAIN m /\ m[A[j].set] = m[l]
      BY <1>3, <1>5, <1>7, <1>11, <2>1
    <3>2. A[j].set = l
      BY <1>1, <1>3, <3>1 DEF DenseMap
    <3> QED BY <1>5, <1>8, <2>1, <3>2
  <2>2. CASE j \in a + 1 .. a + b
    <3>1. j - a \in 1 .. b
      BY <1>5, <1>6, <2>2
    <3>2. id = strs[B[j - a].set] /\ B[j - a].set \in DOMAIN strs
      BY <1>6, <1>7, <1>11, <2>2, <3>1
    <3>3. strs[B[j - a].set] >= n /\ strs[B[j - a].set] \in Nat
      BY <1>1, <3>2
    <3> QED BY <1>2, <3>2, <3>3
  <2>3. j \in 1 .. a \/ j \in a + 1 .. a + b
    BY <1>5, <1>6, <1>7
  <2> QED BY <2>1, <2>2, <2>3
<1> QED BY <1>9, <1>10, <1>11

\* For every trace, however its sets are ordered: after one run of the parser
\* the index compiled in for the leaf of a row's class selects the row's set.
THEOREM IndexCorrect == Spec => []IndexSelectsRowsSet
<1>1. Init => IndexInv
  <2> SUFFICES ASSUME Init PROVE IndexInv
    OBVIOUS
  <2>1. DOMAIN calledFuncs_str2id_map = {} /\ train = <<>> /\ run = 0
    BY NothingTyped DEF Init
  <2> QED BY <2>1 DEF IndexInv, DenseMap
<1>2. IndexInv => IndexSelectsRowsSet
  <2> SUFFICES ASSUME FirstExport(string2id_map.sets, string2id_map.strs, train),
                      NEW i \in LabelledRows
               PROVE  pred_sets(PredId(LeafOf(train[i].id))) \in train[i].labels
    BY DEF IndexInv, IndexSelectsRowsSet
  <2>1. PICK l \in DOMAIN string2id_map.sets : LabelsRow(string2id_map.sets, train[i], l)
    BY DEF FirstExport, Exported, LabelledRows
  <2>2. PICK id : id = string2id_map.sets[l]
    OBVIOUS
  <2>3. train[i].labels = {l} /\ train[i].id = id
    BY <2>1, <2>2 DEF LabelsRow
  <2>4. LeafOf(id) = id
    BY <2>2, LeafIsId
  <2>5. PICK k \in DOMAIN Lines :
           /\ k # 0 /\ Lines[k].set = l /\ Lines[k].id = id
           /\ \A j \in DOMAIN Lines : Lines[j].id = id => j = k
           /\ k <= k
    BY <2>2, OneLine
  <2>6. LastLine(id) = k
    BY <2>5 DEF LastLine
  <2>7. id \in LineIds
    BY <2>5 DEF LineIds
  <2>8. PredId(LeafOf(id)) = k
    BY <2>4, <2>6, <2>7 DEF PredId, stringId_2counter_map
  <2>9. pred_sets(k) = l
    BY <2>5 DEF pred_sets
  <2> QED BY <2>3, <2>8, <2>9
<1> QED BY <1>1, <1>2, InitTrace, TraceStep, IndexStep, PTL DEF Spec
================================================================================
