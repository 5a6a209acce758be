----------------------------- MODULE ReadersProofs -----------------------------
(***************************************************************************)
(* The programs of MCReaders whose proofs are in no module of their own:   *)
(* the remap of a routine, the scorer for every trace and every table of   *)
(* predictions, and the two LLVM passes for every program and tree.        *)
(***************************************************************************)
EXTENDS MCReaders, PageRemapProofs, SequenceTheorems, WellFoundedInduction,
        FiniteSetTheorems, TLAPS

\* The routine looked at never changes.
LEMMA RemapUnchanged ==
    Spec => [](addr \in Nat /\ size \in Nat)
<1>1. Init => addr \in Nat /\ size \in Nat
  BY PageSizeAssumption, SizeAssumption DEF Init
<1>2. addr \in Nat /\ size \in Nat /\ [Next]_all => (addr \in Nat /\ size \in Nat)'
  BY DEF Next, all, remap, SearchRuns, ReachRuns, ChainRuns, ScoreRuns, PassesRuns
<1> QED BY <1>1, <1>2, PTL DEF Spec

\* The handlers make the body of every routine writable, but for one whose last
\* bytes cross a page end.
THEOREM CoversCorrect == Spec => []AuxCovers
<1>1. addr \in Nat /\ size \in Nat => AuxCovers
  BY AuxCoversEverywhere DEF AuxCovers
<1> QED BY <1>1, RemapUnchanged, PTL

\* remap_permissions changes the pages of its bytes, and one more exactly when
\* they end where a page ends, whatever the page size.
THEOREM RemapCorrect == Spec => []RemapReaches
<1>1. ASSUME addr \in Nat, size \in Nat, size >= 1
      PROVE  /\ RemapPages(addr, size) = RangePages \union PageBehind
             /\ PageBehind \intersect RangePages = {}
  <2> DEFINE e == addr + size
  <2>0. RangePages = {PageOf(a) : a \in addr .. e - 1}
    <3>1. e - 1 = addr + (size - 1)
      BY <1>1
    <3> HIDE DEF e
    <3> QED BY <3>1 DEF RangePages
  <2>1. e \in Nat /\ e - 1 \in Nat /\ addr <= e - 1 /\ \A a \in addr .. e : a \in Nat
    BY <1>1
  <2>2. addr .. e = (addr .. e - 1) \union {e}
    BY <1>1
  <2>3. RemapPages(addr, size) = RangePages \union {PageOf(e)}
    <3>1. RemapPages(addr, size) = {PageOf(a) : a \in addr .. e}
      BY <1>1, RemapExact
    <3> HIDE DEF e
    <3>2. RangePages = {PageOf(a) : a \in addr .. e - 1}
      BY <2>0
    <3> QED BY <2>2, <3>1, <3>2
  <2>4. PICK P \in Nat : P = PageSize /\ P >= 1
    BY PageSizeAssumption
  <2>5. PICK q \in Nat : q = PageOf(e)
    BY <2>1, DivMod
  <2>6. PICK r \in 0 .. P - 1 : r = e % PageSize
    BY <2>1, <2>4, DivMod
  <2>7. PICK w \in Nat : w = P * q
    BY <2>4
  <2>8. e = w + r
    BY <2>1, <2>4, <2>5, <2>6, <2>7, DivMod
  <2> HIDE DEF e
  <2>9. CASE r = 0
    <3>1. PageBehind = {PageOf(e)}
      BY <2>6, <2>9 DEF PageBehind, e
    <3>2. ASSUME NEW a \in addr .. e - 1 PROVE PageOf(a) # q
      <4>1. PICK c \in Nat : c = a
        BY <1>1, <2>1
      <4>2. PICK d \in Nat : d = PageOf(a)
        BY <4>1, DivMod
      <4>3. P * d <= a
        <5>1. a = (P * d) + (a % PageSize) /\ a % PageSize \in 0 .. P - 1
          BY <2>4, <4>1, <4>2, DivMod
        <5>2. P * d \in Nat
          BY <2>4
        <5> QED BY <4>1, <5>1, <5>2, <2>4
      <4>4. a < P * q
        BY <1>1, <2>1, <2>7, <2>8, <2>9
      <4> QED BY <4>2, <4>3, <4>4, <4>1
    <3>3. PageOf(e) \notin RangePages
      <4>1. RangePages = {PageOf(a) : a \in addr .. e - 1}
        BY <2>0
      <4> QED BY <2>5, <3>2, <4>1
    <3> QED BY <2>3, <3>1, <3>3
  <2>10. CASE r # 0
    <3>1. PageBehind = {}
      BY <2>6, <2>10 DEF PageBehind, e
    <3>2. PageSize * q <= e - 1 /\ e - 1 < (PageSize * q) + PageSize
      <4>1. w <= e - 1 /\ e - 1 < w + P
        BY <2>1, <2>4, <2>6, <2>8, <2>10
      <4> QED BY <2>4, <2>7, <4>1
    <3>3. PageOf(e - 1) = q
      BY <2>1, <3>2, PageUnique
    <3>4. e - 1 \in addr .. e - 1
      BY <1>1, <2>1
    <3>5. PageOf(e) \in RangePages
      <4>1. RangePages = {PageOf(a) : a \in addr .. e - 1}
        BY <2>0
      <4> QED BY <2>5, <3>3, <3>4, <4>1
    <3> QED BY <2>3, <3>1, <3>5
  <2> QED BY <2>9, <2>10, <2>6
<1>2. addr \in Nat /\ size \in Nat => RemapReaches
  BY <1>1 DEF RemapReaches
<1> QED BY <1>2, RemapUnchanged, PTL

--------------------------------------------------------------------------------
(***************************************************************************)
(* The scores are what their definitions over the whole trace say.         *)
(***************************************************************************)

Line == [kind : {"main", "exit"}] \union [kind : {"predict"}, id : SeqId]
            \union [kind : {"lib"}, name : Called]

\* Whether a line begins a call site.
BeginsSite(line) == line.kind = "predict" /\ line.id \in DOMAIN PredictedOf

MissedCalls == {i \in CountedCalls : trace[i].name \notin InForce(i)}
More == {i \in TraceLines("predict") : Cardinality(CalledUnder(i)) > SizeOf(i)}
Fewer == {i \in TraceLines("predict") : Cardinality(CalledUnder(i)) < SizeOf(i)}
AsMany == {i \in TraceLines("predict") : Cardinality(CalledUnder(i)) = SizeOf(i)}

\* The greatest of some lines, or none.
Highest(B) == IF B = {} THEN 0 ELSE CHOOSE b \in B : \A c \in B : c <= b

CountersTyped ==
    /\ missedCount \in Nat /\ totalLibcCount \in Nat /\ totalCallSites \in Nat
    /\ actualGreaterThanPredicted \in Nat /\ actualLessthanPredicted \in Nat
    /\ actualEqualthanPredicted \in Nat

\* The scorer knows the prediction in force and the calls made under it, and
\* its counters are the numbers of the lines they stand for.
ScoreInv ==
    /\ trace \in Seq(Line) /\ embedVerifyMode \in BOOLEAN
    /\ embedVerifyMode <=> TraceLines("main") # {}
    /\ CountersTyped
    /\ \A i \in 1 .. Len(trace) + 1 : LastBegin(i) \in Begins \union {0} /\ LastBegin(i) < i
    /\ \A i \in Nat : i = Len(trace) + 1 =>
         /\ predictedFunctions = IF LastBegin(i) = 0 THEN {} ELSE InForce(i) \union {EmptyName}
         /\ actualCalledFunctions = CalledUnder(i)
    /\ missedCount = Cardinality(MissedCalls)
    /\ totalLibcCount = Cardinality(CountedCalls)
    /\ totalCallSites = Cardinality(Begins)
    /\ actualGreaterThanPredicted = Cardinality(More)
    /\ actualLessthanPredicted = Cardinality(Fewer)
    /\ actualEqualthanPredicted = Cardinality(AsMany)

\* The lines of a kind are line numbers.
LEMMA LinesFinite ==
    ASSUME trace \in Seq(Line), NEW S, S \subseteq 1 .. Len(trace)
    PROVE  IsFiniteSet(S) /\ Cardinality(S) \in Nat
<1>1. Len(trace) \in Nat /\ Len(trace) \in Int /\ 1 \in Int
  BY LenProperties
<1>2. IsFiniteSet(1 .. Len(trace))
  BY <1>1, FS_Interval
<1> QED BY <1>2, FS_Subset, FS_CardinalityType

\* A line read leaves the lines before it alone.
LEMMA TraceGrows ==
    ASSUME trace \in Seq(Line), NEW line \in Line, trace' = Append(trace, line),
           NEW n \in Nat, n = Len(trace)
    PROVE  /\ trace' \in Seq(Line) /\ Len(trace') = n + 1
           /\ trace'[n + 1] = line
           /\ \A i \in 1 .. n : trace'[i] = trace[i]
BY AppendProperties

\* It adds its number to the lines of its kind, and to the call sites if it
\* begins one; it is counted as a call if the program's main was seen.
LEMMA LinesGrow ==
    ASSUME trace \in Seq(Line), NEW line \in Line, trace' = Append(trace, line),
           NEW n \in Nat, n = Len(trace)
    PROVE  /\ \A k : TraceLines(k)' = TraceLines(k) \union (IF line.kind = k THEN {n + 1} ELSE {})
           /\ Begins' = Begins \union (IF BeginsSite(line) THEN {n + 1} ELSE {})
           /\ CountedCalls' = CountedCalls \union
                  (IF line.kind = "lib" /\ TraceLines("main") # {} THEN {n + 1} ELSE {})
           /\ Begins \subseteq 1 .. n /\ CountedCalls \subseteq 1 .. n
           /\ \A k : TraceLines(k) \subseteq 1 .. n
<1>1. /\ Len(trace') = n + 1 /\ trace'[n + 1] = line
      /\ \A i \in 1 .. n : trace'[i] = trace[i]
  BY TraceGrows
<1>2. 1 .. n + 1 = (1 .. n) \union {n + 1} /\ n + 1 \notin 1 .. n
  OBVIOUS
<1>3. ASSUME NEW k
      PROVE  TraceLines(k)' = TraceLines(k) \union (IF line.kind = k THEN {n + 1} ELSE {})
  BY <1>1, <1>2 DEF TraceLines
<1>4. \A k : TraceLines(k) \subseteq 1 .. n
  BY DEF TraceLines
<1>5. Begins' = Begins \union (IF BeginsSite(line) THEN {n + 1} ELSE {})
  BY <1>1, <1>3, <1>4 DEF Begins, BeginsSite
<1>6. CountedCalls' = CountedCalls \union
          (IF line.kind = "lib" /\ TraceLines("main") # {} THEN {n + 1} ELSE {})
  <2>1. \A i \in TraceLines("lib") : (\E m \in TraceLines("main")' : m < i)
                                        <=> (\E m \in TraceLines("main") : m < i)
    BY <1>3, <1>4
  <2>2. line.kind = "lib" => ((\E m \in TraceLines("main")' : m < n + 1)
                                   <=> TraceLines("main") # {})
    BY <1>3, <1>4
  <2>3. CountedCalls' = {i \in TraceLines("lib")' : \E m \in TraceLines("main")' : m < i}
    BY DEF CountedCalls
  <2> QED BY <1>3, <2>1, <2>2, <2>3 DEF CountedCalls
<1>7. Begins \subseteq 1 .. n /\ CountedCalls \subseteq 1 .. n
  BY <1>4 DEF Begins, CountedCalls
<1> QED BY <1>3, <1>4, <1>5, <1>6, <1>7

\* The prediction in force at an earlier line, and at the next one.
LEMMA LastBeginGrows ==
    ASSUME trace \in Seq(Line), NEW line \in Line, trace' = Append(trace, line),
           NEW n \in Nat, n = Len(trace)
    PROVE  /\ \A i \in 1 .. n + 1 : LastBegin(i)' = LastBegin(i)
           /\ LastBegin(n + 2)' = IF BeginsSite(line) THEN n + 1 ELSE LastBegin(n + 1)
<1>1. /\ Begins' = Begins \union (IF BeginsSite(line) THEN {n + 1} ELSE {})
      /\ Begins \subseteq 1 .. n
  BY LinesGrow
<1>2. \A i : LastBegin(i) = Highest({b \in Begins : b < i})
  BY DEF LastBegin, Highest
<1>3. \A i : LastBegin(i)' = Highest({b \in Begins' : b < i})
  BY DEF LastBegin, Highest
<1>4. ASSUME NEW i \in 1 .. n + 1
      PROVE  LastBegin(i)' = LastBegin(i)
  <2>1. {b \in Begins' : b < i} = {b \in Begins : b < i}
    BY <1>1
  <2> QED BY <1>2, <1>3, <2>1
<1>5. CASE BeginsSite(line)
  <2> DEFINE B == {b \in Begins' : b < n + 2}
  <2>1. n + 1 \in B /\ \A c \in B : c <= n + 1 /\ c \in Nat
    BY <1>1, <1>5
  <2> HIDE DEF B
  <2>2. (CHOOSE b \in B : \A c \in B : c <= b) = n + 1
    <3>1. \A b \in B : (\A c \in B : c <= b) => b = n + 1
      BY <2>1
    <3> QED BY <2>1, <3>1
  <2>3. Highest(B) = n + 1
    BY <2>1, <2>2 DEF Highest
  <2>4. LastBegin(n + 2)' = Highest(B)
    BY <1>3 DEF B
  <2> QED BY <1>4, <1>5, <2>3, <2>4
<1>6. CASE ~BeginsSite(line)
  <2>1. \A b \in Begins : b < n + 1 /\ b < n + 2
    BY <1>1
  <2>2. {b \in Begins' : b < n + 2} = {b \in Begins : b < n + 1}
    BY <1>1, <1>6, <2>1
  <2>3. LastBegin(n + 2)' = LastBegin(n + 1)
    BY <1>2, <1>3, <2>2
  <2> QED BY <1>4, <1>6, <2>3
<1> QED BY <1>4, <1>5, <1>6

\* What was judged stays judged, and what the next line will be judged by.
LEMMA JudgementsGrow ==
    ASSUME ScoreInv, NEW line \in Line, trace' = Append(trace, line),
           NEW n \in Nat, n = Len(trace)
    PROVE  /\ \A i \in 1 .. n + 1 : /\ InForce(i)' = InForce(i) /\ SizeOf(i)' = SizeOf(i)
                                    /\ CalledUnder(i)' = CalledUnder(i)
           /\ InForce(n + 2)' = IF BeginsSite(line) THEN PredictedOf[line.id] ELSE InForce(n + 1)
           /\ CalledUnder(n + 2)' =
                 IF BeginsSite(line) THEN {}
                 ELSE CalledUnder(n + 1) \union
                      (IF line.kind = "lib" /\ TraceLines("main") # {} THEN {line.name} ELSE {})
<1>1. /\ Len(trace') = n + 1 /\ trace'[n + 1] = line
      /\ \A i \in 1 .. n : trace'[i] = trace[i]
  BY TraceGrows DEF ScoreInv
<1>2. /\ \A i \in 1 .. n + 1 : LastBegin(i)' = LastBegin(i)
      /\ LastBegin(n + 2)' = IF BeginsSite(line) THEN n + 1 ELSE LastBegin(n + 1)
  BY LastBeginGrows DEF ScoreInv
<1>3. /\ CountedCalls' = CountedCalls \union
             (IF line.kind = "lib" /\ TraceLines("main") # {} THEN {n + 1} ELSE {})
      /\ Begins \subseteq 1 .. n /\ CountedCalls \subseteq 1 .. n
  BY LinesGrow DEF ScoreInv
<1>4. \A i \in 1 .. n + 1 : LastBegin(i) = 0 \/ LastBegin(i) \in 1 .. n
  BY <1>3 DEF ScoreInv
<1>5. ASSUME NEW i \in 1 .. n + 1
      PROVE  /\ InForce(i)' = InForce(i) /\ SizeOf(i)' = SizeOf(i)
             /\ CalledUnder(i)' = CalledUnder(i)
  <2>1. InForce(i)' = InForce(i)
    BY <1>1, <1>2, <1>4 DEF InForce
  <2>2. SizeOf(i)' = SizeOf(i)
    BY <1>2, <2>1 DEF SizeOf
  <2>3. {c \in CountedCalls : LastBegin(i) < c /\ c < i}'
            = {c \in CountedCalls : LastBegin(i) < c /\ c < i}
    BY <1>2, <1>3
  <2>4. CalledUnder(i)' = CalledUnder(i)
    BY <1>1, <1>3, <2>3 DEF CalledUnder
  <2> QED BY <2>1, <2>2, <2>4
<1>6. InForce(n + 2)' = IF BeginsSite(line) THEN PredictedOf[line.id] ELSE InForce(n + 1)
  BY <1>1, <1>2, <1>4 DEF InForce
<1>7. CASE BeginsSite(line)
  <2>1. {c \in CountedCalls : LastBegin(n + 2) < c /\ c < n + 2}' = {}
    <3>1. CountedCalls' \subseteq 1 .. n
      BY <1>3, <1>7 DEF BeginsSite
    <3>2. LastBegin(n + 2)' = n + 1
      BY <1>2, <1>7
    <3>3. \A c \in CountedCalls' : ~(n + 1 < c)
      BY <3>1
    <3> QED BY <3>2, <3>3
  <2>2. CalledUnder(n + 2)' = {}
    BY <2>1 DEF CalledUnder
  <2> QED BY <1>5, <1>6, <1>7, <2>2
<1>8. CASE ~BeginsSite(line)
  <2> DEFINE new == IF line.kind = "lib" /\ TraceLines("main") # {} THEN {n + 1} ELSE {}
  <2> DEFINE old == {c \in CountedCalls : LastBegin(n + 1) < c /\ c < n + 1}
  <2>1. LastBegin(n + 1) < n + 1 /\ LastBegin(n + 1) \in Nat
    BY <1>4 DEF ScoreInv
  <2>2. LastBegin(n + 2)' = LastBegin(n + 1)
    BY <1>2, <1>8
  <2>3. \A c \in CountedCalls : c < n + 1 /\ c < n + 2
    BY <1>3
  <2>4. \A c \in new : c = n + 1
    OBVIOUS
  <2>5. CountedCalls' = CountedCalls \union new
    BY <1>3
  <2>6. {c \in CountedCalls : LastBegin(n + 2) < c /\ c < n + 2}' = old \union new
    <3> HIDE DEF new
    <3> QED BY <2>1, <2>2, <2>3, <2>4, <2>5
  <2>7. CalledUnder(n + 2)' = {trace'[k].name : k \in old \union new}
    BY <2>6 DEF CalledUnder
  <2>8. old \subseteq 1 .. n
    BY <1>3
  <2>9. CalledUnder(n + 1) = {trace'[k].name : k \in old}
    <3> HIDE DEF old
    <3>1. \A k \in old : trace'[k] = trace[k]
      BY <1>1, <2>8
    <3>2. CalledUnder(n + 1) = {trace[k].name : k \in old}
      BY DEF CalledUnder, old
    <3> QED BY <3>1, <3>2
  <2>10. {trace'[k].name : k \in new} =
            IF line.kind = "lib" /\ TraceLines("main") # {} THEN {line.name} ELSE {}
    BY <1>1
  <2>11. CalledUnder(n + 2)' = CalledUnder(n + 1) \union {trace'[k].name : k \in new}
    <3> HIDE DEF old, new
    <3> QED BY <2>7, <2>9
  <2> QED BY <1>5, <1>6, <1>8, <2>10, <2>11
<1> QED BY <1>7, <1>8

\* The number of some lines, and perhaps the next one.
LEMMA OneMore ==
    ASSUME trace \in Seq(Line), NEW n \in Nat, n = Len(trace), NEW S, S \subseteq 1 .. n,
           NEW c \in BOOLEAN
    PROVE  Cardinality(S \union (IF c THEN {n + 1} ELSE {})) = Cardinality(S) + (IF c THEN 1 ELSE 0)
<1>1. IsFiniteSet(S) /\ Cardinality(S) \in Nat /\ n + 1 \notin S
  <2>1. S \subseteq 1 .. Len(trace) /\ n + 1 \notin 1 .. n
    OBVIOUS
  <2> QED BY <2>1, LinesFinite
<1>2. CASE c
  BY <1>1, <1>2, FS_AddElement
<1>3. CASE ~c
  BY <1>1, <1>3
<1> QED BY <1>2, <1>3

\* How each number the scores are defined by grows.
LEMMA ScoresGrow ==
    ASSUME ScoreInv, NEW line \in Line, trace' = Append(trace, line),
           NEW n \in Nat, n = Len(trace)
    PROVE  LET Count(k, c) == k + (IF c THEN 1 ELSE 0)
               counted == line.kind = "lib" /\ TraceLines("main") # {}
               predict == line.kind = "predict"
               called == Cardinality(CalledUnder(n + 1))
           IN /\ Cardinality(CountedCalls') = Count(totalLibcCount, counted)
              /\ Cardinality(MissedCalls') =
                     Count(missedCount, counted /\ line.name \notin InForce(n + 1))
              /\ Cardinality(Begins') = Count(totalCallSites, BeginsSite(line))
              /\ Cardinality(More') =
                     Count(actualGreaterThanPredicted, predict /\ called > SizeOf(n + 1))
              /\ Cardinality(Fewer') =
                     Count(actualLessthanPredicted, predict /\ called < SizeOf(n + 1))
              /\ Cardinality(AsMany') =
                     Count(actualEqualthanPredicted, predict /\ called = SizeOf(n + 1))
<1> DEFINE counted == line.kind = "lib" /\ TraceLines("main") # {}
           predict == line.kind = "predict"
           called == Cardinality(CalledUnder(n + 1))
<1>1. /\ trace'[n + 1] = line
      /\ \A i \in 1 .. n : trace'[i] = trace[i]
  BY TraceGrows DEF ScoreInv
<1>2. /\ TraceLines("predict")' = TraceLines("predict") \union (IF predict THEN {n + 1} ELSE {})
      /\ Begins' = Begins \union (IF BeginsSite(line) THEN {n + 1} ELSE {})
      /\ CountedCalls' = CountedCalls \union (IF counted THEN {n + 1} ELSE {})
      /\ Begins \subseteq 1 .. n /\ CountedCalls \subseteq 1 .. n
      /\ TraceLines("predict") \subseteq 1 .. n
  BY LinesGrow DEF ScoreInv
<1>3. \A i \in 1 .. n + 1 : /\ InForce(i)' = InForce(i) /\ SizeOf(i)' = SizeOf(i)
                            /\ CalledUnder(i)' = CalledUnder(i)
  BY JudgementsGrow
<1>4. n + 1 \in 1 .. n + 1 /\ \A i \in 1 .. n : i \in 1 .. n + 1
  OBVIOUS
<1>5. MissedCalls' = MissedCalls \union
          (IF counted /\ line.name \notin InForce(n + 1) THEN {n + 1} ELSE {})
  <2>1. MissedCalls' = {i \in CountedCalls' : trace'[i].name \notin InForce(i)'}
    BY DEF MissedCalls
  <2>2. \A i \in CountedCalls : trace'[i].name \notin InForce(i)' <=> trace[i].name \notin InForce(i)
    BY <1>1, <1>2, <1>3, <1>4
  <2>3. trace'[n + 1].name \notin InForce(n + 1)' <=> line.name \notin InForce(n + 1)
    BY <1>1, <1>3, <1>4
  <2> HIDE DEF counted
  <2> QED BY <1>2, <2>1, <2>2, <2>3 DEF MissedCalls
<1>6. More' = More \union (IF predict /\ called > SizeOf(n + 1) THEN {n + 1} ELSE {})
  <2>1. More' = {i \in TraceLines("predict")' : Cardinality(CalledUnder(i)') > SizeOf(i)'}
    BY DEF More
  <2> HIDE DEF predict
  <2> QED BY <1>2, <1>3, <1>4, <2>1 DEF More
<1>7. Fewer' = Fewer \union (IF predict /\ called < SizeOf(n + 1) THEN {n + 1} ELSE {})
  <2>1. Fewer' = {i \in TraceLines("predict")' : Cardinality(CalledUnder(i)') < SizeOf(i)'}
    BY DEF Fewer
  <2> HIDE DEF predict
  <2> QED BY <1>2, <1>3, <1>4, <2>1 DEF Fewer
<1>8. AsMany' = AsMany \union (IF predict /\ called = SizeOf(n + 1) THEN {n + 1} ELSE {})
  <2>1. AsMany' = {i \in TraceLines("predict")' : Cardinality(CalledUnder(i)') = SizeOf(i)'}
    BY DEF AsMany
  <2> HIDE DEF predict
  <2> QED BY <1>2, <1>3, <1>4, <2>1 DEF AsMany
<1>9. /\ trace \in Seq(Line) /\ MissedCalls \subseteq 1 .. n /\ More \subseteq 1 .. n
      /\ Fewer \subseteq 1 .. n /\ AsMany \subseteq 1 .. n
  BY <1>2 DEF ScoreInv, MissedCalls, More, Fewer, AsMany
<1>10. /\ totalLibcCount = Cardinality(CountedCalls) /\ missedCount = Cardinality(MissedCalls)
       /\ totalCallSites = Cardinality(Begins)
       /\ actualGreaterThanPredicted = Cardinality(More)
       /\ actualLessthanPredicted = Cardinality(Fewer)
       /\ actualEqualthanPredicted = Cardinality(AsMany)
  BY DEF ScoreInv
<1>11. \A S \in SUBSET (1 .. n), c \in BOOLEAN :
          Cardinality(S \union (IF c THEN {n + 1} ELSE {})) = Cardinality(S) + (IF c THEN 1 ELSE 0)
  BY <1>9, OneMore
<1>12. BeginsSite(line) \in BOOLEAN
  BY DEF BeginsSite
<1> HIDE DEF called
<1> QED BY <1>2, <1>5, <1>6, <1>7, <1>8, <1>9, <1>10, <1>11, <1>12 DEF called

LEMMA ScoreInit == InitScorer => ScoreInv
<1> SUFFICES ASSUME InitScorer PROVE ScoreInv
  OBVIOUS
<1>1. /\ trace = <<>> /\ trace \in Seq(Line) /\ Len(trace) = 0
  BY EmptySeq DEF InitScorer
<1>2. /\ \A k : TraceLines(k) = {}
      /\ Begins = {} /\ CountedCalls = {} /\ MissedCalls = {}
      /\ More = {} /\ Fewer = {} /\ AsMany = {}
  <2>1. \A k : TraceLines(k) = {}
    BY <1>1 DEF TraceLines
  <2> QED BY <2>1 DEF Begins, CountedCalls, MissedCalls, More, Fewer, AsMany
<1>3. \A i : LastBegin(i) = 0 /\ CalledUnder(i) = {}
  BY <1>2 DEF LastBegin, CalledUnder
<1>4. Cardinality({}) = 0
  BY FS_EmptySet
<1>5. \A i \in 1 .. 1 : LastBegin(i) \in Begins \union {0} /\ LastBegin(i) < i
  BY <1>3
<1>6. CountersTyped /\ embedVerifyMode = FALSE
  BY DEF InitScorer, CountersTyped
<1>7. \A i \in 1 .. Len(trace) + 1 : LastBegin(i) \in Begins \union {0} /\ LastBegin(i) < i
  <2>1. Len(trace) + 1 = 1
    BY <1>1
  <2> QED BY <1>5, <2>1
<1>8. /\ missedCount = Cardinality(MissedCalls) /\ totalLibcCount = Cardinality(CountedCalls)
      /\ totalCallSites = Cardinality(Begins) /\ actualGreaterThanPredicted = Cardinality(More)
      /\ actualLessthanPredicted = Cardinality(Fewer)
      /\ actualEqualthanPredicted = Cardinality(AsMany)
  BY <1>2, <1>4 DEF InitScorer
<1>9. predictedFunctions = {} /\ actualCalledFunctions = {}
  BY DEF InitScorer
<1> QED BY <1>1, <1>2, <1>3, <1>6, <1>7, <1>8, <1>9 DEF ScoreInv

\* The scorer's two sets are sized as the judgement of the next line says.
LEMMA SizesAgree ==
    ASSUME ScoreInv, NEW n \in Nat, n = Len(trace)
    PROVE  /\ Cardinality(actualCalledFunctions) = Cardinality(CalledUnder(n + 1))
           /\ Cardinality(predictedFunctions) = SizeOf(n + 1)
           /\ \A f \in Called : f \in predictedFunctions <=> f \in InForce(n + 1)
<1>1. /\ predictedFunctions = IF LastBegin(n + 1) = 0 THEN {} ELSE InForce(n + 1) \union {EmptyName}
      /\ actualCalledFunctions = CalledUnder(n + 1)
      /\ LastBegin(n + 1) \in Begins \union {0}
  BY DEF ScoreInv
<1>2. CASE LastBegin(n + 1) = 0
  BY <1>1, <1>2, FS_EmptySet DEF SizeOf, InForce
<1>3. CASE LastBegin(n + 1) # 0
  <2>1. trace[LastBegin(n + 1)].id \in DOMAIN PredictedOf
    BY <1>1, <1>3 DEF Begins
  <2>2. IsFiniteSet(InForce(n + 1)) /\ EmptyName \notin InForce(n + 1) /\ InForce(n + 1) \subseteq Called
    BY <1>3, <2>1, ScorerAssumption DEF InForce
  <2>3. Cardinality(InForce(n + 1) \union {EmptyName}) = Cardinality(InForce(n + 1)) + 1
    BY <2>2, FS_AddElement
  <2> QED BY <1>1, <1>3, <2>2, <2>3, ScorerAssumption DEF SizeOf
<1> QED BY <1>2, <1>3

\* What every line does to the scorer.
Reads(line) ==
    /\ trace' = Append(trace, line)
    /\ embedVerifyMode' \in BOOLEAN /\ (embedVerifyMode' <=> embedVerifyMode \/ line.kind = "main")
    /\ predictedFunctions' = IF BeginsSite(line) THEN PredictedOf[line.id] \union {EmptyName}
                             ELSE predictedFunctions
    /\ actualCalledFunctions' =
           IF BeginsSite(line) THEN {}
           ELSE actualCalledFunctions \union
                (IF line.kind = "lib" /\ embedVerifyMode THEN {line.name} ELSE {})
    /\ totalLibcCount' = totalLibcCount +
           (IF line.kind = "lib" /\ embedVerifyMode THEN 1 ELSE 0)
    /\ missedCount' = missedCount +
           (IF line.kind = "lib" /\ embedVerifyMode /\ line.name \notin predictedFunctions
            THEN 1 ELSE 0)
    /\ totalCallSites' = totalCallSites + (IF BeginsSite(line) THEN 1 ELSE 0)
    /\ IF line.kind = "predict" THEN Judge
       ELSE UNCHANGED <<actualGreaterThanPredicted, actualLessthanPredicted,
                        actualEqualthanPredicted>>

\* A line that leaves the scorer knowing what it must know keeps the invariant.
LEMMA LineKeeps ==
    ASSUME ScoreInv, NEW line \in Line, Reads(line), NEW n \in Nat, n = Len(trace)
    PROVE  ScoreInv'
<1> USE DEF Reads
<1> DEFINE Count(k, c) == k + (IF c THEN 1 ELSE 0)
           counted == line.kind = "lib" /\ TraceLines("main") # {}
           called == Cardinality(CalledUnder(n + 1))
<1>1. /\ trace' \in Seq(Line) /\ Len(trace') = n + 1
  BY TraceGrows DEF ScoreInv
<1>2. /\ TraceLines("main")' =
            TraceLines("main") \union (IF line.kind = "main" THEN {n + 1} ELSE {})
      /\ Begins' = Begins \union (IF BeginsSite(line) THEN {n + 1} ELSE {})
  BY LinesGrow DEF ScoreInv
<1>3. embedVerifyMode \in BOOLEAN /\ (embedVerifyMode <=> TraceLines("main") # {})
  BY DEF ScoreInv
<1>4. embedVerifyMode' \in BOOLEAN /\ (embedVerifyMode' <=> TraceLines("main")' # {})
  BY <1>2, <1>3
<1>5. /\ Cardinality(actualCalledFunctions) = called
      /\ Cardinality(predictedFunctions) = SizeOf(n + 1)
      /\ \A f \in Called : f \in predictedFunctions <=> f \in InForce(n + 1)
  BY SizesAgree
<1>6. line.kind = "lib" => line.name \in Called
  BY DEF Line
<1>7. /\ totalLibcCount' = Count(totalLibcCount, counted)
      /\ missedCount' = Count(missedCount, counted /\ line.name \notin InForce(n + 1))
      /\ totalCallSites' = Count(totalCallSites, BeginsSite(line))
  BY <1>3, <1>5, <1>6
<1>8. /\ actualGreaterThanPredicted' =
             Count(actualGreaterThanPredicted, line.kind = "predict" /\ called > SizeOf(n + 1))
      /\ actualLessthanPredicted' =
             Count(actualLessthanPredicted, line.kind = "predict" /\ called < SizeOf(n + 1))
      /\ actualEqualthanPredicted' =
             Count(actualEqualthanPredicted, line.kind = "predict" /\ called = SizeOf(n + 1))
  <2>1. CASE line.kind = "predict"
    BY <1>5, <2>1 DEF Judge
  <2>2. CASE line.kind # "predict"
    BY <2>2 DEF ScoreInv, CountersTyped
  <2> QED BY <2>1, <2>2
<1>9. /\ totalLibcCount' = Cardinality(CountedCalls') /\ missedCount' = Cardinality(MissedCalls')
      /\ totalCallSites' = Cardinality(Begins')
      /\ actualGreaterThanPredicted' = Cardinality(More')
      /\ actualLessthanPredicted' = Cardinality(Fewer')
      /\ actualEqualthanPredicted' = Cardinality(AsMany')
  BY <1>7, <1>8, ScoresGrow
<1>10. CountersTyped'
  <2>1. /\ totalLibcCount' \in {totalLibcCount, totalLibcCount + 1}
        /\ missedCount' \in {missedCount, missedCount + 1}
        /\ totalCallSites' \in {totalCallSites, totalCallSites + 1}
        /\ actualGreaterThanPredicted' \in {actualGreaterThanPredicted, actualGreaterThanPredicted + 1}
        /\ actualLessthanPredicted' \in {actualLessthanPredicted, actualLessthanPredicted + 1}
        /\ actualEqualthanPredicted' \in {actualEqualthanPredicted, actualEqualthanPredicted + 1}
    <3> HIDE DEF counted, called
    <3>1. CountersTyped
      BY DEF ScoreInv
    <3> QED BY <1>7, <1>8, <3>1 DEF CountersTyped
  <2>2. CountersTyped
    BY DEF ScoreInv
  <2> QED BY <2>1, <2>2 DEF CountersTyped
<1>11. /\ \A i \in 1 .. n + 1 : LastBegin(i)' = LastBegin(i)
       /\ LastBegin(n + 2)' = IF BeginsSite(line) THEN n + 1 ELSE LastBegin(n + 1)
  BY LastBeginGrows DEF ScoreInv
<1>12. \A i \in 1 .. n + 1 : LastBegin(i) \in Begins \union {0} /\ LastBegin(i) < i
                             /\ LastBegin(i) \in Nat
  <2>1. Begins \subseteq 1 .. n
    BY LinesGrow DEF ScoreInv
  <2>2. \A i \in 1 .. n + 1 : LastBegin(i) \in Begins \union {0} /\ LastBegin(i) < i
    BY DEF ScoreInv
  <2>3. \A b \in Begins \union {0} : b \in Nat
    BY <2>1
  <2> QED BY <2>2, <2>3
<1>13. \A i \in 1 .. n + 2 : LastBegin(i)' \in Begins' \union {0} /\ LastBegin(i)' < i
  <2>1. ASSUME NEW i \in 1 .. n + 1
        PROVE  LastBegin(i)' \in Begins' \union {0} /\ LastBegin(i)' < i
    BY <1>2, <1>11, <1>12
  <2>2. LastBegin(n + 2)' \in Begins' \union {0} /\ LastBegin(n + 2)' < n + 2
    BY <1>2, <1>11, <1>12
  <2>3. \A i \in 1 .. n + 2 : i \in 1 .. n + 1 \/ i = n + 2
    OBVIOUS
  <2> QED BY <2>1, <2>2, <2>3
<1>14. /\ predictedFunctions' = IF LastBegin(n + 2)' = 0 THEN {} ELSE InForce(n + 2)' \union {EmptyName}
       /\ actualCalledFunctions' = CalledUnder(n + 2)'
  <2>1. /\ predictedFunctions = IF LastBegin(n + 1) = 0 THEN {} ELSE InForce(n + 1) \union {EmptyName}
        /\ actualCalledFunctions = CalledUnder(n + 1)
    BY DEF ScoreInv
  <2>2. /\ InForce(n + 2)' = IF BeginsSite(line) THEN PredictedOf[line.id] ELSE InForce(n + 1)
        /\ CalledUnder(n + 2)' =
              IF BeginsSite(line) THEN {}
              ELSE CalledUnder(n + 1) \union (IF counted THEN {line.name} ELSE {})
    BY JudgementsGrow
  <2>3. n + 1 # 0
    OBVIOUS
  <2> QED BY <1>3, <1>11, <2>1, <2>2, <2>3
<1>15. \A i \in Nat : i = Len(trace') + 1 <=> i = n + 2
  BY <1>1
<1> HIDE DEF Count, counted, called
<1>16. \A i \in 1 .. Len(trace') + 1 : LastBegin(i)' \in Begins' \union {0} /\ LastBegin(i)' < i
  <2>1. Len(trace') + 1 = n + 2
    BY <1>1
  <2> QED BY <1>13, <2>1
<1>17. \A i \in Nat : i = Len(trace') + 1 =>
         /\ predictedFunctions' = IF LastBegin(i)' = 0 THEN {} ELSE InForce(i)' \union {EmptyName}
         /\ actualCalledFunctions' = CalledUnder(i)'
  BY <1>14, <1>15
<1> QED BY <1>1, <1>4, <1>9, <1>10, <1>16, <1>17 DEF ScoreInv

\* Every line read is such a line.
LEMMA ScoreStep == ScoreInv /\ [NextScorer]_scorerVars => ScoreInv'
<1> SUFFICES ASSUME ScoreInv, [NextScorer]_scorerVars PROVE ScoreInv'
  OBVIOUS
<1>1. Len(trace) \in Nat /\ embedVerifyMode \in BOOLEAN /\ CountersTyped
  BY LenProperties DEF ScoreInv
<1>2. PICK n \in Nat : n = Len(trace)
  BY <1>1
<1>3. ASSUME ScoreMain PROVE ScoreInv'
  <2> DEFINE line == [kind |-> "main"]
  <2>1. line \in Line /\ line.kind = "main" /\ ~BeginsSite(line) /\ trace' = Append(trace, line)
    BY <1>3 DEF Line, BeginsSite, ScoreMain, ReadTrace
  <2>2. /\ embedVerifyMode' = TRUE
        /\ UNCHANGED <<predictedFunctions, actualCalledFunctions, missedCount, totalLibcCount,
                       totalCallSites, actualGreaterThanPredicted, actualLessthanPredicted,
                       actualEqualthanPredicted>>
    BY <1>3 DEF ScoreMain, sizeCounts
  <2> HIDE DEF line
  <2>3. embedVerifyMode' \in BOOLEAN /\ (embedVerifyMode' <=> embedVerifyMode \/ line.kind = "main")
    BY <1>1, <2>1, <2>2
  <2>4. Reads(line)
    BY <1>1, <2>1, <2>2, <2>3 DEF Reads, CountersTyped
  <2> QED BY <1>2, <2>1, <2>4, LineKeeps
<1>4. ASSUME ScoreExit PROVE ScoreInv'
  <2> DEFINE line == [kind |-> "exit"]
  <2>1. line \in Line /\ line.kind = "exit" /\ ~BeginsSite(line) /\ trace' = Append(trace, line)
    BY <1>4 DEF Line, BeginsSite, ScoreExit, ReadTrace
  <2>2. UNCHANGED <<embedVerifyMode, predictedFunctions, actualCalledFunctions, missedCount,
                    totalLibcCount, totalCallSites, actualGreaterThanPredicted,
                    actualLessthanPredicted, actualEqualthanPredicted>>
    BY <1>4 DEF ScoreExit, sizeCounts
  <2> HIDE DEF line
  <2>3. embedVerifyMode' \in BOOLEAN /\ (embedVerifyMode' <=> embedVerifyMode \/ line.kind = "main")
    BY <1>1, <2>1, <2>2
  <2>4. Reads(line)
    BY <1>1, <2>1, <2>2, <2>3 DEF Reads, CountersTyped
  <2> QED BY <1>2, <2>1, <2>4, LineKeeps
<1>5. ASSUME NEW id \in SeqId, ScorePredict(id) PROVE ScoreInv'
  <2> DEFINE line == [kind |-> "predict", id |-> id]
  <2>1. /\ line \in Line /\ line.kind = "predict" /\ line.id = id
        /\ (BeginsSite(line) <=> id \in DOMAIN PredictedOf)
        /\ trace' = Append(trace, line)
    BY <1>5 DEF Line, BeginsSite, ScorePredict, ReadTrace
  <2>2. /\ embedVerifyMode /\ embedVerifyMode' = embedVerifyMode /\ Judge
        /\ UNCHANGED <<missedCount, totalLibcCount>>
        /\ IF id \in DOMAIN PredictedOf
           THEN /\ predictedFunctions' = PredictedOf[id] \union {EmptyName}
                /\ actualCalledFunctions' = {} /\ totalCallSites' = totalCallSites + 1
           ELSE UNCHANGED <<predictedFunctions, actualCalledFunctions, totalCallSites>>
    BY <1>5 DEF ScorePredict, global_id2Setstring_map
  <2> HIDE DEF line
  <2>3. embedVerifyMode' \in BOOLEAN /\ (embedVerifyMode' <=> embedVerifyMode \/ line.kind = "main")
    BY <1>1, <2>1, <2>2
  <2>4. Reads(line)
    BY <1>1, <2>1, <2>2, <2>3 DEF Reads, CountersTyped
  <2> QED BY <1>2, <2>1, <2>4, LineKeeps
<1>6. ASSUME NEW f \in Called, ScoreCalledLib(f) PROVE ScoreInv'
  <2> DEFINE line == [kind |-> "lib", name |-> f]
  <2>1. /\ line \in Line /\ line.kind = "lib" /\ line.name = f /\ ~BeginsSite(line)
        /\ trace' = Append(trace, line)
    BY <1>6 DEF Line, BeginsSite, ScoreCalledLib, ReadTrace
  <2>2. /\ embedVerifyMode' = embedVerifyMode
        /\ UNCHANGED <<predictedFunctions, totalCallSites, actualGreaterThanPredicted,
                       actualLessthanPredicted, actualEqualthanPredicted>>
        /\ IF embedVerifyMode
           THEN /\ actualCalledFunctions' = actualCalledFunctions \union {f}
                /\ missedCount' = missedCount + (IF f \in predictedFunctions THEN 0 ELSE 1)
                /\ totalLibcCount' = totalLibcCount + 1
           ELSE UNCHANGED <<actualCalledFunctions, missedCount, totalLibcCount>>
    BY <1>6 DEF ScoreCalledLib, sizeCounts
  <2> HIDE DEF line
  <2>3. embedVerifyMode' \in BOOLEAN /\ (embedVerifyMode' <=> embedVerifyMode \/ line.kind = "main")
    BY <1>1, <2>1, <2>2
  <2>4. Reads(line)
    BY <1>1, <2>1, <2>2, <2>3 DEF Reads, CountersTyped
  <2> QED BY <1>2, <2>1, <2>4, LineKeeps
<1>7. CASE UNCHANGED scorerVars
  <2>1. /\ trace' = trace /\ UNCHANGED CountersTyped
        /\ UNCHANGED <<embedVerifyMode, predictedFunctions, actualCalledFunctions, missedCount,
                       totalLibcCount, totalCallSites, actualGreaterThanPredicted,
                       actualLessthanPredicted, actualEqualthanPredicted>>
    BY <1>7 DEF scorerVars, sizeCounts, CountersTyped
  <2>2. /\ \A k : TraceLines(k)' = TraceLines(k)
        /\ CountedCalls' = CountedCalls /\ Begins' = Begins
    BY <2>1 DEF TraceLines, CountedCalls, Begins
  <2>3. \A i : LastBegin(i)' = LastBegin(i)
    BY <2>2 DEF LastBegin
  <2>4. \A i : InForce(i)' = InForce(i) /\ CalledUnder(i)' = CalledUnder(i)
    BY <2>1, <2>2, <2>3 DEF InForce, CalledUnder
  <2>5. \A i : SizeOf(i)' = SizeOf(i)
    BY <2>3, <2>4 DEF SizeOf
  <2>6. MissedCalls' = MissedCalls /\ More' = More /\ Fewer' = Fewer /\ AsMany' = AsMany
    BY <2>1, <2>2, <2>4, <2>5 DEF MissedCalls, More, Fewer, AsMany
  <2> QED BY <2>1, <2>2, <2>3, <2>4, <2>6 DEF ScoreInv
<1> QED BY <1>3, <1>4, <1>5, <1>6, <1>7 DEF NextScorer

LEMMA ScoreStays == ScorerSpec => []ScoreInv
BY ScoreInit, ScoreStep, PTL DEF ScorerSpec

\* The scorer counts as missed exactly the library calls the prediction in
\* force does not name, whatever trace it reads.
THEOREM MissedCorrect == ScorerSpec => []MissedMatchTrace
<1>1. ScoreInv => MissedMatchTrace
  BY DEF ScoreInv, MissedMatchTrace, MissedCalls
<1> QED BY <1>1, ScoreStays, PTL

\* Its three counters compare, at every prediction, the number of routines
\* called with one more than the number predicted, whatever trace it reads.
THEOREM SizesCorrect == ScorerSpec => []SizesMatchTrace
<1>1. ScoreInv => SizesMatchTrace
  BY DEF ScoreInv, SizesMatchTrace, Judged, More, Fewer, AsMany
<1> QED BY <1>1, ScoreStays, PTL

--------------------------------------------------------------------------------
(***************************************************************************)
(* Induction and recursion over the naturals.                              *)
(***************************************************************************)

\* A set of naturals has a least element.
LEMMA LeastExists ==
    ASSUME NEW T \in SUBSET Nat, T # {}
    PROVE  \E x \in T : \A y \in T : x <= y
<1> DEFINE R == OpToRel(<, Nat)
<1>1. IsWellFoundedOn(R, Nat)
  BY NatLessThanWellFounded
<1>2. \A x \in Nat, y \in Nat : x < y => <<x, y>> \in R
  BY DEF OpToRel
<1> HIDE DEF R
<1>3. PICK x \in T : \A y \in T : ~(<<y, x>> \in R)
  BY <1>1, WFMin
<1>4. \A y \in T : ~(y < x)
  BY <1>2, <1>3
<1> QED BY <1>3, <1>4

\* A function over the naturals can be defined from its values at smaller arguments.
Follows(D, f, k) == f[k] = D[<<k, [j \in 0 .. k - 1 |-> f[j]]>>]
Determines(D, V) == \A n \in Nat : \A h \in [0 .. n - 1 -> V] : D[<<n, h>>] \in V
Solves(f, D, V) == f \in [Nat -> V] /\ \A n \in Nat : Follows(D, f, n)
LEMMA RecursionExists ==
    \A D, V : Determines(D, V) => \E f : Solves(f, D, V)
<1> SUFFICES ASSUME NEW D, NEW V, Determines(D, V) PROVE \E f : Solves(f, D, V)
  OBVIOUS
<1> USE DEF Determines
<1> DEFINE Good(n, g) == g \in [0 .. n - 1 -> V] /\ \A k \in 0 .. n - 1 : Follows(D, g, k)
<1>1. ASSUME NEW m \in Nat, NEW n \in Nat, m <= n, NEW g, NEW h, Good(n, g), Good(m, h)
      PROVE  \A k \in 0 .. m - 1 : g[k] = h[k]
  <2> SUFFICES ASSUME NEW T, T = {k \in 0 .. m - 1 : g[k] # h[k]}, T # {} PROVE FALSE
    OBVIOUS
  <2>1. T \in SUBSET Nat
    OBVIOUS
  <2>2. PICK x \in T : \A y \in T : x <= y
    BY <2>1, LeastExists
  <2>3. x \in 0 .. m - 1 /\ x \in 0 .. n - 1 /\ g[x] # h[x] /\ x \in Nat
    BY <1>1
  <2>4. \A j \in 0 .. x - 1 : j \in 0 .. m - 1 /\ ~(x <= j)
    BY <2>3
  <2>5. \A j \in 0 .. x - 1 : g[j] = h[j]
    BY <2>2, <2>4
  <2>6. [j \in 0 .. x - 1 |-> g[j]] = [j \in 0 .. x - 1 |-> h[j]]
    BY <2>5
  <2>7. Follows(D, g, x) /\ Follows(D, h, x)
    BY <1>1, <2>3
  <2> QED BY <2>3, <2>6, <2>7 DEF Follows
<1>2. ASSUME NEW n \in Nat, NEW g, Good(n, g)
      PROVE  \E h : Good(n + 1, h)
  <2> DEFINE v == D[<<n, [j \in 0 .. n - 1 |-> g[j]]>>]
             h == [k \in 0 .. n |-> IF k = n THEN v ELSE g[k]]
  <2>1. v \in V
    <3>1. [j \in 0 .. n - 1 |-> g[j]] \in [0 .. n - 1 -> V]
      BY <1>2
    <3> QED BY <3>1
  <2>2. n + 1 - 1 = n /\ \A k \in 0 .. n : k = n \/ k \in 0 .. n - 1
    OBVIOUS
  <2>3. h \in [0 .. n -> V]
    <3> HIDE DEF v
    <3> QED BY <1>2, <2>1, <2>2
  <2>4. ASSUME NEW k \in 0 .. n
        PROVE  Follows(D, h, k)
    <3>1. \A j \in 0 .. k - 1 : j \in 0 .. n /\ j # n /\ h[j] = g[j]
      <4> HIDE DEF v
      <4> QED OBVIOUS
    <3>2. [j \in 0 .. k - 1 |-> h[j]] = [j \in 0 .. k - 1 |-> g[j]]
      <4> HIDE DEF h
      <4> QED BY <3>1
    <3>3. CASE k = n
      <4>1. h[k] = v
        BY <3>3
      <4> HIDE DEF h
      <4> QED BY <3>2, <3>3, <4>1 DEF Follows
    <3>4. CASE k \in 0 .. n - 1
      <4>1. h[k] = g[k]
        BY <3>4
      <4>2. Follows(D, g, k)
        BY <1>2, <3>4
      <4> HIDE DEF h
      <4> QED BY <3>2, <4>1, <4>2 DEF Follows
    <3> QED BY <2>2, <3>3, <3>4
  <2> HIDE DEF h
  <2>5. Good(n + 1, h)
    BY <2>2, <2>3, <2>4
  <2> QED BY <2>5
<1>3. Good(0, [k \in 0 .. 0 - 1 |-> 0])
  OBVIOUS
<1> HIDE DEF Good
<1>4. \A n \in Nat : \E g : Good(n, g)
  <2> SUFFICES ASSUME NEW T, T = {n \in Nat : ~\E g : Good(n, g)}, T # {} PROVE FALSE
    OBVIOUS
  <2>1. PICK x \in T : \A y \in T : x <= y
    BY LeastExists
  <2>2. x # 0
    BY <1>3
  <2>3. x - 1 \in Nat /\ ~(x <= x - 1) /\ x - 1 + 1 = x
    BY <2>2
  <2>4. \E g : Good(x - 1, g)
    BY <2>1, <2>3
  <2> QED BY <1>2, <2>3, <2>4
<1> DEFINE Part(n) == CHOOSE g : Good(n, g)
           f == [n \in Nat |-> Part(n + 1)[n]]
<1>5. \A n \in Nat : Good(n, Part(n))
  BY <1>4
<1> HIDE DEF Part
<1>6. ASSUME NEW n \in Nat
      PROVE  f[n] \in V /\ Follows(D, f, n)
  <2>1. Good(n + 1, Part(n + 1)) /\ n \in 0 .. n + 1 - 1
    BY <1>5
  <2>2. f[n] = Part(n + 1)[n] /\ f[n] \in V
    BY <2>1 DEF Good
  <2>3. \A j \in 0 .. n - 1 : f[j] = Part(n + 1)[j]
    <3> SUFFICES ASSUME NEW j \in 0 .. n - 1 PROVE f[j] = Part(n + 1)[j]
      OBVIOUS
    <3>1. j + 1 \in Nat /\ j + 1 <= n + 1 /\ j \in 0 .. (j + 1) - 1 /\ j \in Nat
      OBVIOUS
    <3>2. Good(j + 1, Part(j + 1))
      BY <1>5, <3>1
    <3>3. Part(n + 1)[j] = Part(j + 1)[j]
      BY <1>1, <2>1, <3>1, <3>2
    <3> QED BY <3>1, <3>3
  <2> HIDE DEF f
  <2>4. [j \in 0 .. n - 1 |-> f[j]] = [j \in 0 .. n - 1 |-> Part(n + 1)[j]]
    BY <2>3
  <2>5. Follows(D, Part(n + 1), n)
    BY <2>1 DEF Good
  <2> QED BY <2>2, <2>4, <2>5 DEF Follows
<1>7. f \in [Nat -> V]
  BY <1>6
<1> HIDE DEF f
<1> QED BY <1>6, <1>7 DEF Solves

--------------------------------------------------------------------------------
(***************************************************************************)
(* The numbering of the passes.                                            *)
(***************************************************************************)

CalledIn(m) == {CalledBy[m][i] : i \in DOMAIN CalledBy[m]}

\* Numbering a module keeps every id and gives all its routines one.
LEMMA NumberingKeeps ==
    ASSUME NEW m \in Module, NEW known, \A f \in DOMAIN known : known[f] \in Nat
    PROVE  /\ DOMAIN Numbering(m, known) = DOMAIN known \union CalledIn(m)
           /\ \A f \in DOMAIN known : Numbering(m, known)[f] = known[f]
           /\ \A f \in DOMAIN Numbering(m, known) : Numbering(m, known)[f] \in Nat
<1> DEFINE new == CalledIn(m) \ DOMAIN known
           Id(f) == Cardinality({g \in new : FirstCall(m, g) <= FirstCall(m, f)})
<1>1. IsFiniteSet(new)
  <2>1. CalledBy[m] \in Seq(Callee) /\ Len(CalledBy[m]) \in Nat
    BY EmbedAssumption
  <2>2. DOMAIN CalledBy[m] = 1 .. Len(CalledBy[m])
    BY <2>1
  <2>3. IsFiniteSet(1 .. Len(CalledBy[m]))
    BY <2>1, FS_Interval
  <2>4. IsFiniteSet(CalledIn(m))
    <3> DEFINE called == [i \in 1 .. Len(CalledBy[m]) |-> CalledBy[m][i]]
    <3>1. called \in Surjection(1 .. Len(CalledBy[m]), CalledIn(m))
      BY <2>2 DEF CalledIn, Surjection
    <3> QED BY <2>3, <3>1, FS_Surjection
  <2> QED BY <2>4, FS_Subset
<1>2. \A f : Id(f) \in Nat
  <2> SUFFICES ASSUME NEW f PROVE Id(f) \in Nat
    OBVIOUS
  <2>1. {g \in new : FirstCall(m, g) <= FirstCall(m, f)} \in SUBSET new
    OBVIOUS
  <2> HIDE DEF new
  <2> QED BY <1>1, <2>1, FS_Subset, FS_CardinalityType
<1>3. Numbering(m, known) = [f \in new \union DOMAIN known |->
                               IF f \in DOMAIN known THEN known[f] ELSE Id(f)]
  BY DEF Numbering, CalledIn
<1> HIDE DEF Id
<1> QED BY <1>2, <1>3

\* Both passes give a call that doInitialization found its place there, and the
\* instrumentation gives every call a number.
LEMMA SiteNumbered ==
    ASSUME NEW m \in Module, NEW a \in Addresses(m), NEW i \in DOMAIN CalledBy[m]
    PROVE  /\ CallSiteIdMap(m, a, i) \in Nat
           /\ From[m][i] # 0 => /\ CallSiteIdMap(m, a, i) = From[m][i]
                                /\ MCallSiteID(m, a[i]) = From[m][i]
<1>1. /\ AtInit[m] \in Seq(Callee) /\ CalledBy[m] \in Seq(Callee)
      /\ From[m][i] \in DOMAIN AtInit[m] \union {0}
  BY EmbedAssumption
<1>2. a[i] \in DOMAIN AtInit[m] \union {0} /\ (From[m][i] # 0 => a[i] = From[m][i])
  BY DEF Addresses
<1>3. Len(AtInit[m]) \in Nat /\ a[i] \in Nat /\ i \in Nat
  BY <1>1, <1>2
<1>4. Cardinality({j \in 1 .. i : a[j] = 0}) \in Nat
  <2>1. IsFiniteSet(1 .. i)
    <3>1. 1 \in Int /\ i \in Int
      BY <1>3
    <3> QED BY <3>1, FS_Interval
  <2>2. {j \in 1 .. i : a[j] = 0} \subseteq 1 .. i
    OBVIOUS
  <2> QED BY <2>1, <2>2, FS_Subset, FS_CardinalityType
<1>5. CallSiteIdMap(m, a, i) \in Nat
  BY <1>3, <1>4 DEF CallSiteIdMap
<1>6. ASSUME From[m][i] # 0
      PROVE  CallSiteIdMap(m, a, i) = From[m][i] /\ MCallSiteID(m, a[i]) = From[m][i]
  BY <1>1, <1>2, <1>6 DEF CallSiteIdMap, MCallSiteID
<1> QED BY <1>5, <1>6

Named(m, i) == funcName_id_map[CalledBy[m][i]]

\* The state of the passes: what a module was instrumented with is in the file
\* for good, a call doInitialization knew under its own number; once a tree is
\* learned, all modules are instrumented; what is compiled into a known call is
\* the walk of the tree over its number and the id in the file.
PassInv ==
    /\ \A f \in DOMAIN funcName_id_map : funcName_id_map[f] \in Nat
    /\ DOMAIN instrumented = Module /\ DOMAIN embedded = Module
    /\ \A m \in Module : instrumented[m] = <<>> \/ DOMAIN instrumented[m] = DOMAIN CalledBy[m]
    /\ \A m \in Module : \A i \in DOMAIN instrumented[m] :
          /\ i \in DOMAIN CalledBy[m] /\ CalledBy[m][i] \in DOMAIN funcName_id_map
          /\ \E s \in Nat : instrumented[m][i] = [site |-> s, func |-> Named(m, i)]
          /\ From[m][i] # 0 => instrumented[m][i].site = From[m][i]
    /\ dtree # NoTree =>
          /\ \A m \in Module : DOMAIN instrumented[m] = DOMAIN CalledBy[m]
          /\ DOMAIN dtree \subseteq 1 .. MaxInner
          /\ \A n \in DOMAIN dtree : dtree[n].column \in {0, 1}
    /\ \A m \in Module : \A i \in DOMAIN embedded[m] :
          /\ dtree # NoTree /\ i \in DOMAIN CalledBy[m]
          /\ \A id : id = Named(m, i) /\ From[m][i] # 0 =>
                embedded[m][i] = RecursiveIfElseTree(From[m][i], id, NumArgs[CalledBy[m][i]])

\* A tree learned tests nothing but the site and the routine.
LEMMA TreeLearned ==
    ASSUME PassInv, Train
    PROVE  /\ dtree' # NoTree /\ DOMAIN dtree' \subseteq 1 .. MaxInner
           /\ \A n \in DOMAIN dtree' : dtree'[n].column \in {0, 1}
<1>1. PICK executed \in SUBSET Ids \ {{}} :
         \E map \in [{x.site : x \in executed} -> {x.func : x \in executed}] :
             /\ callsite2fID_map' = map
             /\ \E N \in {S \in SUBSET (1 .. MaxInner) : Heap(S)} :
                   dtree' \in [N -> TestsOver(TrainingRows(map))]
  BY DEF Train
<1>2. PICK map \in [{x.site : x \in executed} -> {x.func : x \in executed}] :
         \E N \in {S \in SUBSET (1 .. MaxInner) : Heap(S)} :
             dtree' \in [N -> TestsOver(TrainingRows(map))]
  BY <1>1
<1>3. PICK N \in SUBSET (1 .. MaxInner) : dtree' \in [N -> TestsOver(TrainingRows(map))]
  BY <1>2
<1>4. \A x \in Ids : x.site \in Nat /\ x.func \in Nat
  <2> SUFFICES ASSUME NEW m \in Module, NEW i \in DOMAIN instrumented[m]
               PROVE  instrumented[m][i].site \in Nat /\ instrumented[m][i].func \in Nat
    BY DEF Ids
  <2>1. PICK s \in Nat : instrumented[m][i] = [site |-> s, func |-> Named(m, i)]
    BY DEF PassInv
  <2>2. Named(m, i) \in Nat
    BY DEF PassInv, Named
  <2> QED BY <2>1, <2>2
<1>5. \A s \in DOMAIN map : s \in Nat /\ map[s] \in Nat
  BY <1>4
<1>6. ASSUME NEW row \in TrainingRows(map)
      PROVE  \A c \in Column : row[c] \in Nat /\ (c \notin {0, 1} => row[c] = 0)
  <2>1. PICK s \in DOMAIN map : row = Features(s, map[s])
    BY DEF TrainingRows
  <2> QED BY <1>5, <2>1 DEF Features, Column
<1>7. ASSUME NEW t \in TestsOver(TrainingRows(map))
      PROVE  t \in [column : 0 .. 7, threshold : Nat] /\ t.column \in {0, 1}
  <2>1. PICK c \in Column, q \in TrainingRows(map), r \in TrainingRows(map) :
           q[c] < r[c] /\ t = [column |-> c, threshold |-> q[c]]
    BY DEF TestsOver
  <2>2. q[c] \in Nat /\ r[c] \in Nat /\ (c \notin {0, 1} => q[c] = 0 /\ r[c] = 0)
    BY <1>6
  <2>3. c \in {0, 1}
    BY <2>1, <2>2
  <2> QED BY <2>1, <2>2, <2>3 DEF Column
<1>8. dtree' \in [N -> [column : 0 .. 7, threshold : Nat]]
  BY <1>3, <1>7
<1>9. dtree' # NoTree
  BY <1>8, EmbedAssumption
<1> QED BY <1>3, <1>7, <1>9

\* The walk of a tree depends on the tree only.
LEMMA TreeKept ==
    ASSUME dtree' = dtree
    PROVE  \A i, id, n : RecursiveIfElseTree(i, id, n)' = RecursiveIfElseTree(i, id, n)
BY DEF RecursiveIfElseTree, IsPindexValid

LEMMA PassInit == InitPasses => PassInv
<1> SUFFICES ASSUME InitPasses PROVE PassInv
  OBVIOUS
<1>1. DOMAIN <<>> = {}
  OBVIOUS
<1> QED BY <1>1 DEF InitPasses, PassInv

LEMMA PassStep == PassInv /\ [NextPasses]_passVars => PassInv'
<1> SUFFICES ASSUME PassInv, [NextPasses]_passVars PROVE PassInv'
  OBVIOUS
<1>1. ASSUME NEW m \in Module, Instrument(m) PROVE PassInv'
  <2>1. /\ dtree = NoTree /\ funcName_id_map' = Numbering(m, funcName_id_map)
        /\ UNCHANGED <<dtree, embedded>>
    BY <1>1 DEF Instrument, Names2Ids
  <2> DEFINE Reported(a) ==
        [i \in DOMAIN CalledBy[m] |->
            [site |-> CallSiteIdMap(m, a, i), func |-> funcName_id_map'[CalledBy[m][i]]]]
  <2>1a. PICK a \in Addresses(m) : instrumented' = [instrumented EXCEPT ![m] = Reported(a)]
    BY <1>1 DEF Instrument
  <2>1b. \A i \in DOMAIN CalledBy[m] : CallSiteIdMap(m, a, i) \in Nat
    BY <2>1a, SiteNumbered
  <2>1c. \A i \in DOMAIN CalledBy[m] : From[m][i] # 0 => CallSiteIdMap(m, a, i) = From[m][i]
    BY <2>1a, SiteNumbered
  <2>2. /\ DOMAIN funcName_id_map' = DOMAIN funcName_id_map \union CalledIn(m)
        /\ \A f \in DOMAIN funcName_id_map : funcName_id_map'[f] = funcName_id_map[f]
        /\ \A f \in DOMAIN funcName_id_map' : funcName_id_map'[f] \in Nat
    <3>1. \A f \in DOMAIN funcName_id_map : funcName_id_map[f] \in Nat
      BY DEF PassInv
    <3>2. /\ DOMAIN Numbering(m, funcName_id_map) = DOMAIN funcName_id_map \union CalledIn(m)
          /\ \A f \in DOMAIN funcName_id_map : Numbering(m, funcName_id_map)[f] = funcName_id_map[f]
          /\ \A f \in DOMAIN Numbering(m, funcName_id_map) : Numbering(m, funcName_id_map)[f] \in Nat
      BY <3>1, NumberingKeeps
    <3> QED BY <2>1, <3>2
  <2>3. /\ DOMAIN instrumented' = Module
        /\ instrumented'[m] = Reported(a)
        /\ \A k \in Module : k # m => instrumented'[k] = instrumented[k]
    <3> HIDE DEF Reported
    <3> QED BY <2>1a DEF PassInv
  <2>4. ASSUME NEW k \in Module, NEW i \in DOMAIN instrumented'[k]
        PROVE  /\ i \in DOMAIN CalledBy[k] /\ CalledBy[k][i] \in DOMAIN funcName_id_map'
               /\ \E s \in Nat :
                     instrumented'[k][i] = [site |-> s, func |-> funcName_id_map'[CalledBy[k][i]]]
               /\ From[k][i] # 0 => instrumented'[k][i].site = From[k][i]
    <3>1. CASE k = m
      <4>1. i \in DOMAIN CalledBy[m] /\ CalledBy[m][i] \in CalledIn(m)
        BY <2>3, <2>4, <3>1 DEF CalledIn
      <4>2. instrumented'[m][i] = [site |-> CallSiteIdMap(m, a, i),
                                    func |-> funcName_id_map'[CalledBy[m][i]]]
        BY <2>3, <4>1
      <4> QED BY <2>2, <2>1b, <2>1c, <3>1, <4>1, <4>2
    <3>2. CASE k # m
      <4>1. /\ i \in DOMAIN CalledBy[k] /\ CalledBy[k][i] \in DOMAIN funcName_id_map
            /\ \E s \in Nat :
                  instrumented[k][i] = [site |-> s, func |-> funcName_id_map[CalledBy[k][i]]]
            /\ From[k][i] # 0 => instrumented[k][i].site = From[k][i]
        BY <2>3, <2>4, <3>2 DEF PassInv, Named
      <4> QED BY <2>2, <2>3, <3>2, <4>1
    <3> QED BY <3>1, <3>2
  <2>5. \A k \in Module : instrumented'[k] = <<>> \/ DOMAIN instrumented'[k] = DOMAIN CalledBy[k]
    BY <2>3 DEF PassInv
  <2>6. DOMAIN embedded' = Module /\ \A k \in Module : DOMAIN embedded'[k] = {}
    BY <2>1 DEF PassInv
  <2> QED BY <2>1, <2>2, <2>3, <2>4, <2>5, <2>6 DEF PassInv, Named
<1>2. CASE Train
  <2>1. /\ \A m \in Module : instrumented[m] # <<>>
        /\ dtree = NoTree /\ UNCHANGED <<funcName_id_map, instrumented, embedded>>
    BY <1>2 DEF Train
  <2>2. \A m \in Module : DOMAIN instrumented'[m] = DOMAIN CalledBy[m] /\ DOMAIN embedded'[m] = {}
    BY <2>1 DEF PassInv
  <2> QED BY <1>2, <2>1, <2>2, TreeLearned DEF PassInv, Named
<1>3. ASSUME NEW m \in Module, Embed(m) PROVE PassInv'
  <2>1. /\ dtree # NoTree /\ UNCHANGED <<funcName_id_map, instrumented, dtree>>
    BY <1>3 DEF Embed
  <2>1a. PICK a \in Addresses(m) :
           embedded' = [embedded EXCEPT ![m] =
             [i \in {j \in DOMAIN CalledBy[m] : CalledBy[m][j] \notin DefinedIn[m]} |->
                 RecursiveIfElseTree(MCallSiteID(m, a[i]), Named(m, i), NumArgs[CalledBy[m][i]])]]
    BY <1>3 DEF Embed, Named
  <2>1b. \A i \in DOMAIN CalledBy[m] : From[m][i] # 0 => MCallSiteID(m, a[i]) = From[m][i]
    BY <2>1a, SiteNumbered
  <2>2. \A i, id, n : RecursiveIfElseTree(i, id, n)' = RecursiveIfElseTree(i, id, n)
    BY <2>1, TreeKept
  <2>3. \A k \in Module : \A i \in DOMAIN embedded'[k] :
           /\ i \in DOMAIN CalledBy[k]
           /\ \A id : id = Named(k, i) /\ From[k][i] # 0 =>
                 embedded'[k][i] = RecursiveIfElseTree(From[k][i], id, NumArgs[CalledBy[k][i]])
    <3>1. DOMAIN embedded = Module
      BY DEF PassInv
    <3>2. \A i \in DOMAIN embedded'[m] :
             /\ i \in DOMAIN CalledBy[m]
             /\ embedded'[m][i] = RecursiveIfElseTree(MCallSiteID(m, a[i]), Named(m, i),
                                                       NumArgs[CalledBy[m][i]])
      BY <2>1a, <3>1
    <3>3. \A k \in Module : k # m => embedded'[k] = embedded[k]
      BY <2>1a, <3>1
    <3>4. \A i \in DOMAIN embedded'[m] : \A id : id = Named(m, i) /\ From[m][i] # 0 =>
             embedded'[m][i] = RecursiveIfElseTree(From[m][i], id, NumArgs[CalledBy[m][i]])
      BY <2>1b, <3>2
    <3> QED BY <3>2, <3>3, <3>4 DEF PassInv
  <2>4. \A k, i : Named(k, i)' = Named(k, i)
    BY <2>1 DEF Named
  <2>5. DOMAIN embedded' = Module
    BY <2>1a DEF PassInv
  <2>6. \A k \in Module : \A i \in DOMAIN embedded'[k] : \A id : id = Named(k, i)' /\ From[k][i] # 0 =>
           embedded'[k][i] = RecursiveIfElseTree(From[k][i], id, NumArgs[CalledBy[k][i]])'
    BY <2>2, <2>3, <2>4
  <2>7. /\ \A f \in DOMAIN funcName_id_map' : funcName_id_map'[f] \in Nat
        /\ DOMAIN instrumented' = Module
        /\ \A k \in Module : DOMAIN instrumented'[k] = DOMAIN CalledBy[k]
        /\ \A k \in Module : \A i \in DOMAIN instrumented'[k] :
              /\ i \in DOMAIN CalledBy[k] /\ CalledBy[k][i] \in DOMAIN funcName_id_map'
              /\ \E s \in Nat : instrumented'[k][i] = [site |-> s, func |-> Named(k, i)']
              /\ From[k][i] # 0 => instrumented'[k][i].site = From[k][i]
        /\ dtree' # NoTree /\ DOMAIN dtree' \subseteq 1 .. MaxInner
        /\ \A n \in DOMAIN dtree' : dtree'[n].column \in {0, 1}
    BY <2>1, <2>4 DEF PassInv
  <2> QED BY <2>3, <2>5, <2>6, <2>7 DEF PassInv
<1>4. CASE UNCHANGED passVars
  <2>1. UNCHANGED <<funcName_id_map, instrumented, dtree, embedded>>
    BY <1>4 DEF passVars
  <2>2. \A i, id, n : RecursiveIfElseTree(i, id, n)' = RecursiveIfElseTree(i, id, n)
    BY <2>1, TreeKept
  <2>3. \A k, i : Named(k, i)' = Named(k, i)
    BY <2>1 DEF Named
  <2> QED BY <2>1, <2>2, <2>3 DEF PassInv
<1> QED BY <1>1, <1>2, <1>3, <1>4 DEF NextPasses

\* For every program and every order of builds the second build finds in the
\* file the ids the first one reported.
THEOREM IdsCorrect == PassSpec => []IdsKept
<1>1. PassInv => IdsKept
  BY DEF PassInv, IdsKept, Named
<1> QED BY <1>1, PassInit, PassStep, PTL DEF PassSpec

--------------------------------------------------------------------------------
(***************************************************************************)
(* The tree folded into a call.                                            *)
(***************************************************************************)

\* The pairs <<n, h>> a value at n is computed from: h are the values below n.
Histories(V) == UNION {{<<n, h>> : h \in [0 .. n - 1 -> V]} : n \in Nat}

AncestorsOf(A, n) == IF n <= 1 THEN {} ELSE {<<n \div 2, n % 2 = 0>>} \union A[n \div 2]

LEMMA AncestorsSteps ==
    \A n \in Nat : Ancestors[n] = AncestorsOf(Ancestors, n)
<1> DEFINE V == SUBSET (Nat \X BOOLEAN)
           D == [p \in Histories(V) |-> AncestorsOf(p[2], p[1])]
<1>1. \A n \in Nat : n > 1 => n \div 2 \in 0 .. n - 1
  OBVIOUS
<1>2. ASSUME NEW n \in Nat, NEW h \in [0 .. n - 1 -> V]
      PROVE  D[<<n, h>>] = AncestorsOf(h, n) /\ D[<<n, h>>] \in V
  <2>1. <<n, h>> \in Histories(V)
    BY DEF Histories
  <2>2. D[<<n, h>>] = AncestorsOf(h, n)
    BY <2>1
  <2> HIDE DEF D
  <2>3. CASE n <= 1
    BY <2>2, <2>3 DEF AncestorsOf
  <2>4. CASE ~(n <= 1)
    <3>1. n \div 2 \in 0 .. n - 1 /\ n \div 2 \in Nat
      BY <1>1, <2>4
    <3>2. h[n \div 2] \in V
      BY <3>1
    <3>3. <<n \div 2, n % 2 = 0>> \in Nat \X BOOLEAN
      BY <3>1
    <3> QED BY <2>2, <2>4, <3>2, <3>3 DEF AncestorsOf
  <2> QED BY <2>2, <2>3, <2>4
<1> HIDE DEF D
<1>3. PICK f \in [Nat -> V] : \A n \in Nat : f[n] = D[<<n, [k \in 0 .. n - 1 |-> f[k]]>>]
  <2>1. \A n \in Nat : \A h \in [0 .. n - 1 -> V] : D[<<n, h>>] \in V
    BY <1>2
  <2> HIDE DEF V
  <2>2. Determines(D, V)
    BY <2>1 DEF Determines
  <2>3. PICK f : Solves(f, D, V)
    BY <2>2, RecursionExists
  <2> QED BY <2>3 DEF Solves, Follows
<1>4. \A n \in Nat : f[n] = AncestorsOf(f, n)
  <2> SUFFICES ASSUME NEW n \in Nat PROVE f[n] = AncestorsOf(f, n)
    OBVIOUS
  <2> DEFINE h == [k \in 0 .. n - 1 |-> f[k]]
  <2>1. h \in [0 .. n - 1 -> V]
    <3>1. \A k \in 0 .. n - 1 : k \in Nat
      OBVIOUS
    <3> HIDE DEF V
    <3> QED BY <3>1
  <2>2. f[n] = AncestorsOf(h, n)
    BY <1>2, <1>3, <2>1
  <2>3. CASE n > 1
    <3>1. n \div 2 \in 0 .. n - 1 /\ ~(n <= 1)
      BY <1>1, <2>3
    <3>2. h[n \div 2] = f[n \div 2]
      BY <3>1
    <3> HIDE DEF h, V
    <3>3. AncestorsOf(h, n) = {<<n \div 2, n % 2 = 0>>} \union h[n \div 2]
      BY <3>1 DEF AncestorsOf
    <3>4. AncestorsOf(f, n) = {<<n \div 2, n % 2 = 0>>} \union f[n \div 2]
      BY <3>1 DEF AncestorsOf
    <3> QED BY <2>2, <3>2, <3>3, <3>4
  <2>4. CASE n <= 1
    <3> HIDE DEF h, V
    <3> QED BY <2>2, <2>4 DEF AncestorsOf
  <2> QED BY <2>3, <2>4
<1>5. f = [n \in Nat |-> AncestorsOf(f, n)]
  <2> HIDE DEF V
  <2> QED BY <1>4
<1>6. Ancestors = CHOOSE A : A = [n \in Nat |-> AncestorsOf(A, n)]
  BY DEF Ancestors, AncestorsOf
<1>7. Ancestors = [n \in Nat |-> AncestorsOf(Ancestors, n)]
  BY <1>5, <1>6
<1>8. \A n \in Nat : [k \in Nat |-> AncestorsOf(Ancestors, k)][n] = AncestorsOf(Ancestors, n)
  OBVIOUS
<1> QED BY <1>7, <1>8

TreeOK ==
    DOMAIN dtree \subseteq 1 .. MaxInner /\ \A n \in DOMAIN dtree : dtree[n].column \in {0, 1}
NextNode(row, n) == IF row[dtree[n].column] <= dtree[n].threshold THEN 2 * n ELSE 2 * n + 1
WalkOf(w, row, n) == IF n \notin DOMAIN dtree THEN n ELSE w[NextNode(row, n)]
Walks(w, row) == \A n \in 1 .. 2 * MaxInner + 1 : w[n] = WalkOf(w, row, n)

\* A node below an inner one is further down, and within the bound.
LEMMA NextBelow ==
    ASSUME TreeOK, NEW row, NEW n \in DOMAIN dtree
    PROVE  /\ n \in 1 .. MaxInner /\ n \in 1 .. 2 * MaxInner + 1
           /\ NextNode(row, n) \in {2 * n, 2 * n + 1}
           /\ NextNode(row, n) \in 1 .. 2 * MaxInner + 1 /\ n < NextNode(row, n)
<1>1. n \in 1 .. MaxInner /\ MaxInner \in Nat
  BY EmbedAssumption DEF TreeOK
<1>2. NextNode(row, n) \in {2 * n, 2 * n + 1}
  BY DEF NextNode
<1> QED BY <1>1, <1>2

\* From every node the walk has a value.
LEMMA WalkExists ==
    ASSUME TreeOK, NEW row
    PROVE  \E w : w = [n \in 1 .. 2 * MaxInner + 1 |-> WalkOf(w, row, n)]
<1> DEFINE K == 2 * MaxInner + 1
           D == [p \in Histories(Int) |->
                   IF K - p[1] \notin DOMAIN dtree THEN K - p[1]
                   ELSE p[2][K - NextNode(row, K - p[1])]]
<1>1. K \in Nat
  BY EmbedAssumption
<1>2. ASSUME NEW i \in Nat, NEW h \in [0 .. i - 1 -> Int]
      PROVE  /\ D[<<i, h>>] \in Int
             /\ D[<<i, h>>] = IF K - i \notin DOMAIN dtree THEN K - i
                              ELSE h[K - NextNode(row, K - i)]
  <2>1. <<i, h>> \in Histories(Int)
    BY DEF Histories
  <2>2. D[<<i, h>>] = IF K - i \notin DOMAIN dtree THEN K - i
                      ELSE h[K - NextNode(row, K - i)]
    BY <2>1
  <2> HIDE DEF D
  <2>3. CASE K - i \in DOMAIN dtree
    <3>1. PICK x \in 1 .. K : x = NextNode(row, K - i) /\ K - i < x
      BY <2>3, NextBelow
    <3>2. K - x \in 0 .. i - 1
      BY <1>1, <3>1
    <3> QED BY <2>2, <2>3, <3>1, <3>2
  <2>4. CASE K - i \notin DOMAIN dtree
    BY <1>1, <2>2, <2>4
  <2> QED BY <2>2, <2>3, <2>4
<1> HIDE DEF D
<1>3. Determines(D, Int)
  BY <1>2 DEF Determines
<1>4. PICK f : Solves(f, D, Int)
  BY <1>3, RecursionExists
<1> DEFINE w == [n \in 1 .. K |-> f[K - n]]
<1>5. ASSUME NEW n \in 1 .. K
      PROVE  f[K - n] = WalkOf(w, row, n)
  <2>1. K - n \in Nat /\ K - (K - n) = n
    BY <1>1
  <2> DEFINE h == [j \in 0 .. (K - n) - 1 |-> f[j]]
  <2>2. h \in [0 .. (K - n) - 1 -> Int]
    <3>1. f \in [Nat -> Int]
      BY <1>4 DEF Solves
    <3>2. \A j \in 0 .. (K - n) - 1 : j \in Nat
      BY <2>1
    <3> HIDE DEF K
    <3> QED BY <3>1, <3>2
  <2>3. f[K - n] = D[<<K - n, h>>]
    BY <1>4, <2>1 DEF Solves, Follows
  <2> HIDE DEF h
  <2>4. f[K - n] = IF n \notin DOMAIN dtree THEN n ELSE h[K - NextNode(row, n)]
    <3>1. D[<<K - n, h>>] = IF K - (K - n) \notin DOMAIN dtree THEN K - (K - n)
                            ELSE h[K - NextNode(row, K - (K - n))]
      BY <1>2, <2>1, <2>2
    <3> HIDE DEF K
    <3> QED BY <2>1, <2>3, <3>1
  <2>5. CASE n \in DOMAIN dtree
    <3>1. PICK x \in 1 .. K : x = NextNode(row, n) /\ n < x
      BY <2>5, NextBelow
    <3>2. K - x \in 0 .. (K - n) - 1
      BY <1>1, <3>1
    <3>3. h[K - x] = f[K - x]
      BY <3>2 DEF h
    <3>4. w[x] = f[K - x]
      BY <3>1
    <3> HIDE DEF w, K
    <3> QED BY <2>4, <2>5, <3>1, <3>3, <3>4 DEF WalkOf
  <2>6. CASE n \notin DOMAIN dtree
    <3> HIDE DEF w, K
    <3> QED BY <2>4, <2>6 DEF WalkOf
  <2> QED BY <2>5, <2>6
<1>6. w = [n \in 1 .. K |-> WalkOf(w, row, n)]
  <2>1. \A n \in 1 .. K : f[K - n] = WalkOf(w, row, n)
    BY <1>5
  <2>2. w = [n \in 1 .. K |-> f[K - n]]
    OBVIOUS
  <2> HIDE DEF w, K
  <2> QED BY <2>1, <2>2
<1> HIDE DEF w
<1> QED BY <1>6

\* What is compiled into a call is a walk of the tree.
LEMMA TreeWalked ==
    ASSUME TreeOK, NEW site, NEW id, NEW n
    PROVE  \E w : /\ RecursiveIfElseTree(site, id, n) = w[1]
                  /\ Walks(w, Features(site, id))
<1> DEFINE row == Features(site, id)
           K == 2 * MaxInner + 1
           Body(w, k) ==
            IF k \notin DOMAIN dtree THEN k
            ELSE LET t == dtree[k]
                     Branch(value) == w[IF value <= t.threshold THEN 2 * k ELSE 2 * k + 1]
                 IN IF ~IsPindexValid(t.column, n) THEN Branch(-1)
                    ELSE IF t.column = 1 THEN Branch(id)
                    ELSE IF t.column = 0 THEN Branch(site)
                    ELSE 0
           w == CHOOSE v : v = [k \in 1 .. K |-> Body(v, k)]
<1>1. RecursiveIfElseTree(site, id, n) = w[1]
  BY DEF RecursiveIfElseTree
<1>2. \A v, k : Body(v, k) = WalkOf(v, row, k)
  <2> SUFFICES ASSUME NEW v, NEW k PROVE Body(v, k) = WalkOf(v, row, k)
    OBVIOUS
  <2>1. row[0] = site /\ row[1] = id
    BY DEF Features, Column
  <2> HIDE DEF row, w
  <2>2. CASE k \in DOMAIN dtree
    <3>1. dtree[k].column \in {0, 1} /\ IsPindexValid(dtree[k].column, n)
      BY <2>2 DEF TreeOK, IsPindexValid
    <3> QED BY <2>1, <2>2, <3>1 DEF WalkOf, NextNode
  <2>3. CASE k \notin DOMAIN dtree
    BY <2>3 DEF WalkOf
  <2> QED BY <2>2, <2>3
<1> HIDE DEF Body, row
<1>3. \A v : [k \in 1 .. K |-> Body(v, k)] = [k \in 1 .. K |-> WalkOf(v, row, k)]
  BY <1>2
<1>4. \E v : v = [k \in 1 .. K |-> WalkOf(v, row, k)]
  BY WalkExists
<1>5. \E v : v = [k \in 1 .. K |-> Body(v, k)]
  <2> HIDE DEF K
  <2> QED BY <1>3, <1>4
<1>6. w = [k \in 1 .. K |-> Body(w, k)]
  BY <1>5
<1> HIDE DEF w
<1>7. w = [k \in 1 .. K |-> WalkOf(w, row, k)]
  BY <1>3, <1>6
<1>8. \A k \in 1 .. K : [j \in 1 .. K |-> WalkOf(w, row, j)][k] = WalkOf(w, row, k)
  OBVIOUS
<1>9. \A k \in 1 .. K : w[k] = WalkOf(w, row, k)
  <2> HIDE DEF K
  <2> QED BY <1>7, <1>8
<1> QED BY <1>1, <1>9 DEF Walks, row

Agrees(row, a) ==
    a[1] \in DOMAIN dtree /\ (row[dtree[a[1]].column] <= dtree[a[1]].threshold) = a[2]
Consistent(row, n) == \A a \in Ancestors[n] : Agrees(row, a)

\* The walk goes where the tests send it, so it stays consistent with them.
LEMMA NextConsistent ==
    ASSUME TreeOK, NEW row, NEW n \in DOMAIN dtree, Consistent(row, n)
    PROVE  Consistent(row, NextNode(row, n))
<1> DEFINE x == NextNode(row, n)
           low == row[dtree[n].column] <= dtree[n].threshold
<1>1. n \in Nat /\ n >= 1 /\ 2 * n \in Nat /\ 2 * n + 1 \in Nat /\ ~(2 * n <= 1) /\ ~(2 * n + 1 <= 1)
  BY NextBelow
<1>2. /\ Ancestors[2 * n] = {<<n, TRUE>>} \union Ancestors[n]
      /\ Ancestors[2 * n + 1] = {<<n, FALSE>>} \union Ancestors[n]
  <2>1. /\ (2 * n) \div 2 = n /\ (2 * n) % 2 = 0
        /\ (2 * n + 1) \div 2 = n /\ ~((2 * n + 1) % 2 = 0)
    BY <1>1
  <2>2. /\ Ancestors[2 * n] = AncestorsOf(Ancestors, 2 * n)
        /\ Ancestors[2 * n + 1] = AncestorsOf(Ancestors, 2 * n + 1)
    BY <1>1, AncestorsSteps
  <2>3. AncestorsOf(Ancestors, 2 * n) = {<<n, TRUE>>} \union Ancestors[n]
    BY <1>1, <2>1 DEF AncestorsOf
  <2>4. AncestorsOf(Ancestors, 2 * n + 1) = {<<n, FALSE>>} \union Ancestors[n]
    <3>1. ((2 * n + 1) % 2 = 0) = FALSE
      BY <2>1
    <3>2. AncestorsOf(Ancestors, 2 * n + 1) =
             {<<(2 * n + 1) \div 2, (2 * n + 1) % 2 = 0>>} \union Ancestors[(2 * n + 1) \div 2]
      BY <1>1 DEF AncestorsOf
    <3> QED BY <2>1, <3>1, <3>2
  <2> QED BY <2>2, <2>3, <2>4
<1>3. CASE low
  <2>1. x = 2 * n
    BY <1>3 DEF NextNode
  <2>2. \A a \in Ancestors[x] : a = <<n, TRUE>> \/ a \in Ancestors[n]
    BY <1>2, <2>1
  <2> SUFFICES ASSUME NEW a \in Ancestors[x] PROVE Agrees(row, a)
    BY DEF Consistent
  <2>3. Agrees(row, <<n, TRUE>>)
    BY <1>3 DEF Agrees
  <2> HIDE DEF x
  <2> QED BY <2>2, <2>3 DEF Consistent
<1>4. CASE ~low
  <2>1. x = 2 * n + 1
    BY <1>4 DEF NextNode
  <2>2. \A a \in Ancestors[x] : a = <<n, FALSE>> \/ a \in Ancestors[n]
    BY <1>2, <2>1
  <2> SUFFICES ASSUME NEW a \in Ancestors[x] PROVE Agrees(row, a)
    BY DEF Consistent
  <2>3. Agrees(row, <<n, FALSE>>)
    <3>1. (row[dtree[n].column] <= dtree[n].threshold) = FALSE
      BY <1>4
    <3> QED BY <3>1 DEF Agrees
  <2> HIDE DEF x
  <2> QED BY <2>2, <2>3 DEF Consistent
<1> QED BY <1>3, <1>4

\* A walk from the root ends at a leaf whose tests all hold of the row.
LEMMA WalkReaches ==
    ASSUME TreeOK, NEW row, NEW w, Walks(w, row)
    PROVE  Reaches(row, w[1])
<1> DEFINE K == 2 * MaxInner + 1
           Ends(n) == Consistent(row, n) => Reaches(row, w[n])
<1>1. K \in Nat /\ 1 \in 1 .. K
  BY EmbedAssumption
<1>2. ASSUME NEW n \in 1 .. K, n \notin DOMAIN dtree PROVE Ends(n)
  <2>1. w[n] = n
    BY <1>2 DEF Walks, WalkOf
  <2> QED BY <1>2, <2>1 DEF Consistent, Agrees, Reaches
<1>3. ASSUME NEW n \in DOMAIN dtree, Ends(NextNode(row, n)) PROVE Ends(n)
  <2>1. n \in 1 .. K
    BY NextBelow
  <2>2. w[n] = w[NextNode(row, n)]
    BY <1>3, <2>1 DEF Walks, WalkOf
  <2>3. Consistent(row, n) => Consistent(row, NextNode(row, n))
    BY NextConsistent
  <2> QED BY <1>3, <2>2, <2>3
<1> HIDE DEF Ends
<1>4. \A n \in 1 .. K : Ends(n)
  <2> SUFFICES ASSUME NEW T, T = {i \in 0 .. K - 1 : ~Ends(K - i)}, T # {} PROVE FALSE
    <3>1. {i \in 0 .. K - 1 : ~Ends(K - i)} = {}
      OBVIOUS
    <3> SUFFICES ASSUME NEW n \in 1 .. K PROVE Ends(n)
      OBVIOUS
    <3>2. K - n \in 0 .. K - 1 /\ K - (K - n) = n
      BY <1>1
    <3>3. Ends(K - (K - n))
      BY <3>1, <3>2
    <3> HIDE DEF K
    <3> QED BY <3>2, <3>3
  <2>1. T \in SUBSET Nat
    BY <1>1
  <2>2. PICK i \in T : \A j \in T : i <= j
    BY <2>1, LeastExists
  <2>3. K - i \in 1 .. K /\ ~Ends(K - i) /\ i \in Nat
    BY <1>1, <2>1
  <2>4. K - i \in DOMAIN dtree
    BY <1>2, <2>3
  <2>5. PICK x \in 1 .. K : x = NextNode(row, K - i) /\ K - i < x
    BY <2>4, NextBelow
  <2>6. K - x \in 0 .. K - 1 /\ ~(i <= K - x) /\ K - (K - x) = x
    BY <1>1, <2>3, <2>5
  <2>7. Ends(K - (K - x))
    BY <2>2, <2>6
  <2>8. Ends(NextNode(row, K - i))
    <3> HIDE DEF K
    <3> QED BY <2>5, <2>6, <2>7
  <2> QED BY <1>3, <2>3, <2>4, <2>8
<1>5. Consistent(row, 1)
  <2>1. 1 \in Nat /\ 1 <= 1
    OBVIOUS
  <2>2. Ancestors[1] = AncestorsOf(Ancestors, 1)
    BY <2>1, AncestorsSteps
  <2>3. Ancestors[1] = {}
    BY <2>1, <2>2 DEF AncestorsOf
  <2> QED BY <2>3 DEF Consistent
<1> QED BY <1>1, <1>4, <1>5 DEF Ends

\* For every program, every tree learned and whatever the optimizer does: the
\* prediction compiled into a call both passes found in doInitialization is the
\* leaf the tree has for the ids the call reported in training.
THEOREM EmbeddedCorrect == PassSpec => []EmbeddedAsLearned
<1>1. ASSUME PassInv, NEW m \in Module, NEW i \in DOMAIN embedded[m], From[m][i] # 0, NEW x,
             x = instrumented[m][i]
      PROVE  Reaches(Features(x.site, x.func), embedded[m][i])
  <2> DEFINE k == From[m][i]
  <2>1. /\ dtree # NoTree /\ i \in DOMAIN CalledBy[m]
        /\ embedded[m][i] = RecursiveIfElseTree(k, Named(m, i), NumArgs[CalledBy[m][i]])
    BY <1>1 DEF PassInv
  <2>2. TreeOK /\ DOMAIN instrumented[m] = DOMAIN CalledBy[m]
    BY <1>1, <2>1 DEF PassInv, TreeOK
  <2>3. x.site = k /\ x.func = Named(m, i)
    <3>1. PICK s \in Nat : instrumented[m][i] = [site |-> s, func |-> Named(m, i)]
      BY <1>1, <2>1, <2>2 DEF PassInv
    <3>2. instrumented[m][i].site = k
      BY <1>1, <2>1, <2>2 DEF PassInv
    <3> QED BY <1>1, <3>1, <3>2
  <2>4. PICK w : /\ RecursiveIfElseTree(k, Named(m, i), NumArgs[CalledBy[m][i]]) = w[1]
                 /\ Walks(w, Features(k, Named(m, i)))
    BY <2>2, TreeWalked
  <2>5. Reaches(Features(k, Named(m, i)), w[1])
    BY <2>2, <2>4, WalkReaches
  <2> HIDE DEF k
  <2> QED BY <2>1, <2>3, <2>4, <2>5
<1>2. PassInv => EmbeddedAsLearned
  BY <1>1 DEF EmbeddedAsLearned
<1> QED BY <1>2, PassInit, PassStep, PTL DEF PassSpec
================================================================================
