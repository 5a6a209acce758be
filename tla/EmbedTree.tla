------------------------------- MODULE EmbedTree -------------------------------
(***************************************************************************)
(* The two LLVM passes around the training: pathPredInstrument numbers the *)
(* call sites and routines of each module and has them reported at run     *)
(* time; embedDtree numbers them again in a later build and folds the tree *)
(* learned from the reports into each call of a library routine. C         *)
(* programs, one process of the pass for each source file, in one build    *)
(* directory. Only direct calls are numbered. Between doInitialization and *)
(* runOnFunction the optimizer may delete calls and make others: the pass  *)
(* that instruments is registered behind it.                               *)
(***************************************************************************)
EXTENDS Integers, Sequences, FiniteSets

CONSTANTS
    Module,          \* source files
    AtInit,          \* module -> the routines it calls, as doInitialization finds them
    CalledBy,        \* module -> the routines it calls, as runOnFunction finds them
    From,            \* module -> call of CalledBy -> that call in AtInit, 0: made since
    DefinedIn,       \* module -> the routines it defines
    NumArgs,         \* routine -> number of arguments it is called with
    MaxInner,        \* bound: inner nodes of a tree, numbered as in a heap
    NoTree

Callee == UNION {{s[m][i] : i \in DOMAIN s[m]} : s \in {AtInit, CalledBy}, m \in Module}

ASSUME EmbedAssumption ==
    /\ AtInit \in [Module -> Seq(Callee)] /\ CalledBy \in [Module -> Seq(Callee)]
    /\ DefinedIn \in [Module -> SUBSET Callee] /\ DOMAIN From = Module
    /\ \A m \in Module : From[m] \in [DOMAIN CalledBy[m] -> DOMAIN AtInit[m] \union {0}]
    /\ NumArgs \in [Callee -> Nat] /\ MaxInner \in Nat
    /\ \A N \in SUBSET (1 .. MaxInner) : NoTree \notin [N -> [column : 0 .. 7, threshold : Nat]]

VARIABLES
    funcName_id_map,     \* the file funcName_id_map.csv
    instrumented,        \* module -> call -> ids it reports; <<>>: not built
    callsite2fID_map,    \* the trace parser's, after the training runs
    dtree,               \* inner node -> column and threshold, or NoTree
    embedded             \* module -> call -> leaf predicted; <<>>: not built

passVars == <<funcName_id_map, instrumented, callsite2fID_map, dtree, embedded>>

InitPasses ==
    /\ funcName_id_map = <<>>
    /\ instrumented = [m \in Module |-> <<>>]
    /\ callsite2fID_map = <<>> /\ dtree = NoTree
    /\ embedded = [m \in Module |-> <<>>]

\* Routines without an id get the next numbers in the order of their calls.
\* The counter starts at zero in every process, whatever the file holds.
FirstCall(m, f) ==
    CHOOSE i \in DOMAIN CalledBy[m] :
        CalledBy[m][i] = f /\ \A j \in 1 .. i - 1 : CalledBy[m][j] # f
Numbering(m, known) ==
    LET new == {CalledBy[m][i] : i \in DOMAIN CalledBy[m]} \ DOMAIN known
    IN [f \in new \union DOMAIN known |->
           IF f \in DOMAIN known THEN known[f]
           ELSE Cardinality({g \in new : FirstCall(m, g) <= FirstCall(m, f)})]

\* Faulty variant: the file is not read before it is written.
NamesForgotten(m) == Numbering(m, <<>>)

Names2Ids(m) == Numbering(m, funcName_id_map)

\* The maps of call sites are keyed by the address of the call. A call made
\* since doInitialization has an address not seen there, or that of a deleted call.
Distinct(a) == \A i, j \in DOMAIN a : a[i] = a[j] /\ a[i] # 0 => i = j
Addresses(m) ==
    {a \in [DOMAIN CalledBy[m] -> DOMAIN AtInit[m] \union {0}] :
        Distinct(a) /\ \A i \in DOMAIN a : From[m][i] # 0 => a[i] = From[m][i]}

\* doInitialization numbers the calls from one in every module, library call or
\* not; runOnFunction goes on counting at calls it does not know.
CallSiteIdMap(m, a, i) ==
    IF a[i] # 0 THEN a[i]
    ELSE Len(AtInit[m]) + Cardinality({j \in 1 .. i : a[j] = 0})

\* doInitialization, runOnFunction and the destructor.
Instrument(m) ==
    /\ dtree = NoTree
    /\ funcName_id_map' = Names2Ids(m)
    /\ \E a \in Addresses(m) :
          instrumented' = [instrumented EXCEPT ![m] =
              [i \in DOMAIN CalledBy[m] |->
                  [site |-> CallSiteIdMap(m, a, i), func |-> funcName_id_map'[CalledBy[m][i]]]]]
    /\ UNCHANGED <<callsite2fID_map, dtree, embedded>>

Ids == UNION {{instrumented[m][i] : i \in DOMAIN instrumented[m]} : m \in Module}

\* The columns of a training row after its label: site, routine, RDF set, five
\* parameters. No parameter is ever reported (numArgs = 0) and the RDF set is
\* always the empty one, so all but two are constant.
Column == 0 .. 7
Features(site, func) == [c \in Column |-> IF c = 0 THEN site ELSE IF c = 1 THEN func ELSE 0]
TrainingRows(map) == {Features(s, map[s]) : s \in DOMAIN map}

\* The learner tests a column between two of the values it has seen there.
TestsOver(rows) ==
    {[column |-> x[1], threshold |-> x[2][x[1]]] :
        x \in {y \in Column \X rows : \E r \in rows : y[2][y[1]] < r[y[1]]}}
Heap(N) == \A n \in N : n = 1 \/ n \div 2 \in N

\* The instrumented program runs; of each site the routine reported last is
\* printed in all its rows. Then a tree is learned from the rows.
Train ==
    /\ dtree = NoTree /\ \A m \in Module : instrumented[m] # <<>>
    /\ \E executed \in SUBSET Ids \ {{}} :
          \E map \in [{x.site : x \in executed} -> {x.func : x \in executed}] :
             /\ \A s \in DOMAIN map : [site |-> s, func |-> map[s]] \in executed
             /\ callsite2fID_map' = map
             /\ \E N \in {S \in SUBSET (1 .. MaxInner) : Heap(S)} :
                   dtree' \in [N -> TestsOver(TrainingRows(map))]
    /\ UNCHANGED <<funcName_id_map, instrumented, embedded>>

\* A test on a parameter column is taken for one on an RDF flag.
MIN_RDF_P == 2
IsPindexValid(pindex, numArgs) == pindex \in {0, 1} \/ numArgs > pindex - MIN_RDF_P

\* recursiveIfElseTree at compile time. The flag of an RDF is never set up, so
\* a valid test on one leaves the call without a prediction: leaf 0.
RecursiveIfElseTree(site, func, numArgs) ==
    LET walk[n \in 1 .. 2 * MaxInner + 1] ==
            IF n \notin DOMAIN dtree THEN n
            ELSE LET t == dtree[n]
                     Branch(value) == walk[IF value <= t.threshold THEN 2 * n ELSE 2 * n + 1]
                 IN IF ~IsPindexValid(t.column, numArgs) THEN Branch(-1)
                    ELSE IF t.column = 1 THEN Branch(func)
                    ELSE IF t.column = 0 THEN Branch(site)
                    ELSE 0
    IN walk[1]

\* Faulty variant: only calls of library routines are numbered.
CallSiteIDLibrary(m, k) == Cardinality({j \in 1 .. k : AtInit[m][j] \notin DefinedIn[m]})

\* embedDtree numbers the calls it finds in doInitialization; a call it does not
\* know has the value the map makes up for it: 0.
MCallSiteID(m, k) == IF k \in DOMAIN AtInit[m] THEN k ELSE 0

\* The second build. Calls of the module's own routines are left alone.
Embed(m) ==
    /\ dtree # NoTree
    /\ \E a \in Addresses(m) :
          embedded' = [embedded EXCEPT ![m] =
              [i \in {j \in DOMAIN CalledBy[m] : CalledBy[m][j] \notin DefinedIn[m]} |->
                  LET f == CalledBy[m][i]
                  IN RecursiveIfElseTree(MCallSiteID(m, a[i]), funcName_id_map[f], NumArgs[f])]]
    /\ UNCHANGED <<funcName_id_map, instrumented, callsite2fID_map, dtree>>

NextPasses ==
    \/ \E m \in Module : Instrument(m) \/ Embed(m)
    \/ Train

PassSpec == InitPasses /\ [][NextPasses]_passVars
--------------------------------------------------------------------------------
\* What a leaf stands for: the tests on the way to it and their outcomes.
Ancestors[n \in Nat] ==
    IF n <= 1 THEN {} ELSE {<<n \div 2, n % 2 = 0>>} \union Ancestors[n \div 2]
Reaches(row, leaf) ==
    /\ leaf \notin DOMAIN dtree
    /\ \A a \in Ancestors[leaf] :
          /\ a[1] \in DOMAIN dtree
          /\ (row[dtree[a[1]].column] <= dtree[a[1]].threshold) = a[2]

\* The prediction compiled into a call that both passes find in doInitialization
\* is the leaf the tree has for a row with the ids the call reported in training,
\* whatever the optimizer does to the calls around it; so it is the one learned
\* from its rows unless a call of another module has its number. Of a call made
\* since nothing is promised: the passes number it apart.
EmbeddedAsLearned ==
    \A m \in Module : \A i \in DOMAIN embedded[m] :
        From[m][i] # 0 =>
            LET x == instrumented[m][i] IN Reaches(Features(x.site, x.func), embedded[m][i])

\* However the modules are built, and built again, the second build finds in
\* the file the ids every call was instrumented with.
IdsKept ==
    \A m \in Module : \A i \in DOMAIN instrumented[m] :
        /\ CalledBy[m][i] \in DOMAIN funcName_id_map
        /\ instrumented[m][i].func = funcName_id_map[CalledBy[m][i]]
================================================================================
