----------------------------- MODULE TraceContext ------------------------------
(***************************************************************************)
(* pathPredictionProject/src/parsePinTrace.cpp: the parser that turns the  *)
(* lines of a Pin trace into training rows, one per call site visited, and *)
(* numbers the sets of functions called. One action per kind of line. The  *)
(* file string2id_map.csv carries the numbering over to the next run.      *)
(* A flattened set (";f;g;") is the set itself; parameters are left out.   *)
(***************************************************************************)
EXTENDS Integers, Sequences, FiniteSets

CONSTANTS
    Site,          \* call site ids
    Func,          \* names of called functions
    FuncID,        \* calledFuncID of a call site line
    Rdf,           \* ids of RDF lines
    NoSite,
    RandRange,     \* rand() % 1000 in getId4String
    MaxEvents      \* one bound per run of the parser: the lines of its trace

ASSUME TraceAssumption ==
    /\ NoSite \notin [site : Site, func : FuncID]
    /\ Func \intersect Rdf = {}
    /\ RandRange \in Nat \ {0}
    /\ MaxEvents \in Seq(Nat)

MaxRuns == Len(MaxEvents)

VARIABLES
    mainAppCalled,
    recent,                   \* mostRecent_callsite_*, NoSite if not valid
    callSite_seq, rdf_seq,
    calledFuncs_seq,
    callsite2fID_map,
    callsite2rdfSet_map,
    calledFuncs_str2id_map,
    currentCalledFunc_set,
    call_stack,
    insideCall,
    string2id_map             \* the file: the maps print writes, in its order

\* History of the runs.
VARIABLES
    run,                      \* the runs finished
    train,                    \* the rows of their training_calltrace.csv
    log                       \* the lines of this run since "Called main"

context == <<mainAppCalled, recent, callSite_seq, rdf_seq, calledFuncs_seq,
             callsite2fID_map, callsite2rdfSet_map, calledFuncs_str2id_map,
             currentCalledFunc_set, call_stack, insideCall>>
vars == <<context, string2id_map, run, train, log>>

\* map[key] = value of a std::map.
Put(map, key, value) ==
    [k \in DOMAIN map \union {key} |-> IF k = key THEN value ELSE map[k]]

Empty == [x \in {} |-> 0]

\* Faulty variant: the file is not read.
LoadedNothing(file) == Empty

\* The constructor of callsite_trace_context; entries read later win.
Loaded(file) ==
    [l \in DOMAIN file.sets \union DOMAIN file.strs |->
        IF l \in DOMAIN file.strs THEN file.strs[l] ELSE file.sets[l]]

NewContext(file) ==
    /\ mainAppCalled' = FALSE /\ recent' = NoSite
    /\ callSite_seq' = <<>> /\ rdf_seq' = <<>> /\ calledFuncs_seq' = <<>>
    /\ callsite2fID_map' = Empty
    /\ callsite2rdfSet_map' = [s \in Site |-> {}]
    /\ calledFuncs_str2id_map' = Loaded(file)
    /\ currentCalledFunc_set' = {} /\ call_stack' = <<>> /\ insideCall' = FALSE

Init ==
    /\ mainAppCalled = FALSE /\ recent = NoSite
    /\ callSite_seq = <<>> /\ rdf_seq = <<>> /\ calledFuncs_seq = <<>>
    /\ callsite2fID_map = Empty
    /\ callsite2rdfSet_map = [s \in Site |-> {}]
    /\ calledFuncs_str2id_map = Empty
    /\ currentCalledFunc_set = {} /\ call_stack = <<>> /\ insideCall = FALSE
    /\ string2id_map = [sets |-> Empty, strs |-> Empty]
    /\ run = 0 /\ train = <<>> /\ log = <<>>

\* Before the first "Called main" every line is skipped.
CalledMain ==
    /\ ~mainAppCalled /\ run < MaxRuns
    /\ mainAppCalled' = TRUE
    /\ UNCHANGED <<recent, callSite_seq, rdf_seq, calledFuncs_seq, callsite2fID_map,
                   callsite2rdfSet_map, calledFuncs_str2id_map, currentCalledFunc_set,
                   call_stack, insideCall, string2id_map, run, train, log>>

Line(event) ==
    /\ mainAppCalled /\ Len(log) < MaxEvents[run + 1]
    /\ log' = Append(log, event)
    /\ UNCHANGED <<mainAppCalled, string2id_map, run, train>>

\* Faulty variant: every visit numbers its set anew.
NumberedAlways(set) ==
    IF insideCall
    THEN Put(calledFuncs_str2id_map, set, Cardinality(DOMAIN calledFuncs_str2id_map))
    ELSE calledFuncs_str2id_map

\* finalizeCalledFuncs: the row in progress, if any, gets its label.
Numbered(set) ==
    IF insideCall /\ set \notin DOMAIN calledFuncs_str2id_map
    THEN Put(calledFuncs_str2id_map, set, Cardinality(DOMAIN calledFuncs_str2id_map))
    ELSE calledFuncs_str2id_map

Labelled(set) ==
    IF insideCall THEN Append(calledFuncs_seq, set) ELSE calledFuncs_seq

Popped == IF insideCall THEN SubSeq(call_stack, 1, Len(call_stack) - 1) ELSE call_stack

FinalizeCalledFuncs(set) ==
    /\ calledFuncs_seq' = Labelled(set)
    /\ calledFuncs_str2id_map' = Numbered(set)
    /\ call_stack' = Popped
    /\ insideCall' = FALSE

\* Faulty variant: recorded whether or not a call site is in progress.
RecordRDFAlways(r, s, inside) ==
    callsite2rdfSet_map' = [callsite2rdfSet_map EXCEPT ![s] = @ \union {r}]

RecordRDF(r, s, inside) ==
    IF inside
    THEN callsite2rdfSet_map' = [callsite2rdfSet_map EXCEPT ![s] = @ \union {r}]
    ELSE UNCHANGED callsite2rdfSet_map

\* Faulty variant: the interrupted row keeps what it had called so far.
RdfLineKeeps(r, s) ==
    /\ Line([kind |-> "rdf", rdf |-> r, site |-> s])
    /\ recent' = NoSite
    /\ FinalizeCalledFuncs(currentCalledFunc_set)
    /\ currentCalledFunc_set' = IF insideCall THEN {} ELSE currentCalledFunc_set
    /\ RecordRDF(r, s, insideCall')
    /\ UNCHANGED <<callSite_seq, rdf_seq, callsite2fID_map>>

\* clearCurrentCalledFuncs comes first: a row in progress ends with no function.
RdfLine(r, s) ==
    /\ Line([kind |-> "rdf", rdf |-> r, site |-> s])
    /\ recent' = NoSite
    /\ FinalizeCalledFuncs({})
    /\ currentCalledFunc_set' = IF insideCall THEN {} ELSE currentCalledFunc_set
    /\ RecordRDF(r, s, insideCall')
    /\ UNCHANGED <<callSite_seq, rdf_seq, callsite2fID_map>>

CallsiteLine(s, id) ==
    /\ Line([kind |-> "site", site |-> s, func |-> id])
    /\ recent' = [site |-> s, func |-> id]
    /\ UNCHANGED <<callSite_seq, rdf_seq, calledFuncs_seq, callsite2fID_map,
                   callsite2rdfSet_map, calledFuncs_str2id_map, currentCalledFunc_set,
                   call_stack, insideCall>>

\* A return from another call site than the current one is only reported.
ReturnLine ==
    /\ Line([kind |-> "return"])
    /\ recent' = NoSite
    /\ FinalizeCalledFuncs(currentCalledFunc_set)
    /\ UNCHANGED <<callSite_seq, rdf_seq, callsite2fID_map, callsite2rdfSet_map,
                   currentCalledFunc_set>>

\* Faulty variant: a row in progress is not ended first.
RecordCallsiteNested(s, id) ==
    /\ callSite_seq' = Append(callSite_seq, s)
    /\ rdf_seq' = Append(rdf_seq, callsite2rdfSet_map[s])
    /\ callsite2rdfSet_map' = [callsite2rdfSet_map EXCEPT ![s] = {}]
    /\ callsite2fID_map' = Put(callsite2fID_map, s, id)
    /\ call_stack' = Append(call_stack, s)
    /\ insideCall' = TRUE
    /\ UNCHANGED <<calledFuncs_seq, calledFuncs_str2id_map>>

\* recordCallsite: a row in progress ends with no function, a new one begins.
RecordCallsite(s, id) ==
    /\ calledFuncs_seq' = Labelled({})
    /\ calledFuncs_str2id_map' = Numbered({})
    /\ callSite_seq' = Append(callSite_seq, s)
    /\ rdf_seq' = Append(rdf_seq, callsite2rdfSet_map[s])
    /\ callsite2rdfSet_map' = [callsite2rdfSet_map EXCEPT ![s] = {}]
    /\ callsite2fID_map' = Put(callsite2fID_map, s, id)
    /\ call_stack' = Append(Popped, s)
    /\ insideCall' = TRUE

\* The first function called after a call site line begins the site's row.
CalledLine(f) ==
    /\ Line([kind |-> "called", func |-> f])
    /\ recent' = NoSite
    /\ \/ /\ recent # NoSite
          /\ RecordCallsite(recent.site, recent.func)
          /\ currentCalledFunc_set' = {f}
       \/ /\ recent = NoSite
          /\ currentCalledFunc_set' = IF insideCall THEN currentCalledFunc_set \union {f}
                                      ELSE currentCalledFunc_set
          /\ UNCHANGED <<callSite_seq, rdf_seq, calledFuncs_seq, callsite2fID_map,
                         callsite2rdfSet_map, calledFuncs_str2id_map, call_stack,
                         insideCall>>

\* A row of training_calltrace.csv; one without a label gets id 0.
Row(i) ==
    LET labelled == i <= Len(calledFuncs_seq)
    IN  [site |-> callSite_seq[i],
         func |-> callsite2fID_map[callSite_seq[i]],
         labels |-> IF labelled THEN {calledFuncs_seq[i]} ELSE {},
         id |-> IF labelled THEN calledFuncs_str2id_map[calledFuncs_seq[i]] ELSE 0]

\* print numbers the RDF sets (getId4String), writes the rows and both maps;
\* the next run starts from the file.
EndOfTrace ==
    /\ run < MaxRuns
    /\ LET n == Cardinality(DOMAIN calledFuncs_str2id_map)
           rdfs == {rdf_seq[i] : i \in DOMAIN rdf_seq}
       IN \E ids \in [rdfs -> n .. n + RandRange - 1] :
            /\ \A a, b \in rdfs : ids[a] = ids[b] => a = b
            /\ string2id_map' = [sets |-> calledFuncs_str2id_map, strs |-> ids]
    /\ train' = train \o [i \in DOMAIN callSite_seq |-> Row(i)]
    /\ NewContext(string2id_map')
    /\ run' = run + 1 /\ log' = <<>>

Next ==
    \/ CalledMain
    \/ \E r \in Rdf, s \in Site : RdfLine(r, s)
    \/ \E s \in Site, id \in FuncID : CallsiteLine(s, id)
    \/ ReturnLine
    \/ \E f \in Func : CalledLine(f)
    \/ EndOfTrace

Spec == Init /\ [][Next]_vars
--------------------------------------------------------------------------------
Labels == SUBSET Func

\* The type of every variable: the numbering is of sets of functions only.
TypeOK ==
    /\ mainAppCalled \in BOOLEAN /\ insideCall \in BOOLEAN
    /\ recent \in [site : Site, func : FuncID] \union {NoSite}
    /\ callSite_seq \in Seq(Site) /\ call_stack \in Seq(Site)
    /\ rdf_seq \in Seq(SUBSET Rdf)
    /\ calledFuncs_seq \in Seq(Labels)
    /\ DOMAIN callsite2fID_map \subseteq Site
    /\ \A s \in DOMAIN callsite2fID_map : callsite2fID_map[s] \in FuncID
    /\ callsite2rdfSet_map \in [Site -> SUBSET Rdf]
    /\ DOMAIN calledFuncs_str2id_map \subseteq Labels
    /\ \A l \in DOMAIN calledFuncs_str2id_map : calledFuncs_str2id_map[l] \in Nat
    /\ currentCalledFunc_set \in Labels
    /\ run \in 0 .. MaxRuns

\* Labels stay aligned with rows: every row but the one in progress has one,
\* it is numbered, and the stack holds the site in progress and nothing else.
RowsAligned ==
    LET open == IF insideCall THEN 1 ELSE 0
        n == Len(callSite_seq)
    IN  /\ Len(rdf_seq) = n
        /\ Len(calledFuncs_seq) = n - open
        /\ call_stack = SubSeq(callSite_seq, n - open + 1, n)
        /\ \A i \in DOMAIN callSite_seq : callSite_seq[i] \in DOMAIN callsite2fID_map
        /\ \A i \in DOMAIN calledFuncs_seq :
              calledFuncs_seq[i] \in DOMAIN calledFuncs_str2id_map

\* The rows as a function of the log alone. A row begins at a called line right
\* behind a call site line; it ends at the next return, RDF line or row.
Begins == {i \in DOMAIN log : i > 1 /\ log[i].kind = "called" /\ log[i-1].kind = "site"}
Ends(i) == {j \in DOMAIN log : j > i /\ (j \in Begins \/ log[j].kind \in {"return", "rdf"})}
CalledIn(i, j) == {log[k].func : k \in {k \in i .. j : log[k].kind = "called"}}
FirstOf(S) == CHOOSE x \in S : \A y \in S : x <= y
LabelOf(i) == LET j == FirstOf(Ends(i))
              IN  IF log[j].kind = "return" THEN CalledIn(i, j) ELSE {}
Rank(i) == Cardinality({j \in Begins : j <= i})

\* The parser computes these rows line by line: the n-th begun row has its call
\* site and, once ended, the functions called until it returned; a row cut off
\* by an RDF line or by the next row has none.
RowsMatchLog ==
    /\ Len(callSite_seq) = Cardinality(Begins)
    /\ \A i \in Begins :
          /\ callSite_seq[Rank(i)] = log[i-1].site
          /\ Ends(i) # {} => calledFuncs_seq[Rank(i)] = LabelOf(i)
          /\ Ends(i) = {} => insideCall /\ currentCalledFunc_set = CalledIn(i, Len(log))

\* In the first run the ids of the sets are 0, 1, 2... without gap or repetition.
FirstRunIdsDense ==
    run = 0 =>
        /\ \A a, b \in DOMAIN calledFuncs_str2id_map :
              calledFuncs_str2id_map[a] = calledFuncs_str2id_map[b] => a = b
        /\ \A a \in DOMAIN calledFuncs_str2id_map :
              calledFuncs_str2id_map[a] < Cardinality(DOMAIN calledFuncs_str2id_map)

\* A set that has functions keeps its id in all later runs: rows of different
\* runs may be put into one training file.
LabelsKeepIds ==
    [][\A l \in DOMAIN calledFuncs_str2id_map \ {{}} :
          /\ l \in DOMAIN calledFuncs_str2id_map'
          /\ calledFuncs_str2id_map'[l] = calledFuncs_str2id_map[l]]_vars

\* "will make sure uniq ids" (getId4String): no two sets of the numbering, nor
\* of the file, share an id.
IdsUnique ==
    \A a, b \in DOMAIN calledFuncs_str2id_map :
        calledFuncs_str2id_map[a] = calledFuncs_str2id_map[b] => a = b

\* The RDF lines of a site that stand inside a call in progress, since the site's
\* last row: those recordRDF is meant to keep for row i.
InsideCall(k) == \E b \in Begins : b < k /\ \A j \in Ends(b) : j >= k
RdfsFor(i) ==
    {log[k].rdf : k \in {k \in 1 .. i - 1 :
        /\ log[k].kind = "rdf" /\ log[k].site = log[i-1].site /\ InsideCall(k)
        /\ \A b \in Begins : b \in k .. i - 1 => log[b-1].site # log[i-1].site}}

\* "forget rdf set, once call site is visited" (clearRDF4callsite): what is
\* forgotten then has just become the rdf_set of the site's row.
RdfReachesRow == \A i \in Begins : rdf_seq[Rank(i)] = RdfsFor(i)

\* What the code does instead: an RDF line ends the call in progress before it
\* asks whether there is one, so wherever such a line stands it is dropped, and
\* rdf_set is a constant column of the training data.
RdfNeverRecorded == \A i \in 1 .. Len(rdf_seq) : rdf_seq[i] = {}
================================================================================
