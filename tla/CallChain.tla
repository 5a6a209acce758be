------------------------------- MODULE CallChain -------------------------------
(***************************************************************************)
(* 2levelBTparse.cpp: reads a gdb log that stops in every routine and      *)
(* prints, for each call site of the application, the set of routines      *)
(* called there (its call chain) with the site's features. The first pass  *)
(* over the log only collects what is known of the call sites; it is given *)
(* as constants. Frame 1 of a stop is stored and never used.               *)
(***************************************************************************)
EXTENDS Integers, Sequences, FiniteSets, Bags

CONSTANTS
    AppFunc, LibFunc,    \* routines whose line names, or not, a source file
    Site,                \* call site ids of the log
    FuncOf,              \* site -> id of the routine it calls
    Arg, RDF, Value,     \* argument numbers; basic blocks; argument values
    Shown,               \* the arguments whose value gdb shows, at least sometimes
    DependsOn,           \* site -> argument -> the RDFs it depends on
    MaxLog               \* bound: lines of the log

NoFunc == ""
Unknown == -1
NoSite == 0              \* a global int before the first call site

ASSUME ChainAssumption ==
    /\ NoFunc \notin AppFunc \union LibFunc /\ AppFunc \intersect LibFunc = {}
    /\ NoSite \notin Site /\ Unknown \notin RDF \union Value
    /\ DependsOn \in [Site -> [Arg -> SUBSET RDF]] /\ Arg \subseteq Nat
    /\ DOMAIN FuncOf = Site /\ Shown \subseteq Arg /\ MaxLog \in Nat

VARIABLES
    state_in_libc,             \* or out; entering and exiting pass at once
    top_func,                  \* the top of the last stop, not recorded yet
    currentCallChain_set, enteringFunc,
    enteringFunc_callsite_ID, enteringFunc_static_ID,
    prefix,                    \* callsite_to_pathprefix_map
    rows,                      \* the lines printed, without the %
    entryFunc_to_count_map,    \* a bag of entries: routine and prefix
    gdblog                     \* the lines read, history

sites == <<enteringFunc_callsite_ID, enteringFunc_static_ID>>
chainVars == <<state_in_libc, top_func, currentCallChain_set, enteringFunc, sites, prefix,
               rows, entryFunc_to_count_map, gdblog>>

NoPrefix == [rdf |-> [a \in Arg |-> Unknown], arg |-> [a \in Arg |-> Unknown]]

InitChain ==
    /\ state_in_libc = FALSE /\ top_func = NoFunc
    /\ currentCallChain_set = {} /\ enteringFunc = <<NoFunc, NoPrefix>>
    /\ enteringFunc_callsite_ID = NoSite /\ enteringFunc_static_ID = 0
    /\ prefix = [s \in Site \union {NoSite} |-> NoPrefix]
    /\ rows = <<>> /\ entryFunc_to_count_map = EmptyBag
    /\ gdblog = <<>>

ReadLog(line) == Len(gdblog) < MaxLog /\ gdblog' = Append(gdblog, line)

\* Faulty variant: an entry counted before is not counted again.
CountedOnce(entry) == SetToBag(BagToSet(entryFunc_to_count_map) \union {entry})

Counted(entry) == entryFunc_to_count_map (+) SetToBag({entry})

\* record_stack, with the routine of the stop before.
RecordStack(f) ==
    \/ /\ ~state_in_libc /\ f \in LibFunc
       /\ state_in_libc' = TRUE
       /\ currentCallChain_set' = {f}
       /\ enteringFunc' = <<f, prefix[enteringFunc_callsite_ID]>>
       /\ entryFunc_to_count_map' = Counted(enteringFunc')
    \/ /\ ~state_in_libc /\ f \notin LibFunc
       /\ UNCHANGED <<state_in_libc, currentCallChain_set, enteringFunc, entryFunc_to_count_map>>
    \/ /\ state_in_libc
       /\ currentCallChain_set' = currentCallChain_set \union {f}
       /\ UNCHANGED <<state_in_libc, enteringFunc, entryFunc_to_count_map>>

\* Faulty variant: the routine of this stop is recorded at once.
FrameEager(f) ==
    /\ ReadLog([kind |-> "frame", name |-> f])
    /\ RecordStack(f)
    /\ top_func' = f
    /\ UNCHANGED <<sites, prefix, rows>>

\* Frame 0 of a stop outside the instrumentation.
Frame(f) ==
    /\ ReadLog([kind |-> "frame", name |-> f])
    /\ IF top_func = NoFunc
       THEN UNCHANGED <<state_in_libc, currentCallChain_set, enteringFunc, entryFunc_to_count_map>>
       ELSE RecordStack(top_func)
    /\ top_func' = f
    /\ UNCHANGED <<sites, prefix, rows>>

\* Faulty variant: the arguments of the call printed stay in the prefix.
ClearedNothing == prefix

\* out_of_last_callchain: prints the chain, if one was entered, for the call
\* site read last. The prefix forgets its argument values.
Cleared ==
    IF state_in_libc THEN [prefix EXCEPT ![enteringFunc_callsite_ID].arg = NoPrefix.arg]
    ELSE prefix
OutOfLastCallchain ==
    IF state_in_libc
    THEN /\ rows' = Append(rows, [chain |-> currentCallChain_set,
                                  func |-> enteringFunc_static_ID,
                                  site |-> enteringFunc_callsite_ID,
                                  features |-> prefix[enteringFunc_callsite_ID]])
         /\ state_in_libc' = FALSE
    ELSE UNCHANGED <<rows, state_in_libc>>

\* The instrumentation of a call site; gdb may show only some of its values.
CallStatement(s, values) ==
    /\ ReadLog([kind |-> "site", site |-> s, values |-> values])
    /\ OutOfLastCallchain
    /\ enteringFunc_callsite_ID' = s /\ enteringFunc_static_ID' = FuncOf[s]
    /\ prefix' = [Cleared EXCEPT ![s].arg =
                     [a \in Arg |-> IF a \in DOMAIN values THEN values[a] ELSE Cleared[s].arg[a]]]
    /\ UNCHANGED <<top_func, currentCallChain_set, enteringFunc, entryFunc_to_count_map>>

\* callsite_dependson_rdf: the first argument that depends on the RDF.
DependentArgs(s, r) == {a \in Arg : r \in DependsOn[s][a]}
FirstArg(A) == CHOOSE a \in A : \A b \in A : a <= b

\* Faulty variant: the RDF goes to every argument that depends on it.
RdfSeenAll(r) ==
    [s \in DOMAIN Cleared |->
        IF s \in Site
        THEN [Cleared[s] EXCEPT !.rdf =
                 [a \in Arg |-> IF a \in DependentArgs(s, r) THEN r ELSE Cleared[s].rdf[a]]]
        ELSE Cleared[s]]

\* check_rdf_for_every_callsite
RdfSeen(r) ==
    [s \in DOMAIN Cleared |->
        IF s \in Site /\ DependentArgs(s, r) # {}
        THEN [Cleared[s] EXCEPT !.rdf[FirstArg(DependentArgs(s, r))] = r]
        ELSE Cleared[s]]

ControlDep(r) ==
    /\ ReadLog([kind |-> "rdf", rdf |-> r])
    /\ OutOfLastCallchain
    /\ prefix' = RdfSeen(r)
    /\ UNCHANGED <<top_func, currentCallChain_set, enteringFunc, sites, entryFunc_to_count_map>>

NextChain ==
    \/ \E f \in AppFunc \union LibFunc : Frame(f)
    \/ \E s \in Site, A \in SUBSET Shown : \E values \in [A -> Value] : CallStatement(s, values)
    \/ \E r \in RDF : ControlDep(r)

ChainSpec == InitChain /\ [][NextChain]_chainVars
--------------------------------------------------------------------------------
(***************************************************************************)
(* What the rows are, defined over the whole log.                          *)
(***************************************************************************)
Lines(kind) == {i \in 1 .. Len(gdblog) : gdblog[i].kind = kind}
Stops == Lines("frame")
Instrumented == Lines("site") \union Lines("rdf")
LastOf(S) == CHOOSE i \in S : \A j \in S : j <= i

\* A routine is recorded at the stop after its own, which may lie behind
\* further call sites: RecordedAt(i) are the routines recorded up to line j
\* since the instrumentation before it.
Before(S, j) == {i \in S : i < j}
Recorded(j) ==
    LET since == IF Before(Instrumented, j) = {} THEN 0 ELSE LastOf(Before(Instrumented, j))
    IN {i \in Stops : \E k \in Stops : /\ since < k /\ k < j /\ i < k
                                       /\ Before(Stops, k) \intersect (i + 1 .. k) = {}}
Entered(j) == {i \in Recorded(j) : \E e \in Recorded(j) : e <= i /\ gdblog[e].name \in LibFunc}
RowLines == {j \in Instrumented : Entered(j) # {}}

\* Row n is printed at the n-th line at which a chain is entered. It holds the
\* routines recorded since the instrumentation before, from the first library
\* routine on: the last routine of each call is recorded, and printed, with the
\* call after it, and routines of the application inside a chain count.
RowAt(n) == CHOOSE j \in RowLines : Cardinality({i \in RowLines : i <= j}) = n
ChainsMatchLog ==
    /\ Len(rows) = Cardinality(RowLines)
    /\ \A n \in 1 .. Len(rows) :
          rows[n].chain = {gdblog[i].name : i \in Entered(RowAt(n))}

\* The features of a row are those of the call site read last, whatever chain
\* it prints: the RDF seen last for an argument, and no value of another call.
SiteOf(j) == Before(Lines("site"), j)
FeaturesMatchLog ==
    \A n \in 1 .. Len(rows) :
        LET j == RowAt(n)
            s == gdblog[LastOf(SiteOf(j))].site
            Hits(a) == {i \in Before(Lines("rdf"), j) :
                           LET A == DependentArgs(s, gdblog[i].rdf)
                           IN A # {} /\ a = FirstArg(A)}
        IN IF SiteOf(j) = {}
           THEN rows[n].site = NoSite /\ rows[n].features = NoPrefix
           ELSE /\ rows[n].site = s /\ rows[n].func = FuncOf[s]
                /\ \A a \in Arg : rows[n].features.rdf[a] =
                      IF Hits(a) = {} THEN Unknown ELSE gdblog[LastOf(Hits(a))].rdf

\* A value in a row was passed at a call of the row's site that no row has
\* spoken of before.
ValuesUsedOnce ==
    \A n \in 1 .. Len(rows) : \A a \in Arg :
        rows[n].features.arg[a] # Unknown =>
            \E i \in Before(Lines("site"), RowAt(n)) :
               /\ gdblog[i].site = rows[n].site
               /\ a \in DOMAIN gdblog[i].values
               /\ gdblog[i].values[a] = rows[n].features.arg[a]
               /\ \A m \in 1 .. n - 1 : rows[m].site = rows[n].site => RowAt(m) <= i

\* An entry is counted, by its routine and the features of the call site, once
\* for each row whose chain begins with that routine and that is printed with
\* those features, and once more while its chain is open.
FirstOf(S) == CHOOSE i \in S : \A j \in S : i <= j
EntryOf(n) == <<gdblog[FirstOf(Entered(RowAt(n)))].name, rows[n].features>>
TimesCalled(e) == IF BagIn(e, entryFunc_to_count_map) THEN entryFunc_to_count_map[e] ELSE 0
RowsOf(e) == {n \in 1 .. Len(rows) : EntryOf(n) = e}
EntriesMatchRows ==
    \A e \in BagToSet(entryFunc_to_count_map) \union {EntryOf(n) : n \in 1 .. Len(rows)} :
        TimesCalled(e) =
            Cardinality(RowsOf(e)) + (IF state_in_libc /\ e = enteringFunc THEN 1 ELSE 0)
================================================================================
