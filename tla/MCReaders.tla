------------------------------- MODULE MCReaders -------------------------------
(***************************************************************************)
(* The batch programs around the tool on small inputs, one of them in each *)
(* behaviour: the search for approved lists, the walk over the static call *)
(* graph, the call chain parser, the scorer and the two LLVM passes. They  *)
(* share no state. Also the arithmetic of remap_permissions on every       *)
(* routine of up to MaxSize bytes that starts in the first two pages.      *)
(***************************************************************************)
EXTENDS PageRemap, ApprovedList, StaticReach, CallChain, Scorer, EmbedTree, TLC

CONSTANTS
    Programs,    \* the programs to run
    MaxSize      \* bound: bytes of a remapped routine

ASSUME SizeAssumption == MaxSize \in Nat

VARIABLES program, addr, size

remap == <<program, addr, size>>
all == <<remap, searchVars, reachVars, chainVars, scorerVars, passVars>>

\* The variables of a program that does not run.
IdleSearch ==
    /\ breaks = [l \in Lib |-> {}] /\ ignored_file = [l \in Lib |-> NoFile]
    /\ approved_file = [l \in Lib |-> <<>>] /\ InitSearch
IdleReach == roots = <<>> /\ static_cg = <<>> /\ InitReach

Init ==
    /\ program \in Programs
    /\ IF program = "search" THEN InitSearch ELSE IdleSearch
    /\ IF program = "reach" THEN InitReach ELSE IdleReach
    /\ IF program = "remap"
       THEN addr \in 0 .. 2 * PageSize - 1 /\ size \in 0 .. MaxSize
       ELSE addr = 0 /\ size = 0
    /\ InitChain /\ InitScorer /\ InitPasses

SearchRuns ==
    /\ program = "search" /\ NextSearch
    /\ UNCHANGED <<remap, reachVars, chainVars, scorerVars, passVars>>
ReachRuns ==
    /\ program = "reach" /\ NextReach
    /\ UNCHANGED <<remap, searchVars, chainVars, scorerVars, passVars>>
ChainRuns ==
    /\ program = "chain" /\ NextChain
    /\ UNCHANGED <<remap, searchVars, reachVars, scorerVars, passVars>>
ScoreRuns ==
    /\ program = "score" /\ NextScorer
    /\ UNCHANGED <<remap, searchVars, reachVars, chainVars, passVars>>
PassesRuns ==
    /\ program = "passes" /\ NextPasses
    /\ UNCHANGED <<remap, searchVars, reachVars, chainVars, scorerVars>>

Next == SearchRuns \/ ReachRuns \/ ChainRuns \/ ScoreRuns \/ PassesRuns

Spec == Init /\ [][Next]_all

MCFuncs == "libc" :> <<"a", "b", "a">> @@ "libm" :> <<"b", "c">>
\* Approved lists of earlier experiments, or none; and ignored ones, right and
\* wrong about what either library's search found.
MCOldApproved == {"libc" :> <<"a">> @@ "libm" :> <<"c">>, "libc" :> <<>> @@ "libm" :> <<>>}
MCOldIgnored == {NoFile, {}, {"a"}, {"b", "c"}}

\* libc was never searched before.
FirstApproved == {"libc" :> <<>> @@ "libm" :> <<"c">>}
FirstIgnored == {NoFile}

MCFuncOf == 1 :> 21 @@ 2 :> 22
MCDependsOn == 1 :> (1 :> {9} @@ 2 :> {9}) @@ 2 :> (1 :> {} @@ 2 :> {9})

MCPredictedOf == 1 :> {} @@ 2 :> {"f", "g"}

\* helper, which calls sqrt, is inlined and its definition dropped.
MCAtInit == "main.c" :> <<"helper", "again", "printf", "sqrt">> @@ "random.c" :> <<"sqrt", "rand">>
MCCalledBy == "main.c" :> <<"sqrt", "again", "printf">> @@ "random.c" :> <<"sqrt", "rand">>
MCFrom == "main.c" :> <<0, 2, 3>> @@ "random.c" :> <<1, 2>>
MCDefinedIn == "main.c" :> {"helper", "again"} @@ "random.c" :> {}
MCNumArgs == "helper" :> 1 @@ "again" :> 1 @@ "printf" :> 2 @@ "sqrt" :> 1 @@ "rand" :> 0
--------------------------------------------------------------------------------
\* probe_copy_aux and probe_blank_aux hand remap_permissions the address of the
\* routine and size_cp: that opens every page of the body unless its last bytes,
\* MAGIC_OFFSET behind addr + size_cp, cross a page end.
AuxCovers == AuxRemapCovers(addr, size)

\* remap_permissions changes the pages of its bytes and no other, but for one
\* page too many when the range ends where a page ends.
RangePages == {PageOf(a) : a \in addr .. addr + size - 1}
PageBehind == IF (addr + size) % PageSize = 0 THEN {PageOf(addr + size)} ELSE {}
RemapReaches ==
    size >= 1 => /\ RemapPages(addr, size) = RangePages \union PageBehind
                 /\ PageBehind \intersect RangePages = {}
================================================================================
