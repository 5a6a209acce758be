-------------------------------- MODULE Scorer ---------------------------------
(***************************************************************************)
(* parsePrediction.cpp: reads the Pin trace of a program with embedded     *)
(* predictions and counts how often they were right. A line is a call in   *)
(* the application or in a library, or a call of blankit_predict.          *)
(***************************************************************************)
EXTENDS Integers, Sequences, FiniteSets

CONSTANTS
    Called,          \* names of library routines
    PredictedOf,     \* the file string2id_map.csv: line number -> set of routines
    MaxLines         \* bound: lines of a trace

\* Splitting ";f;g;" at its semicolons leaves an empty name in front.
EmptyName == ""

ASSUME ScorerAssumption ==
    /\ EmptyName \notin Called /\ MaxLines \in Nat
    /\ PredictedOf \in [DOMAIN PredictedOf -> SUBSET Called]
    /\ \A id \in DOMAIN PredictedOf : IsFiniteSet(PredictedOf[id])

\* Any number can be passed to blankit_predict, also one without a line.
UnknownId == 0
SeqId == DOMAIN PredictedOf \union {UnknownId}

VARIABLES
    embedVerifyMode, predictedFunctions, actualCalledFunctions,
    missedCount, totalLibcCount, totalCallSites,
    actualGreaterThanPredicted, actualLessthanPredicted, actualEqualthanPredicted,
    done, trace          \* trace: the lines read, history

sizeCounts == <<totalCallSites, actualGreaterThanPredicted, actualLessthanPredicted,
                actualEqualthanPredicted>>
scorerVars == <<embedVerifyMode, predictedFunctions, actualCalledFunctions, missedCount,
                totalLibcCount, sizeCounts, done, trace>>

global_id2Setstring_map(id) == PredictedOf[id] \union {EmptyName}

InitScorer ==
    /\ embedVerifyMode = FALSE
    /\ predictedFunctions = {} /\ actualCalledFunctions = {}
    /\ missedCount = 0 /\ totalLibcCount = 0 /\ totalCallSites = 0
    /\ actualGreaterThanPredicted = 0 /\ actualLessthanPredicted = 0
    /\ actualEqualthanPredicted = 0
    /\ done = FALSE /\ trace = <<>>

ReadTrace(line) == ~done /\ Len(trace) < MaxLines /\ trace' = Append(trace, line)

\* "Called main" names the application's image, whose calls are not counted.
ScoreMain ==
    /\ ReadTrace([kind |-> "main"]) /\ ~embedVerifyMode
    /\ embedVerifyMode' = TRUE
    /\ UNCHANGED <<predictedFunctions, actualCalledFunctions, missedCount, totalLibcCount,
                   sizeCounts, done>>

\* The call site before is judged by the sizes of its two sets.
Judge ==
    LET actual == Cardinality(actualCalledFunctions)
        predicted == Cardinality(predictedFunctions)
        Count(n, happens) == n + (IF happens THEN 1 ELSE 0)
    IN /\ actualGreaterThanPredicted' = Count(actualGreaterThanPredicted, actual > predicted)
       /\ actualLessthanPredicted' = Count(actualLessthanPredicted, actual < predicted)
       /\ actualEqualthanPredicted' = Count(actualEqualthanPredicted, actual = predicted)

\* Faulty variant: an unknown id begins a call site too.
ScorePredictEmpties(id) ==
    /\ ReadTrace([kind |-> "predict", id |-> id]) /\ embedVerifyMode
    /\ Judge
    /\ predictedFunctions' = IF id \in DOMAIN PredictedOf THEN global_id2Setstring_map(id) ELSE {}
    /\ actualCalledFunctions' = {}
    /\ totalCallSites' = totalCallSites + 1
    /\ UNCHANGED <<embedVerifyMode, missedCount, totalLibcCount, done>>

\* Only a known id begins a new call site. A line before main is dropped.
ScorePredict(id) ==
    /\ ReadTrace([kind |-> "predict", id |-> id]) /\ embedVerifyMode
    /\ Judge
    /\ IF id \in DOMAIN PredictedOf
       THEN /\ predictedFunctions' = global_id2Setstring_map(id)
            /\ actualCalledFunctions' = {}
            /\ totalCallSites' = totalCallSites + 1
       ELSE UNCHANGED <<predictedFunctions, actualCalledFunctions, totalCallSites>>
    /\ UNCHANGED <<embedVerifyMode, missedCount, totalLibcCount, done>>

\* Before main the name of the image is empty and every line seems to be in it.
ScoreCalledLib(f) ==
    /\ ReadTrace([kind |-> "lib", name |-> f])
    /\ IF embedVerifyMode
       THEN /\ actualCalledFunctions' = actualCalledFunctions \union {f}
            /\ missedCount' = missedCount + (IF f \in predictedFunctions THEN 0 ELSE 1)
            /\ totalLibcCount' = totalLibcCount + 1
       ELSE UNCHANGED <<actualCalledFunctions, missedCount, totalLibcCount>>
    /\ UNCHANGED <<embedVerifyMode, predictedFunctions, sizeCounts, done>>

\* "Called exit" stops the scorer where the line is not counted as a library
\* call: before main, or for a routine of the application.
ScoreExit ==
    /\ ReadTrace([kind |-> "exit"])
    /\ done' = TRUE
    /\ UNCHANGED <<embedVerifyMode, predictedFunctions, actualCalledFunctions, missedCount,
                   totalLibcCount, sizeCounts>>

NextScorer ==
    \/ ScoreMain \/ ScoreExit
    \/ \E id \in SeqId : ScorePredict(id)
    \/ \E f \in Called : ScoreCalledLib(f)

ScorerSpec == InitScorer /\ [][NextScorer]_scorerVars
--------------------------------------------------------------------------------
(***************************************************************************)
(* The scores, defined over the whole trace.                               *)
(***************************************************************************)
TraceLines(kind) == {i \in 1 .. Len(trace) : trace[i].kind = kind}
CountedCalls == {i \in TraceLines("lib") : \E m \in TraceLines("main") : m < i}

\* The prediction in force at line i, and the calls made under it.
Begins == {i \in TraceLines("predict") : trace[i].id \in DOMAIN PredictedOf}
LastBegin(i) == LET B == {b \in Begins : b < i} IN
                IF B = {} THEN 0 ELSE CHOOSE b \in B : \A c \in B : c <= b
InForce(i) == IF LastBegin(i) = 0 THEN {} ELSE PredictedOf[trace[LastBegin(i)].id]
CalledUnder(i) == {trace[k].name : k \in {c \in CountedCalls : LastBegin(i) < c /\ c < i}}

\* Missed are the library calls not in the prediction in force.
MissedMatchTrace ==
    /\ missedCount = Cardinality({i \in CountedCalls : trace[i].name \notin InForce(i)})
    /\ totalLibcCount = Cardinality(CountedCalls)

\* At each prediction the call site before it is judged by numbers: as many
\* routines called as predicted, more, or fewer. The empty name counts as a
\* predicted routine, so "equal" means one call more than was predicted.
SizeOf(i) == IF LastBegin(i) = 0 THEN 0 ELSE Cardinality(InForce(i)) + 1
Judged(rel(_, _)) == Cardinality({i \in TraceLines("predict") : rel(Cardinality(CalledUnder(i)), SizeOf(i))})
SizesMatchTrace ==
    /\ actualGreaterThanPredicted = Judged(LAMBDA a, p : a > p)
    /\ actualLessthanPredicted = Judged(LAMBDA a, p : a < p)
    /\ actualEqualthanPredicted = Judged(LAMBDA a, p : a = p)
    /\ totalCallSites = Cardinality(Begins)
================================================================================
