---------------------------- MODULE PredictionIndex ----------------------------
(***************************************************************************)
(* From training rows to the index blankit_predict is called with. The     *)
(* parser numbers the sets by ids, the tree by the rank of an id among     *)
(* those it saw (plot_unveil_tree_structure.py), embedDtree by the lines   *)
(* of string2id_map.csv, and the probe tool by the lines as init_pred_sets *)
(* reads them. All are functions of what the runs of TraceContext leave.   *)
(***************************************************************************)
EXTENDS TraceContext

CONSTANTS LabelOrder    \* the sets of functions in the order of their strings

\* Sets have a string each, distinct sets distinct strings.
ASSUME OrderAssumption ==
    /\ LabelOrder \in Seq(SUBSET Func)
    /\ \A l \in SUBSET Func : \E p \in DOMAIN LabelOrder : LabelOrder[p] = l
    /\ \A p, q \in DOMAIN LabelOrder : LabelOrder[p] = LabelOrder[q] => p = q

\* A line for each set of a map, in the order of their strings.
RankIn(N, p) == Cardinality({q \in N : q <= p})
LinesOf(map) ==
    LET named == {p \in DOMAIN LabelOrder : LabelOrder[p] \in DOMAIN map}
        Nth(k) == LabelOrder[CHOOSE p \in named : RankIn(named, p) = k]
    IN  [k \in 1 .. Cardinality(named) |-> [set |-> Nth(k), id |-> map[Nth(k)]]]

\* The lines of string2id_map.csv but the first, which is empty.
Lines == LinesOf(string2id_map.sets) \o LinesOf(string2id_map.strs)
LineIds == {Lines[i].id : i \in DOMAIN Lines}
LastLine(id) == CHOOSE i \in DOMAIN Lines :
                   /\ Lines[i].id = id
                   /\ \A j \in DOMAIN Lines : Lines[j].id = id => j <= i

\* embedDtree's maps, filled line by line.
global_id2string_map(id) == Lines[LastLine(id)].set

\* Faulty variant: counted from zero.
CounterFromZero(id) == IF id \in LineIds THEN LastLine(id) - 1 ELSE 0

stringId_2counter_map(id) == IF id \in LineIds THEN LastLine(id) ELSE 0

\* What init_pred_sets has at an index; 0 is the empty first line.
pred_sets(idx) == IF idx = 0 THEN {} ELSE Lines[idx].set

\* The tree: its classes are the ids of the rows in ascending order, and a
\* leaf is printed as the rank of its class.
Classes == {train[i].id : i \in DOMAIN train}
LeafOf(id) == Cardinality({c \in Classes : c < id})

\* The leaf of recursiveIfElseTree: the argument of the call, and whether the
\* call is left out. The string is looked up after predId became the counter.
PredId(leaf) == stringId_2counter_map(leaf)
Emitted(leaf) ==
    ~(PredId(leaf) \in LineIds /\ global_id2string_map(PredId(leaf)) = {})
--------------------------------------------------------------------------------
LabelledRows == {i \in DOMAIN train : train[i].labels # {}}

\* After one run of the parser the numberings agree: the index emitted for the
\* leaf of a row's class selects in the probe tool the very set of the row.
IndexSelectsRowsSet ==
    run = 1 => \A i \in LabelledRows :
                  pred_sets(PredId(LeafOf(train[i].id))) \in train[i].labels

\* "We should never receive a prediction for these cases" (init_pred_sets, of
\* the lines without a function): the call is left out where a row's set is empty.
EmptyNeverPredicted ==
    run = 1 => \A i \in LabelledRows :
                  {} \in train[i].labels => ~Emitted(LeafOf(train[i].id))
================================================================================
