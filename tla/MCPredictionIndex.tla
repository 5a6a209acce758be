--------------------------- MODULE MCPredictionIndex ---------------------------
(* Small instances of PredictionIndex. *)
EXTENDS PredictionIndex, TLC

\* ";" < ";f;" < ";f;g;" < ";g;"
MCLabelOrder == <<{}, {"f"}, {"f", "g"}, {"g"}>>

\* Two runs: seven lines let two rows with functions be finished, three let one be added.
TwoRuns == <<7, 3>>
OneRun == <<6>>
Restarted == <<5, 3>>

\* Call sites are compared, nothing else.
SiteSymmetry == Permutations(Site)
================================================================================
