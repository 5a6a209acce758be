CONSTANTS
    Site = {s1, s2}
    Func = {"f", "g"}
    FuncID = {1}
    Rdf = {"r"}
    NoSite = NoSite
    RandRange = 2
    MaxEvents <- TwoRuns
    LabelOrder <- MCLabelOrder
SYMMETRY SiteSymmetry
SPECIFICATION Spec
CHECK_DEADLOCK FALSE
INVARIANTS
    TypeOK
    RowsAligned
    RowsMatchLog
    FirstRunIdsDense
    IndexSelectsRowsSet
PROPERTIES
    LabelsKeepIds
