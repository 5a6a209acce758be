CONSTANTS
    Site = {"s1"}
    Func = {"f", "g"}
    FuncID = {1}
    Rdf = {"r"}
    NoSite = NoSite
    RandRange = 2
    MaxEvents <- Restarted
    LabelOrder <- MCLabelOrder
SPECIFICATION Spec
CHECK_DEADLOCK FALSE
INVARIANTS
    IdsUnique
