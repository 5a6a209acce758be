CONSTANTS
    Rtn <- MCRtn
    Thread = {"t1", "t2"}
    NoRtn = "none"
    Addr <- SharedAddr
    RtnSize <- SharedSize
    PageSize = 32
    PredSets <- MCPredSets
    Denied <- SharedDenied
    Lazy = FALSE
    Predictor = {"t1"}
    Quiet = FALSE
SPECIFICATION Spec
CHECK_DEADLOCK FALSE
INVARIANTS
    TypeOK
    FaultExplained
    OpenOnlyWhileHeld
