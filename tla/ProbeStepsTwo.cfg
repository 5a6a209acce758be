CONSTANTS
    Rtn <- MCRtn
    Thread = {"t1", "t2"}
    NoRtn = "none"
    Addr <- ApartAddr
    RtnSize <- ApartSize
    PageSize = 32
    PredSets <- MCPredSets
    Denied = {}
    Lazy = TRUE
    Predictor = {"t1"}
    Quiet = TRUE
SPECIFICATION FairSpec
CHECK_DEADLOCK FALSE
INVARIANTS
    RecordedIsComplete
PROPERTIES
    KeepsPromise
    EnteredRuns
