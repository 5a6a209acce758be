CONSTANTS
    Rtn <- MCRtn
    Thread = {"t1", "t2"}
    NoRtn = "none"
    Addr <- ApartAddr
    RtnSize <- ApartSize
    PageSize = 32
    PredSets <- MCPredSets
    Denied = {}
    Lazy = TRUE
    Predictor = {"t1"}
    Quiet = FALSE
SPECIFICATION Spec
CHECK_DEADLOCK FALSE
PROPERTIES
    SkipsOnlyWhatIsThere
