CONSTANTS
    Rtn <- TwinRtn
    Name <- TwinName
    Image <- MCImage
    NoRtn = "none"
    NoImage = "noimage"
    App = "app"
    ImageOf <- TwinImageOf
    RtnName <- TwinRtnName
    RtnSize <- TwinRtnSize
    FindByName <- TwinFindByName
    Safe <- TwinRtn
    Reprobe = FALSE
    Approved <- TwinApproved
    PredSets <- TwinPredSets
    Lazy = TRUE
    Audit = FALSE
    SingleCall = TRUE
    Callbacks = FALSE
    MaxDepth = 2
SPECIFICATION Spec
CHECK_DEADLOCK FALSE
PROPERTIES
    CopiesThisFunction
