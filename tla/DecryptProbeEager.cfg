CONSTANTS
    Rtn <- MCRtn
    Name <- MCName
    Image <- MCImage
    NoRtn = "none"
    NoImage = "noimage"
    App = "app"
    ImageOf <- MCImageOf
    RtnName <- MCRtnName
    RtnSize <- MCRtnSize
    FindByName <- MCFindByName
    Safe <- MCRtn
    Reprobe = FALSE
    Approved <- MCApproved
    PredSets <- MCPredSets
    Lazy = FALSE
    Audit = FALSE
    SingleCall = FALSE
    Callbacks = FALSE
    MaxDepth = 3
SPECIFICATION Spec
INVARIANTS
    NeverRunsZeros
PROPERTIES
    KeepsPromise
