CONSTANTS
    Rtn <- MCRtn
    Name <- MCName
    Image <- MCImage
    NoRtn = "none"
    NoImage = "noimage"
    App = "app"
    ImageOf <- MCImageOf
    RtnName <- MCRtnName
    RtnSize <- MCRtnSize
    FindByName <- MCFindByName
    Safe <- MCRtn
    Reprobe = FALSE
    Approved <- MCApproved
    PredSets <- MCPredSets
    Lazy = TRUE
    Audit = TRUE
    SingleCall = FALSE
    Callbacks = TRUE
    MaxDepth = 3
SPECIFICATION Spec
CHECK_DEADLOCK FALSE
INVARIANTS
    TypeOK
    CopiesIntact
    CopiedExactlyLive
    LiveJustified
    FreshFramesLive
    AuditNamesFirstEntry
PROPERTIES
    KeepsPromise
