CONSTANTS
    Programs = {"search"}
    Lib = {"libc", "libm"}
    LibC = "libc"
    Funcs <- MCFuncs
    OldApproved <- FirstApproved
    OldIgnored <- FirstIgnored
    NoFile = NoFile
    NoName = "no name"
    Func = {"f", "g", "h"}
    MaxCallees = 2
    MaxRoots = 2
    NonDivergent = {"g"}
    AppFunc = {"main"}
    LibFunc = {"f", "g"}
    Site = {1, 2}
    FuncOf <- MCFuncOf
    Arg = {1, 2}
    RDF = {9}
    Value = {5}
    Shown = {1}
    DependsOn <- MCDependsOn
    MaxLog = 6
    Called = {"f", "g", "h"}
    PredictedOf <- MCPredictedOf
    MaxLines = 6
    Module = {"main.c", "random.c"}
    AtInit <- MCAtInit
    CalledBy <- MCCalledBy
    From <- MCFrom
    DefinedIn <- MCDefinedIn
    NumArgs <- MCNumArgs
    MaxInner = 3
    NoTree = NoTree
    PageSize = 32
    MaxSize = 100
SPECIFICATION Spec
CHECK_DEADLOCK FALSE
INVARIANTS
    FailedNeverApproved
