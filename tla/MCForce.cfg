SPECIFICATION Spec
CONSTANTS
    foo = foo
    bar = bar
    lib = lib
    lib2 = lib2
    prog = prog
    prog2 = prog2
    NoId = NoId
    Paths <- TwinPaths
    Inputs <- TwinInputs
    Below <- TwinBelow
    Ids <- TwinIds
    Refs <- TwinRefs
    Imports <- TwinImports
    Outputs <- TwinOutputs
    Procs = {p1, p2}
    Variants = {1, 2}
    Transformed = {}
    RealiseNow = {}
    AutoForce = {}
    Forced = {prog, lib2}
    RealToolOn = {foo}
    ForceAnyTime = FALSE
    MaxJobs = 5
    MaxFaults = 1
SYMMETRY ProcSymmetry
INVARIANTS
    TypeOK
    IInv
    SymlinksResolve
    ImportsResolve
    PlaceholdersRecorded
    RecordMatchesCopy
    RealiseIsComplete
CHECK_DEADLOCK FALSE
