SPECIFICATION Spec
CONSTANTS
    foo = foo
    bar = bar
    lib = lib
    lib2 = lib2
    prog = prog
    prog2 = prog2
    NoId = NoId
    Paths <- SharedPaths
    Inputs <- SharedInputs
    Below <- SharedBelow
    Ids <- SharedIds
    Refs <- SharedRefs
    Imports <- SharedImports
    Outputs <- SharedOutputs
    Procs = {p1, p2}
    Variants = {1, 2}
    Transformed = {foo}
    RealiseNow = {prog2}
    AutoForce = {}
    Forced = {bar}
    RealToolOn = {}
    ForceAnyTime = FALSE
    MaxJobs = 6
    MaxFaults = 0
SYMMETRY ProcSymmetry
INVARIANTS
    ConsumersSeeLatest
    ConsumersSeeRewrite
    PassthroughOnlyForForeign
CHECK_DEADLOCK FALSE
