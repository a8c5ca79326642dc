SPECIFICATION FairSpec
CONSTANTS
    foo = foo
    bar = bar
    lib = lib
    lib2 = lib2
    prog = prog
    prog2 = prog2
    NoId = NoId
    Paths <- SharedPaths
    Inputs <- SharedInputs
    Below <- SharedBelow
    Ids <- SharedIds
    Refs <- SharedRefs
    Imports <- SharedImports
    Outputs <- SharedOutputs
    Procs = {p1, p2}
    Variants = {1, 2}
    Transformed = {}
    RealiseNow = {}
    AutoForce = {prog, prog2}
    Forced = {}
    RealToolOn = {}
    ForceAnyTime = FALSE
    MaxJobs = 5
    MaxFaults = 0
INVARIANTS
    RecordMatchesCopy
    RealiseIsComplete
PROPERTIES
    EveryJobEnds
CHECK_DEADLOCK FALSE
