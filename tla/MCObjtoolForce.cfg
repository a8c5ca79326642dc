SPECIFICATION Spec
CONSTANTS
    foo = foo
    bar = bar
    lib = lib
    lib2 = lib2
    prog = prog
    prog2 = prog2
    NoId = NoId
    Paths <- ObjtoolPaths
    Inputs <- ObjtoolInputs
    Below <- ObjtoolBelow
    Ids <- ObjtoolIds
    Refs <- ObjtoolRefs
    Imports <- ObjtoolImports
    Outputs <- ObjtoolOutputs
    Procs = {p1, p2}
    Variants = {1, 2}
    Transformed = {foo}
    RealiseNow = {}
    AutoForce = {}
    Forced = {lib}
    RealToolOn = {}
    ForceAnyTime = FALSE
    MaxJobs = 4
    MaxFaults = 0
SYMMETRY ProcSymmetry
INVARIANTS
    NeverReverts
CHECK_DEADLOCK FALSE
