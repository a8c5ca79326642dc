SPECIFICATION Spec
CONSTANTS
    one = one
    two = two
    NoJob = NoJob
    Procs = {p1, p2}
    Files <- MCFiles
    Inodes <- MCInodes
    Contents = {one, two}
    Outs <- MCOuts
    Source <- MCSources
    Cwd <- MCCwd
    IncDirs <- MCIncDirs
    Key <- MCKey
    Lookups <- MCLookups
    Versions <- MCVersions
    UnpackedFile <- MCFile
    UnpackedData <- MCData
    Edited <- MCEdited
    Created = {}
    MaxClock = 0
    MaxJobs = 3
    MaxFaults = 0
SYMMETRY ProcSymmetry
INVARIANTS
    BuildsOwnSources
CHECK_DEADLOCK FALSE
