SPECIFICATION Spec
CONSTANTS
    one = one
    two = two
    NoJob = NoJob
    Procs = {p1, p2}
    Files <- MCFiles
    Inodes <- MCInodes
    Contents = {one, two}
    Outs <- AOuts
    Source <- MCSources
    Cwd <- MCCwd
    IncDirs <- MCIncDirs
    Key <- MCKey
    Lookups <- MCLookups
    Versions <- MCVersions
    UnpackedFile <- MCFile
    UnpackedData <- MCData
    Edited <- MCEdited
    Created <- MCCreated
    MaxClock = 2
    MaxJobs = 3
    MaxFaults = 1
SYMMETRY ProcSymmetry
INVARIANTS
    TypeOK
    IInv
    CacheSound
    ResultIsCurrent
    BuildsOwnSources
CHECK_DEADLOCK FALSE
