SPECIFICATION FairSpec
CONSTANTS
    Compiles <- Objs
    Archives <- Libs
    Links <- Bins
    Inputs <- Reads
    OutName <- Stems
    Suffix <- Endings
    Thin = {"in.a", "all.a"}
    Settings <- Environments
    Outer = "exe"
    MaxJobs = 2
    MaxKills = 1
INVARIANTS
    DerivationsAreWhole
    MembersDeclared
    CaptureIsReal
PROPERTIES
    OnlySharedOperandsRace
    EveryTargetSubmitted
CHECK_DEADLOCK FALSE
