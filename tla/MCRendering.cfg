SPECIFICATION Spec
CONSTANTS
    Cwd <- MCCwd
    Place <- MCPlace
    Stem <- MCStem
    Texts <- MCTexts
    SystemDirs <- MCSystemDirs
    Toolchain <- Tools
    Suffix <- Endings
    Calls <- MCCalls
    Trees <- MCTrees
    Known = {"dep", "dep2"}
    Env <- MCEnv
INVARIANTS
    SameDerivation
    SameUnit
    LineKept
CHECK_DEADLOCK FALSE
