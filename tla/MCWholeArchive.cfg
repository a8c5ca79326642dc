SPECIFICATION Spec
CONSTANTS
    Cwd <- MCCwd
    Place <- MCPlace
    Stem <- MCStem
    Texts <- MCTexts
    SystemDirs <- MCSystemDirs
    Toolchain <- Tools
    Suffix <- Endings
    Calls <- VmlinuxCalls
    Trees <- MCTrees
    Known = {"dep", "dep2"}
    Env <- MCEnv
INVARIANTS
    SpansKept
CHECK_DEADLOCK FALSE
