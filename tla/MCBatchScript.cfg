SPECIFICATION Spec
CONSTANTS
    Members = 4
    CoreSettings <- Cores
INVARIANTS
    IInv
    NeverTooMany
    NoFailureLost
CHECK_DEADLOCK FALSE
