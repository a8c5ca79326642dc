SPECIFICATION FairSpec
CONSTANTS
    Procs = {p1, p2, p3}
    Ids = {t1, t2}
    Chunks = 2
    Missing = Missing
INVARIANTS
    IInv
    NeverTorn
    DoneIsVisible
    NoLitter
PROPERTIES
    StoreSpec
    WriteOnce
    Terminates
CHECK_DEADLOCK FALSE
