\* Every method, the conversions of Create() and Reset() included.
CONSTANTS
    Threads = {t1, t2, t3}
    InitialCounts <- MCInitialCounts
    MaxCounts = {0, 2}
    PostCounts <- MCPostCounts
SPECIFICATION FairSpec
INVARIANTS
    TypeOK
    WaitCountExact
    NoLostWakeup
    CountUpExact
PROPERTIES
    RefinesCounting
    UnblockedReturnsFalse
    UnblockedLeaves
    TimedWaitReturns
