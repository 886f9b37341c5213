\* Three threads: a member of a volley, one it holds back, and one that comes late.
CONSTANTS
    Threads = {t1, t2, t3}
    UnlockCounts = {0, 2}
    PostCounts = {1, 2}
SPECIFICATION FairSpec
INVARIANTS
    TypeOK
    CountersExact
    NoSleeperLeftBehind
    PreWaiterHasReset
    AutoResetCloses
PROPERTIES
    OneVolleyAtATime
    VolleyGetsThrough
    UnblockedWaitersFail
    DestroyEnds
