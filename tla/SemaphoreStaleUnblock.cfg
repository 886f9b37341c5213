\* An UnblockAll() that finds nobody waiting, then a Wait() and a Post().
CONSTANTS
    Threads = {t1, t2}
    InitialCounts <- MCInitialCounts
    MaxCounts = {0, 2}
    PostCounts <- MCPostCounts
SPECIFICATION Spec
PROPERTY FailsOnlyIfUnblocked
