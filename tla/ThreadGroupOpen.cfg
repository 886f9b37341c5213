\* Two clients add, drain, stop, start and destroy; an item stops and starts.
CONSTANTS
    w1 = w1
    w2 = w2
    c1 = c1
    c2 = c2
    i1 = i1
    i2 = i2
    i3 = i3
    i4 = i4
    NoThread = NoThread
    Workers = {w1, w2}
    Clients = {c1, c2}
    Items = {i1, i2, i3}
    Script <- RestartScript
    ClientCalls <- OpenCalls
    StartAnytime = FALSE
SPECIFICATION Spec
CHECK_DEADLOCK FALSE
INVARIANTS
    TypeOK
    WorkIsSignalled
    DrainKeepsClosed
    DrainedItemsDone
    DestructorAsserts
PROPERTIES
    RunsOnce
    BeginFindsNoNested
