\* A completion left over from one series of drains, counted in the next.
CONSTANTS
    w1 = w1
    w2 = w2
    c1 = c1
    c2 = c2
    i1 = i1
    i2 = i2
    i3 = i3
    i4 = i4
    NoThread = NoThread
    Workers = {w1, w2}
    Clients = {c1}
    Items = {i1, i2, i3, i4}
    Script <- DrainingScript
    ClientCalls <- DrainCalls
    StartAnytime = FALSE
SPECIFICATION Spec
CHECK_DEADLOCK FALSE
INVARIANTS
    DrainedItemsDone
