\* Work is added to a group whose workers have left.
CONSTANTS
    w1 = w1
    w2 = w2
    c1 = c1
    c2 = c2
    i1 = i1
    i2 = i2
    i3 = i3
    i4 = i4
    NoThread = NoThread
    Workers = {w1, w2}
    Clients = {c1, c2}
    Items = {i1, i2, i3}
    Script <- PlainScript
    ClientCalls <- SelfCalls
    StartAnytime = FALSE
SPECIFICATION Spec
CHECK_DEADLOCK FALSE
INVARIANTS
    DestructorAsserts
