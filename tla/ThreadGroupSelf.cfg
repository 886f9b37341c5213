\* Items drain, join and destroy their own group, while clients drain and destroy.
CONSTANTS
    w1 = w1
    w2 = w2
    c1 = c1
    c2 = c2
    i1 = i1
    i2 = i2
    i3 = i3
    i4 = i4
    NoThread = NoThread
    Workers = {w1, w2}
    Clients = {c1, c2}
    Items = {i1, i2, i3}
    Script <- SelfScript
    ClientCalls <- SelfCalls
    StartAnytime = FALSE
SPECIFICATION FairSpec
CHECK_DEADLOCK FALSE
INVARIANTS
    JoinedMeansGone
    FreedIsQuiet
PROPERTIES
    AcceptedItemEnds
    DrainReturnsAtLast
    DestroyFrees
