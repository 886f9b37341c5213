\* Three services of two libraries; the only one of the second may fail.
CONSTANTS
    p1 = p1
    p2 = p2
    s1 = s1
    s2 = s2
    s3 = s3
    Packages = {p1, p2}
    Services = {s1, s2, s3}
    Home <- TwoLibraries
    MayFail = {s3}
    Broker = Broker
SPECIFICATION FairSpec
INVARIANTS
    TypeOK
    StoppedMeansShutDown
    UnloadedIsEmpty
PROPERTY StopAnswered
CHECK_DEADLOCK FALSE
