\* The second allocation from a library fails.
CONSTANTS
    p1 = p1
    p2 = p2
    s1 = s1
    s2 = s2
    s3 = s3
    Packages = {p1, p2}
    Services = {s1, s2, s3}
    Home <- TwoLibraries
    MayFail = {s2}
    Broker = Broker
SPECIFICATION Spec
INVARIANT StoppedMeansShutDown
CHECK_DEADLOCK FALSE
