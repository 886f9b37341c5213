\* A deactivation answered at once, and two orders after it.
CONSTANTS
    Requests = {r1, r2, r3}
    Sessions = {s1}
    NoSession = NoSession
    Orders <- MixedOrders
    Slice = 5
    MaxTry = 1
SPECIFICATION Spec
INVARIANT ReconfIsExclusive
CHECK_DEADLOCK FALSE
