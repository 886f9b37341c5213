\* A timeout of 7 in slices of 5.
CONSTANTS
    Requests = {r1}
    Sessions = {s1}
    NoSession = NoSession
    Orders <- OddOrders
    Slice = 5
    MaxTry = 1
SPECIFICATION FairSpec
PROPERTY RequestAnswered
CHECK_DEADLOCK FALSE
