\* Two requests: one at work, and one that waits, comes after it, or takes what it left.
CONSTANTS
    Requests = {r1, r2}
    Sessions = {s1, s2}
    NoSession = NoSession
    Orders <- MixedOrders
    Slice = 5
    MaxTry = 1
SPECIFICATION FairSpec
INVARIANTS
    TypeOK
    LockNeverLost
    AfuPointerLive
    ProgramsOnlyDeactivated
    FullGrace
    DroppedOnlyIfGone
PROPERTY RequestAnswered
CHECK_DEADLOCK FALSE
