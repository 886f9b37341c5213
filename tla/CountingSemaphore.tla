--------------------------- MODULE CountingSemaphore ---------------------------
(***************************************************************************)
(* What AAL::CSemaphore promises its callers: an integer that Release()     *)
(* raises up to a cap, and threads that wait until it is positive and then  *)
(* lower it by one, in one step.  A thread may also stop waiting, because   *)
(* its time is up or because the semaphore is flushed.  There is no wait    *)
(* set, no signal and no flag here.                                         *)
(***************************************************************************)
EXTENDS Integers

CONSTANTS
    Threads,
    InitialCounts,
    MaxCounts,
    PostCounts

VARIABLES
    open,       \* the semaphore exists
    cap,        \* the largest value
    value,      \* the current value
    waiting     \* the threads that wait

vars == <<open, cap, value, waiting>>

Init ==
    /\ open = FALSE
    /\ cap = 0
    /\ value = 0
    /\ waiting = {}

Open ==
    /\ ~open
    /\ waiting = {}
    /\ open' = TRUE
    /\ cap' \in Nat \ {0}
    /\ value' \in Int
    /\ value' <= cap'
    /\ UNCHANGED waiting

\* The value is set anew when nobody waits.
Rearm ==
    /\ open
    /\ waiting = {}
    /\ value' \in Int
    /\ value' <= cap
    /\ UNCHANGED <<open, cap, waiting>>

Release(n) ==
    /\ open
    /\ value + n <= cap
    /\ value' = value + n
    /\ UNCHANGED <<open, cap, waiting>>

\* The value drops to zero; the waiting threads give up one by one.
Flush ==
    /\ open
    /\ value' = 0
    /\ open' \in BOOLEAN
    /\ UNCHANGED <<cap, waiting>>

\* Nobody has to wait for a positive value.
Arrive(t) ==
    /\ open
    /\ value <= 0
    /\ t \notin waiting
    /\ waiting' = waiting \cup {t}
    /\ UNCHANGED <<open, cap, value>>

Pass(t) ==
    /\ open
    /\ t \notin waiting
    /\ value > 0
    /\ value' = value - 1
    /\ UNCHANGED <<open, cap, waiting>>

Grant(t) ==
    /\ open
    /\ t \in waiting
    /\ value > 0
    /\ value' = value - 1
    /\ waiting' = waiting \ {t}
    /\ UNCHANGED <<open, cap>>

GiveUp(t) ==
    /\ t \in waiting
    /\ waiting' = waiting \ {t}
    /\ UNCHANGED <<open, cap, value>>

Next ==
    \/ Open
    \/ Rearm
    \/ \E n \in PostCounts : Release(n)
    \/ Flush
    \/ \E t \in Threads : Arrive(t) \/ Pass(t) \/ Grant(t) \/ GiveUp(t)

Spec == Init /\ [][Next]_vars

================================================================================
