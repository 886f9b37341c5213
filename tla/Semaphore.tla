------------------------------- MODULE Semaphore -------------------------------
(***************************************************************************)
(* AAL::CSemaphore, the counting semaphore of the OS abstraction layer, in  *)
(* its Linux build: a counter and two flags guarded by a recursive mutex    *)
(* (the CriticalSection base class), and one pthread condition variable.    *)
(*                                                                         *)
(* Every method holds the mutex from its first line to its return, so it is *)
(* one action; Wait() gives the mutex up while it sleeps on the condition   *)
(* variable, and the timed Wait() also between its check of SEM_ST_OK and   *)
(* the rest, so these are several.  A thread inside Wait() is               *)
(*    "checked"   between the two critical sections of the timed Wait();    *)
(*    "blocked"   asleep in the wait set of m_condition;                    *)
(*    "woken"     out of the wait set, about to own the mutex again;        *)
(*    "expired"   the same, pthread_cond_timedwait() returning ETIMEDOUT.   *)
(***************************************************************************)
EXTENDS Integers, FiniteSets

CONSTANTS
    Threads,        \* the threads that call the semaphore
    InitialCounts,  \* the nInitialCount / nCount given to Create() and Reset()
    MaxCounts,      \* the nMaxCount given to Create(); 0 asks for the default
    PostCounts      \* the nCount given to Post()

ASSUME SemaphoreAssumption ==
    /\ IsFiniteSet(Threads)
    /\ InitialCounts \subseteq Int
    /\ MaxCounts \subseteq Nat
    /\ PostCounts \subseteq Nat \ {0}

VARIABLES
    ok,          \* SEM_ST_OK of m_State
    unblocked,   \* SEM_ST_UNBLOCKED of m_State
    maxCount,    \* m_MaxCount
    curCount,    \* m_CurCount
    waitCount,   \* m_WaitCount
    pc,          \* where each thread stands
    timed,       \* whether the Wait() a thread is in has a timeout
    res,         \* what the last Wait() of each thread returned
    flushed,     \* history: an UnblockAll() ran while the thread was in Wait()
    missing      \* history: Posts a count-up semaphore still has to receive

semVars == <<ok, unblocked, maxCount, curCount, waitCount>>
thrVars == <<pc, timed, res>>
vars == <<semVars, thrVars, flushed, missing>>

Inside == {"blocked", "woken", "expired"}   \* counted by m_WaitCount

Waiters == {t \in Threads : pc[t] \in Inside}
Sleepers == {t \in Threads : pc[t] = "blocked"}

Positive(n) == IF n > 0 THEN n ELSE 0

\* A slip: the count-up semaphore is off by one.
CountUpPlain(n) == n

\* A negative count n becomes n + 1, so that -n Posts make it 1 and not 0.
CountUp(n) == IF n < 0 THEN n + 1 ELSE n

Init ==
    /\ ok = FALSE
    /\ unblocked = FALSE
    /\ maxCount = 0
    /\ curCount = 0
    /\ waitCount = 0
    /\ pc = [t \in Threads |-> "idle"]
    /\ timed = [t \in Threads |-> FALSE]
    /\ res = [t \in Threads |-> "none"]
    /\ flushed = [t \in Threads |-> FALSE]
    /\ missing = 0

--------------------------------------------------------------------------------
(* The condition variable. *)

\* pthread_cond_broadcast: the wait set empties.
Broadcast == pc' = [t \in Threads |-> IF pc[t] = "blocked" THEN "woken" ELSE pc[t]]

\* pthread_cond_signal: one sleeper is woken, if there is one.
Signal ==
    \/ Sleepers = {} /\ UNCHANGED pc
    \/ \E t \in Sleepers : pc' = [pc EXCEPT ![t] = "woken"]

--------------------------------------------------------------------------------
(* The methods that do not wait. *)

\* The counts Create(n, max) starts from.
CreateMax(n, max) ==
    IF max > 0 THEN max ELSE IF n > 0 THEN n ELSE 1

CreateCur(n, max) ==
    IF n < 0 THEN CountUp(n)
    ELSE IF n > CreateMax(n, max) THEN CreateMax(n, max) ELSE n

\* Initialising the condition variable under a thread that still uses it is
\* undefined, so a program calls Create() only when no thread is in Wait().
Create(n, max) ==
    /\ ~ok
    /\ \A t \in Threads : pc[t] = "idle"
    /\ curCount' = CreateCur(n, max)
    /\ maxCount' = CreateMax(n, max)
    /\ unblocked' = FALSE
    /\ ok' = TRUE
    /\ missing' = Positive(-n)
    /\ UNCHANGED <<waitCount, thrVars, flushed>>

Reset(n) ==
    /\ ok
    /\ waitCount = 0
    /\ n <= maxCount
    /\ curCount' = CountUp(n)
    /\ missing' = Positive(-n)
    /\ UNCHANGED <<ok, unblocked, maxCount, waitCount, thrVars, flushed>>

\* A slip: one signal, whatever the number of Posts.
PostSignals(count) == IF count <= 0 THEN UNCHANGED pc ELSE Signal

\* Whom Post() wakes once it has brought m_CurCount to count.
PostWakes(count) ==
    IF count <= 0 THEN UNCHANGED pc ELSE IF count = 1 THEN Signal ELSE Broadcast

Post(n) ==
    /\ ok
    /\ curCount + n <= maxCount
    /\ curCount' = curCount + n
    /\ missing' = Positive(missing - n)
    /\ PostWakes(curCount + n)
    /\ UNCHANGED <<ok, unblocked, maxCount, waitCount, timed, res, flushed>>

\* What UnblockAll() does once it has found the semaphore initialised.
Flush ==
    /\ unblocked' = TRUE
    /\ curCount' = 0
    /\ missing' = 0
    /\ IF waitCount > 0 THEN Broadcast ELSE UNCHANGED pc
    /\ flushed' = [t \in Threads |-> flushed[t] \/ t \in Waiters]

UnblockAll ==
    /\ ok
    /\ Flush
    /\ UNCHANGED <<ok, maxCount, waitCount, timed, res>>

\* The waiters are released, the condition variable goes, SEM_ST_OK clears.
\* As with Create(), no thread may be about to enter the wait set.
Destroy ==
    /\ ok
    /\ \A t \in Threads : pc[t] # "checked"
    /\ Flush
    /\ ok' = FALSE
    /\ UNCHANGED <<maxCount, waitCount, timed, res>>

--------------------------------------------------------------------------------
(* Wait() and Wait(Timeout). *)

\* A slip: the first waiter out ends the unblocking.
DelWaiterEnds(n) ==
    /\ waitCount' = n
    /\ unblocked' = FALSE

\* DEL_WAITER brings m_WaitCount to n; the last waiter ends the unblocking.
DelWaiter(n) ==
    /\ waitCount' = n
    /\ unblocked' = (unblocked /\ n # 0)

Return(t, value) ==
    /\ pc' = [pc EXCEPT ![t] = "idle"]
    /\ timed' = [timed EXCEPT ![t] = FALSE]
    /\ res' = [res EXCEPT ![t] = value]
    /\ flushed' = [flushed EXCEPT ![t] = FALSE]

\* The first critical section of the timed Wait(): only the flag is read.
WaitTimed(t) ==
    /\ pc[t] = "idle"
    /\ ok
    /\ pc' = [pc EXCEPT ![t] = "checked"]
    /\ timed' = [timed EXCEPT ![t] = TRUE]
    /\ res' = [res EXCEPT ![t] = "none"]
    /\ UNCHANGED <<semVars, flushed, missing>>

\* Where the mutex is next taken: the start of Wait(), or the second section
\* of Wait(Timeout), which does not look at SEM_ST_OK again.
MayEnter(t) ==
    \/ pc[t] = "idle" /\ ok
    \/ pc[t] = "checked"

\* A slip: DEL_WAITER without the ADD_WAITER before it.
EnterTakesUnbalanced(t) ==
    /\ MayEnter(t)
    /\ curCount > 0
    /\ curCount' = curCount - 1
    /\ DelWaiter(waitCount - 1)
    /\ Return(t, "true")
    /\ UNCHANGED <<ok, maxCount, missing>>

EnterTakes(t) ==
    /\ MayEnter(t)
    /\ curCount > 0
    /\ curCount' = curCount - 1
    /\ DelWaiter(waitCount)          \* after the ADD_WAITER of the same section
    /\ Return(t, "true")
    /\ UNCHANGED <<ok, maxCount, missing>>

EnterBlocks(t) ==
    /\ MayEnter(t)
    /\ curCount <= 0
    /\ waitCount' = waitCount + 1
    /\ pc' = [pc EXCEPT ![t] = "blocked"]
    /\ res' = [res EXCEPT ![t] = "none"]
    /\ UNCHANGED <<ok, unblocked, maxCount, curCount, timed, flushed, missing>>

\* Wait() on a semaphore that is not initialised.
WaitRefused(t) ==
    /\ pc[t] = "idle"
    /\ ~ok
    /\ Return(t, "false")
    /\ UNCHANGED <<semVars, missing>>

\* A slip: ETIMEDOUT goes round the loop like any other wakeup.
ResumeExpiredLoops(t) ==
    /\ pc[t] = "expired"
    /\ pc' = [pc EXCEPT ![t] = "blocked"]
    /\ UNCHANGED <<semVars, timed, res, flushed, missing>>

\* The three ways out of pthread_cond_wait, then the loop test.
ResumeExpired(t) ==
    /\ pc[t] = "expired"
    /\ DelWaiter(waitCount - 1)
    /\ Return(t, "false")
    /\ UNCHANGED <<ok, maxCount, curCount, missing>>

ResumeUnblocked(t) ==
    /\ pc[t] = "woken"
    /\ unblocked
    /\ DelWaiter(waitCount - 1)
    /\ Return(t, "false")
    /\ UNCHANGED <<ok, maxCount, curCount, missing>>

\* A slip: "if" for "while", the count is not looked at again.
ResumeTakesBlindly(t) ==
    /\ pc[t] = "woken"
    /\ ~unblocked
    /\ curCount' = curCount - 1
    /\ DelWaiter(waitCount - 1)
    /\ Return(t, "true")
    /\ UNCHANGED <<ok, maxCount, missing>>

ResumeTakes(t) ==
    /\ pc[t] = "woken"
    /\ ~unblocked
    /\ curCount > 0
    /\ curCount' = curCount - 1
    /\ DelWaiter(waitCount - 1)
    /\ Return(t, "true")
    /\ UNCHANGED <<ok, maxCount, missing>>

ResumeBlocks(t) ==
    /\ pc[t] = "woken"
    /\ ~unblocked
    /\ curCount <= 0
    /\ pc' = [pc EXCEPT ![t] = "blocked"]
    /\ UNCHANGED <<semVars, timed, res, flushed, missing>>

\* The deadline passes while the thread sleeps.
Expire(t) ==
    /\ pc[t] = "blocked"
    /\ timed[t]
    /\ pc' = [pc EXCEPT ![t] = "expired"]
    /\ UNCHANGED <<semVars, timed, res, flushed, missing>>

\* pthread_cond_wait may return without a signal.
SpuriousWake(t) ==
    /\ pc[t] = "blocked"
    /\ pc' = [pc EXCEPT ![t] = "woken"]
    /\ UNCHANGED <<semVars, timed, res, flushed, missing>>

--------------------------------------------------------------------------------
Owner ==
    \/ \E n \in InitialCounts, max \in MaxCounts : Create(n, max)
    \/ \E n \in InitialCounts : Reset(n)
    \/ \E n \in PostCounts : Post(n)
    \/ UnblockAll
    \/ Destroy

Call(t) ==
    \/ WaitTimed(t)
    \/ EnterTakes(t)
    \/ EnterBlocks(t)
    \/ WaitRefused(t)

Resume(t) ==
    \/ ResumeExpired(t)
    \/ ResumeUnblocked(t)
    \/ ResumeTakes(t)
    \/ ResumeBlocks(t)

Next ==
    \/ Owner
    \/ \E t \in Threads : Call(t) \/ Resume(t) \/ Expire(t) \/ SpuriousWake(t)

Spec == Init /\ [][Next]_vars

\* A woken thread gets the mutex, and the deadline of a timed Wait(), computed
\* once before the loop, passes even if the thread is woken and sleeps again.
Fairness ==
    \A t \in Threads :
        /\ WF_vars(Resume(t))
        /\ SF_vars(Expire(t))

FairSpec == Spec /\ Fairness

--------------------------------------------------------------------------------
(* Properties. *)

TypeOK ==
    /\ ok \in BOOLEAN
    /\ unblocked \in BOOLEAN
    /\ maxCount \in Nat
    /\ curCount \in Int
    /\ waitCount \in Nat
    /\ pc \in [Threads -> {"idle", "checked"} \cup Inside]
    /\ timed \in [Threads -> BOOLEAN]
    /\ res \in [Threads -> {"none", "true", "false"}]
    /\ flushed \in [Threads -> BOOLEAN]
    /\ missing \in Nat

\* m_WaitCount is the number of threads inside Wait(), whatever way each of
\* them came in and goes out; Reset() and UnblockAll() rely on it.
WaitCountExact == waitCount = Cardinality(Waiters)

\* No wakeup is lost although Post() signals a single thread when it brings the
\* count to 1: while the count is positive and threads sleep, the count is 1 and
\* some woken thread is on its way to take it.  This holds while no unblocking
\* is in progress.
NoLostWakeup ==
    (curCount > 0 /\ ~unblocked /\ Sleepers # {}) =>
        /\ curCount = 1
        /\ \E t \in Threads : pc[t] = "woken"

\* A count-up semaphore opens neither early nor late: as long as k Posts are
\* missing since Create(-n) or Reset(-n), the count is 1 - k.
CountUpExact == missing > 0 => curCount = 1 - missing

Leaves(t, value) == pc[t] \in Inside /\ pc'[t] = "idle" /\ res'[t] = value

\* A thread that was in Wait() when UnblockAll() or Destroy() ran returns false,
\* even when Post() makes the count positive before it gets the mutex back.
UnblockedReturnsFalse ==
    [][\A t \in Threads : flushed[t] => ~Leaves(t, "true")]_vars

\* The converse: an untimed Wait() on a live semaphore fails only because of an
\* UnblockAll() that came after it.  gtSem.cpp says that once the blocked threads
\* have left, the semaphore "is no longer unblocking"; the flag set by an
\* UnblockAll() that found nobody waiting fails a later Wait().
FailsOnlyIfUnblocked ==
    [][\A t \in Threads : ~timed[t] /\ ~flushed[t] => ~Leaves(t, "false")]_vars

\* Who was in Wait() at an UnblockAll() or a Destroy() gets out of it.
UnblockedLeaves == \A t \in Threads : flushed[t] ~> pc[t] = "idle"

\* A timed Wait() that sleeps returns, whoever wakes it or takes its Posts.
TimedWaitReturns ==
    \A t \in Threads : (pc[t] = "blocked" /\ timed[t]) ~> pc[t] = "idle"

\* The semaphore does what an atomic counting semaphore does.
Counting == INSTANCE CountingSemaphore
    WITH open <- ok, cap <- maxCount, value <- curCount, waiting <- Waiters

\* Every step is a step of the counting semaphore or no step.
RefinesCounting == Counting!Spec

================================================================================
