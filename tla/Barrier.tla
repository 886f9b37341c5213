-------------------------------- MODULE Barrier --------------------------------
(***************************************************************************)
(* AAL::Barrier, Linux build: a counter that opens the barrier when it      *)
(* reaches the unlock count.  A manual-reset barrier stays open until       *)
(* Reset(); an auto-reset barrier closes when the last thread of the volley *)
(* it let through has left, and holds back the threads that call Wait() in  *)
(* between (the "pre-waiters" of AutoResetManager).                         *)
(*                                                                         *)
(* Every method holds the mutex throughout and is one action; Wait() is cut *)
(* where it sleeps.  A thread inside Wait() is                              *)
(*    "pre"       asleep on m_Rcondition until the reset is over;           *)
(*    "prewoken"  back from that sleep, about to own the mutex;             *)
(*    "blocked"   asleep on m_condition;                                    *)
(*    "woken"     back from that sleep, about to own the mutex;             *)
(*    "expired"   the same, with ETIMEDOUT.                                 *)
(* Destroy() sleeps too, but polls every 100 ms: it needs no wait set.      *)
(***************************************************************************)
EXTENDS Integers, FiniteSets

CONSTANTS
    Threads,        \* the threads that call Wait()
    UnlockCounts,   \* the UnlockCount given to Create() and Reset()
    PostCounts      \* the nCount given to Post()

ASSUME BarrierAssumption ==
    /\ IsFiniteSet(Threads)
    /\ UnlockCounts \subseteq Nat
    /\ PostCounts \subseteq Nat \ {0}

VARIABLES
    init,           \* BARRIER_FLAG_INIT
    autoReset,      \* BARRIER_FLAG_AUTO_RESET
    resetting,      \* BARRIER_FLAG_RESETTING
    unblocking,     \* BARRIER_FLAG_UNBLOCKING
    destroying,     \* BARRIER_FLAG_DESTROYING
    unlockCount,    \* m_UnlockCount
    curCount,       \* m_CurCount
    numWaiters,     \* m_NumWaiters
    numPreWaiters,  \* m_NumPreWaiters
    pc,             \* where each thread stands
    timed,          \* whether the Wait() a thread is in has a timeout
    res,            \* what the last Wait() of each thread returned
    volley,         \* history: the threads an opening let through, not yet out
    flushed,        \* history: the waiters an UnblockAll() found, not yet out
    overlooked      \* history: the pre-waiters it found, not yet out

created == <<init, autoReset, unlockCount>>
counts == <<numWaiters, numPreWaiters>>
history == <<volley, flushed, overlooked>>
vars == <<created, resetting, unblocking, destroying, curCount, counts,
          pc, timed, res, history>>

Inside == {"blocked", "woken", "expired"}   \* counted by m_NumWaiters
Before == {"pre", "prewoken"}               \* counted by m_NumPreWaiters

Waiters == {t \in Threads : pc[t] \in Inside}
PreWaiters == {t \in Threads : pc[t] \in Before}

Open == curCount >= unlockCount
Cancelling == unblocking \/ destroying

\* A slip: the next callers are not held back.
HoldsNobody == FALSE

HoldsBack == autoReset /\ resetting

Smaller(m, n) == IF m < n THEN m ELSE n

Init ==
    /\ init = FALSE
    /\ autoReset = FALSE
    /\ resetting = FALSE
    /\ unblocking = FALSE
    /\ destroying = FALSE
    /\ unlockCount = 0
    /\ curCount = 0
    /\ numWaiters = 0
    /\ numPreWaiters = 0
    /\ pc = [t \in Threads |-> "idle"]
    /\ timed = [t \in Threads |-> FALSE]
    /\ res = [t \in Threads |-> "none"]
    /\ volley = {}
    /\ flushed = {}
    /\ overlooked = {}

\* A slip: m_Rcondition is never broadcast.
WakeMain(conds) ==
    [t \in Threads |->
        IF pc[t] = "blocked" /\ "main" \in conds THEN "woken" ELSE pc[t]]

\* The threads asleep on the condition variables in conds are woken.
Wake(conds) ==
    [t \in Threads |->
        IF pc[t] = "blocked" /\ "main" \in conds THEN "woken"
        ELSE IF pc[t] = "pre" /\ "reset" \in conds THEN "prewoken"
        ELSE pc[t]]

--------------------------------------------------------------------------------
(* The methods that do not wait. *)

Create(count, auto) ==
    /\ ~init
    /\ init' = TRUE
    /\ autoReset' = auto
    /\ resetting' = FALSE
    /\ unblocking' = FALSE
    /\ destroying' = FALSE
    /\ unlockCount' = IF count > 0 THEN count ELSE 1
    /\ curCount' = 0
    /\ UNCHANGED <<counts, pc, timed, res, history>>

Reset(count) ==
    /\ init
    /\ ~autoReset
    /\ ~Cancelling
    /\ curCount' = 0
    /\ unlockCount' = IF count > 0 THEN count ELSE unlockCount
    /\ UNCHANGED <<init, autoReset, resetting, unblocking, destroying, counts,
                   pc, timed, res, history>>

\* A Post that does not open the barrier, or finds it open.
PostCounted(n) ==
    /\ init
    /\ ~Cancelling
    /\ LET count == curCount + Smaller(n, unlockCount - curCount)
       IN  /\ ~(autoReset /\ ~Open /\ count >= unlockCount)
           /\ curCount' = count
           /\ pc' = IF count >= unlockCount THEN Wake({"main"}) ELSE pc
    /\ UNCHANGED <<created, resetting, unblocking, destroying, counts, timed,
                   res, history>>

\* A Post that opens an auto-reset barrier starts the reset: at once if nobody
\* waits, otherwise when the volley has left.
PostOpensAuto(n) ==
    /\ init
    /\ ~Cancelling
    /\ autoReset
    /\ ~Open
    /\ curCount + n >= unlockCount
    /\ IF numWaiters = 0
       THEN /\ curCount' = 0
            /\ resetting' = FALSE
            /\ pc' = Wake({"main", "reset"})
       ELSE /\ curCount' = unlockCount
            /\ resetting' = TRUE
            /\ pc' = Wake({"main"})
    /\ volley' = Waiters
    /\ UNCHANGED <<created, unblocking, destroying, counts, timed, res, flushed,
                   overlooked>>

Post(n) == PostCounted(n) \/ PostOpensAuto(n)

\* UnblockAll() on an initialised barrier: with nobody to unblock it is over at
\* once, which closes an auto-reset barrier and leaves a manual-reset one open.
Flush ==
    LET nobody == numWaiters + numPreWaiters = 0
    IN  /\ unblocking' = ~nobody
        /\ curCount' = IF nobody /\ autoReset THEN 0 ELSE unlockCount
        /\ resetting' = FALSE
        /\ pc' = Wake({"main", "reset"})
        /\ flushed' = flushed \cup Waiters
        /\ overlooked' = overlooked \cup PreWaiters

UnblockAll ==
    /\ init
    /\ Flush
    /\ UNCHANGED <<created, destroying, counts, timed, res, volley>>

\* The owner of the barrier destroys it once: the waiters are sent away ...
DestroyBegin ==
    /\ init
    /\ ~destroying
    /\ destroying' = TRUE
    /\ Flush
    /\ UNCHANGED <<created, counts, timed, res, volley>>

\* ... and the condition variables go when the last of them has left.
DestroyEnd ==
    /\ destroying
    /\ numWaiters + numPreWaiters = 0
    /\ init' = FALSE
    /\ destroying' = FALSE
    /\ UNCHANGED <<autoReset, unlockCount, resetting, unblocking, curCount, counts,
                   pc, timed, res, history>>

--------------------------------------------------------------------------------
(* Wait() and Wait(Timeout). *)

\* A slip: the first waiter out ends the reset.
AnyoneOut(n) == resetting \/ unblocking

\* The waiter that brings m_NumWaiters to n is the last one of a reset or of an
\* unblocking.
LastOut(n) == n = 0 /\ (resetting \/ unblocking)

\* A slip: an auto-reset barrier is not closed after UnblockAll().
ClosesAfterReset(n) == LastOut(n) /\ autoReset /\ resetting

Closes(n) == LastOut(n) /\ autoReset

\* t returns, and RemoveWaiter() brings m_NumWaiters to n: the last one out ends
\* the reset or the unblocking, and closes an auto-reset barrier.
Leave(t, n, value) ==
    /\ numWaiters' = n
    /\ resetting' = (resetting /\ ~LastOut(n))
    /\ unblocking' = (unblocking /\ ~LastOut(n))
    /\ curCount' = IF Closes(n) THEN 0 ELSE curCount
    /\ pc' = [(IF Closes(n) THEN Wake({"reset"}) ELSE pc) EXCEPT ![t] = "idle"]
    /\ timed' = [timed EXCEPT ![t] = FALSE]
    /\ res' = [res EXCEPT ![t] = value]
    /\ volley' = volley \ {t}
    /\ flushed' = flushed \ {t}
    /\ overlooked' = overlooked \ {t}
    /\ UNCHANGED <<created, destroying>>

\* A slip: the flags are not looked at.
VerdictByCount == IF Open THEN "true" ELSE "false"

Verdict == IF Open /\ ~Cancelling THEN "true" ELSE "false"

\* The caller has the result of Wait(), and may call again.
Returned(t) ==
    /\ pc[t] = "idle"
    /\ res[t] # "none"
    /\ res' = [res EXCEPT ![t] = "none"]
    /\ UNCHANGED <<created, resetting, unblocking, destroying, curCount, counts,
                   pc, timed, history>>

Calls(t) == pc[t] = "idle" /\ res[t] = "none"

WaitRefused(t) ==
    /\ Calls(t)
    /\ ~init \/ Cancelling
    /\ res' = [res EXCEPT ![t] = "false"]
    /\ UNCHANGED <<created, resetting, unblocking, destroying, curCount, counts,
                   pc, timed, history>>

MayCall(t) == Calls(t) /\ init /\ ~Cancelling

\* A slip: a thread sleeps on a closed barrier that is being destroyed.
SleepIfClosed(t, n) ==
    /\ ~Open
    /\ numWaiters' = n
    /\ pc' = [pc EXCEPT ![t] = "blocked"]
    /\ UNCHANGED <<created, resetting, unblocking, destroying, curCount, history>>

Sleep(t, n) ==
    /\ ~Open
    /\ ~Cancelling
    /\ numWaiters' = n
    /\ pc' = [pc EXCEPT ![t] = "blocked"]
    /\ UNCHANGED <<created, resetting, unblocking, destroying, curCount, history>>

\* AddWaiter() of a thread that comes while the barrier is being reset.
WaitHeldBack(t) ==
    /\ MayCall(t)
    /\ HoldsBack
    /\ numPreWaiters' = numPreWaiters + 1
    /\ pc' = [pc EXCEPT ![t] = "pre"]
    /\ timed' \in {timed, [timed EXCEPT ![t] = TRUE]}
    /\ UNCHANGED <<created, resetting, unblocking, destroying, curCount, numWaiters,
                   res, history>>

WaitBlocks(t) ==
    /\ MayCall(t)
    /\ ~HoldsBack
    /\ Sleep(t, numWaiters + 1)
    /\ timed' \in {timed, [timed EXCEPT ![t] = TRUE]}
    /\ UNCHANGED <<numPreWaiters, res>>

\* A slip: RemoveWaiter() without an AddWaiter() before it.
WaitPassesUnbalanced(t) ==
    /\ MayCall(t)
    /\ ~HoldsBack
    /\ Open
    /\ Leave(t, numWaiters - 1, Verdict)
    /\ UNCHANGED numPreWaiters

WaitPasses(t) ==
    /\ MayCall(t)
    /\ ~HoldsBack
    /\ Open
    /\ Leave(t, numWaiters, Verdict)
    /\ UNCHANGED numPreWaiters

\* A pre-waiter owns the mutex again: the reset may be on (another one), or it
\* becomes a waiter, and then sleeps or returns like any other.
PreSleepsAgain(t) ==
    /\ pc[t] = "prewoken"
    /\ HoldsBack
    /\ pc' = [pc EXCEPT ![t] = "pre"]
    /\ UNCHANGED <<created, resetting, unblocking, destroying, curCount, counts,
                   timed, res, history>>

PreBlocks(t) ==
    /\ pc[t] = "prewoken"
    /\ ~HoldsBack
    /\ Sleep(t, numWaiters + 1)
    /\ numPreWaiters' = numPreWaiters - 1
    /\ UNCHANGED <<timed, res>>

PrePasses(t) ==
    /\ pc[t] = "prewoken"
    /\ ~HoldsBack
    /\ Open \/ Cancelling
    /\ Leave(t, numWaiters, Verdict)
    /\ numPreWaiters' = numPreWaiters - 1

\* A waiter owns the mutex again.
WokenBlocks(t) ==
    /\ pc[t] = "woken"
    /\ Sleep(t, numWaiters)
    /\ UNCHANGED <<numPreWaiters, timed, res>>

WokenLeaves(t) ==
    /\ pc[t] = "woken"
    /\ Open \/ Cancelling
    /\ Leave(t, numWaiters - 1, Verdict)
    /\ UNCHANGED numPreWaiters

\* A slip: no RemoveWaiter() on the way out of a timeout.
ExpiredStaysCounted(t) ==
    /\ pc[t] = "expired"
    /\ Leave(t, numWaiters, "false")
    /\ UNCHANGED numPreWaiters

ExpiredLeaves(t) ==
    /\ pc[t] = "expired"
    /\ Leave(t, numWaiters - 1, "false")
    /\ UNCHANGED numPreWaiters

\* The deadline passes.  It does not run while the thread is held back.
Expire(t) ==
    /\ pc[t] = "blocked"
    /\ timed[t]
    /\ pc' = [pc EXCEPT ![t] = "expired"]
    /\ UNCHANGED <<created, resetting, unblocking, destroying, curCount, counts,
                   timed, res, history>>

\* A condition wait may end without a signal, or by the 100 ms timeout that
\* AutoResetManager::UnblockAll() gives the pre-waiters.
SpuriousWake(t) ==
    /\ pc[t] \in {"blocked", "pre"}
    /\ pc' = [pc EXCEPT ![t] = IF pc[t] = "pre" THEN "prewoken" ELSE "woken"]
    /\ UNCHANGED <<created, resetting, unblocking, destroying, curCount, counts,
                   timed, res, history>>

--------------------------------------------------------------------------------
Owner ==
    \/ \E count \in UnlockCounts, auto \in BOOLEAN : Create(count, auto)
    \/ \E count \in UnlockCounts : Reset(count)
    \/ \E n \in PostCounts : Post(n)
    \/ UnblockAll
    \/ DestroyBegin

Call(t) ==
    \/ WaitRefused(t) \/ WaitHeldBack(t) \/ WaitBlocks(t) \/ WaitPasses(t)
    \/ Returned(t)

Resume(t) ==
    \/ PreSleepsAgain(t) \/ PreBlocks(t) \/ PrePasses(t)
    \/ WokenBlocks(t) \/ WokenLeaves(t) \/ ExpiredLeaves(t)

Next ==
    \/ Owner
    \/ DestroyEnd
    \/ \E t \in Threads : Call(t) \/ Resume(t) \/ Expire(t) \/ SpuriousWake(t)

Spec == Init /\ [][Next]_vars

\* A woken thread gets the mutex, a deadline passes, Destroy() polls.
Fairness ==
    /\ WF_vars(DestroyEnd)
    /\ \A t \in Threads : WF_vars(Resume(t)) /\ SF_vars(Expire(t))

FairSpec == Spec /\ Fairness

--------------------------------------------------------------------------------
(* Properties. *)

TypeOK ==
    /\ init \in BOOLEAN /\ autoReset \in BOOLEAN
    /\ resetting \in BOOLEAN /\ unblocking \in BOOLEAN /\ destroying \in BOOLEAN
    /\ unlockCount \in Nat
    /\ curCount \in Nat
    /\ numWaiters \in Nat
    /\ numPreWaiters \in Nat
    /\ pc \in [Threads -> {"idle"} \cup Inside \cup Before]
    /\ timed \in [Threads -> BOOLEAN]
    /\ res \in [Threads -> {"none", "true", "false"}]
    /\ volley \subseteq Threads
    /\ flushed \subseteq Threads
    /\ overlooked \subseteq Threads

\* The two counters count the threads inside Wait(), the waiters and those held
\* back, on every way in and out: RemoveWaiter() and Destroy() rely on it.
CountersExact ==
    /\ numWaiters = Cardinality(Waiters)
    /\ numPreWaiters = Cardinality(PreWaiters)

\* Nobody sleeps at an open barrier or through an unblocking: every change that
\* ends a wait also broadcasts the condition.
NoSleeperLeftBehind ==
    (Open \/ Cancelling) => \A t \in Threads : pc[t] # "blocked"

\* A thread asleep in AddWaiter() has somebody who will wake it: the barrier is
\* resetting, and a thread that will end the reset is still inside.
PreWaiterHasReset ==
    (\E t \in Threads : pc[t] = "pre") => (resetting /\ numWaiters > 0)

\* An auto-reset barrier is open only for the volley it lets through: whenever
\* new calls are admitted, it is closed.
AutoResetCloses == (init /\ autoReset /\ Open) => (resetting \/ Cancelling)

Leaves(t, value) ==
    pc[t] # "idle" /\ pc'[t] = "idle" /\ res'[t] = value

\* "all threads blocked in Wait() calls at the time of unlock are resumed [...]
\* before any thread is allowed to proceed through another Wait()": while a
\* volley is under way, only those return true who belong to it and have not
\* returned yet, so that a member that calls again does not pass twice.
OneVolleyAtATime ==
    [][\A t \in Threads :
          (autoReset /\ volley # {} /\ res[t] # "true" /\ res'[t] = "true")
             => t \in volley]_vars

\* A thread the opening caught in Wait() returns true, unless its deadline had
\* passed or an UnblockAll() found it, and does not go back to sleep because the
\* barrier has closed again: a volley does not lose members.
VolleyGetsThrough ==
    [][\A t \in Threads :
          (t \in volley /\ pc[t] # "expired" /\ t \notin flushed)
             => ~Leaves(t, "false") /\ pc'[t] # "blocked"]_vars

\* UnblockAll() fails the threads that were asleep on the barrier: none of them
\* returns true or goes back to sleep.
UnblockedWaitersFail ==
    [][\A t \in Threads :
          t \in flushed => ~Leaves(t, "true") /\ pc'[t] # "blocked"]_vars

\* The same for every thread in Wait(): Barrier.h says "All waiters became
\* unblocked and will return false from their Wait() calls".  A thread held back
\* by an auto-reset is not: it may wait on, and pass the next opening.
UnblockedFail ==
    [][\A t \in Threads : t \in flushed \cup overlooked => ~Leaves(t, "true")]_vars

\* Destroy() ends, and with it every Wait(), pre-waiters included.
DestroyEnds == destroying ~> ~init

================================================================================
