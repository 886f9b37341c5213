---------------------------- MODULE SemaphoreProofs ----------------------------
(***************************************************************************)
(* Proofs about Semaphore, for any set of threads and any counts.           *)
(*                                                                         *)
(* The argument hangs on m_WaitCount: Reset() and Create() run only when it *)
(* says that nobody waits, and the last waiter out ends an unblocking.  The *)
(* count is exact, so "the last waiter" and "nobody waits" mean what they   *)
(* say; hence an unblocking lasts as long as a thread it released is still  *)
(* inside, and the count is positive beside a sleeper only if a wakeup is   *)
(* on its way.                                                              *)
(***************************************************************************)
EXTENDS Semaphore, FiniteSetTheorems, TLAPS

\* A thread that an UnblockAll() found in Wait() is still there, and the
\* unblocking is not over: no waiter that leaves before it can end it.
FlushedWait == \A t \in Threads : flushed[t] => pc[t] \in Inside /\ unblocked

IInv ==
    /\ TypeOK
    /\ WaitCountExact
    /\ NoLostWakeup
    /\ CountUpExact
    /\ FlushedWait

--------------------------------------------------------------------------------
(* How a step changes who waits and who sleeps. *)

\* m_WaitCount is zero exactly when nobody waits.
LEMMA NobodyWaits ==
    ASSUME WaitCountExact
    PROVE  /\ IsFiniteSet(Waiters)
           /\ waitCount = 0 <=> Waiters = {}
<1>1. IsFiniteSet(Waiters)
    BY SemaphoreAssumption, FS_Subset DEF Waiters
<1>2. QED
    BY <1>1, FS_EmptySet DEF WaitCountExact

\* A thread outside Wait() enters the wait set.
LEMMA Entering ==
    ASSUME TypeOK, WaitCountExact,
           NEW t \in Threads, pc[t] \notin Inside,
           pc' = [pc EXCEPT ![t] = "blocked"]
    PROVE  Cardinality(Waiters') = waitCount + 1
<1>1. Waiters' = Waiters \cup {t} /\ t \notin Waiters
    BY DEF TypeOK, Waiters, Inside
<1>2. QED
    BY <1>1, NobodyWaits, FS_AddElement DEF WaitCountExact

\* A thread leaves Wait().
LEMMA Leaving ==
    ASSUME TypeOK, WaitCountExact,
           NEW t \in Threads, pc[t] \in Inside,
           pc' = [pc EXCEPT ![t] = "idle"]
    PROVE  /\ Cardinality(Waiters') = waitCount - 1
           /\ waitCount - 1 \in Nat
           /\ Sleepers' = Sleepers \ {t}
           /\ waitCount - 1 = 0 => Waiters' = {}
<1>1. Waiters' = Waiters \ {t} /\ t \in Waiters /\ Sleepers' = Sleepers \ {t}
    BY DEF TypeOK, Waiters, Sleepers, Inside
<1>2. IsFiniteSet(Waiters') /\ Cardinality(Waiters') = waitCount - 1
    BY <1>1, NobodyWaits, FS_RemoveElement DEF WaitCountExact
<1>3. waitCount - 1 \in Nat /\ (waitCount - 1 = 0 => Waiters' = {})
    BY <1>2, FS_CardinalityType, FS_EmptySet
<1>4. QED
    BY <1>1, <1>2, <1>3

\* Nobody waits after a step that only moves threads between the places outside.
LEMMA StayingOutside ==
    ASSUME TypeOK, NEW t \in Threads, pc[t] \notin Inside,
           NEW place \in {"idle", "checked"},
           pc' = [pc EXCEPT ![t] = place]
    PROVE  Waiters' = Waiters /\ Sleepers' = Sleepers
BY DEF TypeOK, Waiters, Sleepers, Inside

\* A thread inside Wait() is woken, expires or sleeps again.
LEMMA StayingInside ==
    ASSUME TypeOK, NEW t \in Threads, pc[t] \in Inside,
           NEW place \in Inside,
           pc' = [pc EXCEPT ![t] = place]
    PROVE  Waiters' = Waiters
BY DEF TypeOK, Waiters, Inside

\* A broadcast empties the wait set and lets nobody out.
LEMMA Broadcasting ==
    ASSUME TypeOK, Broadcast
    PROVE  /\ Waiters' = Waiters
           /\ Sleepers' = {}
           /\ pc' \in [Threads -> {"idle", "checked"} \cup Inside]
BY DEF TypeOK, Broadcast, Waiters, Sleepers, Inside

\* A signal lets nobody out either, and a sleeper, if there is one, wakes.
LEMMA Signalling ==
    ASSUME TypeOK, Signal
    PROVE  /\ Waiters' = Waiters
           /\ Sleepers # {} => \E t \in Threads : pc'[t] = "woken"
           /\ Sleepers' \subseteq Sleepers
           /\ pc' \in [Threads -> {"idle", "checked"} \cup Inside]
BY DEF TypeOK, Signal, Waiters, Sleepers, Inside

--------------------------------------------------------------------------------
(* The inductive invariant. *)

LEMMA InitIInv == Init => IInv
<1> SUFFICES ASSUME Init PROVE IInv
    OBVIOUS
<1>1. Waiters = {}
    BY DEF Init, Waiters, Inside
<1>2. TypeOK
  <2>1. /\ timed \in [Threads -> BOOLEAN] /\ flushed \in [Threads -> BOOLEAN]
        /\ pc \in [Threads -> {"idle", "checked"} \cup Inside]
        /\ res \in [Threads -> {"none", "true", "false"}]
        /\ ok \in BOOLEAN /\ unblocked \in BOOLEAN
      BY Zenon DEF Init
  <2>2. maxCount = 0 /\ curCount = 0 /\ waitCount = 0 /\ missing = 0
      BY Zenon DEF Init
  <2>3. QED
      BY <2>1, <2>2 DEF TypeOK
<1>3. WaitCountExact
    BY <1>1, FS_EmptySet DEF Init, WaitCountExact
<1>4. NoLostWakeup /\ CountUpExact
    BY DEF Init, NoLostWakeup, CountUpExact
<1>5. FlushedWait
    BY Zenon DEF Init, FlushedWait
<1>6. QED
    BY <1>2, <1>3, <1>4, <1>5 DEF IInv

\* The counts that Create() and Reset() compute, for every argument a program
\* may give: they are integers, no larger than the maximum, and a negative one
\* is one above its argument.
LEMMA Counts ==
    ASSUME NEW n \in InitialCounts, NEW max \in MaxCounts
    PROVE  /\ CreateMax(n, max) \in Nat \ {0}
           /\ CreateCur(n, max) \in Int
           /\ CreateCur(n, max) <= CreateMax(n, max)
           /\ CountUp(n) \in Int
           /\ Positive(-n) \in Nat
           /\ Positive(-n) > 0 =>
                 CreateCur(n, max) = 1 - Positive(-n) /\ CountUp(n) = 1 - Positive(-n)
BY SemaphoreAssumption DEF CreateMax, CreateCur, CountUp, Positive

\* The owner's methods.
LEMMA OwnerIInv == IInv /\ Owner => IInv'
<1> SUFFICES ASSUME IInv, Owner PROVE IInv'
    OBVIOUS
<1> USE DEF IInv
<1>1. ASSUME NEW n \in InitialCounts, NEW max \in MaxCounts, Create(n, max)
      PROVE  IInv'
  <2>1. Waiters = {} /\ Waiters' = {} /\ Sleepers' = {}
      BY <1>1 DEF Create, thrVars, Waiters, Sleepers, Inside
  <2>2. TypeOK'
      BY <1>1, Counts DEF Create, TypeOK, thrVars
  <2>3. WaitCountExact'
      BY <1>1, <2>1 DEF Create, WaitCountExact
  <2>4. NoLostWakeup'
      BY <2>1 DEF NoLostWakeup
  <2>5. CountUpExact'
      BY <1>1, Counts DEF Create, CountUpExact
  <2>6. FlushedWait'
      BY <1>1 DEF Create, FlushedWait, thrVars, Inside
  <2>7. QED
      BY <2>2, <2>3, <2>4, <2>5, <2>6
<1>2. ASSUME NEW n \in InitialCounts, Reset(n)
      PROVE  IInv'
  <2>1. Waiters = {} /\ Waiters' = Waiters /\ Sleepers' = {}
      BY <1>2, NobodyWaits DEF Reset, thrVars, Waiters, Sleepers, Inside
  <2>2. CountUp(n) \in Int /\ Positive(-n) \in Nat
        /\ (Positive(-n) > 0 => CountUp(n) = 1 - Positive(-n))
      BY SemaphoreAssumption DEF CountUp, Positive
  <2>3. TypeOK'
      BY <1>2, <2>2 DEF Reset, TypeOK, thrVars
  <2>4. WaitCountExact' /\ NoLostWakeup'
      BY <1>2, <2>1 DEF Reset, WaitCountExact, NoLostWakeup
  <2>5. CountUpExact'
      BY <1>2, <2>2 DEF Reset, CountUpExact
  <2>6. FlushedWait'
      BY <1>2 DEF Reset, FlushedWait, thrVars
  <2>7. QED
      BY <2>3, <2>4, <2>5, <2>6
<1>3. ASSUME NEW n \in PostCounts, Post(n)
      PROVE  IInv'
  <2>1. n \in Nat \ {0} /\ curCount + n \in Int
      BY SemaphoreAssumption DEF TypeOK
  <2>2. /\ pc' \in [Threads -> {"idle", "checked"} \cup Inside]
        /\ Waiters' = Waiters
        /\ curCount + n > 0 /\ Sleepers' # {} =>
              curCount + n = 1 /\ \E t \in Threads : pc'[t] = "woken"
    <3>1. CASE curCount + n <= 0
        BY <1>3, <2>1, <3>1 DEF Post, PostWakes, TypeOK, Waiters
    <3>2. CASE curCount + n = 1
      <4>1. Signal
          BY <1>3, <3>2 DEF Post, PostWakes
      <4>2. QED
          BY <4>1, <3>2, Signalling
    <3>3. CASE curCount + n > 1
      <4>1. Broadcast
          BY <1>3, <2>1, <3>3 DEF Post, PostWakes
      <4>2. QED
          BY <4>1, Broadcasting
    <3>4. QED
        BY <2>1, <3>1, <3>2, <3>3
  <2>3. TypeOK'
      BY <1>3, <2>1, <2>2 DEF Post, TypeOK, Positive
  <2>4. WaitCountExact'
      BY <1>3, <2>2 DEF Post, WaitCountExact
  <2>5. NoLostWakeup'
      BY <1>3, <2>2 DEF Post, NoLostWakeup
  <2>6. CountUpExact'
      BY <1>3, <2>1 DEF Post, CountUpExact, Positive, TypeOK
  <2>7. FlushedWait'
    <3> SUFFICES ASSUME NEW t \in Threads, flushed'[t]
                 PROVE  pc'[t] \in Inside /\ unblocked'
        BY DEF FlushedWait
    <3>1. pc[t] \in Inside /\ unblocked
        BY <1>3 DEF Post, FlushedWait
    <3>2. pc'[t] \in Inside
        BY <2>2, <3>1 DEF Waiters
    <3>3. QED
        BY <1>3, <3>1, <3>2 DEF Post
  <2>8. QED
      BY <2>3, <2>4, <2>5, <2>6, <2>7
<1>4. ASSUME Flush, UNCHANGED <<maxCount, waitCount, timed, res>>, ok' \in BOOLEAN
      PROVE  IInv'
  <2>1. /\ pc' \in [Threads -> {"idle", "checked"} \cup Inside]
        /\ Waiters' = Waiters
      BY <1>4, Broadcasting DEF Flush, TypeOK, Waiters
  <2>2. TypeOK'
      BY <1>4, <2>1 DEF Flush, TypeOK
  <2>3. WaitCountExact'
      BY <1>4, <2>1 DEF WaitCountExact
  <2>4. NoLostWakeup' /\ CountUpExact'
      BY <1>4 DEF Flush, NoLostWakeup, CountUpExact
  <2>5. FlushedWait'
    <3> SUFFICES ASSUME NEW t \in Threads, flushed'[t]
                 PROVE  pc'[t] \in Inside /\ unblocked'
        BY DEF FlushedWait
    <3>1. flushed[t] \/ t \in Waiters
        BY <1>4 DEF Flush
    <3>2. t \in Waiters'
        BY <3>1, <2>1 DEF FlushedWait, Waiters
    <3>3. QED
        BY <1>4, <3>2 DEF Flush, Waiters
  <2>6. QED
      BY <2>2, <2>3, <2>4, <2>5
<1>5. CASE UnblockAll
    BY <1>4, <1>5 DEF UnblockAll, TypeOK
<1>6. CASE Destroy
    BY <1>4, <1>6 DEF Destroy
<1>7. QED
    BY <1>1, <1>2, <1>3, <1>5, <1>6 DEF Owner

\* A Wait() that does not yet wait, or does not have to.
LEMMA CallIInv ==
    ASSUME IInv, NEW t \in Threads, Call(t)
    PROVE  IInv'
<1> USE DEF IInv
<1>1. CASE WaitTimed(t)
  <2>1. Waiters' = Waiters /\ Sleepers' = Sleepers
      BY <1>1, StayingOutside DEF WaitTimed, Inside
  <2>2. TypeOK'
      BY <1>1 DEF WaitTimed, TypeOK, semVars
  <2>3. WaitCountExact' /\ CountUpExact'
      BY <1>1, <2>1 DEF WaitTimed, WaitCountExact, CountUpExact, semVars
  <2>4. NoLostWakeup'
      BY <1>1, <2>1 DEF WaitTimed, NoLostWakeup, TypeOK, semVars
  <2>5. FlushedWait'
      BY <1>1 DEF WaitTimed, FlushedWait, TypeOK, Inside, semVars
  <2>6. QED
      BY <2>2, <2>3, <2>4, <2>5
<1>2. CASE EnterTakes(t)
  <2>1. pc[t] \notin Inside
      BY <1>2 DEF EnterTakes, MayEnter, Inside
  <2>2. Waiters' = Waiters /\ Sleepers' = Sleepers
      BY <1>2, <2>1, StayingOutside DEF EnterTakes, Return
  <2>3. TypeOK'
      BY <1>2 DEF EnterTakes, DelWaiter, Return, TypeOK
  <2>4. WaitCountExact'
      BY <1>2, <2>2 DEF EnterTakes, DelWaiter, WaitCountExact
  <2>5. NoLostWakeup'
    <3> SUFFICES ASSUME curCount' > 0, ~unblocked', Sleepers # {}
                 PROVE  FALSE
        BY <2>2 DEF NoLostWakeup
    <3>1. ~unblocked
        BY <1>2, NobodyWaits DEF EnterTakes, DelWaiter, Sleepers, Waiters, Inside
    <3>2. curCount = 1
        BY <1>2, <3>1 DEF EnterTakes, NoLostWakeup
    <3>3. QED
        BY <1>2, <3>2 DEF EnterTakes
  <2>6. CountUpExact'
      BY <1>2 DEF EnterTakes, CountUpExact, TypeOK
  <2>7. FlushedWait'
    <3> SUFFICES ASSUME NEW s \in Threads, flushed'[s]
                 PROVE  pc'[s] \in Inside /\ unblocked'
        BY DEF FlushedWait
    <3>1. s # t /\ flushed[s]
        BY <1>2 DEF EnterTakes, Return, TypeOK
    <3>2. pc[s] \in Inside /\ unblocked /\ s \in Waiters
        BY <3>1 DEF FlushedWait, Waiters
    <3>3. QED
        BY <1>2, <3>1, <3>2, NobodyWaits DEF EnterTakes, DelWaiter, Return, TypeOK
  <2>8. QED
      BY <2>3, <2>4, <2>5, <2>6, <2>7
<1>3. CASE EnterBlocks(t)
  <2>1. pc[t] \notin Inside
      BY <1>3 DEF EnterBlocks, MayEnter, Inside
  <2>2. TypeOK'
      BY <1>3 DEF EnterBlocks, TypeOK, Inside
  <2>3. WaitCountExact'
      BY <1>3, <2>1, Entering DEF EnterBlocks, WaitCountExact
  <2>4. NoLostWakeup' /\ CountUpExact'
      BY <1>3 DEF EnterBlocks, NoLostWakeup, CountUpExact, TypeOK
  <2>5. FlushedWait'
      BY <1>3, <2>1 DEF EnterBlocks, FlushedWait, TypeOK
  <2>6. QED
      BY <2>2, <2>3, <2>4, <2>5
<1>4. CASE WaitRefused(t)
  <2>1. Waiters' = Waiters /\ Sleepers' = Sleepers
      BY <1>4, StayingOutside DEF WaitRefused, Return, Inside
  <2>2. TypeOK'
      BY <1>4 DEF WaitRefused, Return, TypeOK, semVars
  <2>3. WaitCountExact' /\ CountUpExact'
      BY <1>4, <2>1 DEF WaitRefused, WaitCountExact, CountUpExact, semVars
  <2>4. NoLostWakeup'
      BY <1>4, <2>1 DEF WaitRefused, Return, NoLostWakeup, TypeOK, semVars
  <2>5. FlushedWait'
      BY <1>4 DEF WaitRefused, Return, FlushedWait, TypeOK, semVars
  <2>6. QED
      BY <2>2, <2>3, <2>4, <2>5
<1>5. QED
    BY <1>1, <1>2, <1>3, <1>4 DEF Call

\* A thread leaves Wait() and DEL_WAITER runs: the waiters that remain keep
\* the unblocking alive, and if none remains there is no sleeper either.
LEMMA LeavingIInv ==
    ASSUME IInv, NEW t \in Threads, pc[t] \in Inside,
           NEW value \in {"true", "false"},
           DelWaiter(waitCount - 1), Return(t, value),
           UNCHANGED <<ok, maxCount, missing>>,
           curCount' \in Int, CountUpExact', NoLostWakeup'
    PROVE  IInv'
<1> USE DEF IInv
<1>1. /\ Cardinality(Waiters') = waitCount - 1
      /\ waitCount - 1 \in Nat
      /\ waitCount - 1 = 0 => Waiters' = {}
    BY Leaving DEF Return
<1>2. TypeOK'
    BY <1>1 DEF DelWaiter, Return, TypeOK
<1>3. WaitCountExact'
    BY <1>1 DEF DelWaiter, WaitCountExact
<1>4. FlushedWait'
  <2> SUFFICES ASSUME NEW s \in Threads, flushed'[s]
               PROVE  pc'[s] \in Inside /\ unblocked'
      BY DEF FlushedWait
  <2>1. s # t /\ flushed[s]
      BY DEF Return, TypeOK
  <2>2. pc[s] \in Inside /\ unblocked
      BY <2>1 DEF FlushedWait
  <2>3. pc'[s] \in Inside
      BY <2>1, <2>2 DEF Return, TypeOK
  <2>4. Waiters' # {}
      BY <2>3 DEF Waiters
  <2>5. QED
      BY <1>1, <2>2, <2>3, <2>4 DEF DelWaiter
<1>5. QED
    BY <1>2, <1>3, <1>4

\* The ways out of pthread_cond_wait.
LEMMA ResumeIInv ==
    ASSUME IInv, NEW t \in Threads, Resume(t)
    PROVE  IInv'
<1> USE DEF IInv
<1>1. CASE ResumeExpired(t)
  <2>1. pc[t] \in Inside /\ pc[t] # "woken"
      BY <1>1 DEF ResumeExpired, Inside
  <2>2. /\ waitCount - 1 \in Nat
        /\ Sleepers' = Sleepers \ {t}
        /\ waitCount - 1 = 0 => Waiters' = {}
      BY <1>1, <2>1, Leaving DEF ResumeExpired, Return
  <2>3. NoLostWakeup'
    <3> SUFFICES ASSUME curCount' > 0, ~unblocked', Sleepers' # {}
                 PROVE  curCount' = 1 /\ \E s \in Threads : pc'[s] = "woken"
        BY DEF NoLostWakeup
    <3>1. Waiters' # {}
        BY DEF Sleepers, Waiters, Inside
    <3>2. ~unblocked /\ curCount' = curCount /\ Sleepers # {}
        BY <1>1, <2>2, <3>1 DEF ResumeExpired, DelWaiter
    <3>3. PICK s \in Threads : curCount = 1 /\ pc[s] = "woken"
        BY <3>2 DEF NoLostWakeup
    <3>4. pc'[s] = "woken"
        BY <1>1, <2>1, <3>3 DEF ResumeExpired, Return, TypeOK
    <3>5. QED
        BY <3>2, <3>3, <3>4
  <2>4. CountUpExact'
      BY <1>1 DEF ResumeExpired, CountUpExact
  <2>5. QED
      BY <1>1, <2>1, <2>3, <2>4, LeavingIInv DEF ResumeExpired, TypeOK
<1>2. CASE ResumeUnblocked(t)
  <2>1. pc[t] \in Inside
      BY <1>2 DEF ResumeUnblocked, Inside
  <2>2. waitCount - 1 = 0 => Waiters' = {}
      BY <1>2, <2>1, Leaving DEF ResumeUnblocked, Return
  <2>3. NoLostWakeup'
      BY <1>2, <2>2 DEF ResumeUnblocked, DelWaiter, NoLostWakeup, Sleepers, Waiters, Inside
  <2>4. CountUpExact'
      BY <1>2 DEF ResumeUnblocked, CountUpExact
  <2>5. QED
      BY <1>2, <2>1, <2>3, <2>4, LeavingIInv DEF ResumeUnblocked, TypeOK
<1>3. CASE ResumeTakes(t)
  <2>1. pc[t] \in Inside
      BY <1>3 DEF ResumeTakes, Inside
  <2>2. Sleepers' = Sleepers \ {t}
      BY <1>3, <2>1, Leaving DEF ResumeTakes, Return
  <2>3. NoLostWakeup'
      BY <1>3, <2>2 DEF ResumeTakes, NoLostWakeup, TypeOK
  <2>4. CountUpExact'
      BY <1>3 DEF ResumeTakes, CountUpExact, TypeOK
  <2>5. QED
      BY <1>3, <2>1, <2>3, <2>4, LeavingIInv DEF ResumeTakes, TypeOK
<1>4. CASE ResumeBlocks(t)
  <2>1. Waiters' = Waiters
      BY <1>4, StayingInside DEF ResumeBlocks, Inside
  <2>2. TypeOK'
      BY <1>4 DEF ResumeBlocks, TypeOK, Inside, semVars
  <2>3. WaitCountExact' /\ NoLostWakeup' /\ CountUpExact'
      BY <1>4, <2>1
      DEF ResumeBlocks, WaitCountExact, NoLostWakeup, CountUpExact, TypeOK, semVars
  <2>4. FlushedWait'
      BY <1>4 DEF ResumeBlocks, FlushedWait, TypeOK, Inside, semVars
  <2>5. QED
      BY <2>2, <2>3, <2>4
<1>5. QED
    BY <1>1, <1>2, <1>3, <1>4 DEF Resume

\* A sleeper leaves the wait set by itself.
LEMMA WakeIInv ==
    ASSUME IInv, NEW t \in Threads, Expire(t) \/ SpuriousWake(t)
    PROVE  IInv'
<1> USE DEF IInv
<1>1. PICK place \in {"expired", "woken"} :
        /\ pc[t] = "blocked"
        /\ pc' = [pc EXCEPT ![t] = place]
        /\ UNCHANGED <<semVars, timed, res, flushed, missing>>
    BY DEF Expire, SpuriousWake
<1>2. Waiters' = Waiters
    BY <1>1, StayingInside DEF Inside
<1>3. Sleepers' \subseteq Sleepers
    BY <1>1 DEF Sleepers, TypeOK
<1>4. TypeOK'
    BY <1>1 DEF TypeOK, Inside, semVars
<1>5. WaitCountExact' /\ CountUpExact'
    BY <1>1, <1>2 DEF WaitCountExact, CountUpExact, semVars
<1>6. NoLostWakeup'
    BY <1>1, <1>3 DEF NoLostWakeup, TypeOK, semVars
<1>7. FlushedWait'
    BY <1>1 DEF FlushedWait, TypeOK, Inside, semVars
<1>8. QED
    BY <1>4, <1>5, <1>6, <1>7

LEMMA NextIInv == IInv /\ [Next]_vars => IInv'
<1> SUFFICES ASSUME IInv, [Next]_vars PROVE IInv'
    OBVIOUS
<1>1. CASE Owner
    BY <1>1, OwnerIInv
<1>2. ASSUME NEW t \in Threads, Call(t) PROVE IInv'
    BY <1>2, CallIInv
<1>3. ASSUME NEW t \in Threads, Resume(t) PROVE IInv'
    BY <1>3, ResumeIInv
<1>4. ASSUME NEW t \in Threads, Expire(t) \/ SpuriousWake(t) PROVE IInv'
    BY <1>4, WakeIInv
<1>5. CASE UNCHANGED vars
    BY <1>5
    DEF IInv, TypeOK, WaitCountExact, NoLostWakeup, CountUpExact, FlushedWait,
        Waiters, Sleepers, vars, semVars, thrVars
<1>6. QED
    BY <1>1, <1>2, <1>3, <1>4, <1>5 DEF Next

LEMMA Inductive == Spec => []IInv
BY InitIInv, NextIInv, PTL DEF Spec

--------------------------------------------------------------------------------
(* Theorems. *)

\* Every variable keeps its type: m_WaitCount, a btUnsignedInt, is never brought
\* below zero, although each of the ways out of Wait() lowers it.
THEOREM TypeCorrect == Spec => []TypeOK
BY Inductive, PTL DEF IInv

\* m_WaitCount is the number of threads inside Wait(), so that Reset() refuses
\* exactly while somebody waits and UnblockAll() broadcasts when it must.
THEOREM WaitersCounted == Spec => []WaitCountExact
BY Inductive, PTL DEF IInv

\* Post() may wake one thread for a count of 1: a sleeper beside a positive count
\* always has a woken thread before it.
THEOREM NoWakeupLost == Spec => []NoLostWakeup
BY Inductive, PTL DEF IInv

\* Create(-n) and Reset(-n) arm the semaphore for n Posts, whatever their sizes.
THEOREM CountsUp == Spec => []CountUpExact
BY Inductive, PTL DEF IInv

\* A waiter that UnblockAll() or Destroy() found in Wait() returns false, because
\* the unblocking is not over before it has left.
THEOREM UnblockedFails == Spec => UnblockedReturnsFalse
<1> DEFINE Step == \A t \in Threads : flushed[t] => ~Leaves(t, "true")
<1>1. ASSUME IInv, Next PROVE Step
  <2> SUFFICES ASSUME NEW t \in Threads, flushed[t],
                      pc[t] \in Inside, pc'[t] = "idle", res'[t] = "true"
               PROVE  FALSE
      BY DEF Leaves
  <2>1. unblocked
      BY <1>1 DEF IInv, FlushedWait
  <2>2. ASSUME Owner PROVE FALSE
      BY <1>1, <2>2
      DEF Owner, Create, Reset, Post, PostWakes, UnblockAll, Destroy, Flush, Signal,
          Broadcast, Sleepers, thrVars, IInv, TypeOK, Inside
  <2>3. ASSUME NEW s \in Threads, Call(s) \/ Resume(s) PROVE FALSE
      BY <1>1, <2>1, <2>3
      DEF Call, WaitTimed, EnterTakes, EnterBlocks, WaitRefused, MayEnter, Resume,
          ResumeExpired, ResumeUnblocked, ResumeTakes, ResumeBlocks, Return, IInv,
          TypeOK, Inside
  <2>4. ASSUME NEW s \in Threads, Expire(s) \/ SpuriousWake(s) PROVE FALSE
      BY <1>1, <2>4 DEF Expire, SpuriousWake, IInv, TypeOK, Inside
  <2>5. QED
      BY <1>1, <2>2, <2>3, <2>4 DEF Next
<1>2. IInv /\ [Next]_vars => [Step]_vars
    BY <1>1
<1>3. QED
    BY Inductive, <1>2, PTL DEF Spec, UnblockedReturnsFalse

--------------------------------------------------------------------------------
(* The semaphore implements the counting semaphore. *)

\* A semaphore that does not exist gives nothing away: its count is 0 and no
\* timed Wait() is about to enter it.
ClosedIsEmpty == ~ok => curCount = 0 /\ \A t \in Threads : pc[t] # "checked"

LEMMA ClosedStaysEmpty == Spec => []ClosedIsEmpty
<1>1. Init => ClosedIsEmpty
    BY DEF Init, ClosedIsEmpty
<1>2. ASSUME IInv, ClosedIsEmpty, [Next]_vars PROVE ClosedIsEmpty'
  <2> USE <1>2 DEF IInv, TypeOK, ClosedIsEmpty
  <2>1. CASE Owner
    <3>1. ASSUME NEW n \in InitialCounts, NEW max \in MaxCounts, Create(n, max)
          PROVE  ClosedIsEmpty'
        BY <3>1 DEF Create
    <3>2. ASSUME NEW n \in InitialCounts, Reset(n) PROVE ClosedIsEmpty'
        BY <3>2 DEF Reset
    <3>3. ASSUME NEW n \in PostCounts, Post(n) PROVE ClosedIsEmpty'
        BY <3>3 DEF Post
    <3>4. CASE UnblockAll
        BY <3>4 DEF UnblockAll
    <3>5. CASE Destroy
        BY <3>5 DEF Destroy, Flush, Broadcast
    <3>6. QED
        BY <2>1, <3>1, <3>2, <3>3, <3>4, <3>5 DEF Owner
  <2>2. ASSUME NEW t \in Threads, Call(t) PROVE ClosedIsEmpty'
      BY <2>2 DEF Call, WaitTimed, EnterTakes, EnterBlocks, WaitRefused, MayEnter,
                  Return, semVars
  <2>3. ASSUME NEW t \in Threads, Resume(t) PROVE ClosedIsEmpty'
      BY <2>3 DEF Resume, ResumeExpired, ResumeUnblocked, ResumeTakes, ResumeBlocks,
                  Return, semVars
  <2>4. ASSUME NEW t \in Threads, Expire(t) \/ SpuriousWake(t) PROVE ClosedIsEmpty'
      BY <2>4 DEF Expire, SpuriousWake, semVars
  <2>5. CASE UNCHANGED vars
      BY <2>5 DEF vars, semVars, thrVars
  <2>6. QED
      BY <1>2, <2>1, <2>2, <2>3, <2>4, <2>5 DEF Next
<1>3. QED
    BY <1>1, <1>2, Inductive, PTL DEF Spec

\* Every method of the owner is one step of the counting semaphore.
LEMMA OwnerRefines ==
    ASSUME IInv, Owner
    PROVE  Counting!Next
<1> USE DEF IInv
<1>1. ASSUME NEW n \in InitialCounts, NEW max \in MaxCounts, Create(n, max)
      PROVE  Counting!Open
  <2>1. Waiters = {} /\ Waiters' = {}
      BY <1>1 DEF Create, thrVars, Waiters, Inside
  <2>2. QED
      BY <1>1, <2>1, Counts DEF Create, Counting!Open
<1>2. ASSUME NEW n \in InitialCounts, Reset(n)
      PROVE  Counting!Rearm
  <2>1. Waiters = {} /\ Waiters' = {}
      BY <1>2, NobodyWaits DEF Reset, thrVars, Waiters
  <2>2. CountUp(n) \in Int /\ CountUp(n) <= maxCount
      BY <1>2, SemaphoreAssumption DEF CountUp, Reset, TypeOK
  <2>3. QED
      BY <1>2, <2>1, <2>2 DEF Reset, Counting!Rearm
<1>3. ASSUME NEW n \in PostCounts, Post(n)
      PROVE  Counting!Release(n)
  <2>1. Waiters' = Waiters
      BY <1>3, Signalling, Broadcasting DEF Post, PostWakes, Waiters
  <2>2. QED
      BY <1>3, <2>1 DEF Post, Counting!Release
<1>4. ASSUME ok, Flush, UNCHANGED <<maxCount, waitCount, timed, res>>, ok' \in BOOLEAN
      PROVE  Counting!Flush
  <2>1. Waiters' = Waiters
      BY <1>4, Broadcasting DEF Flush, Waiters
  <2>2. QED
      BY <1>4, <2>1 DEF Flush, Counting!Flush
<1>5. CASE UnblockAll
    BY <1>4, <1>5 DEF UnblockAll, TypeOK, Counting!Next
<1>6. CASE Destroy
    BY <1>4, <1>6 DEF Destroy, Counting!Next
<1>7. QED
    BY <1>1, <1>2, <1>3, <1>5, <1>6 DEF Owner, Counting!Next

\* A thread that finds the count positive passes, one that does not starts to
\* wait; the rest of Wait()'s entry is invisible.
LEMMA CallRefines ==
    ASSUME IInv, ClosedIsEmpty, NEW t \in Threads, Call(t)
    PROVE  \/ Counting!Pass(t)
           \/ Counting!Arrive(t)
           \/ UNCHANGED Counting!vars
<1> USE DEF IInv
<1>1. CASE WaitTimed(t)
  <2>1. Waiters' = Waiters
      BY <1>1, StayingOutside DEF WaitTimed, Inside
  <2>2. QED
      BY <1>1, <2>1 DEF WaitTimed, semVars, Counting!vars
<1>2. CASE EnterTakes(t)
  <2>1. ok /\ pc[t] \notin Inside
      BY <1>2 DEF EnterTakes, MayEnter, ClosedIsEmpty, Inside
  <2>2. Waiters' = Waiters /\ t \notin Waiters
      BY <1>2, <2>1, StayingOutside DEF EnterTakes, Return, Waiters
  <2>3. QED
      BY <1>2, <2>1, <2>2 DEF EnterTakes, Counting!Pass
<1>3. CASE EnterBlocks(t)
  <2>1. ok /\ pc[t] \notin Inside
      BY <1>3 DEF EnterBlocks, MayEnter, ClosedIsEmpty, Inside
  <2>2. t \notin Waiters /\ Waiters' = Waiters \cup {t}
      BY <1>3, <2>1 DEF EnterBlocks, Waiters, TypeOK, Inside
  <2>3. QED
      BY <1>3, <2>1, <2>2 DEF EnterBlocks, Counting!Arrive
<1>4. CASE WaitRefused(t)
  <2>1. Waiters' = Waiters
      BY <1>4, StayingOutside DEF WaitRefused, Return, Inside
  <2>2. QED
      BY <1>4, <2>1 DEF WaitRefused, semVars, Counting!vars
<1>5. QED
    BY <1>1, <1>2, <1>3, <1>4 DEF Call

\* A thread that comes back from the wait set takes one, gives up or waits on.
LEMMA ResumeRefines ==
    ASSUME IInv, ClosedIsEmpty, NEW t \in Threads, Resume(t)
    PROVE  \/ Counting!Grant(t)
           \/ Counting!GiveUp(t)
           \/ UNCHANGED Counting!vars
<1> USE DEF IInv
<1>1. CASE ResumeBlocks(t)
  <2>1. Waiters' = Waiters
      BY <1>1, StayingInside DEF ResumeBlocks, Inside
  <2>2. QED
      BY <1>1, <2>1 DEF ResumeBlocks, semVars, Counting!vars
<1>2. ASSUME pc[t] \in Inside, pc' = [pc EXCEPT ![t] = "idle"]
      PROVE  t \in Waiters /\ Waiters' = Waiters \ {t}
    BY <1>2 DEF Waiters, TypeOK, Inside
<1>3. CASE ResumeTakes(t)
  <2>1. ok /\ t \in Waiters /\ Waiters' = Waiters \ {t}
      BY <1>2, <1>3 DEF ResumeTakes, Return, ClosedIsEmpty, Inside
  <2>2. QED
      BY <1>3, <2>1 DEF ResumeTakes, Counting!Grant
<1>4. CASE ResumeExpired(t) \/ ResumeUnblocked(t)
  <2>1. t \in Waiters /\ Waiters' = Waiters \ {t}
      BY <1>2, <1>4 DEF ResumeExpired, ResumeUnblocked, Return, Inside
  <2>2. QED
      BY <1>4, <2>1 DEF ResumeExpired, ResumeUnblocked, Counting!GiveUp
<1>5. QED
    BY <1>1, <1>3, <1>4 DEF Resume

\* The semaphore, with its flags, its wait set and its choice between a signal
\* and a broadcast, does what an atomic counting semaphore does.
THEOREM ImplementsCounting == Spec => RefinesCounting
<1>1. Init => Counting!Init
    BY DEF Init, Counting!Init, Waiters, Inside
<1>2. ASSUME IInv, ClosedIsEmpty, [Next]_vars PROVE [Counting!Next]_(Counting!vars)
  <2>1. CASE Owner
      BY <1>2, <2>1, OwnerRefines
  <2>2. ASSUME NEW t \in Threads, Call(t) PROVE [Counting!Next]_(Counting!vars)
      BY <1>2, <2>2, CallRefines DEF Counting!Next
  <2>3. ASSUME NEW t \in Threads, Resume(t) PROVE [Counting!Next]_(Counting!vars)
      BY <1>2, <2>3, ResumeRefines DEF Counting!Next
  <2>4. ASSUME NEW t \in Threads, Expire(t) \/ SpuriousWake(t)
        PROVE  UNCHANGED Counting!vars
    <3>1. Waiters' = Waiters
        BY <1>2, <2>4 DEF Expire, SpuriousWake, Waiters, IInv, TypeOK, Inside
    <3>2. QED
        BY <2>4, <3>1 DEF Expire, SpuriousWake, semVars, Counting!vars
  <2>5. CASE UNCHANGED vars
      BY <2>5 DEF vars, semVars, thrVars, Waiters, Counting!vars
  <2>6. QED
      BY <1>2, <2>1, <2>2, <2>3, <2>4, <2>5 DEF Next
<1>3. QED
    BY <1>1, <1>2, Inductive, ClosedStaysEmpty, PTL DEF Spec, RefinesCounting, Counting!Spec

================================================================================
