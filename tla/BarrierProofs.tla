----------------------------- MODULE BarrierProofs -----------------------------
(***************************************************************************)
(* Proofs about Barrier, for any set of threads and any counts.             *)
(*                                                                         *)
(* The argument hangs on the two counters: RemoveWaiter() ends a reset or   *)
(* an unblocking when m_NumWaiters reaches zero, so the counters have to be *)
(* exact.  Then a reset lasts until its volley has left, nobody joins the   *)
(* waiters meanwhile, and an unblocking lasts until those it found are out. *)
(***************************************************************************)
EXTENDS Barrier, FiniteSetTheorems, TLAPS

\* The counts and the flags: a barrier in use has something to count to, and only
\* an auto-reset barrier with a waiter inside is resetting.
FlagsAgree ==
    /\ curCount <= unlockCount
    /\ init => unlockCount > 0
    /\ resetting => autoReset /\ numWaiters > 0
    /\ ~init => Waiters = {} /\ PreWaiters = {}

\* A waiter that an UnblockAll() found has been woken, and the unblocking is not
\* over before it has left.
FlushedAwake ==
    \A t \in flushed : pc[t] \in {"woken", "expired"} /\ unblocking

\* So has a member of a volley, and the barrier stays open for it; while the
\* reset lasts nobody else is a waiter.
VolleyAwake ==
    \A t \in volley \ flushed :
        pc[t] \in {"woken", "expired"} /\ Open /\ resetting /\ ~Cancelling

VolleyIsAll == resetting => Waiters \subseteq volley

IInv ==
    /\ TypeOK
    /\ CountersExact
    /\ NoSleeperLeftBehind
    /\ PreWaiterHasReset
    /\ AutoResetCloses
    /\ FlagsAgree
    /\ FlushedAwake
    /\ VolleyAwake
    /\ VolleyIsAll

--------------------------------------------------------------------------------
(* How a step changes who waits. *)

LEMMA FiniteWaiters ==
    /\ IsFiniteSet(Waiters)
    /\ IsFiniteSet(PreWaiters)
BY BarrierAssumption, FS_Subset DEF Waiters, PreWaiters

\* The counters are zero exactly when nobody is there.
LEMMA NobodyThere ==
    ASSUME CountersExact
    PROVE  /\ numWaiters = 0 <=> Waiters = {}
           /\ numPreWaiters = 0 <=> PreWaiters = {}
BY FiniteWaiters, FS_EmptySet DEF CountersExact

\* A broadcast moves sleepers out of the wait sets of its conditions, and nobody
\* out of Wait().
LEMMA Waking ==
    ASSUME TypeOK, NEW conds \in SUBSET {"main", "reset"}, pc' = Wake(conds)
    PROVE  /\ pc' \in [Threads -> {"idle"} \cup Inside \cup Before]
           /\ Waiters' = Waiters
           /\ PreWaiters' = PreWaiters
           /\ "main" \in conds => \A t \in Threads : pc'[t] # "blocked"
           /\ "reset" \in conds => \A t \in Threads : pc'[t] # "pre"
           /\ \A t \in Threads :
                 /\ pc[t] \in {"woken", "expired"} => pc'[t] = pc[t]
                 /\ pc'[t] = "blocked" => pc[t] = "blocked"
                 /\ pc'[t] = "pre" => pc[t] = "pre"
                 /\ pc'[t] = "idle" <=> pc[t] = "idle"
BY DEF TypeOK, Wake, Waiters, PreWaiters, Inside, Before

\* A thread returns; the others stay in Wait(), some of them woken.
LEMMA Going ==
    ASSUME TypeOK, NEW t \in Threads, NEW n, NEW value, Leave(t, n, value)
    PROVE  /\ pc' \in [Threads -> {"idle"} \cup Inside \cup Before]
           /\ Waiters' = Waiters \ {t}
           /\ PreWaiters' = PreWaiters \ {t}
           /\ pc'[t] = "idle"
           /\ Closes(n) => \A s \in Threads : pc'[s] # "pre"
           /\ \A s \in Threads \ {t} :
                 /\ pc[s] \in {"woken", "expired"} => pc'[s] = pc[s]
                 /\ pc'[s] = "blocked" => pc[s] = "blocked"
                 /\ pc'[s] = "pre" => pc[s] = "pre"
                 /\ pc'[s] = "idle" <=> pc[s] = "idle"
<1> DEFINE after == IF Closes(n) THEN Wake({"reset"}) ELSE pc
<1>1. pc' = [after EXCEPT ![t] = "idle"]
    BY DEF Leave
<1>2. /\ after \in [Threads -> {"idle"} \cup Inside \cup Before]
      /\ Closes(n) => \A s \in Threads : after[s] # "pre"
      /\ \A s \in Threads :
            /\ pc[s] \in {"woken", "expired"} => after[s] = pc[s]
            /\ after[s] = "blocked" => pc[s] = "blocked"
            /\ after[s] = "pre" => pc[s] = "pre"
            /\ after[s] = "idle" <=> pc[s] = "idle"
            /\ after[s] \in Inside <=> pc[s] \in Inside
            /\ after[s] \in Before <=> pc[s] \in Before
    BY DEF TypeOK, Wake, Inside, Before
<1> HIDE DEF after
<1>3. /\ \A s \in Threads : pc'[s] = IF s = t THEN "idle" ELSE after[s]
      /\ pc' \in [Threads -> {"idle"} \cup Inside \cup Before]
    BY <1>1, <1>2
<1>4. Waiters' = Waiters \ {t} /\ PreWaiters' = PreWaiters \ {t}
    BY <1>2, <1>3 DEF Waiters, PreWaiters, Inside, Before
<1>5. QED
    BY <1>2, <1>3, <1>4

--------------------------------------------------------------------------------
(* The inductive invariant. *)

LEMMA InitIInv == Init => IInv
<1> SUFFICES ASSUME Init PROVE IInv
    OBVIOUS
<1>1. Waiters = {} /\ PreWaiters = {} /\ \A t \in Threads : pc[t] = "idle"
    BY DEF Init, Waiters, PreWaiters, Inside, Before
<1>2. TypeOK
  <2>1. /\ timed \in [Threads -> BOOLEAN]
        /\ pc \in [Threads -> {"idle"} \cup Inside \cup Before]
        /\ res \in [Threads -> {"none", "true", "false"}]
        /\ init \in BOOLEAN /\ autoReset \in BOOLEAN
        /\ resetting \in BOOLEAN /\ unblocking \in BOOLEAN /\ destroying \in BOOLEAN
        /\ volley \subseteq Threads /\ flushed \subseteq Threads
        /\ overlooked \subseteq Threads
      BY Zenon DEF Init
  <2>2. unlockCount = 0 /\ curCount = 0 /\ numWaiters = 0 /\ numPreWaiters = 0
      BY Zenon DEF Init
  <2>3. QED
      BY <2>1, <2>2 DEF TypeOK
<1>3. CountersExact
    BY <1>1, FS_EmptySet DEF Init, CountersExact
<1>4. NoSleeperLeftBehind /\ PreWaiterHasReset /\ AutoResetCloses
    BY <1>1 DEF Init, NoSleeperLeftBehind, PreWaiterHasReset, AutoResetCloses
<1>5. FlagsAgree /\ FlushedAwake /\ VolleyAwake /\ VolleyIsAll
    BY <1>1 DEF Init, FlagsAgree, FlushedAwake, VolleyAwake, VolleyIsAll
<1>6. QED
    BY <1>2, <1>3, <1>4, <1>5 DEF IInv

\* A thread leaves Wait(), and RemoveWaiter() brings m_NumWaiters to what remains.
LEMMA LeaveIInv ==
    ASSUME IInv, init, NEW t \in Threads, NEW value \in {"true", "false"},
           NEW n, Leave(t, n, value),
           n = Cardinality(Waiters \ {t}),
           numPreWaiters' = Cardinality(PreWaiters \ {t})
    PROVE  IInv'
<1> USE DEF IInv
<1>1. /\ pc' \in [Threads -> {"idle"} \cup Inside \cup Before]
      /\ Waiters' = Waiters \ {t}
      /\ PreWaiters' = PreWaiters \ {t}
      /\ pc'[t] = "idle"
      /\ Closes(n) => \A s \in Threads : pc'[s] # "pre"
      /\ \A s \in Threads \ {t} :
            /\ pc[s] \in {"woken", "expired"} => pc'[s] = pc[s]
            /\ pc'[s] = "blocked" => pc[s] = "blocked"
            /\ pc'[s] = "pre" => pc[s] = "pre"
    BY Going
<1>2. n \in Nat /\ numPreWaiters' \in Nat /\ (n = 0 => Waiters' = {})
  <2>1. IsFiniteSet(Waiters \ {t}) /\ IsFiniteSet(PreWaiters \ {t})
      BY FiniteWaiters, FS_RemoveElement
  <2>2. QED
      BY <1>1, <2>1, FS_CardinalityType, FS_EmptySet
<1>3. TypeOK'
    BY <1>1, <1>2 DEF Leave, TypeOK, created
<1>4. CountersExact'
    BY <1>1 DEF Leave, CountersExact
<1>5. /\ resetting' => resetting /\ n > 0
      /\ n > 0 /\ resetting => resetting'
      /\ unblocking' => unblocking
      /\ n > 0 /\ unblocking => unblocking'
      /\ IF Closes(n) THEN curCount' = 0 ELSE curCount' = curCount
      /\ n > 0 => ~Closes(n)
      /\ init' /\ autoReset' = autoReset /\ unlockCount' = unlockCount
      /\ destroying' = destroying
      /\ numWaiters' = n
  <2>1. n > 0 <=> n # 0
      BY <1>2
  <2>2. /\ resetting' <=> resetting /\ ~LastOut(n)
        /\ unblocking' <=> unblocking /\ ~LastOut(n)
        /\ IF Closes(n) THEN curCount' = 0 ELSE curCount' = curCount
        /\ init' /\ autoReset' = autoReset /\ unlockCount' = unlockCount
        /\ destroying' = destroying
        /\ numWaiters' = n
      BY Zenon DEF Leave, created
  <2>3. QED
      BY <2>1, <2>2 DEF LastOut, Closes
<1>6. NoSleeperLeftBehind'
  <2> SUFFICES ASSUME Open' \/ Cancelling', NEW s \in Threads, pc'[s] = "blocked"
               PROVE  FALSE
      BY DEF NoSleeperLeftBehind
  <2>1. s # t /\ pc[s] = "blocked"
      BY <1>1
  <2>2. Open \/ Cancelling
      BY <1>5 DEF Open, Cancelling, FlagsAgree, TypeOK
  <2>3. QED
      BY <2>1, <2>2 DEF NoSleeperLeftBehind
<1>7. PreWaiterHasReset'
  <2> SUFFICES ASSUME NEW s \in Threads, pc'[s] = "pre"
               PROVE  resetting' /\ numWaiters' > 0
      BY DEF PreWaiterHasReset
  <2>1. pc[s] = "pre" /\ ~Closes(n)
      BY <1>1
  <2>2. resetting /\ autoReset
      BY <2>1 DEF PreWaiterHasReset, FlagsAgree
  <2>3. n # 0
      BY <2>1, <2>2 DEF Closes, LastOut
  <2>4. QED
      BY <1>2, <1>5, <2>2, <2>3
<1>8. AutoResetCloses'
  <2> SUFFICES ASSUME init', autoReset', Open'
               PROVE  resetting' \/ Cancelling'
      BY DEF AutoResetCloses
  <2>1. ~Closes(n) /\ Open
      BY <1>5 DEF Open, FlagsAgree, TypeOK
  <2>2. resetting \/ Cancelling
      BY <1>5, <2>1 DEF AutoResetCloses
  <2>3. ~LastOut(n)
      BY <1>5, <2>1 DEF Closes
  <2>4. QED
      BY <2>2, <2>3 DEF Leave, Cancelling
<1>9. FlagsAgree'
    BY <1>5 DEF FlagsAgree, TypeOK
<1>10. ASSUME NEW s \in Threads \ {t}, pc[s] \in {"woken", "expired"}
       PROVE  pc'[s] = pc[s] /\ n > 0
  <2>1. pc'[s] = pc[s] /\ s \in Waiters'
      BY <1>1, <1>10 DEF Waiters, Inside
  <2>2. QED
      BY <1>2, <1>5, <2>1
<1>11. FlushedAwake'
  <2>1. flushed' = flushed \ {t}
      BY DEF Leave
  <2>2. QED
      BY <1>5, <1>10, <2>1 DEF FlushedAwake, TypeOK
<1>12. VolleyAwake'
  <2>1. (volley \ flushed)' = (volley \ flushed) \ {t}
      BY DEF Leave
  <2>2. QED
      BY <1>5, <1>10, <2>1 DEF VolleyAwake, TypeOK, Open, Cancelling
<1>13. VolleyIsAll'
    BY <1>1, <1>5 DEF Leave, VolleyIsAll
<1>14. QED
    BY <1>3, <1>4, <1>6, <1>7, <1>8, <1>9, <1>11, <1>12, <1>13

\* UnblockAll(), and the first half of Destroy().
LEMMA FlushIInv ==
    ASSUME IInv, init, Flush, destroying' \in BOOLEAN, destroying => destroying',
           UNCHANGED <<created, counts, timed, res, volley>>
    PROVE  IInv'
<1> USE DEF IInv
<1>1. pc' = Wake({"main", "reset"}) /\ UNCHANGED <<created, counts>>
    BY DEF Flush
<1>2. /\ pc' \in [Threads -> {"idle"} \cup Inside \cup Before]
      /\ Waiters' = Waiters
      /\ PreWaiters' = PreWaiters
      /\ \A s \in Threads :
            /\ pc'[s] # "blocked" /\ pc'[s] # "pre"
            /\ pc[s] \in {"woken", "expired"} => pc'[s] = pc[s]
    BY <1>1, Waking
<1>3. /\ unblocking' <=> numWaiters + numPreWaiters # 0
      /\ unblocking' \in BOOLEAN
      /\ ~resetting' /\ resetting' \in BOOLEAN
      /\ curCount' = IF ~unblocking' /\ autoReset THEN 0 ELSE unlockCount
      /\ flushed' = flushed \cup Waiters
      /\ overlooked' = overlooked \cup PreWaiters
    BY Zenon DEF Flush
<1>4. TypeOK'
    BY <1>1, <1>2, <1>3 DEF TypeOK, created, counts, Waiters, PreWaiters
<1>5. CountersExact' /\ NoSleeperLeftBehind' /\ PreWaiterHasReset'
    BY <1>1, <1>2 DEF CountersExact, NoSleeperLeftBehind, PreWaiterHasReset, counts
<1>6. AutoResetCloses' /\ FlagsAgree' /\ VolleyIsAll'
    BY <1>1, <1>2, <1>3
    DEF AutoResetCloses, FlagsAgree, VolleyIsAll, created, counts, TypeOK, Open,
        Cancelling
<1>7. Waiters # {} => unblocking'
    BY <1>3, NobodyThere DEF TypeOK
<1>8. flushed \subseteq Waiters
    BY DEF FlushedAwake, TypeOK, Waiters, Inside
<1>9. FlushedAwake'
  <2> SUFFICES ASSUME NEW s \in flushed'
               PROVE  pc'[s] \in {"woken", "expired"} /\ unblocking'
      BY DEF FlushedAwake
  <2>1. s \in Waiters'
      BY <1>2, <1>3, <1>8
  <2>2. QED
      BY <1>2, <1>7, <2>1 DEF Waiters, Inside
<1>10. VolleyAwake'
  <2>1. volley \subseteq flushed'
      BY <1>3 DEF VolleyAwake, TypeOK, Waiters, Inside
  <2>2. QED
      BY <2>1 DEF VolleyAwake
<1>11. QED
    BY <1>4, <1>5, <1>6, <1>9, <1>10

\* Nobody is in a volley, and nobody was flushed, where nobody waits.
LEMMA NobodyOwed ==
    ASSUME IInv, Waiters = {}
    PROVE  volley = {} /\ flushed = {}
BY DEF IInv, TypeOK, FlushedAwake, VolleyAwake, Waiters, Inside

LEMMA PostIInv ==
    ASSUME IInv, NEW n \in PostCounts, Post(n)
    PROVE  IInv'
<1> USE DEF IInv
<1>1. init /\ n \in Nat \ {0} /\ unlockCount > 0
    BY BarrierAssumption DEF Post, PostCounted, PostOpensAuto, FlagsAgree
<1>2. CASE PostCounted(n)
  <2> DEFINE count == curCount + Smaller(n, unlockCount - curCount)
  <2>1. /\ count \in Nat /\ count <= unlockCount /\ curCount <= count
        /\ Open => count = curCount
      BY <1>1 DEF Smaller, FlagsAgree, TypeOK, Open
  <2>2. /\ ~Cancelling
        /\ ~(autoReset /\ ~Open /\ count >= unlockCount)
        /\ curCount' = count
        /\ pc' = IF count >= unlockCount THEN Wake({"main"}) ELSE pc
        /\ UNCHANGED <<created, resetting, unblocking, destroying, counts, timed,
                       res, history>>
      BY <1>2 DEF PostCounted
  <2> HIDE DEF count
  <2>3. /\ pc' \in [Threads -> {"idle"} \cup Inside \cup Before]
        /\ Waiters' = Waiters
        /\ PreWaiters' = PreWaiters
        /\ count >= unlockCount => \A t \in Threads : pc'[t] # "blocked"
        /\ \A t \in Threads :
              /\ pc[t] \in {"woken", "expired"} => pc'[t] = pc[t]
              /\ pc'[t] = "pre" => pc[t] = "pre"
    <3>1. CASE pc' = Wake({"main"})
        BY <3>1, Waking
    <3>2. CASE pc' = pc /\ ~(count >= unlockCount)
        BY <3>2 DEF TypeOK, Waiters, PreWaiters
    <3>3. QED
        BY <2>2, <3>1, <3>2
  <2>4. TypeOK'
      BY <2>1, <2>2, <2>3 DEF TypeOK, created, counts, history
  <2>5. CountersExact' /\ PreWaiterHasReset'
      BY <2>2, <2>3 DEF CountersExact, PreWaiterHasReset, counts
  <2>6. NoSleeperLeftBehind'
      BY <2>2, <2>3 DEF NoSleeperLeftBehind, Open, Cancelling, created
  <2>7. AutoResetCloses'
      BY <2>1, <2>2 DEF AutoResetCloses, Open, Cancelling, created
  <2>8. FlagsAgree' /\ VolleyIsAll'
      BY <2>1, <2>2, <2>3 DEF FlagsAgree, VolleyIsAll, created, counts, history
  <2>9. FlushedAwake'
      BY <2>2, <2>3 DEF FlushedAwake, history, TypeOK
  <2>10. VolleyAwake'
      BY <2>1, <2>2, <2>3 DEF VolleyAwake, history, TypeOK, Open, Cancelling, created
  <2>11. QED
      BY <2>4, <2>5, <2>6, <2>7, <2>8, <2>9, <2>10
<1>3. CASE PostOpensAuto(n)
  <2>1. /\ ~Cancelling /\ autoReset
        /\ volley' = Waiters
        /\ UNCHANGED <<created, unblocking, destroying, counts, timed, res, flushed,
                       overlooked>>
      BY <1>3 DEF PostOpensAuto
  <2>2. flushed = {}
      BY <2>1 DEF FlushedAwake, Cancelling
  <2>3. CASE numWaiters = 0
    <3>1. Waiters = {} /\ ~resetting
        BY <2>3, NobodyThere DEF FlagsAgree
    <3>2. curCount' = 0 /\ resetting' = FALSE /\ pc' = Wake({"main", "reset"})
        BY <1>3, <2>3 DEF PostOpensAuto
    <3>3. /\ pc' \in [Threads -> {"idle"} \cup Inside \cup Before]
          /\ Waiters' = Waiters
          /\ PreWaiters' = PreWaiters
          /\ \A t \in Threads : pc'[t] # "blocked" /\ pc'[t] # "pre"
        BY <3>2, Waking
    <3>4. TypeOK'
        BY <2>1, <3>1, <3>2, <3>3 DEF TypeOK, created, counts
    <3>5. CountersExact' /\ NoSleeperLeftBehind' /\ PreWaiterHasReset'
        BY <2>1, <3>3 DEF CountersExact, NoSleeperLeftBehind, PreWaiterHasReset, counts
    <3>6. AutoResetCloses' /\ FlagsAgree' /\ VolleyIsAll'
        BY <1>1, <2>1, <3>2, <3>3
        DEF AutoResetCloses, FlagsAgree, VolleyIsAll, created, counts, TypeOK, Open
    <3>7. FlushedAwake' /\ VolleyAwake'
        BY <2>1, <2>2, <3>1 DEF FlushedAwake, VolleyAwake
    <3>8. QED
        BY <3>4, <3>5, <3>6, <3>7
  <2>4. CASE numWaiters # 0
    <3>1. curCount' = unlockCount /\ resetting' = TRUE /\ pc' = Wake({"main"})
        BY <1>3, <2>4 DEF PostOpensAuto
    <3>2. /\ pc' \in [Threads -> {"idle"} \cup Inside \cup Before]
          /\ Waiters' = Waiters
          /\ PreWaiters' = PreWaiters
          /\ \A t \in Threads : pc'[t] # "blocked"
        BY <3>1, Waking
    <3>3. numWaiters' > 0
        BY <2>1, <2>4 DEF counts, TypeOK
    <3>4. TypeOK'
        BY <2>1, <3>1, <3>2 DEF TypeOK, created, counts, Waiters
    <3>5. CountersExact' /\ NoSleeperLeftBehind' /\ PreWaiterHasReset'
        BY <2>1, <3>1, <3>2, <3>3
        DEF CountersExact, NoSleeperLeftBehind, PreWaiterHasReset, counts
    <3>6. AutoResetCloses' /\ FlagsAgree' /\ VolleyIsAll'
        BY <1>1, <2>1, <3>1, <3>2, <3>3
        DEF AutoResetCloses, FlagsAgree, VolleyIsAll, created, TypeOK
    <3>7. FlushedAwake'
        BY <2>1, <2>2 DEF FlushedAwake
    <3>8. VolleyAwake'
      <4>1. \A t \in volley' : pc'[t] \in {"woken", "expired"}
          BY <2>1, <3>2 DEF Waiters, Inside
      <4>2. Open' /\ ~Cancelling'
          BY <2>1, <3>1 DEF Open, Cancelling, created, TypeOK
      <4>3. QED
          BY <3>1, <4>1, <4>2 DEF VolleyAwake
    <3>9. QED
        BY <3>4, <3>5, <3>6, <3>7, <3>8
  <2>5. QED
      BY <2>3, <2>4
<1>4. QED
    BY <1>2, <1>3 DEF Post

LEMMA OwnerIInv == IInv /\ Owner => IInv'
<1> SUFFICES ASSUME IInv, Owner PROVE IInv'
    OBVIOUS
<1> USE DEF IInv
<1>1. ASSUME NEW count \in UnlockCounts, NEW auto \in BOOLEAN, Create(count, auto)
      PROVE  IInv'
  <2>1. /\ ~init /\ init' /\ autoReset' = auto /\ ~resetting' /\ ~unblocking'
        /\ ~destroying'
        /\ unlockCount' \in Nat /\ unlockCount' > 0 /\ curCount' = 0
        /\ UNCHANGED <<counts, pc, timed, res, history>>
      BY <1>1, BarrierAssumption DEF Create
  <2>2. /\ Waiters = {} /\ Waiters' = {} /\ PreWaiters' = PreWaiters
        /\ \A t \in Threads : pc'[t] # "blocked" /\ pc'[t] # "pre"
      BY <2>1 DEF FlagsAgree, Waiters, PreWaiters, Inside, Before
  <2>3. volley = {} /\ flushed = {}
      BY <2>2, NobodyOwed
  <2>4. resetting' \in BOOLEAN /\ unblocking' \in BOOLEAN /\ destroying' \in BOOLEAN
        /\ init' \in BOOLEAN
      BY <1>1, Zenon DEF Create
  <2>5. TypeOK'
      BY <2>1, <2>4 DEF TypeOK, counts, history
  <2>6. CountersExact' /\ NoSleeperLeftBehind' /\ PreWaiterHasReset'
      BY <2>1, <2>2 DEF CountersExact, NoSleeperLeftBehind, PreWaiterHasReset, counts
  <2>7. AutoResetCloses' /\ FlagsAgree' /\ VolleyIsAll'
      BY <2>1, <2>2 DEF AutoResetCloses, FlagsAgree, VolleyIsAll, Open
  <2>8. FlushedAwake' /\ VolleyAwake'
      BY <2>1, <2>3 DEF FlushedAwake, VolleyAwake, history
  <2>9. QED
      BY <2>5, <2>6, <2>7, <2>8
<1>2. ASSUME NEW count \in UnlockCounts, Reset(count)
      PROVE  IInv'
  <2>1. /\ init /\ ~autoReset /\ ~Cancelling /\ curCount' = 0
        /\ unlockCount' \in Nat /\ unlockCount' > 0
        /\ UNCHANGED <<init, autoReset, resetting, unblocking, destroying, counts,
                       pc, timed, res, history>>
      BY <1>2, BarrierAssumption DEF Reset, FlagsAgree, TypeOK
  <2>2. Waiters' = Waiters /\ PreWaiters' = PreWaiters
      BY <2>1 DEF Waiters, PreWaiters
  <2>3. TypeOK'
      BY <2>1 DEF TypeOK, counts, history
  <2>4. CountersExact' /\ NoSleeperLeftBehind' /\ PreWaiterHasReset'
      BY <2>1, <2>2
      DEF CountersExact, NoSleeperLeftBehind, PreWaiterHasReset, counts, Open,
          Cancelling
  <2>5. AutoResetCloses' /\ FlagsAgree' /\ VolleyIsAll'
      BY <2>1, <2>2 DEF AutoResetCloses, FlagsAgree, VolleyIsAll, counts, history
  <2>6. FlushedAwake' /\ VolleyAwake'
      BY <2>1 DEF FlushedAwake, VolleyAwake, FlagsAgree, history
  <2>7. QED
      BY <2>3, <2>4, <2>5, <2>6
<1>3. ASSUME NEW n \in PostCounts, Post(n) PROVE IInv'
    BY <1>3, PostIInv
<1>4. CASE UnblockAll
    BY <1>4, FlushIInv DEF UnblockAll, TypeOK
<1>5. CASE DestroyBegin
    BY <1>5, FlushIInv DEF DestroyBegin
<1>6. QED
    BY <1>1, <1>2, <1>3, <1>4, <1>5 DEF Owner

\* Destroy() comes to its end when nobody is in Wait().
LEMMA DestroyEndIInv == IInv /\ DestroyEnd => IInv'
<1> SUFFICES ASSUME IInv, DestroyEnd PROVE IInv'
    OBVIOUS
<1> USE DEF IInv
<1>1. Waiters = {} /\ PreWaiters = {}
    BY NobodyThere DEF DestroyEnd, TypeOK
<1>2. Waiters' = {} /\ PreWaiters' = {} /\ \A t \in Threads : pc'[t] # "blocked" /\ pc'[t] # "pre"
    BY <1>1 DEF DestroyEnd, Waiters, PreWaiters, Inside, Before
<1>3. init' \in BOOLEAN /\ destroying' \in BOOLEAN
    BY Zenon DEF DestroyEnd
<1>4. TypeOK'
    BY <1>3 DEF DestroyEnd, TypeOK, counts, history
<1>5. CountersExact' /\ NoSleeperLeftBehind' /\ PreWaiterHasReset' /\ AutoResetCloses'
    BY <1>1, <1>2
    DEF DestroyEnd, CountersExact, NoSleeperLeftBehind, PreWaiterHasReset,
        AutoResetCloses, counts
<1>6. FlagsAgree' /\ VolleyIsAll'
    BY <1>2 DEF DestroyEnd, FlagsAgree, VolleyIsAll, counts
<1>7. FlushedAwake' /\ VolleyAwake'
    BY <1>1, NobodyOwed DEF DestroyEnd, FlushedAwake, VolleyAwake, history
<1>8. QED
    BY <1>4, <1>5, <1>6, <1>7

\* A thread goes to sleep on a closed barrier that is not resetting, as a waiter.
LEMMA SleepIInv ==
    ASSUME IInv, init, NEW t \in Threads, NEW n, Sleep(t, n), ~HoldsBack,
           n = Cardinality(Waiters \cup {t}),
           numPreWaiters' = Cardinality(PreWaiters \ {t}),
           timed' \in [Threads -> BOOLEAN],
           res' \in [Threads -> {"none", "true", "false"}]
    PROVE  IInv'
<1> USE DEF IInv
<1>1. /\ ~Open /\ ~Cancelling /\ ~resetting
      /\ pc' = [pc EXCEPT ![t] = "blocked"]
      /\ numWaiters' = n
      /\ UNCHANGED <<created, resetting, unblocking, destroying, curCount, history>>
    BY DEF Sleep, HoldsBack, FlagsAgree
<1>2. Waiters' = Waiters \cup {t} /\ PreWaiters' = PreWaiters \ {t}
    BY <1>1 DEF Waiters, PreWaiters, TypeOK, Inside, Before
<1>3. n \in Nat /\ numPreWaiters' \in Nat
  <2>1. IsFiniteSet(Waiters \cup {t}) /\ IsFiniteSet(PreWaiters \ {t})
      BY FiniteWaiters, FS_AddElement, FS_RemoveElement
  <2>2. QED
      BY <2>1, FS_CardinalityType
<1>4. TypeOK'
    BY <1>1, <1>3 DEF TypeOK, created, history, Inside
<1>5. CountersExact'
    BY <1>1, <1>2 DEF CountersExact
<1>6. NoSleeperLeftBehind' /\ AutoResetCloses'
    BY <1>1 DEF NoSleeperLeftBehind, AutoResetCloses, Open, Cancelling, created
<1>7. PreWaiterHasReset'
    BY <1>1 DEF PreWaiterHasReset, TypeOK
<1>8. FlagsAgree' /\ VolleyIsAll'
    BY <1>1 DEF FlagsAgree, VolleyIsAll, created
<1>9. FlushedAwake' /\ VolleyAwake'
    BY <1>1 DEF FlushedAwake, VolleyAwake, Cancelling, history
<1>10. QED
    BY <1>4, <1>5, <1>6, <1>7, <1>8, <1>9

\* Steps that move one thread between places that the same counter counts, to
\* another wait set only if its wait is not over, and touch nothing else.
LEMMA MoveIInv ==
    ASSUME IInv, NEW t \in Threads, NEW place,
           \/ pc[t] \in Inside /\ place \in {"woken", "expired"}
           \/ pc[t] \in Before /\ place \in Before /\ (place = "pre" => HoldsBack),
           pc' = [pc EXCEPT ![t] = place],
           UNCHANGED <<created, resetting, unblocking, destroying, curCount, counts,
                       timed, res, history>>
    PROVE  IInv'
<1> USE DEF IInv
<1>1. Waiters' = Waiters /\ PreWaiters' = PreWaiters
    BY DEF Waiters, PreWaiters, TypeOK, Inside, Before
<1>2. TypeOK'
    BY DEF TypeOK, created, counts, history, Inside, Before
<1>3. CountersExact' /\ AutoResetCloses' /\ FlagsAgree' /\ VolleyIsAll'
    BY <1>1
    DEF CountersExact, AutoResetCloses, FlagsAgree, VolleyIsAll, created, counts,
        history, Open, Cancelling
<1>4. NoSleeperLeftBehind'
    BY DEF NoSleeperLeftBehind, TypeOK, created, Open, Cancelling, Before
<1>5. PreWaiterHasReset'
  <2>1. place = "pre" => resetting /\ numWaiters > 0
      BY DEF HoldsBack, FlagsAgree
  <2>2. QED
      BY <2>1 DEF PreWaiterHasReset, TypeOK, counts
<1>6. FlushedAwake' /\ VolleyAwake'
    BY DEF FlushedAwake, VolleyAwake, TypeOK, created, history, Open, Cancelling, Before
<1>7. QED
    BY <1>2, <1>3, <1>4, <1>5, <1>6

LEMMA CallIInv ==
    ASSUME IInv, NEW t \in Threads, Call(t)
    PROVE  IInv'
<1> USE DEF IInv
<1>1. CASE WaitRefused(t) \/ Returned(t)
  <2>1. /\ res' \in [Threads -> {"none", "true", "false"}]
        /\ UNCHANGED <<created, resetting, unblocking, destroying, curCount, counts,
                       pc, timed, history>>
      BY <1>1 DEF WaitRefused, Returned, TypeOK
  <2>2. Waiters' = Waiters /\ PreWaiters' = PreWaiters
      BY <2>1 DEF Waiters, PreWaiters
  <2>3. QED
      BY <2>1, <2>2
      DEF TypeOK, CountersExact, NoSleeperLeftBehind, PreWaiterHasReset,
          AutoResetCloses, FlagsAgree, FlushedAwake, VolleyAwake, VolleyIsAll,
          created, counts, history, Open, Cancelling
<1>2. ASSUME MayCall(t)
      PROVE  /\ init /\ ~Cancelling /\ pc[t] = "idle"
             /\ t \notin Waiters /\ t \notin PreWaiters
    BY <1>2 DEF MayCall, Calls, Waiters, PreWaiters, Inside, Before
<1>3. ASSUME timed' \in {timed, [timed EXCEPT ![t] = TRUE]}
      PROVE  timed' \in [Threads -> BOOLEAN]
    BY <1>3, Zenon DEF TypeOK
<1>4. CASE WaitHeldBack(t)
  <2>1. /\ init /\ ~Cancelling /\ resetting /\ numWaiters > 0
        /\ pc[t] = "idle" /\ t \notin Waiters /\ t \notin PreWaiters
      BY <1>2, <1>4 DEF WaitHeldBack, HoldsBack, FlagsAgree
  <2>2. /\ numPreWaiters' = numPreWaiters + 1
        /\ pc' = [pc EXCEPT ![t] = "pre"]
        /\ UNCHANGED <<created, resetting, unblocking, destroying, curCount,
                       numWaiters, history>>
      BY <1>4 DEF WaitHeldBack
  <2>3. Waiters' = Waiters /\ PreWaiters' = PreWaiters \cup {t}
      BY <2>1, <2>2 DEF Waiters, PreWaiters, TypeOK, Inside, Before
  <2>4. TypeOK'
      BY <1>3, <1>4, <2>2 DEF WaitHeldBack, TypeOK, created, history, Before
  <2>5. CountersExact'
      BY <2>1, <2>2, <2>3, FiniteWaiters, FS_AddElement DEF CountersExact
  <2>6. NoSleeperLeftBehind' /\ PreWaiterHasReset'
      BY <2>1, <2>2
      DEF NoSleeperLeftBehind, PreWaiterHasReset, TypeOK, created, Open, Cancelling
  <2>7. AutoResetCloses' /\ FlagsAgree' /\ VolleyIsAll'
      BY <2>1, <2>2, <2>3
      DEF AutoResetCloses, FlagsAgree, VolleyIsAll, created, history
  <2>8. FlushedAwake' /\ VolleyAwake'
      BY <2>1, <2>2
      DEF FlushedAwake, VolleyAwake, TypeOK, created, history, Open, Cancelling
  <2>9. QED
      BY <2>4, <2>5, <2>6, <2>7, <2>8
<1>5. CASE WaitBlocks(t)
  <2>1. /\ PreWaiters \ {t} = PreWaiters
        /\ numWaiters + 1 = Cardinality(Waiters \cup {t})
      BY <1>2, <1>5, FiniteWaiters, FS_AddElement DEF WaitBlocks, CountersExact
  <2>2. res' \in [Threads -> {"none", "true", "false"}]
      BY <1>5 DEF WaitBlocks, TypeOK
  <2>3. QED
      BY <1>2, <1>3, <1>5, <2>1, <2>2, SleepIInv DEF WaitBlocks, CountersExact
<1>6. CASE WaitPasses(t)
  <2>1. Waiters \ {t} = Waiters /\ PreWaiters \ {t} = PreWaiters
      BY <1>2, <1>6 DEF WaitPasses
  <2>2. Verdict \in {"true", "false"}
      BY DEF Verdict
  <2>3. QED
      BY <1>2, <1>6, <2>1, <2>2, LeaveIInv DEF WaitPasses, CountersExact
<1>7. QED
    BY <1>1, <1>4, <1>5, <1>6 DEF Call

LEMMA ResumeIInv ==
    ASSUME IInv, NEW t \in Threads, Resume(t)
    PROVE  IInv'
<1> USE DEF IInv
<1>1. Verdict \in {"true", "false"}
    BY DEF Verdict
<1>2. init
    BY DEF Resume, PreSleepsAgain, PreBlocks, PrePasses, WokenBlocks, WokenLeaves,
           ExpiredLeaves, FlagsAgree, Waiters, PreWaiters, Inside, Before
<1>3. ASSUME pc[t] = "prewoken"
      PROVE  /\ numPreWaiters - 1 = Cardinality(PreWaiters \ {t})
             /\ Waiters \ {t} = Waiters
             /\ numWaiters + 1 = Cardinality(Waiters \cup {t})
  <2>1. t \in PreWaiters /\ t \notin Waiters
      BY <1>3 DEF Waiters, PreWaiters, Inside, Before
  <2>2. QED
      BY <2>1, FiniteWaiters, FS_AddElement, FS_RemoveElement DEF CountersExact
<1>4. ASSUME pc[t] \in {"woken", "expired"}
      PROVE  /\ numWaiters - 1 = Cardinality(Waiters \ {t})
             /\ Waiters \cup {t} = Waiters
             /\ PreWaiters \ {t} = PreWaiters
  <2>1. t \in Waiters /\ t \notin PreWaiters
      BY <1>4 DEF Waiters, PreWaiters, Inside, Before
  <2>2. QED
      BY <2>1, FiniteWaiters, FS_RemoveElement DEF CountersExact
<1>5. CASE PreSleepsAgain(t)
    BY <1>5, MoveIInv DEF PreSleepsAgain, Before
<1>6. CASE PreBlocks(t)
    BY <1>2, <1>3, <1>6, SleepIInv DEF PreBlocks, TypeOK
<1>7. CASE PrePasses(t)
    BY <1>1, <1>2, <1>3, <1>7, LeaveIInv DEF PrePasses, CountersExact
<1>8. CASE WokenBlocks(t)
  <2>1. ~HoldsBack
      \* a barrier that is resetting is open for its volley, and t is one of it
    <3>1. t \in Waiters
        BY <1>8 DEF WokenBlocks, Waiters, Inside
    <3>2. ~Open /\ ~Cancelling
        BY <1>8 DEF WokenBlocks, Sleep
    <3>3. flushed = {}
        BY <3>2 DEF FlushedAwake, Cancelling
    <3>4. QED
        BY <3>1, <3>2, <3>3 DEF HoldsBack, VolleyIsAll, VolleyAwake
  <2>2. QED
      BY <1>2, <1>4, <1>8, <2>1, SleepIInv DEF WokenBlocks, TypeOK, CountersExact
<1>9. CASE WokenLeaves(t)
    BY <1>1, <1>2, <1>4, <1>9, LeaveIInv DEF WokenLeaves, CountersExact
<1>10. CASE ExpiredLeaves(t)
    BY <1>2, <1>4, <1>10, LeaveIInv DEF ExpiredLeaves, CountersExact
<1>11. QED
    BY <1>5, <1>6, <1>7, <1>8, <1>9, <1>10 DEF Resume

LEMMA NextIInv == IInv /\ [Next]_vars => IInv'
<1> SUFFICES ASSUME IInv, [Next]_vars PROVE IInv'
    OBVIOUS
<1>1. CASE Owner
    BY <1>1, OwnerIInv
<1>2. CASE DestroyEnd
    BY <1>2, DestroyEndIInv
<1>3. ASSUME NEW t \in Threads, Call(t) PROVE IInv'
    BY <1>3, CallIInv
<1>4. ASSUME NEW t \in Threads, Resume(t) PROVE IInv'
    BY <1>4, ResumeIInv
<1>5. ASSUME NEW t \in Threads, Expire(t) PROVE IInv'
    BY <1>5, MoveIInv DEF Expire, Inside
<1>6. ASSUME NEW t \in Threads, SpuriousWake(t) PROVE IInv'
    BY <1>6, MoveIInv DEF SpuriousWake, Inside, Before
<1>7. CASE UNCHANGED vars
  <2>1. Waiters' = Waiters /\ PreWaiters' = PreWaiters
      BY <1>7 DEF vars, Waiters, PreWaiters
  <2>2. QED
      BY <1>7, <2>1
      DEF IInv, TypeOK, CountersExact, NoSleeperLeftBehind, PreWaiterHasReset,
          AutoResetCloses, FlagsAgree, FlushedAwake, VolleyAwake, VolleyIsAll,
          vars, created, counts, history, Open, Cancelling
<1>8. QED
    BY <1>1, <1>2, <1>3, <1>4, <1>5, <1>6, <1>7 DEF Next

LEMMA Inductive == Spec => []IInv
BY InitIInv, NextIInv, PTL DEF Spec

--------------------------------------------------------------------------------
(* Theorems about the states. *)

\* Every variable keeps its type: m_NumWaiters and m_NumPreWaiters, unsigned, are
\* never brought below zero, and Post() never raises the count by less than zero.
THEOREM TypeCorrect == Spec => []TypeOK
BY Inductive, PTL DEF IInv

\* AddWaiter() and RemoveWaiter() count exactly the threads inside Wait(), by
\* whatever way each of them came in and goes out.
THEOREM WaitersCounted == Spec => []CountersExact
BY Inductive, PTL DEF IInv

\* No thread sleeps in Wait() at an open barrier, or through an UnblockAll() or a
\* Destroy(): nothing but the broadcasts of the code is needed to wake it.
THEOREM NobodyLeftAsleep == Spec => []NoSleeperLeftBehind
BY Inductive, PTL DEF IInv

\* A thread that AddWaiter() holds back sleeps only while a member of the volley
\* is still to leave, and its leaving is what wakes it.
THEOREM HeldBackForAReset == Spec => []PreWaiterHasReset
BY Inductive, PTL DEF IInv

\* An auto-reset barrier that neither resets nor unblocks is closed.
THEOREM ClosedBetweenVolleys == Spec => []AutoResetCloses
BY Inductive, PTL DEF IInv

--------------------------------------------------------------------------------
(* Theorems about the steps. *)

\* What becomes of a waiter that has been woken or whose deadline has passed.
LEMMA Outcome ==
    ASSUME IInv, Next, NEW t \in Threads, pc[t] \in {"woken", "expired"}
    PROVE  \/ pc'[t] = pc[t]
           \/ /\ pc'[t] = "blocked"
              /\ ~Open /\ ~Cancelling
           \/ /\ pc'[t] = "idle"
              /\ res'[t] = IF pc[t] = "expired" THEN "false" ELSE Verdict
<1> USE DEF IInv
<1>1. ASSUME NEW conds \in SUBSET {"main", "reset"}, pc' = Wake(conds)
      PROVE  pc'[t] = pc[t]
    BY <1>1, Waking
<1>2. CASE Owner
    BY <1>1, <1>2
    DEF Owner, Create, Reset, Post, PostCounted, PostOpensAuto, UnblockAll,
        DestroyBegin, Flush
<1>3. CASE DestroyEnd
    BY <1>3 DEF DestroyEnd
<1>4. ASSUME NEW s \in Threads \ {t}, NEW n, NEW value, Leave(s, n, value)
      PROVE  pc'[t] = pc[t]
    BY <1>4, Going
<1>5. ASSUME NEW s \in Threads \ {t}, NEW n, Sleep(s, n)
      PROVE  pc'[t] = pc[t]
    BY <1>5 DEF Sleep, TypeOK
<1>6. ASSUME NEW s \in Threads, Call(s)
      PROVE  pc'[t] = pc[t]
  <2>1. CASE s = t
      BY <1>6, <2>1
      DEF Call, WaitRefused, WaitHeldBack, WaitBlocks, WaitPasses, MayCall,
          Calls, Returned
  <2>2. CASE s # t
      BY <1>4, <1>5, <1>6, <2>2
      DEF Call, WaitRefused, WaitHeldBack, WaitBlocks, WaitPasses, Returned,
          TypeOK
  <2>3. QED
      BY <2>1, <2>2
<1>7. ASSUME NEW s \in Threads \ {t}, Resume(s)
      PROVE  pc'[t] = pc[t]
    BY <1>4, <1>5, <1>7
    DEF Resume, PreSleepsAgain, PreBlocks, PrePasses, WokenBlocks, WokenLeaves,
        ExpiredLeaves, TypeOK
<1>8. ASSUME NEW n, NEW value, Leave(t, n, value)
      PROVE  pc'[t] = "idle" /\ res'[t] = value
  <2>1. pc'[t] = "idle"
      BY <1>8, Going
  <2>2. res'[t] = value
      BY <1>8 DEF Leave, TypeOK
  <2>3. QED
      BY <2>1, <2>2
<1>9. CASE Resume(t)
  <2>1. CASE WokenBlocks(t)
      BY <2>1 DEF WokenBlocks, Sleep, TypeOK
  <2>2. CASE WokenLeaves(t)
      BY <1>8, <2>2 DEF WokenLeaves
  <2>3. CASE ExpiredLeaves(t)
      BY <1>8, <2>3 DEF ExpiredLeaves
  <2>4. QED
      BY <1>9, <2>1, <2>2, <2>3 DEF Resume, PreSleepsAgain, PreBlocks, PrePasses
<1>10. ASSUME NEW s \in Threads, Expire(s) \/ SpuriousWake(s)
       PROVE  pc'[t] = pc[t]
    BY <1>10 DEF Expire, SpuriousWake, TypeOK
<1>11. QED
    BY <1>2, <1>3, <1>6, <1>7, <1>9, <1>10 DEF Next

\* A thread that UnblockAll() found asleep on the barrier returns false and does
\* not sleep again, even if the barrier opens or is reset before it is scheduled.
THEOREM UnblockedFails == Spec => UnblockedWaitersFail
<1> DEFINE Step == \A t \in Threads :
                     t \in flushed => ~Leaves(t, "true") /\ pc'[t] # "blocked"
<1>1. ASSUME IInv, Next PROVE Step
  <2> SUFFICES ASSUME NEW t \in Threads, t \in flushed
               PROVE  ~Leaves(t, "true") /\ pc'[t] # "blocked"
      OBVIOUS
  <2>1. pc[t] \in {"woken", "expired"} /\ Cancelling
      BY <1>1 DEF IInv, FlushedAwake, Cancelling
  <2>2. Verdict = "false"
      BY <2>1 DEF Verdict
  <2>3. QED
      BY <1>1, <2>1, <2>2, Outcome DEF Leaves
<1>2. IInv /\ [Next]_vars => [Step]_vars
    BY <1>1
<1>3. QED
    BY Inductive, <1>2, PTL DEF Spec, UnblockedWaitersFail

\* Whom an opening finds in Wait() gets through, although the barrier may have
\* been posted, timed out and closed for others by the time it is scheduled.
THEOREM VolleyComplete == Spec => VolleyGetsThrough
<1> DEFINE Step == \A t \in Threads :
                     (t \in volley /\ pc[t] # "expired" /\ t \notin flushed)
                        => ~Leaves(t, "false") /\ pc'[t] # "blocked"
<1>1. ASSUME IInv, Next PROVE Step
  <2> SUFFICES ASSUME NEW t \in Threads, t \in volley \ flushed, pc[t] # "expired"
               PROVE  ~Leaves(t, "false") /\ pc'[t] # "blocked"
      OBVIOUS
  <2>1. pc[t] = "woken" /\ Open /\ ~Cancelling
      BY <1>1 DEF IInv, VolleyAwake
  <2>2. Verdict = "true"
      BY <2>1 DEF Verdict
  <2>3. QED
      BY <1>1, <2>1, <2>2, Outcome DEF Leaves
<1>2. IInv /\ [Next]_vars => [Step]_vars
    BY <1>1
<1>3. QED
    BY Inductive, <1>2, PTL DEF Spec, VolleyGetsThrough

\* Who returns true passes an open barrier, and either was a waiter already or is
\* not held back.
LEMMA Passing ==
    ASSUME IInv, Next, NEW t \in Threads, res[t] # "true", res'[t] = "true"
    PROVE  /\ ~Cancelling
           /\ t \in Waiters \/ ~HoldsBack
<1> USE DEF IInv
<1>1. ASSUME res' = res PROVE FALSE
    BY <1>1
<1>2. ASSUME NEW s \in Threads, NEW n, NEW value, Leave(s, n, value)
      PROVE  s = t /\ value = "true"
    BY <1>2 DEF Leave, TypeOK
<1>3. PICK s \in Threads : Call(s) \/ Resume(s)
  <2>1. ~Owner /\ ~DestroyEnd
      BY <1>1
      DEF Owner, Create, Reset, Post, PostCounted, PostOpensAuto, UnblockAll,
          DestroyBegin, DestroyEnd
  <2>2. \A s \in Threads : ~Expire(s) /\ ~SpuriousWake(s)
      BY <1>1 DEF Expire, SpuriousWake
  <2>3. QED
      BY <2>1, <2>2 DEF Next
<1>4. CASE Call(s)
  <2>1. WaitPasses(s)
      BY <1>4
      DEF Call, WaitRefused, Returned, WaitHeldBack, WaitBlocks, TypeOK
  <2>2. QED
      BY <1>2, <2>1 DEF WaitPasses, MayCall
<1>5. CASE Resume(s)
  <2>1. PrePasses(s) \/ WokenLeaves(s)
      BY <1>1, <1>2, <1>5
      DEF Resume, PreSleepsAgain, PreBlocks, WokenBlocks, ExpiredLeaves
  <2>2. s = t /\ Verdict = "true"
      BY <1>2, <2>1 DEF PrePasses, WokenLeaves
  <2>3. ~Cancelling
      BY <2>2 DEF Verdict
  <2>4. t \in Waiters \/ ~HoldsBack
      BY <2>1, <2>2 DEF PrePasses, WokenLeaves, Waiters, Inside
  <2>5. QED
      BY <2>3, <2>4
<1>6. QED
    BY <1>3, <1>4, <1>5

\* While a volley is under way nobody else passes an auto-reset barrier: a thread
\* that has passed and calls again, or comes late, does not slip through.
THEOREM VolleysDoNotMix == Spec => OneVolleyAtATime
<1> DEFINE Step == \A t \in Threads :
                     (autoReset /\ volley # {} /\ res[t] # "true" /\ res'[t] = "true")
                        => t \in volley
<1>1. ASSUME IInv, Next PROVE Step
  <2> SUFFICES ASSUME NEW t \in Threads, autoReset, volley # {},
                      res[t] # "true", res'[t] = "true"
               PROVE  t \in volley
      OBVIOUS
  <2>1. ~Cancelling /\ (t \in Waiters \/ ~HoldsBack)
      BY <1>1, Passing
  <2>2. flushed = {}
      BY <1>1, <2>1 DEF IInv, FlushedAwake, Cancelling
  <2>3. resetting
      BY <1>1, <2>2 DEF IInv, VolleyAwake
  <2>4. QED
      BY <1>1, <2>1, <2>3 DEF IInv, VolleyIsAll, HoldsBack
<1>2. IInv /\ [Next]_vars => [Step]_vars
    BY <1>1
<1>3. QED
    BY Inductive, <1>2, PTL DEF Spec, OneVolleyAtATime

================================================================================
