-------------------------- MODULE ThreadGroupProofs ---------------------------
(***************************************************************************)
(* Theorems about ThreadGroup, for any number of workers, clients and       *)
(* items, and for any calls these make on their group.                      *)
(*                                                                         *)
(* The steps are taken per action and not per thread: CallActs are what any *)
(* thread does inside a call, WorkerActs what a worker does on its own.     *)
(* None of the invariants needs the lock of the group for more than what    *)
(* one action already makes atomic.                                         *)
(***************************************************************************)
EXTENDS ThreadGroup, FiniteSetTheorems, TLAPS

\* Where a worker stands while it is in an item.
Inside == {"run", "returned", "completing", "adding", "drainHeld", "draining",
           "drained", "joinHeld", "joining"}

\* The stack of a worker that is in an item has a frame for it, and a frame that
\* is returned to has one below it.
StackInv ==
    \A w \in Workers :
        /\ pc[w] \in Inside => stack[w] # <<>>
        /\ pc[w] = "completing" => stack[w][1].wraps > 0
        /\ \A k \in DOMAIN stack[w] :
              stack[w][k].back # "loop" => k + 1 \in DOMAIN stack[w]

TypeInv == TypeOK /\ StackInv

Stacks == [Threads -> Seq(Frames)]

\* A worker enters an item.
LEMMA Pushed ==
    ASSUME stack \in Stacks, NEW w \in Workers, NEW f \in Frames,
           stack' = [stack EXCEPT ![w] = <<f>> \o @]
    PROVE  /\ stack' \in Stacks
           /\ \A t \in Threads \ {w} : stack'[t] = stack[t]
           /\ Len(stack'[w]) = Len(stack[w]) + 1
           /\ stack'[w] # <<>>
           /\ stack'[w][1] = f
           /\ \A k \in DOMAIN stack'[w] :
                 k # 1 => k - 1 \in DOMAIN stack[w] /\ stack'[w][k] = stack[w][k - 1]
           /\ \A k \in DOMAIN stack[w] : k + 1 \in DOMAIN stack'[w]
<1>1. w \in Threads /\ stack[w] \in Seq(Frames)
    BY DEF Threads, Stacks
<1>2. stack'[w] = <<f>> \o stack[w] /\ <<f>> \o stack[w] \in Seq(Frames)
    BY <1>1 DEF Stacks
<1>3. stack' \in Stacks /\ \A t \in Threads \ {w} : stack'[t] = stack[t]
    BY <1>1, <1>2 DEF Stacks
<1>4. QED
    BY <1>1, <1>2, <1>3

\* The empty stack has no frame.
LEMMA EmptyDomain == DOMAIN <<>> = {}
OBVIOUS

\* What is left of a stack.
LEMMA TailOf ==
    ASSUME NEW S, NEW s \in Seq(S), s # <<>>
    PROVE  /\ Len(s) \in Nat \ {0}
           /\ Tail(s) \in Seq(S)
           /\ Len(Tail(s)) = Len(s) - 1
           /\ \A k \in DOMAIN Tail(s) : /\ k + 1 \in DOMAIN s
                                        /\ Tail(s)[k] = s[k + 1]
           /\ \A k \in DOMAIN s : k # 1 => k - 1 \in DOMAIN Tail(s)
           /\ 2 \in DOMAIN s => Tail(s) # <<>>
<1>1. Len(s) \in Nat \ {0}
    OBVIOUS
<1>2. Tail(s) \in Seq(S)
    OBVIOUS
<1>3. Len(Tail(s)) = Len(s) - 1
    OBVIOUS
<1>4. DOMAIN Tail(s) = 1..(Len(s) - 1) /\ DOMAIN s = 1..Len(s)
    BY <1>1, <1>2, <1>3
<1>5. \A k \in 1..(Len(s) - 1) : Tail(s)[k] = s[k + 1]
    BY <1>1
<1>6. ASSUME 2 \in DOMAIN s
      PROVE  Tail(s) # <<>>
  <2>1. 1 \in DOMAIN Tail(s)
      BY <1>1, <1>4, <1>6
  <2>2. QED
      BY <2>1, EmptyDomain
<1>7. QED
    BY <1>1, <1>2, <1>3, <1>4, <1>5, <1>6

\* It leaves the item.
LEMMA Popped ==
    ASSUME stack \in Stacks, NEW w \in Workers, stack[w] # <<>>,
           stack' = [stack EXCEPT ![w] = Tail(@)]
    PROVE  /\ stack' \in Stacks
           /\ \A t \in Threads \ {w} : stack'[t] = stack[t]
           /\ Len(stack[w]) \in Nat \ {0}
           /\ Len(stack'[w]) = Len(stack[w]) - 1
           /\ 2 \in DOMAIN stack[w] => stack'[w] # <<>>
           /\ \A k \in DOMAIN stack'[w] : /\ k + 1 \in DOMAIN stack[w]
                                          /\ stack'[w][k] = stack[w][k + 1]
           /\ \A k \in DOMAIN stack[w] : k # 1 => k - 1 \in DOMAIN stack'[w]
<1>1. w \in Threads /\ stack[w] \in Seq(Frames)
    BY DEF Threads, Stacks
<1>2. stack'[w] = Tail(stack[w]) /\ Tail(stack[w]) \in Seq(Frames)
    BY <1>1 DEF Stacks
<1>3. stack' \in Stacks /\ \A t \in Threads \ {w} : stack'[t] = stack[t]
    BY <1>1, <1>2 DEF Stacks
<1> DEFINE rest == Tail(stack[w])
<1>4. /\ Len(stack[w]) \in Nat \ {0}
      /\ Len(rest) = Len(stack[w]) - 1
      /\ \A k \in DOMAIN rest : /\ k + 1 \in DOMAIN stack[w]
                               /\ rest[k] = stack[w][k + 1]
      /\ \A k \in DOMAIN stack[w] : k # 1 => k - 1 \in DOMAIN rest
      /\ 2 \in DOMAIN stack[w] => rest # <<>>
    BY <1>1, TailOf
<1>5. stack'[w] = rest
    BY <1>2
<1> HIDE DEF rest
<1>6. QED
    BY <1>3, <1>4, <1>5

\* The stacks when the innermost frame of w is f.
Marking(w, f) == [stack EXCEPT ![w][1] = f]

\* What it is in is marked: only the innermost frame changes.
LEMMA Marked ==
    ASSUME stack \in Stacks, NEW w \in Workers, stack[w] # <<>>, NEW f \in Frames,
           stack' = Marking(w, f)
    PROVE  /\ stack' \in Stacks
           /\ \A t \in Threads \ {w} : stack'[t] = stack[t]
           /\ stack'[w] # <<>>
           /\ DOMAIN stack'[w] = DOMAIN stack[w]
           /\ stack'[w][1] = f
           /\ \A k \in DOMAIN stack[w] : k # 1 => stack'[w][k] = stack[w][k]
<1>1. w \in Threads /\ stack[w] \in Seq(Frames)
    BY DEF Threads, Stacks
<1>2. stack'[w] = [stack[w] EXCEPT ![1] = f]
    BY <1>1 DEF Stacks, Marking
<1>3. [stack[w] EXCEPT ![1] = f] \in Seq(Frames)
    BY <1>1
<1>4. stack' \in Stacks /\ \A t \in Threads \ {w} : stack'[t] = stack[t]
    BY <1>1, <1>2, <1>3 DEF Stacks, Marking
<1>5. QED
    BY <1>1, <1>2, <1>3, <1>4

\* The innermost frame.
LEMMA Top ==
    ASSUME stack \in Stacks, NEW w \in Workers, stack[w] # <<>>
    PROVE  /\ Head(stack[w]) = stack[w][1]
           /\ stack[w][1] \in Frames
           /\ 1 \in DOMAIN stack[w]
BY DEF Stacks, Threads

\* A call returns to the item that made it.
LEMMA Returned ==
    ASSUME stack \in Stacks, pc \in [Threads -> Places], NEW w \in Workers,
           stack[w] # <<>>, Return(w)
    PROVE  /\ pc' \in [Threads -> Places]
           /\ pc' = [pc EXCEPT ![w] = "run"]
           /\ stack' \in Stacks
           /\ \A t \in Threads \ {w} : stack'[t] = stack[t]
           /\ stack'[w] # <<>>
           /\ DOMAIN stack'[w] = DOMAIN stack[w]
           /\ stack'[w][1].item = stack[w][1].item
           /\ stack'[w][1].back = stack[w][1].back
           /\ stack'[w][1].wraps = stack[w][1].wraps
           /\ \A k \in DOMAIN stack[w] : k # 1 => stack'[w][k] = stack[w][k]
<1> DEFINE top == stack[w][1]
           g == [top EXCEPT !.next = @ + 1]
           f == [g EXCEPT !.due = {}]
<1>1. top \in Frames
    BY Top
<1>2. stack' = [stack EXCEPT ![w][1].next = @ + 1, ![w][1].due = {}]
    BY DEF Return
<1>3. stack' = Marking(w, f)
    BY <1>1, <1>2 DEF Stacks, Threads, Marking
<1>4. /\ g \in Frames /\ g.item = top.item /\ g.back = top.back
      /\ g.wraps = top.wraps
    BY <1>1 DEF Frames
<1> HIDE DEF g
<1>5. /\ f \in Frames /\ f.item = top.item /\ f.back = top.back
      /\ f.wraps = top.wraps
    BY <1>4 DEF Frames
<1>6. pc' = [pc EXCEPT ![w] = "run"] /\ pc' \in [Threads -> Places]
    BY DEF Return, Goto, Places
<1> HIDE DEF f
<1>7. /\ stack' \in Stacks
      /\ \A t \in Threads \ {w} : stack'[t] = stack[t]
      /\ stack'[w] # <<>>
      /\ DOMAIN stack'[w] = DOMAIN stack[w]
      /\ stack'[w][1] = f
      /\ \A k \in DOMAIN stack[w] : k # 1 => stack'[w][k] = stack[w][k]
    BY <1>3, <1>5, Marked
<1>8. QED
    BY <1>5, <1>6, <1>7
--------------------------------------------------------------------------------
(* The steps, without the lock: none of these proofs needs it. *)

\* What any thread does in its calls.
CallActs(t) ==
    \/ \E i \in Items : Add(t, i)
    \/ AddPost(t) \/ AddRefused(t) \/ Stop(t) \/ Start(t)
    \/ DrainReturns(t) \/ DrainBegins(t) \/ DrainEnds(t)
    \/ Join(t) \/ JoinRefused(t) \/ Destroy(t) \/ DestroyAgain(t)
    \/ CollectWorkers(t) \/ JoinerDone(t) \/ FollowerDone(t)

\* What a worker does between its calls.
WorkerActs(w) ==
    \/ WorkerStarts(w) \/ ReadTimeout(w)
    \/ SemBlocks(w) \/ SemTakes(w) \/ SemTimesOut(w)
    \/ FetchItem(w) \/ FetchNothing(w)
    \/ ItemReturns(w) \/ Unwrapped(w) \/ CompleteNested(w) \/ CompletePost(w)
    \/ SelfDrainDispatches(w) \/ SelfDrainEmpty(w)
    \/ SelfJoinDispatches(w) \/ SelfTerminates(w)
    \/ WorkerLeaves(w) \/ WorkerExits(w)

\* Every step is an action of a thread, with or without the lock.
LEMMA Steps ==
    ASSUME Next
    PROVE  \/ \E t \in Threads : CallActs(t)
           \/ \E c \in Clients : DrainUnblocks(c)
           \/ \E w \in Workers : WorkerActs(w)
<1>1. CASE \E c \in Clients : LockFree(c) /\ ClientCall(c)
    BY <1>1 DEF ClientCall, CallActs, Threads
<1>2. CASE \E c \in Clients : ClientGoesOn(c)
    BY <1>2 DEF ClientGoesOn, CallActs, Threads
<1>3. CASE \E w \in Workers : WorkerStep(w)
  <2>1. PICK w \in Workers : WorkerStep(w)
      BY <1>3
  <2>2. CallActs(w) \/ WorkerActs(w)
      BY <2>1 DEF WorkerStep, WorkerLocked, WorkerUnlocked, CallActs, WorkerActs
  <2>3. QED
      BY <2>2 DEF Threads
<1>4. QED
    BY <1>1, <1>2, <1>3 DEF Next

\* A worker that makes a call is in an item.
LEMMA Caller ==
    ASSUME TypeInv, NEW t \in Threads, NEW call, MayCall(t, call)
    PROVE  /\ t \in Workers => pc[t] = "run" /\ stack[t] # <<>>
           /\ t \notin Workers => pc[t] = "idle"
BY ThreadGroupAssumption DEF MayCall, TypeInv, StackInv, Inside, Threads

\* A thread goes on to another place, where it has what it needs.
LEMMA Goes ==
    ASSUME TypeInv, NEW t \in Threads, NEW l \in Places \ {"completing"},
           Goto(t, l), stack' = stack,
           t \in Workers /\ l \in Inside => stack[t] # <<>>
    PROVE  pc' \in [Threads -> Places] /\ StackInv'
<1>1. pc' \in [Threads -> Places] /\ pc' = [pc EXCEPT ![t] = l]
    BY DEF Goto, TypeInv, TypeOK
<1>2. ASSUME NEW w \in Workers
      PROVE  /\ pc'[w] \in Inside => stack[w] # <<>>
             /\ pc'[w] = "completing" => stack[w][1].wraps > 0
  <2>1. w \in Threads /\ (w # t => pc'[w] = pc[w]) /\ (w = t => pc'[w] = l)
      BY <1>1 DEF TypeInv, TypeOK, Threads
  <2>2. QED
      BY <2>1 DEF TypeInv, StackInv
<1>3. QED
    BY <1>1, <1>2 DEF TypeInv, StackInv

\* A call returns.
LEMMA Returns ==
    ASSUME TypeInv, NEW t \in Threads, Return(t),
           t \in Workers => stack[t] # <<>>
    PROVE  pc' \in [Threads -> Places] /\ stack' \in Stacks /\ StackInv'
<1>1. stack \in Stacks /\ pc \in [Threads -> Places]
    BY DEF TypeInv, TypeOK, Stacks
<1>2. CASE t \in Workers
  <2>1. /\ pc' \in [Threads -> Places]
        /\ pc' = [pc EXCEPT ![t] = "run"]
        /\ stack' \in Stacks
        /\ \A u \in Threads \ {t} : stack'[u] = stack[u]
        /\ stack'[t] # <<>>
        /\ DOMAIN stack'[t] = DOMAIN stack[t]
        /\ stack'[t][1].back = stack[t][1].back
        /\ \A k \in DOMAIN stack[t] : k # 1 => stack'[t][k] = stack[t][k]
      BY <1>1, <1>2, Returned
  <2>2. ASSUME NEW w \in Workers
        PROVE  /\ pc'[w] \in Inside => stack'[w] # <<>>
               /\ pc'[w] = "completing" => stack'[w][1].wraps > 0
               /\ \A k \in DOMAIN stack'[w] :
                     stack'[w][k].back # "loop" => k + 1 \in DOMAIN stack'[w]
    <3>1. CASE w = t
      <4>1. pc'[w] = "run"
          BY <1>1, <2>1, <3>1
      <4>2. ASSUME NEW k \in DOMAIN stack'[w], stack'[w][k].back # "loop"
            PROVE  k + 1 \in DOMAIN stack'[w]
          BY <1>2, <2>1, <3>1, <4>2 DEF TypeInv, StackInv
      <4>3. QED
          BY <2>1, <3>1, <4>1, <4>2
    <3>2. CASE w # t
      <4>1. stack'[w] = stack[w] /\ pc'[w] = pc[w]
          BY <1>1, <2>1, <3>2 DEF Threads
      <4>2. QED
          BY <4>1 DEF TypeInv, StackInv
    <3>3. QED
        BY <3>1, <3>2
  <2>3. QED
      BY <2>1, <2>2 DEF StackInv
<1>3. CASE t \notin Workers
  <2>1. Goto(t, "idle") /\ stack' = stack
      BY <1>3 DEF Return
  <2>2. pc' \in [Threads -> Places] /\ StackInv'
      BY <1>3, <2>1, Goes DEF Places
  <2>3. QED
      BY <1>1, <2>1, <2>2
<1>4. QED
    BY <1>2, <1>3

\* A worker that drains its own group marks what its Drain() has to see done.
LEMMA DueMarked ==
    ASSUME stack \in Stacks, NEW w \in Workers, stack[w] # <<>>,
           NEW items \in SUBSET Items,
           stack' = [stack EXCEPT ![w][1].due = items]
    PROVE  /\ stack' \in Stacks /\ stack'[w] # <<>>
           /\ \A t \in Threads \ {w} : stack'[t] = stack[t]
           /\ DOMAIN stack'[w] = DOMAIN stack[w]
           /\ \A k \in DOMAIN stack[w] :
                 /\ stack'[w][k].back = stack[w][k].back
                 /\ stack'[w][k].item = stack[w][k].item
                 /\ stack'[w][k].wraps = stack[w][k].wraps
<1> DEFINE f == [stack[w][1] EXCEPT !.due = items]
<1>1. stack[w][1] \in Frames
    BY Top
<1>2. /\ f \in Frames
      /\ f.item = stack[w][1].item /\ f.back = stack[w][1].back
      /\ f.wraps = stack[w][1].wraps
    BY <1>1 DEF Frames
<1>3. stack' = Marking(w, f)
    BY DEF Marking
<1> HIDE DEF f
<1>4. /\ stack' \in Stacks /\ stack'[w] # <<>>
      /\ \A t \in Threads \ {w} : stack'[t] = stack[t]
      /\ DOMAIN stack'[w] = DOMAIN stack[w]
      /\ stack'[w][1] = f
      /\ \A k \in DOMAIN stack[w] : k # 1 => stack'[w][k] = stack[w][k]
    BY <1>2, <1>3, Marked
<1>5. ASSUME NEW k \in DOMAIN stack[w]
      PROVE  /\ stack'[w][k].back = stack[w][k].back
             /\ stack'[w][k].item = stack[w][k].item
             /\ stack'[w][k].wraps = stack[w][k].wraps
  <2>1. CASE k = 1
      BY <1>2, <1>4, <2>1
  <2>2. CASE k # 1
      BY <1>4, <2>2
  <2>3. QED
      BY <2>1, <2>2
<1>6. QED
    BY <1>4, <1>5

\* A sequence by its length.
LEMMA SeqOf ==
    ASSUME NEW S, NEW n \in Nat, NEW f \in [1..n -> S]
    PROVE  f \in Seq(S) /\ Len(f) = n /\ DOMAIN f = 1..n
OBVIOUS

\* A queued item that is wrapped once more.
LEMMA WrapOne ==
    ASSUME NEW work \in Works
    PROVE  LET wrapped == [work EXCEPT !.wraps = @ + 1]
           IN  wrapped \in Works /\ wrapped.item = work.item
BY DEF Works

\* A frame whose item has one wrapper less.
LEMMA UncoverOne ==
    ASSUME NEW top \in Frames, top.wraps > 0
    PROVE  LET f == [top EXCEPT !.wraps = @ - 1]
           IN  /\ f \in Frames /\ f.item = top.item /\ f.back = top.back
               /\ f.wraps = top.wraps - 1
BY DEF Frames

\* The worker completes a wrapper of the item it is in.
LEMMA Uncovered ==
    ASSUME stack \in Stacks, NEW w \in Workers, stack[w] # <<>>,
           stack[w][1].wraps > 0,
           stack' = [stack EXCEPT ![w][1].wraps = @ - 1]
    PROVE  /\ stack' \in Stacks /\ stack'[w] # <<>>
           /\ \A t \in Threads \ {w} : stack'[t] = stack[t]
           /\ DOMAIN stack'[w] = DOMAIN stack[w]
           /\ stack'[w][1].wraps = stack[w][1].wraps - 1
           /\ \A k \in DOMAIN stack[w] :
                 /\ stack'[w][k].back = stack[w][k].back
                 /\ stack'[w][k].item = stack[w][k].item
<1> DEFINE f == [stack[w][1] EXCEPT !.wraps = @ - 1]
<1>1. stack[w][1] \in Frames
    BY Top
<1>2. /\ f \in Frames
      /\ f.item = stack[w][1].item /\ f.back = stack[w][1].back
      /\ f.wraps = stack[w][1].wraps - 1
    BY <1>1, UncoverOne
<1>3. stack' = Marking(w, f)
    BY <1>1 DEF Stacks, Threads, Marking
<1> HIDE DEF f
<1>4. /\ stack' \in Stacks /\ stack'[w] # <<>>
      /\ \A t \in Threads \ {w} : stack'[t] = stack[t]
      /\ DOMAIN stack'[w] = DOMAIN stack[w]
      /\ stack'[w][1] = f
      /\ \A k \in DOMAIN stack[w] : k # 1 => stack'[w][k] = stack[w][k]
    BY <1>2, <1>3, Marked
<1>5. ASSUME NEW k \in DOMAIN stack[w]
      PROVE  /\ stack'[w][k].back = stack[w][k].back
             /\ stack'[w][k].item = stack[w][k].item
  <2>1. CASE k = 1
      BY <1>2, <1>4, <2>1
  <2>2. CASE k # 1
      BY <1>4, <2>2
  <2>3. QED
      BY <2>1, <2>2
<1>6. QED
    BY <1>2, <1>4, <1>5

\* DrainManager::Begin() wraps what is queued.
LEMMA Begun ==
    ASSUME TypeInv, Begin
    PROVE  /\ nestLevel' = nestLevel + 1 /\ nestLevel' \in Nat
           /\ barrier' \in [count : Nat, unlock : Nat]
           /\ queue' \in Seq(Works) /\ Len(queue') = Len(queue)
           /\ DOMAIN queue' = DOMAIN queue
           /\ \A k \in DOMAIN queue : queue'[k].item = queue[k].item
           /\ nested' \subseteq Items \X Nat
<1> USE DEF TypeInv, TypeOK
<1>1. nestLevel' = nestLevel + 1 /\ nestLevel' \in Nat
    BY DEF Begin
<1>2. CASE nestLevel = 0
  <2>1. /\ barrier' = [count |-> 0, unlock |-> Len(queue)]
        /\ queue' = [k \in DOMAIN queue |-> [queue[k] EXCEPT !.wraps = @ + 1]]
        /\ nested' = nested \cup
                     {<<queue[k].item, queue[k].wraps + 1>> : k \in DOMAIN queue}
      BY <1>2 DEF Begin
  <2>2. DOMAIN queue = 1..Len(queue) /\ Len(queue) \in Nat
      OBVIOUS
  <2>3. \A k \in 1..Len(queue) :
           /\ queue[k] \in Works
           /\ [queue[k] EXCEPT !.wraps = @ + 1] \in Works
           /\ [queue[k] EXCEPT !.wraps = @ + 1].item = queue[k].item
      BY <2>2, WrapOne
  <2>4. queue' \in [1..Len(queue) -> Works]
      BY <2>1, <2>2, <2>3
  <2>5. queue' \in Seq(Works) /\ Len(queue') = Len(queue)
      BY <2>2, <2>4, SeqOf
  <2>6. \A k \in DOMAIN queue : queue'[k].item = queue[k].item
      BY <2>1, <2>2, <2>3
  <2>7. nested' \subseteq Items \X Nat
    <3>1. \A k \in DOMAIN queue : <<queue[k].item, queue[k].wraps + 1>> \in Items \X Nat
        BY <2>2, <2>3 DEF Works
    <3>2. QED
        BY <2>1, <3>1
  <2>8. QED
      BY <1>1, <2>1, <2>2, <2>4, <2>5, <2>6, <2>7
<1>3. CASE nestLevel # 0
    BY <1>1, <1>3 DEF Begin
<1>4. QED
    BY <1>2, <1>3

\* What is queued is an item.
LEMMA QueuedAreItems ==
    ASSUME queue \in Seq(Works)
    PROVE  /\ QueuedItems \subseteq Items
           /\ \A k \in DOMAIN queue : queue[k] \in Works /\ queue[k].item \in Items
<1>1. \A k \in DOMAIN queue : queue[k] \in Works /\ queue[k].item \in Items
  <2>1. \A k \in DOMAIN queue : queue[k] \in Works
      OBVIOUS
  <2>2. \A work \in Works : work.item \in Items
      BY DEF Works
  <2>3. QED
      BY <2>1, <2>2
<1>2. QED
    BY <1>1 DEF QueuedItems

\* The group has workers, and they can be counted.
LEMMA AllFinite == IsFiniteSet(Workers) /\ N \in Nat \ {0}
BY ThreadGroupAssumption, FS_CardinalityType, FS_EmptySet DEF N

\* The workers can be counted.
LEMMA RunningFinite ==
    ASSUME running \subseteq Workers
    PROVE  IsFiniteSet(running) /\ Cardinality(running) \in Nat
BY ThreadGroupAssumption, FS_Subset, FS_CardinalityType

\* Calls keep the types.
LEMMA CallTypes ==
    ASSUME TypeInv, NEW t \in Threads, CallActs(t)
    PROVE  TypeInv'
<1> USE DEF TypeInv, TypeOK, Stacks, poolVars, joinVars, drainVars
<1>1. CASE \E i \in Items : Add(t, i)
  <2>1. PICK i \in Items : Add(t, i)
      BY <1>1
  <2>2. t \in Workers => stack[t] # <<>>
      BY <2>1, Caller DEF Add
  <2>3. pc' \in [Threads -> Places] /\ StackInv'
      BY <2>1, <2>2, Goes DEF Add, Places
  <2>4. queue' \in Seq(Works)
      BY <2>1 DEF Add, Works
  <2>5. QED
      BY <2>1, <2>3, <2>4 DEF Add
<1>2. CASE AddPost(t)
  <2>1. t \in Workers => stack[t] # <<>>
      BY <1>2 DEF AddPost, StackInv, Inside
  <2>2. Return(t)
      BY <1>2 DEF AddPost
  <2>3. pc' \in [Threads -> Places] /\ stack' \in Stacks /\ StackInv'
      BY <2>1, <2>2, Returns
  <2>4. QED
      BY <1>2, <2>3 DEF AddPost
<1>3. CASE AddRefused(t)
  <2>1. t \in Workers => stack[t] # <<>>
      BY <1>3, Caller DEF AddRefused
  <2>2. Return(t)
      BY <1>3 DEF AddRefused
  <2>3. pc' \in [Threads -> Places] /\ stack' \in Stacks /\ StackInv'
      BY <2>1, <2>2, Returns
  <2>4. QED
      BY <1>3, <2>3 DEF AddRefused
<1>4. CASE Stop(t)
  <2>1. t \in Workers => stack[t] # <<>>
      BY <1>4, Caller DEF Stop
  <2>2. Return(t)
      BY <1>4 DEF Stop
  <2>3. pc' \in [Threads -> Places] /\ stack' \in Stacks /\ StackInv'
      BY <2>1, <2>2, Returns
  <2>4. state' \in {"Running", "Stopped", "Draining", "Joining"}
      BY <1>4 DEF Stop, Transition
  <2>5. tokens' \in Nat /\ queue' \in Seq(Works)
    <3>1. CASE state' = "Stopped"
      <4>1. /\ tokens' = IF Asleep = {} THEN 0 ELSE tokens
            /\ queue' = <<>>
          BY <1>4, <3>1 DEF Stop, Discard
      <4>2. QED
          BY <4>1
    <3>2. CASE state' # "Stopped"
        BY <1>4, <3>2 DEF Stop
    <3>3. QED
        BY <3>1, <3>2
  <2>6. fate' \in [Items -> {"new", "queued", "running", "done", "dropped",
                             "killed"}]
      BY <1>4 DEF Stop, Discard
  <2>7. QED
      BY <1>4, <2>3, <2>4, <2>5, <2>6 DEF Stop
<1>5. CASE Start(t)
  <2>1. t \in Workers => stack[t] # <<>>
      BY <1>5, Caller DEF Start
  <2>2. Return(t)
      BY <1>5 DEF Start
  <2>3. pc' \in [Threads -> Places] /\ stack' \in Stacks /\ StackInv'
      BY <2>1, <2>2, Returns
  <2>4. state' \in {"Running", "Stopped", "Draining", "Joining"}
      BY <1>5 DEF Start, Transition
  <2>5. tokens' \in Nat
      BY <1>5 DEF Start
  <2>6. QED
      BY <1>5, <2>3, <2>4, <2>5 DEF Start
<1>6. CASE DrainReturns(t)
  <2>1. t \in Workers => stack[t] # <<>>
      BY <1>6, Caller DEF DrainReturns
  <2>2. Return(t)
      BY <1>6 DEF DrainReturns
  <2>3. pc' \in [Threads -> Places] /\ stack' \in Stacks /\ StackInv'
      BY <2>1, <2>2, Returns
  <2>4. QED
      BY <1>6, <2>3 DEF DrainReturns
<1>7. CASE DrainBegins(t)
  <2>1. t \in Workers => stack[t] # <<>>
      BY <1>7, Caller DEF DrainBegins
  <2>2. /\ nestLevel' \in Nat
        /\ barrier' \in [count : Nat, unlock : Nat]
        /\ queue' \in Seq(Works)
        /\ nested' \subseteq Items \X Nat
      BY <1>7, Begun DEF DrainBegins
  <2>3. QueuedItems \subseteq Items
      BY QueuedAreItems
  <2>4. CASE t \in running
    <3>1. t \in Workers
        BY <2>4
    <3>2. stack' = [stack EXCEPT ![t][1].due = QueuedItems] /\ due' = due
        BY <1>7, <2>4 DEF DrainBegins
    <3>3. /\ stack' \in Stacks /\ stack'[t] # <<>>
          /\ \A u \in Threads \ {t} : stack'[u] = stack[u]
          /\ DOMAIN stack'[t] = DOMAIN stack[t]
          /\ \A k \in DOMAIN stack[t] : stack'[t][k].back = stack[t][k].back
      <4>1. stack \in Stacks /\ stack[t] # <<>>
          BY <2>1, <3>1
      <4> HIDE DEF TypeInv, TypeOK
      <4>2. QED
          BY <2>3, <3>1, <3>2, <4>1, DueMarked
    <3>4. /\ pc' = [pc EXCEPT ![t] = "drainHeld"]
          /\ pc' \in [Threads -> Places]
        BY <1>7, <2>4 DEF DrainBegins, Goto, Places
    <3>5. ASSUME NEW w \in Workers
          PROVE  /\ pc'[w] \in Inside => stack'[w] # <<>>
                 /\ pc'[w] = "completing" => stack'[w][1].wraps > 0
                 /\ \A k \in DOMAIN stack'[w] :
                       stack'[w][k].back # "loop" => k + 1 \in DOMAIN stack'[w]
      <4>1. CASE w = t
          BY <3>3, <3>4, <4>1 DEF StackInv
      <4>2. CASE w # t
        <5>1. pc'[w] = pc[w] /\ stack'[w] = stack[w]
            BY <3>3, <3>4, <4>2 DEF Threads
        <5>2. QED
            BY <5>1 DEF StackInv
      <4>3. QED
          BY <4>1, <4>2
    <3>6. StackInv'
        BY <3>5 DEF StackInv
    <3>7. selfDrains' \in [Workers -> Nat]
      <4>1. selfDrains' = [selfDrains EXCEPT ![t] = @ + 1]
          BY <1>7, <2>4 DEF DrainBegins
      <4>2. selfDrains[t] + 1 \in Nat
          BY <3>1
      <4>3. QED
          BY <3>1, <4>1, <4>2
    <3>8. QED
        BY <1>7, <2>2, <3>2, <3>3, <3>4, <3>6, <3>7 DEF DrainBegins
  <2>5. CASE t \notin running
    <3>1. Goto(t, "blocked") /\ stack' = stack /\ selfDrains' = selfDrains
        BY <1>7, <2>5 DEF DrainBegins
    <3>2. pc' \in [Threads -> Places] /\ StackInv'
        BY <3>1, Goes DEF Places, Inside
    <3>3. due' \in [Clients -> SUBSET Items]
        BY <1>7, <2>3, <2>5 DEF DrainBegins
    <3>4. QED
        BY <1>7, <2>2, <3>1, <3>2, <3>3 DEF DrainBegins
  <2>6. QED
      BY <2>4, <2>5
<1>8. CASE DrainEnds(t)
  <2>1. t \in Workers => stack[t] # <<>>
      BY <1>8 DEF DrainEnds, StackInv, Inside
  <2>2. Return(t)
      BY <1>8 DEF DrainEnds
  <2>3. pc' \in [Threads -> Places] /\ stack' \in Stacks /\ StackInv'
      BY <2>1, <2>2, Returns
  <2>4. state' \in {"Running", "Stopped", "Draining", "Joining"}
      BY <1>8 DEF DrainEnds, StateAtLevel, Transition
  <2>5. nestLevel' \in Nat
      BY <1>8 DEF DrainEnds, LevelAfter
  <2>6. selfDrains' \in [Workers -> Nat] /\ due' \in [Clients -> SUBSET Items]
      BY <1>8, ThreadGroupAssumption DEF DrainEnds, KnownDrainer
  <2>7. QED
      BY <1>8, <2>3, <2>4, <2>5, <2>6 DEF DrainEnds
<1>9. CASE Join(t)
  <2>1. t \in Workers => stack[t] # <<>>
      BY <1>9, Caller DEF Join
  <2>2. pc' \in [Threads -> Places] /\ StackInv'
      BY <1>9, <2>1, Goes DEF Join, BeginJoining, Places
  <2>3. tokens' \in Nat
      BY <1>9, RunningFinite DEF Join, BeginJoining, WakeWorkers
  <2>4. QED
      BY <1>9, <2>2, <2>3 DEF Join, BeginJoining, WakeWorkers
<1>10. CASE JoinRefused(t)
  <2>1. t \in Workers => stack[t] # <<>>
      BY <1>10, Caller DEF JoinRefused
  <2>2. Return(t)
      BY <1>10 DEF JoinRefused
  <2>3. pc' \in [Threads -> Places] /\ stack' \in Stacks /\ StackInv'
      BY <2>1, <2>2, Returns
  <2>4. QED
      BY <1>10, <2>3 DEF JoinRefused
<1>11. CASE Destroy(t)
  <2>1. t \in Workers => stack[t] # <<>>
      BY <1>11, Caller DEF Destroy
  <2>2. pc' \in [Threads -> Places] /\ StackInv'
      BY <1>11, <2>1, Goes DEF Destroy, BeginJoining, Places
  <2>3. tokens' \in Nat
      BY <1>11, RunningFinite DEF Destroy, BeginJoining, WakeWorkers
  <2>4. QED
      BY <1>11, <2>2, <2>3 DEF Destroy, BeginJoining, WakeWorkers
<1>12. CASE DestroyAgain(t)
  <2>1. t \in Workers => stack[t] # <<>>
      BY <1>12, Caller DEF DestroyAgain
  <2>2. Return(t)
      BY <1>12 DEF DestroyAgain
  <2>3. pc' \in [Threads -> Places] /\ stack' \in Stacks /\ StackInv'
      BY <2>1, <2>2, Returns
  <2>4. QED
      BY <1>12, <2>3 DEF DestroyAgain
<1>13. CASE CollectWorkers(t)
  <2>1. pc' \in [Threads -> Places] /\ StackInv'
      BY <1>13, Goes DEF CollectWorkers, Places, Inside
  <2>2. barrier' \in [count : Nat, unlock : Nat]
      BY <1>13 DEF CollectWorkers, ReleaseAllDrainers
  <2>3. QED
      BY <1>13, <2>1, <2>2 DEF CollectWorkers
<1>14. CASE JoinerDone(t)
  <2>1. pc' \in [Threads -> Places] /\ StackInv'
      BY <1>14, Goes DEF JoinerDone, EndCall, Places, Inside
  <2>2. freed' \in BOOLEAN
      BY <1>14 DEF JoinerDone, EndCall
  <2>3. QED
      BY <1>14, <2>1, <2>2 DEF JoinerDone, EndCall
<1>15. CASE FollowerDone(t)
  <2>1. pc' \in [Threads -> Places] /\ StackInv'
      BY <1>15, Goes DEF FollowerDone, EndCall, Places, Inside
  <2>2. freed' \in BOOLEAN
      BY <1>15 DEF FollowerDone, EndCall
  <2>3. QED
      BY <1>15, <2>1, <2>2 DEF FollowerDone, EndCall
<1>16. QED
    BY <1>1, <1>2, <1>3, <1>4, <1>5, <1>6, <1>7, <1>8, <1>9, <1>10, <1>11,
       <1>12, <1>13, <1>14, <1>15 DEF CallActs

\* Whoever takes the first item from the queue enters it.
LEMMA Dispatched ==
    ASSUME TypeInv, NEW w \in Workers, NEW back \in {"loop", "draining", "joining"},
           Dispatch(w, back), back # "loop" => stack[w] # <<>>
    PROVE  /\ queue' \in Seq(Works) /\ Len(queue') = Len(queue) - 1
           /\ Len(queue) \in Nat \ {0}
           /\ \A k \in DOMAIN queue' : /\ k + 1 \in DOMAIN queue
                                       /\ queue'[k] = queue[k + 1]
           /\ Head(queue) = queue[1] /\ 1 \in DOMAIN queue
           /\ Head(queue).item \in Items
           /\ fate' = [fate EXCEPT ![Head(queue).item] = "running"]
           /\ stack' \in Stacks
           /\ \A t \in Threads \ {w} : stack'[t] = stack[t]
           /\ 1 \in DOMAIN stack'[w]
           /\ stack'[w][1].item = Head(queue).item
           /\ stack'[w][1].wraps = Head(queue).wraps
           /\ stack'[w][1].back = back
           /\ \A k \in DOMAIN stack'[w] :
                 k # 1 => k - 1 \in DOMAIN stack[w] /\ stack'[w][k] = stack[w][k - 1]
           /\ pc' = [pc EXCEPT ![w] = "run"] /\ pc' \in [Threads -> Places]
           /\ StackInv'
<1> DEFINE f == Frame(Head(queue), back)
<1>1. queue \in Seq(Works) /\ queue # <<>> /\ queue' = Tail(queue)
    BY DEF TypeInv, TypeOK, Dispatch
<1>2. /\ queue' \in Seq(Works) /\ Len(queue') = Len(queue) - 1
      /\ Len(queue) \in Nat \ {0}
      /\ \A k \in DOMAIN queue' : k + 1 \in DOMAIN queue /\ queue'[k] = queue[k + 1]
    BY <1>1, TailOf
<1>3. Head(queue) = queue[1] /\ 1 \in DOMAIN queue /\ Head(queue) \in Works
    BY <1>1
<1>4. /\ f \in Frames /\ f.item = Head(queue).item /\ f.back = back
      /\ f.wraps = Head(queue).wraps
    BY <1>3 DEF Frame, Works, Frames
<1>5. /\ stack' = [stack EXCEPT ![w] = <<f>> \o @]
      /\ fate' = [fate EXCEPT ![Head(queue).item] = "running"]
    BY DEF Dispatch
<1>6. pc' = [pc EXCEPT ![w] = "run"] /\ pc' \in [Threads -> Places]
    BY DEF Dispatch, Goto, Places, TypeInv, TypeOK
<1>7. Head(queue).item \in Items
    BY <1>3 DEF Works
<1>8. stack \in Stacks
    BY DEF TypeInv, TypeOK, Stacks
<1> HIDE DEF f
<1>9. /\ stack' \in Stacks
      /\ \A t \in Threads \ {w} : stack'[t] = stack[t]
      /\ Len(stack'[w]) = Len(stack[w]) + 1
      /\ stack'[w] # <<>>
      /\ stack'[w][1] = f
      /\ \A k \in DOMAIN stack'[w] :
            k # 1 => k - 1 \in DOMAIN stack[w] /\ stack'[w][k] = stack[w][k - 1]
      /\ \A k \in DOMAIN stack[w] : k + 1 \in DOMAIN stack'[w]
    BY <1>4, <1>5, <1>8, Pushed
<1>10. 1 \in DOMAIN stack'[w]
    BY <1>9, Top DEF Stacks, Threads
<1>11. ASSUME NEW u \in Workers
       PROVE  /\ pc'[u] \in Inside => stack'[u] # <<>>
              /\ pc'[u] = "completing" => stack'[u][1].wraps > 0
              /\ \A k \in DOMAIN stack'[u] :
                    stack'[u][k].back # "loop" => k + 1 \in DOMAIN stack'[u]
  <2>1. CASE u # w
    <3>1. pc'[u] = pc[u] /\ stack'[u] = stack[u]
        BY <1>6, <1>9, <2>1 DEF Threads, TypeInv, TypeOK
    <3>2. QED
        BY <3>1 DEF TypeInv, StackInv
  <2>2. CASE u = w
    <3>1. pc'[w] = "run"
        BY <1>6 DEF TypeInv, TypeOK, Threads
    <3>2. ASSUME NEW k \in DOMAIN stack'[w], stack'[w][k].back # "loop"
          PROVE  k + 1 \in DOMAIN stack'[w]
      <4>1. CASE k = 1
        <5>1. stack[w] # <<>>
            BY <1>4, <1>9, <3>2, <4>1
        <5>2. 1 \in DOMAIN stack[w]
            BY <1>8, <5>1, Top
        <5>3. QED
            BY <1>9, <4>1, <5>2
      <4>2. CASE k # 1
        <5>1. k - 1 \in DOMAIN stack[w] /\ stack[w][k - 1].back # "loop"
            BY <1>9, <3>2, <4>2
        <5>2. (k - 1) + 1 \in DOMAIN stack[w]
            BY <5>1 DEF TypeInv, StackInv
        <5>3. ((k - 1) + 1) + 1 \in DOMAIN stack'[w]
            BY <1>9, <5>2
        <5>4. k \in Int
            BY <1>9 DEF Stacks, Threads
        <5>5. QED
            BY <5>3, <5>4
      <4>3. QED
          BY <4>1, <4>2
    <3>3. QED
        BY <1>9, <2>2, <3>1, <3>2
  <2>3. QED
      BY <2>1, <2>2
<1>12. StackInv'
    BY <1>11 DEF StackInv
<1>13. QED
    BY <1>2, <1>3, <1>4, <1>5, <1>6, <1>7, <1>9, <1>10, <1>12

\* A barrier that has been Posted to.
LEMMA BarrierCounted ==
    ASSUME NEW b \in [count : Nat, unlock : Nat], NEW n \in Nat
    PROVE  [b EXCEPT !.count = Smaller(@ + n, b.unlock)]
              \in [count : Nat, unlock : Nat]
BY DEF Smaller

\* The workers keep the types.
LEMMA WorkerTypes ==
    ASSUME TypeInv, NEW w \in Workers, WorkerActs(w)
    PROVE  TypeInv'
<1> USE DEF TypeInv, TypeOK, Stacks, poolVars, joinVars, drainVars
<1>1. CASE WorkerStarts(w)
  <2>1. pc' \in [Threads -> Places] /\ StackInv'
      BY <1>1, Goes DEF WorkerStarts, Places, Inside, Threads
  <2>2. QED
      BY <1>1, <2>1 DEF WorkerStarts
<1>2. CASE ReadTimeout(w)
  <2>1. pc' \in [Threads -> Places] /\ StackInv'
      BY <1>2, Goes DEF ReadTimeout, Places, Inside, Threads
  <2>2. timed' \in [Workers -> BOOLEAN]
      BY <1>2 DEF ReadTimeout
  <2>3. QED
      BY <1>2, <2>1, <2>2 DEF ReadTimeout
<1>3. CASE SemBlocks(w)
  <2>1. pc' \in [Threads -> Places] /\ StackInv'
      BY <1>3, Goes DEF SemBlocks, Places, Inside, Threads
  <2>2. QED
      BY <1>3, <2>1 DEF SemBlocks
<1>4. CASE SemTakes(w)
  <2>1. pc' \in [Threads -> Places] /\ StackInv'
      BY <1>4, Goes DEF SemTakes, Places, Inside, Threads
  <2>2. QED
      BY <1>4, <2>1 DEF SemTakes
<1>5. CASE SemTimesOut(w)
  <2>1. pc' \in [Threads -> Places] /\ StackInv'
      BY <1>5, Goes DEF SemTimesOut, Places, Inside, Threads
  <2>2. QED
      BY <1>5, <2>1 DEF SemTimesOut
<1>6. CASE FetchItem(w)
  <2>1. Dispatch(w, "loop")
      BY <1>6 DEF FetchItem
  <2>2. "loop" \in {"loop", "draining", "joining"}
      OBVIOUS
  <2>3. /\ queue' \in Seq(Works) /\ stack' \in Stacks /\ StackInv'
        /\ pc' \in [Threads -> Places]
        /\ fate' = [fate EXCEPT ![Head(queue).item] = "running"]
      BY <2>1, <2>2, Dispatched
  <2>4. fate' \in [Items -> {"new", "queued", "running", "done", "dropped",
                             "killed"}]
      BY <2>3
  <2>5. QED
      BY <1>6, <2>3, <2>4 DEF FetchItem
<1>7. CASE SelfDrainDispatches(w)
  <2>1. Dispatch(w, "draining")
      BY <1>7 DEF SelfDrainDispatches
  <2>2. stack[w] # <<>>
      BY <1>7 DEF SelfDrainDispatches, StackInv, Inside
  <2>3. /\ queue' \in Seq(Works) /\ stack' \in Stacks /\ StackInv'
        /\ pc' \in [Threads -> Places]
        /\ fate' = [fate EXCEPT ![Head(queue).item] = "running"]
      BY <2>1, <2>2, Dispatched
  <2>4. fate' \in [Items -> {"new", "queued", "running", "done", "dropped",
                             "killed"}]
      BY <2>3
  <2>5. QED
      BY <1>7, <2>3, <2>4 DEF SelfDrainDispatches
<1>8. CASE SelfJoinDispatches(w)
  <2>1. Dispatch(w, "joining")
      BY <1>8 DEF SelfJoinDispatches
  <2>2. stack[w] # <<>>
      BY <1>8 DEF SelfJoinDispatches, StackInv, Inside
  <2>3. /\ queue' \in Seq(Works) /\ stack' \in Stacks /\ StackInv'
        /\ pc' \in [Threads -> Places]
        /\ fate' = [fate EXCEPT ![Head(queue).item] = "running"]
      BY <2>1, <2>2, Dispatched
  <2>4. fate' \in [Items -> {"new", "queued", "running", "done", "dropped",
                             "killed"}]
      BY <2>3
  <2>5. QED
      BY <1>8, <2>3, <2>4 DEF SelfJoinDispatches
<1>9. CASE FetchNothing(w)
  <2>1. Goto(w, "leaving") \/ Goto(w, "loop")
      BY <1>9 DEF FetchNothing
  <2>2. pc' \in [Threads -> Places] /\ StackInv'
      BY <1>9, <2>1, Goes DEF FetchNothing, Places, Inside, Threads
  <2>3. QED
      BY <1>9, <2>2 DEF FetchNothing
<1>10. CASE ItemReturns(w)
  <2>1. stack[w] # <<>>
      BY <1>10 DEF ItemReturns, StackInv, Inside
  <2>2. pc' \in [Threads -> Places] /\ StackInv'
      BY <1>10, <2>1, Goes DEF ItemReturns, Places, Threads
  <2>3. fate' \in [Items -> {"new", "queued", "running", "done", "dropped",
                             "killed"}]
      BY <1>10 DEF ItemReturns
  <2>4. QED
      BY <1>10, <2>2, <2>3 DEF ItemReturns
<1>11. CASE Unwrapped(w)
  <2>1. stack[w] # <<>>
      BY <1>11 DEF Unwrapped, StackInv, Inside
  <2>2. stack' = [stack EXCEPT ![w] = Tail(@)]
      BY <1>11 DEF Unwrapped
  <2>3. /\ stack' \in Stacks
        /\ \A t \in Threads \ {w} : stack'[t] = stack[t]
        /\ 2 \in DOMAIN stack[w] => stack'[w] # <<>>
        /\ \A k \in DOMAIN stack'[w] : /\ k + 1 \in DOMAIN stack[w]
                                       /\ stack'[w][k] = stack[w][k + 1]
        /\ \A k \in DOMAIN stack[w] : k # 1 => k - 1 \in DOMAIN stack'[w]
      BY <2>1, <2>2, Popped
  <2>4. /\ Head(stack[w]) = stack[w][1] /\ stack[w][1] \in Frames
        /\ 1 \in DOMAIN stack[w]
      BY <2>1, Top
  <2>5. stack[w][1].back \in {"loop", "draining", "joining"}
      BY <2>4 DEF Frames
  <2>6. pc' = [pc EXCEPT ![w] = stack[w][1].back]
      BY <1>11, <2>4 DEF Unwrapped, Goto
  <2>7. pc' \in [Threads -> Places]
      BY <2>5, <2>6 DEF Places
  <2>8. stack[w][1].back # "loop" => stack'[w] # <<>>
      BY <2>3, <2>4 DEF StackInv
  <2>9. ASSUME NEW u \in Workers
        PROVE  /\ pc'[u] \in Inside => stack'[u] # <<>>
               /\ pc'[u] = "completing" => stack'[u][1].wraps > 0
               /\ \A k \in DOMAIN stack'[u] :
                     stack'[u][k].back # "loop" => k + 1 \in DOMAIN stack'[u]
    <3>1. CASE u # w
      <4>1. pc'[u] = pc[u] /\ stack'[u] = stack[u]
          BY <2>3, <2>6, <3>1 DEF Threads
      <4>2. QED
          BY <4>1 DEF StackInv
    <3>2. CASE u = w
      <4>1. pc'[w] = stack[w][1].back
          BY <2>6 DEF Threads
      <4>2. ASSUME NEW k \in DOMAIN stack'[w], stack'[w][k].back # "loop"
            PROVE  k + 1 \in DOMAIN stack'[w]
        <5>1. k + 1 \in DOMAIN stack[w] /\ stack[w][k + 1].back # "loop"
          <6>1. k \in DOMAIN stack'[w] /\ stack'[w][k].back # "loop"
              BY <4>2
          <6> HIDE DEF TypeInv, TypeOK
          <6>2. QED
              BY <2>3, <6>1
        <5>2. (k + 1) + 1 \in DOMAIN stack[w]
            BY <5>1 DEF StackInv
        <5>3. k \in Nat \ {0}
            BY <2>3 DEF Threads
        <5>4. ((k + 1) + 1) - 1 \in DOMAIN stack'[w]
          <6>1. (k + 1) + 1 # 1
              BY <5>3
          <6>2. \A j \in DOMAIN stack[w] : j # 1 => j - 1 \in DOMAIN stack'[w]
              BY <2>3
          <6>3. QED
              BY <5>2, <6>1, <6>2
        <5>5. QED
            BY <5>3, <5>4
      <4>3. QED
          BY <2>5, <2>8, <3>2, <4>1, <4>2 DEF Inside
    <3>3. QED
        BY <3>1, <3>2
  <2>10. StackInv'
      BY <2>9 DEF StackInv
  <2>11. QED
      BY <1>11, <2>3, <2>7, <2>10 DEF Unwrapped
<1>12. CASE CompleteNested(w)
  <2>1. stack[w] # <<>>
      BY <1>12 DEF CompleteNested, StackInv, Inside
  <2>2. stack[w][1].wraps > 0
      BY <1>12, <2>1, Top DEF CompleteNested
  <2>3. pc' = [pc EXCEPT ![w] = "completing"] /\ pc' \in [Threads -> Places]
      BY <1>12 DEF CompleteNested, Goto, Places
  <2>4. ASSUME NEW u \in Workers
        PROVE  /\ pc'[u] \in Inside => stack[u] # <<>>
               /\ pc'[u] = "completing" => stack[u][1].wraps > 0
      BY <2>1, <2>2, <2>3 DEF StackInv, Threads
  <2>5. stack' = stack
      BY <1>12 DEF CompleteNested
  <2>6. StackInv'
      BY <2>4, <2>5 DEF StackInv
  <2>7. QED
      BY <1>12, <2>3, <2>6 DEF CompleteNested
<1>13. CASE CompletePost(w)
  <2>1. stack[w] # <<>> /\ stack[w][1].wraps > 0
      BY <1>13 DEF CompletePost, StackInv, Inside
  <2>2. stack' = [stack EXCEPT ![w][1].wraps = @ - 1]
      BY <1>13 DEF CompletePost
  <2>3. /\ stack' \in Stacks /\ stack'[w] # <<>>
        /\ \A t \in Threads \ {w} : stack'[t] = stack[t]
        /\ DOMAIN stack'[w] = DOMAIN stack[w]
        /\ \A k \in DOMAIN stack[w] : stack'[w][k].back = stack[w][k].back
    <3>1. stack \in Stacks
        OBVIOUS
    <3> HIDE DEF TypeInv, TypeOK
    <3>2. QED
        BY <2>1, <2>2, <3>1, Uncovered
  <2>4. pc' = [pc EXCEPT ![w] = "returned"] /\ pc' \in [Threads -> Places]
      BY <1>13 DEF CompletePost, Goto, Places
  <2>5. ASSUME NEW u \in Workers
        PROVE  /\ pc'[u] \in Inside => stack'[u] # <<>>
               /\ pc'[u] = "completing" => stack'[u][1].wraps > 0
               /\ \A k \in DOMAIN stack'[u] :
                     stack'[u][k].back # "loop" => k + 1 \in DOMAIN stack'[u]
    <3>1. CASE u = w
      <4>1. pc'[w] = "returned"
          BY <2>4 DEF Threads
      <4>2. ASSUME NEW k \in DOMAIN stack'[w], stack'[w][k].back # "loop"
            PROVE  k + 1 \in DOMAIN stack'[w]
        <5>1. k \in DOMAIN stack[w] /\ stack[w][k].back # "loop"
            BY <2>3, <4>2
        <5>2. k + 1 \in DOMAIN stack[w]
            BY <5>1 DEF StackInv
        <5>3. QED
            BY <2>3, <5>2
      <4>3. QED
          BY <2>3, <3>1, <4>1, <4>2
    <3>2. CASE u # w
      <4>1. pc'[u] = pc[u] /\ stack'[u] = stack[u]
          BY <2>3, <2>4, <3>2 DEF Threads
      <4>2. QED
          BY <4>1 DEF StackInv
    <3>3. QED
        BY <3>1, <3>2
  <2>6. StackInv'
      BY <2>5 DEF StackInv
  <2>7. barrier' \in [count : Nat, unlock : Nat]
    <3>1. barrier' = [barrier EXCEPT !.count = Smaller(@ + 1, barrier.unlock)]
        BY <1>13 DEF CompletePost
    <3>2. barrier \in [count : Nat, unlock : Nat] /\ 1 \in Nat
        OBVIOUS
    <3> HIDE DEF TypeInv, TypeOK
    <3>3. QED
        BY <3>1, <3>2, BarrierCounted
  <2>8. QED
      BY <1>13, <2>3, <2>4, <2>6, <2>7 DEF CompletePost
<1>14. CASE SelfDrainEmpty(w)
  <2>1. stack[w] # <<>>
      BY <1>14 DEF SelfDrainEmpty, StackInv, Inside
  <2>2. pc' \in [Threads -> Places] /\ StackInv'
      BY <1>14, <2>1, Goes DEF SelfDrainEmpty, Places, Threads
  <2>3. QED
      BY <1>14, <2>2 DEF SelfDrainEmpty
<1>15. CASE SelfTerminates(w)
  <2>1. pc' \in [Threads -> Places] /\ StackInv'
      BY <1>15, Goes DEF SelfTerminates, Places, Inside, Threads
  <2>2. nestLevel' \in Nat
      BY <1>15 DEF SelfTerminates, Smaller
  <2>3. barrier' \in [count : Nat, unlock : Nat]
    <3>1. barrier' = [barrier EXCEPT
                        !.count = Smaller(@ + selfDrains[w], barrier.unlock)]
        BY <1>15 DEF SelfTerminates
    <3>2. barrier \in [count : Nat, unlock : Nat] /\ selfDrains[w] \in Nat
        OBVIOUS
    <3> HIDE DEF TypeInv, TypeOK
    <3>3. QED
        BY <3>1, <3>2, BarrierCounted
  <2>4. exits' \in Nat
      BY <1>15, AllFinite DEF SelfTerminates, Smaller
  <2>5. fate' \in [Items -> {"new", "queued", "running", "done", "dropped",
                             "killed"}]
      BY <1>15 DEF SelfTerminates
  <2>6. selfDrains' \in [Workers -> Nat] /\ running' \subseteq Workers
      BY <1>15 DEF SelfTerminates
  <2>7. QED
      BY <1>15, <2>1, <2>2, <2>3, <2>4, <2>5, <2>6 DEF SelfTerminates
<1>16. CASE WorkerLeaves(w)
  <2>1. pc' \in [Threads -> Places] /\ StackInv'
      BY <1>16, Goes DEF WorkerLeaves, Places, Inside, Threads
  <2>2. QED
      BY <1>16, <2>1 DEF WorkerLeaves
<1>17. CASE WorkerExits(w)
  <2>1. pc' \in [Threads -> Places] /\ StackInv'
      BY <1>17, Goes DEF WorkerExits, Places, Inside, Threads
  <2>2. exits' \in Nat
      BY <1>17, AllFinite DEF WorkerExits, Smaller
  <2>3. QED
      BY <1>17, <2>1, <2>2 DEF WorkerExits
<1>18. QED
    BY <1>1, <1>2, <1>3, <1>4, <1>5, <1>6, <1>7, <1>8, <1>9, <1>10, <1>11,
       <1>12, <1>13, <1>14, <1>15, <1>16, <1>17 DEF WorkerActs

\* Every step keeps the types.
LEMMA TypeKept == TypeInv /\ [Next]_vars => TypeInv'
<1>1. SUFFICES ASSUME TypeInv, [Next]_vars
               PROVE  TypeInv'
    OBVIOUS
<1>2. CASE UNCHANGED vars
    BY <1>1, <1>2 DEF TypeInv, TypeOK, StackInv, vars, poolVars, joinVars,
                      drainVars
<1>3. ASSUME NEW c \in Clients, DrainUnblocks(c)
      PROVE  TypeInv'
  <2>1. c \in Threads /\ c \notin Workers
      BY ThreadGroupAssumption DEF Threads
  <2>2. pc' \in [Threads -> Places] /\ StackInv'
      BY <1>1, <1>3, <2>1, Goes DEF DrainUnblocks, Places
  <2>3. QED
      BY <1>1, <1>3, <2>2 DEF DrainUnblocks, TypeInv, TypeOK, poolVars,
                              joinVars, drainVars
<1>4. QED
    BY <1>1, <1>2, <1>3, Steps, CallTypes, WorkerTypes

\* A new group has them.
LEMMA InitialTypes == Init => TypeInv
<1>1. SUFFICES ASSUME Init
               PROVE  TypeInv
    OBVIOUS
<1>2. pc = [t \in Threads |-> IF t \in Workers THEN "start" ELSE "idle"]
    BY <1>1 DEF Init
<1>3. pc \in [Threads -> Places] /\ \A w \in Workers : pc[w] = "start"
    BY <1>2 DEF Places, Threads
<1>4. stack = [t \in Threads |-> <<>>]
    BY <1>1 DEF Init
<1>5. <<>> \in Seq(Frames) /\ <<>> \in Seq(Works)
    OBVIOUS
<1>6. stack \in [Threads -> Seq(Frames)]
    BY <1>4, <1>5
<1>7. \A w \in Workers : DOMAIN stack[w] = {}
    BY <1>4, EmptyDomain DEF Threads
<1>8. StackInv
    BY <1>3, <1>7 DEF StackInv, Inside
<1>9. queue \in Seq(Works)
    BY <1>1, <1>5 DEF Init
<1>10. /\ polling \in BOOLEAN /\ joinOpen \in BOOLEAN
       /\ destroyed \in BOOLEAN /\ freed \in BOOLEAN
    BY <1>1, Zenon DEF Init
<1>11. timed = [w \in Workers |-> FALSE]
    BY <1>1 DEF Init
<1>12. timed \in [Workers -> BOOLEAN]
    BY <1>11, Zenon
<1>13. /\ state \in {"Running", "Stopped", "Draining", "Joining"}
       /\ joiner \in Threads \cup {NoThread}
       /\ running \subseteq Workers /\ exited \subseteq Workers
       /\ nested \subseteq Items \X Nat
    BY <1>1 DEF Init
<1>14. /\ tokens \in Nat /\ started \in Nat /\ exits \in Nat
       /\ nestLevel \in Nat
       /\ selfDrains \in [Workers -> Nat]
       /\ barrier \in [count : Nat, unlock : Nat]
    BY <1>1 DEF Init
<1>15. /\ ending \in [Threads -> {"none", "join", "destroy"}]
       /\ due \in [Clients -> SUBSET Items]
       /\ fate \in [Items -> {"new", "queued", "running", "done", "dropped",
                              "killed"}]
    BY <1>1 DEF Init
<1>16. TypeOK
    BY <1>3, <1>6, <1>9, <1>10, <1>12, <1>13, <1>14, <1>15 DEF TypeOK
<1>17. QED
    BY <1>8, <1>16 DEF TypeInv

\* Every variable keeps its type: no count goes below zero, and a worker that is
\* in an item has a frame for it.
THEOREM TypeCorrect == Spec => []TypeOK
<1>1. TypeInv => TypeOK
    BY DEF TypeInv
<1>2. QED
    BY InitialTypes, TypeKept, <1>1, PTL DEF Spec

--------------------------------------------------------------------------------
(* Draining keeps the group closed. *)

\* What a step does to the state and to the nesting of the drains.
LEMMA ClosedKept ==
    ASSUME ~StartAnytime, TypeInv, DrainKeepsClosed, [Next]_vars
    PROVE  DrainKeepsClosed'
<1> USE DEF TypeInv, TypeOK, DrainKeepsClosed, poolVars, joinVars, drainVars
<1>1. CASE UNCHANGED vars
    BY <1>1 DEF vars
<1>2. ASSUME NEW t \in Threads, CallActs(t)
      PROVE  DrainKeepsClosed'
  <2>1. CASE Stop(t)
      BY <2>1 DEF Stop, Transition
  <2>2. CASE Start(t)
      BY <2>2 DEF Start, Transition
  <2>3. CASE DrainBegins(t)
      BY <2>3 DEF DrainBegins
  <2>4. CASE DrainEnds(t)
    <3>1. nestLevel' = LevelAfter(t) /\ state' = StateAtLevel(LevelAfter(t))
        BY <2>4 DEF DrainEnds
    <3>2. LevelAfter(t) > 0 => nestLevel > 0
        BY DEF LevelAfter
    <3>3. QED
        BY <3>1, <3>2 DEF StateAtLevel, Transition
  <2>5. CASE Join(t) \/ Destroy(t)
      BY <2>5 DEF Join, Destroy, BeginJoining
  <2>6. CASE \/ \E i \in Items : Add(t, i)
             \/ AddPost(t) \/ AddRefused(t) \/ DrainReturns(t)
             \/ JoinRefused(t) \/ DestroyAgain(t)
      BY <2>6 DEF Add, AddPost, AddRefused, DrainReturns, JoinRefused,
                  DestroyAgain
  <2>7. CASE CollectWorkers(t) \/ JoinerDone(t) \/ FollowerDone(t)
      BY <2>7 DEF CollectWorkers, JoinerDone, FollowerDone, EndCall
  <2>8. QED
      BY <1>2, <2>1, <2>2, <2>3, <2>4, <2>5, <2>6, <2>7 DEF CallActs
<1>3. ASSUME NEW c \in Clients, DrainUnblocks(c)
      PROVE  DrainKeepsClosed'
    BY <1>3 DEF DrainUnblocks
<1>4. ASSUME NEW w \in Workers, WorkerActs(w)
      PROVE  DrainKeepsClosed'
  <2>1. CASE SelfTerminates(w)
      BY <2>1 DEF SelfTerminates, Smaller
  <2>2. CASE ~SelfTerminates(w)
      BY <1>4, <2>2 DEF WorkerActs, WorkerStarts, ReadTimeout, SemBlocks,
         SemTakes, SemTimesOut, FetchItem, FetchNothing, ItemReturns, Unwrapped,
         CompleteNested, CompletePost, SelfDrainDispatches, SelfDrainEmpty,
         SelfJoinDispatches, WorkerLeaves, WorkerExits
  <2>3. QED
      BY <2>1, <2>2
<1>5. QED
    BY <1>1, <1>2, <1>3, <1>4, Steps

\* While a Drain() is in progress no new work is accepted, unless by a Join():
\* this needs that nobody calls Start() meanwhile, which ends the draining.
THEOREM ClosedWhileDraining ==
    ASSUME ~StartAnytime
    PROVE  Spec => []DrainKeepsClosed
<1>1. Init => DrainKeepsClosed
    BY DEF Init, DrainKeepsClosed
<1>2. TypeInv /\ DrainKeepsClosed /\ [Next]_vars => DrainKeepsClosed'
    BY ClosedKept
<1>3. QED
    BY InitialTypes, TypeKept, <1>1, <1>2, PTL DEF Spec

--------------------------------------------------------------------------------
(* No queued item is forgotten by the semaphore. *)

\* A thread that is elsewhere before and after a step does not count.
LEMMA Elsewhere ==
    ASSUME TypeInv, NEW t \in Threads, NEW l, Goto(t, l),
           NEW x, pc[t] # x, l # x
    PROVE  At(x)' = At(x)
BY DEF TypeInv, TypeOK, Goto, At

\* The threads at a place can be counted.
LEMMA AtFinite ==
    ASSUME NEW x
    PROVE  IsFiniteSet(At(x)) /\ Cardinality(At(x)) \in Nat
<1>1. IsFiniteSet(Threads)
    BY ThreadGroupAssumption, FS_Union DEF Threads
<1>2. At(x) \in SUBSET Threads
    BY DEF At
<1>3. QED
    BY <1>1, <1>2, FS_Subset, FS_CardinalityType

\* One that comes to a place counts one more, ...
LEMMA Arrives ==
    ASSUME TypeInv, NEW t \in Threads, NEW l, Goto(t, l), pc[t] # l
    PROVE  Cardinality(At(l)') = Cardinality(At(l)) + 1
<1>1. At(l)' = At(l) \cup {t} /\ t \notin At(l)
    BY DEF TypeInv, TypeOK, Goto, At
<1>2. QED
    BY <1>1, AtFinite, FS_AddElement

\* ... one that leaves it, one less.
LEMMA Departs ==
    ASSUME TypeInv, NEW t \in Threads, NEW x, pc[t] = x,
           NEW l, Goto(t, l), l # x
    PROVE  Cardinality(At(x)') = Cardinality(At(x)) - 1
<1>1. At(x)' = At(x) \ {t} /\ t \in At(x)
    BY DEF TypeInv, TypeOK, Goto, At
<1>2. QED
    BY <1>1, AtFinite, FS_RemoveElement

\* Stop() empties the queue, and nothing is added until the next Start().
StoppedEmpty == state = "Stopped" => queue = <<>>

Signalled == WorkIsSignalled /\ StoppedEmpty

\* What is counted here has its type.
LEMMA CountedTypes ==
    ASSUME TypeInv
    PROVE  /\ queue \in Seq(Works) /\ Len(queue) \in Nat /\ tokens \in Nat
           /\ state \in {"Running", "Stopped", "Draining", "Joining"}
BY DEF TypeInv, TypeOK

\* A step that leaves the queue and the state, and brings no thread to a Post()
\* or away from one or to the queue, leaves the items signalled.
LEMMA StillSignalled ==
    ASSUME TypeInv, Signalled, NEW t \in Threads, NEW l, Goto(t, l),
           pc[t] \notin {"adding", "fetch"}, l \notin {"adding", "fetch"},
           tokens' \in Nat, tokens' >= tokens,
           queue' \in Seq(Works), Len(queue') <= Len(queue),
           state' = "Stopped" => state = "Stopped"
    PROVE  Signalled'
<1>1. At("adding")' = At("adding") /\ At("fetch")' = At("fetch")
    BY Elsewhere
<1>2. Len(queue) \in Nat /\ Len(queue') \in Nat /\ tokens \in Nat
    BY DEF TypeInv, TypeOK
<1>3. WorkIsSignalled'
    BY <1>1, <1>2, AtFinite DEF Signalled, WorkIsSignalled
<1>4. StoppedEmpty'
  <2>1. queue = <<>> => Len(queue) = 0
      OBVIOUS
  <2>2. Len(queue') = 0 => queue' = <<>>
      OBVIOUS
  <2>3. QED
      BY <1>2, <2>1, <2>2 DEF Signalled, StoppedEmpty
<1>5. QED
    BY <1>3, <1>4 DEF Signalled

\* The calls keep the items signalled.
LEMMA CallSignals ==
    ASSUME TypeInv, Signalled, NEW t \in Threads, CallActs(t)
    PROVE  Signalled'
<1> USE DEF poolVars, joinVars, drainVars
<1>1. /\ queue \in Seq(Works) /\ Len(queue) \in Nat /\ tokens \in Nat
      /\ state \in {"Running", "Stopped", "Draining", "Joining"}
    BY CountedTypes
<1>2. TypeInv' /\ queue' \in Seq(Works) /\ Len(queue') \in Nat /\ tokens' \in Nat
  <2>1. TypeInv'
      BY CallTypes
  <2>2. queue' \in Seq(Works) /\ tokens' \in Nat
      BY <2>1 DEF TypeInv, TypeOK
  <2>3. QED
      BY <2>1, <2>2
<1>3. \A call : MayCall(t, call) => pc[t] \in {"idle", "run"}
    BY DEF MayCall
<1>4. CASE \E i \in Items : Add(t, i)
  <2>1. PICK i \in Items : Add(t, i)
      BY <1>4
  <2>2. /\ Goto(t, "adding") /\ tokens' = tokens /\ state' = state
        /\ pc[t] \notin {"adding", "fetch"} /\ state # "Stopped"
        /\ queue' = Append(queue, [item |-> i, wraps |-> 0])
      BY <2>1, <1>3 DEF Add, AcceptsWork
  <2>3. Len(queue') = Len(queue) + 1
      BY <1>1, <2>2 DEF Works
  <2>4. Cardinality(At("adding")') = Cardinality(At("adding")) + 1
      BY <2>2, Arrives
  <2>5. At("fetch")' = At("fetch")
      BY <2>2, Elsewhere
  <2>6. QED
      BY <1>1, <2>2, <2>3, <2>4, <2>5, AtFinite
         DEF Signalled, WorkIsSignalled, StoppedEmpty
<1>5. CASE AddPost(t)
  <2>1. \E l \in {"run", "idle"} : Goto(t, l)
      BY <1>5 DEF AddPost, Return
  <2>2. PICK l \in {"run", "idle"} : Goto(t, l)
      BY <2>1
  <2>3. /\ pc[t] = "adding" /\ tokens' = tokens + 1 /\ state' = state
        /\ queue' = queue
      BY <1>5 DEF AddPost
  <2>4. Cardinality(At("adding")') = Cardinality(At("adding")) - 1
      BY <2>2, <2>3, Departs
  <2>5. At("fetch")' = At("fetch")
      BY <2>2, <2>3, Elsewhere
  <2>6. QED
      BY <1>1, <2>3, <2>4, <2>5, AtFinite
         DEF Signalled, WorkIsSignalled, StoppedEmpty
<1>6. CASE Stop(t)
  <2>1. pc[t] \notin {"adding", "fetch"} /\ state' = Transition("Stopped")
      BY <1>3, <1>6 DEF Stop
  <2>2. PICK l \in {"run", "idle"} : Goto(t, l)
      BY <1>6 DEF Stop, Return
  <2>3. CASE state' = "Stopped"
    <3>1. queue' = <<>>
        BY <1>6, <2>3 DEF Stop, Discard
    <3>2. Len(queue') = 0
        BY <3>1
    <3>3. At("adding")' = At("adding") /\ At("fetch")' = At("fetch")
        BY <2>1, <2>2, Elsewhere
    <3>4. QED
        BY <1>2, <3>1, <3>2, <3>3, AtFinite
           DEF Signalled, WorkIsSignalled, StoppedEmpty
  <2>4. CASE state' # "Stopped"
    <3>1. tokens' = tokens /\ queue' = queue
        BY <1>6, <2>4 DEF Stop
    <3>2. QED
        BY <1>1, <2>1, <2>2, <2>4, <3>1, StillSignalled
  <2>5. QED
      BY <2>3, <2>4
<1>7. CASE Start(t)
  <2>1. /\ pc[t] \notin {"adding", "fetch"} /\ state' = Transition("Running")
        /\ queue' = queue /\ tokens' >= tokens
      BY <1>1, <1>3, <1>7 DEF Start
  <2>2. PICK l \in {"run", "idle"} : Goto(t, l)
      BY <1>7 DEF Start, Return
  <2>3. state' # "Stopped"
      BY <1>1, <2>1 DEF Transition
  <2>4. QED
      BY <1>1, <1>2, <2>1, <2>2, <2>3, StillSignalled
<1>8. CASE DrainBegins(t)
  <2>1. /\ pc[t] \notin {"adding", "fetch"} /\ state' = "Draining" /\ Begin
        /\ tokens' = tokens
      BY <1>3, <1>8 DEF DrainBegins
  <2>2. PICK l \in {"drainHeld", "blocked"} : Goto(t, l)
      BY <1>8 DEF DrainBegins
  <2>3. Len(queue') = Len(queue)
      BY <2>1, Begun
  <2>4. QED
      BY <1>1, <1>2, <2>1, <2>2, <2>3, StillSignalled
<1>9. CASE DrainEnds(t)
  <2>1. /\ pc[t] \notin {"adding", "fetch"} /\ queue' = queue /\ tokens' = tokens
        /\ state' = StateAtLevel(LevelAfter(t))
      BY <1>9 DEF DrainEnds
  <2>2. PICK l \in {"run", "idle"} : Goto(t, l)
      BY <1>9 DEF DrainEnds, Return
  <2>3. state' = "Stopped" => state = "Stopped"
      BY <2>1 DEF StateAtLevel, Transition
  <2>4. QED
      BY <1>1, <2>1, <2>2, <2>3, StillSignalled
<1>10. CASE Join(t) \/ Destroy(t)
  <2>1. /\ pc[t] \notin {"adding", "fetch"} /\ state' = "Joining"
        /\ queue' = queue /\ WakeWorkers
      BY <1>3, <1>10 DEF Join, Destroy, BeginJoining
  <2>2. PICK l \in {"joinHeld", "quiesce"} : Goto(t, l)
      BY <1>10 DEF Join, Destroy, BeginJoining
  <2>3. Cardinality(running) \in Nat
      BY RunningFinite DEF TypeInv, TypeOK
  <2>4. tokens' >= tokens
      BY <1>1, <2>1, <2>3 DEF WakeWorkers
  <2>5. QED
      BY <1>1, <1>2, <2>1, <2>2, <2>4, StillSignalled
<1>11. CASE AddRefused(t) \/ DrainReturns(t) \/ JoinRefused(t) \/ DestroyAgain(t)
  <2>1. /\ pc[t] \notin {"adding", "fetch"}
        /\ queue' = queue /\ tokens' = tokens /\ state' = state
      BY <1>3, <1>11 DEF AddRefused, DrainReturns, JoinRefused, DestroyAgain
  <2>2. PICK l \in {"run", "idle"} : Goto(t, l)
      BY <1>11 DEF AddRefused, DrainReturns, JoinRefused, DestroyAgain, Return
  <2>3. QED
      BY <1>1, <2>1, <2>2, StillSignalled
<1>12. CASE CollectWorkers(t) \/ JoinerDone(t) \/ FollowerDone(t)
  <2>1. /\ pc[t] \notin {"adding", "fetch"}
        /\ queue' = queue /\ tokens' = tokens /\ state' = state
      BY <1>12 DEF CollectWorkers, JoinerDone, FollowerDone, EndCall
  <2>2. PICK l \in {"releasing", "gone", "idle"} : Goto(t, l)
      BY <1>12 DEF CollectWorkers, JoinerDone, FollowerDone, EndCall
  <2>3. QED
      BY <1>1, <2>1, <2>2, StillSignalled
<1>13. QED
    BY <1>4, <1>5, <1>6, <1>7, <1>8, <1>9, <1>10, <1>11, <1>12 DEF CallActs

\* So do the workers.
LEMMA WorkerSignals ==
    ASSUME TypeInv, Signalled, NEW w \in Workers, WorkerActs(w)
    PROVE  Signalled'
<1> USE DEF poolVars, joinVars, drainVars
<1>1. /\ queue \in Seq(Works) /\ Len(queue) \in Nat /\ tokens \in Nat
      /\ w \in Threads
    BY CountedTypes DEF Threads
<1>2. TypeInv' /\ queue' \in Seq(Works) /\ Len(queue') \in Nat /\ tokens' \in Nat
  <2>1. TypeInv'
      BY WorkerTypes
  <2>2. queue' \in Seq(Works) /\ tokens' \in Nat
      BY <2>1 DEF TypeInv, TypeOK
  <2>3. QED
      BY <2>1, <2>2
<1>3. CASE WorkerStarts(w) \/ ReadTimeout(w) \/ SemBlocks(w) \/ ItemReturns(w)
           \/ CompleteNested(w) \/ CompletePost(w) \/ SelfDrainEmpty(w)
           \/ WorkerLeaves(w) \/ WorkerExits(w) \/ SelfTerminates(w)
  <2>1. /\ pc[w] \notin {"adding", "fetch"}
        /\ queue' = queue /\ tokens' = tokens /\ state' = state
      BY <1>3 DEF WorkerStarts, ReadTimeout, SemBlocks, ItemReturns,
         CompleteNested, CompletePost, SelfDrainEmpty, WorkerLeaves, WorkerExits,
         SelfTerminates
  <2>2. PICK l \in {"loop", "wait", "asleep", "returned", "completing", "drained",
                    "posting", "gone", "quiesce"} : Goto(w, l)
      BY <1>3 DEF WorkerStarts, ReadTimeout, SemBlocks, ItemReturns,
         CompleteNested, CompletePost, SelfDrainEmpty, WorkerLeaves, WorkerExits,
         SelfTerminates
  <2>3. QED
      BY <1>1, <2>1, <2>2, StillSignalled
<1>4. CASE SemTakes(w) \/ SemTimesOut(w)
  <2>1. /\ pc[w] \in {"wait", "asleep"} /\ Goto(w, "fetch")
        /\ queue' = queue /\ state' = state /\ tokens' >= tokens - 1
      BY <1>1, <1>4 DEF SemTakes, SemTimesOut
  <2>2. Cardinality(At("fetch")') = Cardinality(At("fetch")) + 1
      BY <1>1, <2>1, Arrives
  <2>3. At("adding")' = At("adding")
      BY <1>1, <2>1, Elsewhere
  <2>4. QED
      BY <1>1, <1>2, <2>1, <2>2, <2>3, AtFinite
         DEF Signalled, WorkIsSignalled, StoppedEmpty
<1>5. CASE FetchItem(w)
  <2>1. /\ pc[w] = "fetch" /\ Goto(w, "run") /\ queue' = Tail(queue)
        /\ queue # <<>> /\ tokens' = tokens /\ state' = state
      BY <1>5 DEF FetchItem, Dispatch
  <2>2. Len(queue') = Len(queue) - 1
      BY <1>1, <2>1, TailOf
  <2>3. Cardinality(At("fetch")') = Cardinality(At("fetch")) - 1
      BY <1>1, <2>1, Departs
  <2>4. At("adding")' = At("adding")
      BY <1>1, <2>1, Elsewhere
  <2>5. state # "Stopped"
      BY <2>1 DEF Signalled, StoppedEmpty
  <2>6. QED
      BY <1>1, <2>1, <2>2, <2>3, <2>4, <2>5, AtFinite
         DEF Signalled, WorkIsSignalled, StoppedEmpty
<1>6. CASE FetchNothing(w)
  <2>1. /\ pc[w] = "fetch" /\ queue' = queue /\ tokens' = tokens /\ state' = state
        /\ state = "Stopped" \/ queue = <<>>
      BY <1>6 DEF FetchNothing, NothingToDo
  <2>2. queue = <<>>
      BY <2>1 DEF Signalled, StoppedEmpty
  <2>3. Len(queue) = 0
      BY <2>2
  <2>4. Cardinality(At("adding")') \in Nat /\ Cardinality(At("fetch")') \in Nat
    <3>1. /\ IsFiniteSet(Threads)
          /\ At("adding")' \in SUBSET Threads /\ At("fetch")' \in SUBSET Threads
        BY ThreadGroupAssumption, FS_Union DEF Threads, At
    <3>2. QED
        BY <3>1, FS_Subset, FS_CardinalityType
  <2>5. QED
      BY <1>1, <2>1, <2>2, <2>3, <2>4 DEF Signalled, WorkIsSignalled, StoppedEmpty
<1>7. CASE SelfDrainDispatches(w) \/ SelfJoinDispatches(w)
  <2>1. /\ pc[w] \notin {"adding", "fetch"} /\ Goto(w, "run")
        /\ queue' = Tail(queue) /\ queue # <<>>
        /\ tokens' = tokens /\ state' = state
      BY <1>7 DEF SelfDrainDispatches, SelfJoinDispatches, Dispatch
  <2>2. Len(queue') = Len(queue) - 1
      BY <1>1, <2>1, TailOf
  <2>3. QED
      BY <1>1, <1>2, <2>1, <2>2, StillSignalled
<1>8. CASE Unwrapped(w)
  <2>1. /\ pc[w] = "returned" /\ Head(stack[w]).wraps = 0
        /\ queue' = queue /\ tokens' = tokens /\ state' = state
        /\ Goto(w, Head(stack[w]).back)
      BY <1>8 DEF Unwrapped
  <2>2. stack[w] # <<>> /\ stack \in Stacks
      BY <2>1 DEF TypeInv, TypeOK, StackInv, Inside, Stacks
  <2>3. Head(stack[w]).back \in {"loop", "draining", "joining"}
      BY <2>2, Top DEF Frames
  <2>4. QED
      BY <1>1, <2>1, <2>3, StillSignalled
<1>9. QED
    BY <1>3, <1>4, <1>5, <1>6, <1>7, <1>8 DEF WorkerActs

\* For every queued item there is a count of the semaphore, a Post() to come or a
\* worker about to look at the queue: no order of the unlocked Post() of Add(),
\* of Stop(), Start(), drains, joins and timeouts leaves an item behind.
THEOREM NoItemForgotten == Spec => []WorkIsSignalled
<1>1. Init => Signalled
  <2>1. ASSUME Init
        PROVE  Signalled
    <3>1. Len(queue) = 0 /\ tokens = 0 /\ state = "Running"
        BY <2>1 DEF Init
    <3>2. QED
        BY <3>1, AtFinite DEF Signalled, WorkIsSignalled, StoppedEmpty
  <2>2. QED
      BY <2>1
<1>2. TypeInv /\ Signalled /\ [Next]_vars => Signalled'
  <2>1. SUFFICES ASSUME TypeInv, Signalled, [Next]_vars
                 PROVE  Signalled'
      OBVIOUS
  <2>2. CASE UNCHANGED vars
      BY <2>1, <2>2 DEF vars, poolVars, Signalled, WorkIsSignalled, StoppedEmpty,
                        At
  <2>3. ASSUME NEW c \in Clients, DrainUnblocks(c)
        PROVE  Signalled'
    <3>1. /\ c \in Threads /\ pc[c] = "blocked" /\ Goto(c, "drained")
          /\ queue' = queue /\ tokens' = tokens /\ state' = state
        BY <2>3 DEF DrainUnblocks, Threads, poolVars
    <3>2. queue \in Seq(Works) /\ Len(queue) \in Nat /\ tokens \in Nat
        BY <2>1 DEF TypeInv, TypeOK
    <3>3. QED
        BY <2>1, <3>1, <3>2, StillSignalled
  <2>4. QED
      BY <2>1, <2>2, <2>3, Steps, CallSignals, WorkerSignals
<1>3. Signalled => WorkIsSignalled
    BY DEF Signalled
<1>4. QED
    BY InitialTypes, TypeKept, <1>1, <1>2, <1>3, PTL DEF Spec

--------------------------------------------------------------------------------
(* An item runs at most once. *)

\* The queue holds items that wait, each once; what a worker is in, and what it
\* drains or joins from, has been taken from the queue.
WaitingQueued == \A k \in DOMAIN queue : fate[queue[k].item] = "queued"
QueuedOnce ==
    \A j, k \in DOMAIN queue : queue[j].item = queue[k].item => j = k
TakenApart ==
    \A w \in Workers : \A k \in DOMAIN stack[w] :
        fate[stack[w][k].item] \notin {"new", "queued"}

Fates == WaitingQueued /\ QueuedOnce /\ TakenApart

\* A worker is in items.
LEMMA FramesAreItems ==
    ASSUME stack \in Stacks, NEW w \in Workers, NEW k \in DOMAIN stack[w]
    PROVE  stack[w][k].item \in Items
<1>1. stack[w] \in Seq(Frames)
    BY DEF Stacks, Threads
<1>2. stack[w][k] \in Frames
    BY <1>1
<1>3. QED
    BY <1>2 DEF Frames

\* What a step must do to the queue, the stacks and the fates.
LEMMA FatesKept ==
    ASSUME Fates,
           \A k \in DOMAIN queue' : /\ k \in DOMAIN queue
                                    /\ queue'[k].item = queue[k].item,
           \A w \in Workers : \A k \in DOMAIN stack'[w] :
              \E j \in DOMAIN stack[w] : stack'[w][k].item = stack[w][j].item,
           fate' = fate
    PROVE  Fates'
BY DEF Fates, WaitingQueued, QueuedOnce, TakenApart

\* The frames of a thread whose call returns are of the same items.
LEMMA ReturnFrames ==
    ASSUME TypeInv, NEW t \in Threads, Return(t),
           t \in Workers => stack[t] # <<>>,
           NEW w \in Workers
    PROVE  /\ DOMAIN stack'[w] = DOMAIN stack[w]
           /\ \A k \in DOMAIN stack[w] :
                 /\ stack'[w][k].item = stack[w][k].item
                 /\ stack'[w][k].back = stack[w][k].back
                 /\ stack'[w][k].wraps = stack[w][k].wraps
<1>1. stack \in Stacks /\ pc \in [Threads -> Places]
    BY DEF TypeInv, TypeOK, Stacks
<1>2. CASE t \in Workers
  <2>1. /\ \A u \in Threads \ {t} : stack'[u] = stack[u]
        /\ DOMAIN stack'[t] = DOMAIN stack[t]
        /\ stack'[t][1].item = stack[t][1].item
        /\ stack'[t][1].back = stack[t][1].back
        /\ stack'[t][1].wraps = stack[t][1].wraps
        /\ \A j \in DOMAIN stack[t] : j # 1 => stack'[t][j] = stack[t][j]
      BY <1>1, <1>2, Returned
  <2>2. CASE w # t
      BY <2>1, <2>2 DEF Threads
  <2>3. CASE w = t
    <3>1. ASSUME NEW k \in DOMAIN stack[t]
          PROVE  /\ stack'[t][k].item = stack[t][k].item
                 /\ stack'[t][k].back = stack[t][k].back
                 /\ stack'[t][k].wraps = stack[t][k].wraps
      <4>1. CASE k = 1
          BY <2>1, <4>1
      <4>2. CASE k # 1
          BY <2>1, <4>2
      <4>3. QED
          BY <4>1, <4>2
    <3>2. QED
        BY <2>1, <2>3, <3>1
  <2>4. QED
      BY <2>2, <2>3
<1>3. CASE t \notin Workers
    BY <1>3 DEF Return
<1>4. QED
    BY <1>2, <1>3

\* No call changes what a worker is in, where it goes on, or what it completes.
LEMMA CallFrames ==
    ASSUME TypeInv, NEW t \in Threads, CallActs(t),
           NEW w \in Workers
    PROVE  /\ DOMAIN stack'[w] = DOMAIN stack[w]
           /\ \A k \in DOMAIN stack[w] :
                 /\ stack'[w][k].item = stack[w][k].item
                 /\ stack'[w][k].back = stack[w][k].back
                 /\ stack'[w][k].wraps = stack[w][k].wraps
<1>1. CASE \/ AddPost(t) \/ AddRefused(t) \/ Stop(t) \/ Start(t) \/ DrainReturns(t)
           \/ DrainEnds(t) \/ JoinRefused(t) \/ DestroyAgain(t)
  <2>1. Return(t)
      BY <1>1 DEF AddPost, AddRefused, Stop, Start, DrainReturns, DrainEnds,
                  JoinRefused, DestroyAgain
  <2>2. t \in Workers => stack[t] # <<>>
    <3>1. CASE AddPost(t) \/ DrainEnds(t)
        BY <3>1 DEF AddPost, DrainEnds, TypeInv, StackInv, Inside
    <3>2. CASE AddRefused(t) \/ Stop(t) \/ Start(t) \/ DrainReturns(t)
               \/ JoinRefused(t) \/ DestroyAgain(t)
        BY <3>2, Caller DEF AddRefused, Stop, Start, DrainReturns, JoinRefused,
                            DestroyAgain
    <3>3. QED
        BY <1>1, <3>1, <3>2
  <2>3. QED
      BY <2>1, <2>2, ReturnFrames
<1>2. CASE DrainBegins(t) /\ t \in running
  <2>1. t \in Workers /\ QueuedItems \in SUBSET Items /\ stack \in Stacks
      BY <1>2, QueuedAreItems DEF TypeInv, TypeOK, Stacks
  <2>2. stack[t] # <<>>
      BY <1>2, <2>1, Caller DEF DrainBegins
  <2>3. stack' = [stack EXCEPT ![t][1].due = QueuedItems]
      BY <1>2 DEF DrainBegins
  <2>4. QED
      BY <2>1, <2>2, <2>3, DueMarked DEF Threads
<1>3. CASE \/ DrainBegins(t) /\ t \notin running
           \/ \E i \in Items : Add(t, i)
           \/ Join(t) \/ Destroy(t)
           \/ CollectWorkers(t) \/ JoinerDone(t) \/ FollowerDone(t)
  <2>1. stack' = stack
      BY <1>3 DEF DrainBegins, Add, Join, Destroy, BeginJoining, CollectWorkers,
                  JoinerDone, FollowerDone, EndCall
  <2>2. QED
      BY <2>1
<1>4. QED
    BY <1>1, <1>2, <1>3 DEF CallActs

\* Calls keep the items apart, and run none.
LEMMA CallFates ==
    ASSUME TypeInv, Fates, NEW t \in Threads, CallActs(t)
    PROVE  /\ Fates'
           /\ \A i \in Items : fate'[i] = "running" => fate[i] = "running"
<1> USE DEF poolVars, joinVars, drainVars
<1>1. /\ queue \in Seq(Works) /\ stack \in Stacks
      /\ fate \in [Items -> {"new", "queued", "running", "done", "dropped",
                             "killed"}]
    BY DEF TypeInv, TypeOK, Stacks
<1>2. \A k \in DOMAIN queue : queue[k].item \in Items
    BY <1>1, QueuedAreItems
<1>3. \A w \in Workers : \A k \in DOMAIN stack[w] : stack[w][k].item \in Items
    BY <1>1, FramesAreItems
<1>4. CASE \E i \in Items : Add(t, i)
  <2>1. PICK i \in Items : Add(t, i)
      BY <1>4
  <2>2. /\ fate[i] = "new" /\ fate' = [fate EXCEPT ![i] = "queued"]
        /\ queue' = Append(queue, [item |-> i, wraps |-> 0]) /\ stack' = stack
      BY <2>1 DEF Add
  <2>3. fate'[i] = "queued" /\ \A j \in Items \ {i} : fate'[j] = fate[j]
      BY <1>1, <2>2
  <2>4. \A k \in DOMAIN queue' :
           \/ /\ k \in DOMAIN queue
              /\ queue'[k].item = queue[k].item
              /\ queue[k].item # i
           \/ k = Len(queue) + 1 /\ k \notin DOMAIN queue /\ queue'[k].item = i
      BY <1>1, <2>2 DEF Fates, WaitingQueued, Works
  <2>5. WaitingQueued' /\ QueuedOnce'
      BY <1>2, <2>3, <2>4 DEF Fates, WaitingQueued, QueuedOnce
  <2>6. TakenApart'
      BY <1>3, <2>2, <2>3 DEF Fates, TakenApart
  <2>7. QED
      BY <2>3, <2>5, <2>6 DEF Fates
<1>5. CASE Stop(t)
  <2>1. \A w \in Workers : \A k \in DOMAIN stack'[w] :
           k \in DOMAIN stack[w] /\ stack'[w][k].item = stack[w][k].item
      BY CallFrames
  <2>2. CASE state' = "Stopped"
    <3>1. /\ queue' = <<>>
          /\ fate' = [i \in Items |->
                        IF i \in QueuedItems THEN "dropped" ELSE fate[i]]
        BY <1>5, <2>2 DEF Stop, Discard
    <3>2. WaitingQueued' /\ QueuedOnce'
        BY <3>1, EmptyDomain DEF WaitingQueued, QueuedOnce
    <3>3. TakenApart'
        BY <1>3, <2>1, <3>1 DEF Fates, TakenApart
    <3>4. QED
        BY <3>1, <3>2, <3>3 DEF Fates
  <2>3. CASE state' # "Stopped"
    <3>1. queue' = queue /\ fate' = fate
        BY <1>5, <2>3 DEF Stop
    <3>2. QED
        BY <2>1, <3>1, FatesKept
  <2>4. QED
      BY <2>2, <2>3
<1>6. CASE DrainBegins(t)
  <2>1. fate' = fate /\ Begin
      BY <1>6 DEF DrainBegins
  <2>2. \A k \in DOMAIN queue' :
           k \in DOMAIN queue /\ queue'[k].item = queue[k].item
      BY <2>1, Begun
  <2>3. \A w \in Workers : \A k \in DOMAIN stack'[w] :
           k \in DOMAIN stack[w] /\ stack'[w][k].item = stack[w][k].item
      BY CallFrames
  <2>4. QED
      BY <2>1, <2>2, <2>3, FatesKept
<1>7. CASE AddPost(t) \/ AddRefused(t) \/ Start(t) \/ DrainReturns(t)
           \/ DrainEnds(t) \/ JoinRefused(t) \/ DestroyAgain(t)
  <2>1. queue' = queue /\ fate' = fate
      BY <1>7 DEF AddPost, AddRefused, Start, DrainReturns, DrainEnds,
                  JoinRefused, DestroyAgain
  <2>2. QED
      BY <2>1, CallFrames, FatesKept
<1>8. CASE \/ Join(t) \/ Destroy(t)
           \/ CollectWorkers(t) \/ JoinerDone(t) \/ FollowerDone(t)
  <2>1. queue' = queue /\ stack' = stack /\ fate' = fate
      BY <1>8 DEF Join, Destroy, BeginJoining, CollectWorkers, JoinerDone,
                  FollowerDone, EndCall
  <2>2. QED
      BY <2>1, FatesKept
<1>9. QED
    BY <1>4, <1>5, <1>6, <1>7, <1>8 DEF CallActs

\* A worker that enters an item takes it from the queue, where it was once.
LEMMA DispatchFates ==
    ASSUME TypeInv, Fates, NEW w \in Workers,
           NEW back \in {"loop", "draining", "joining"},
           Dispatch(w, back), back # "loop" => stack[w] # <<>>
    PROVE  /\ Fates'
           /\ \A i \in Items : fate'[i] = "running" /\ fate[i] # "running"
                                  => fate[i] = "queued"
<1>1. /\ queue \in Seq(Works) /\ stack \in Stacks
      /\ fate \in [Items -> {"new", "queued", "running", "done", "dropped",
                             "killed"}]
    BY DEF TypeInv, TypeOK, Stacks
<1> DEFINE h == queue[1].item
<1>2. /\ \A k \in DOMAIN queue' : /\ k + 1 \in DOMAIN queue
                                  /\ queue'[k] = queue[k + 1]
      /\ Head(queue) = queue[1] /\ 1 \in DOMAIN queue
      /\ h \in Items
      /\ fate' = [fate EXCEPT ![h] = "running"]
      /\ \A t \in Threads \ {w} : stack'[t] = stack[t]
      /\ stack'[w][1].item = h
      /\ \A k \in DOMAIN stack'[w] :
            k # 1 => k - 1 \in DOMAIN stack[w] /\ stack'[w][k] = stack[w][k - 1]
    BY Dispatched
<1>3. fate[h] = "queued" /\ fate'[h] = "running"
    BY <1>1, <1>2 DEF Fates, WaitingQueued
<1>4. \A i \in Items \ {h} : fate'[i] = fate[i]
    BY <1>1, <1>2
<1>5. \A k \in DOMAIN queue : queue[k].item \in Items
    BY <1>1, QueuedAreItems
<1>6. \A u \in Workers : \A k \in DOMAIN stack[u] : stack[u][k].item \in Items
    BY <1>1, FramesAreItems
<1>7. \A k \in DOMAIN queue' : k \in Nat \ {0} /\ queue'[k].item # h
  <2>1. TAKE k \in DOMAIN queue'
  <2>2. queue' \in Seq(Works)
      BY Dispatched
  <2>3. k \in Nat \ {0} /\ k + 1 # 1
      BY <2>2
  <2>4. QED
      BY <1>2, <2>3 DEF Fates, QueuedOnce
<1>8. WaitingQueued'
    BY <1>2, <1>4, <1>5, <1>7 DEF Fates, WaitingQueued
<1>9. QueuedOnce'
  <2>1. ASSUME NEW j \in DOMAIN queue', NEW k \in DOMAIN queue',
               queue'[j].item = queue'[k].item
        PROVE  j = k
    <3>1. j + 1 = k + 1
        BY <1>2, <2>1 DEF Fates, QueuedOnce
    <3>2. QED
        BY <1>7, <3>1
  <2>2. QED
      BY <2>1 DEF QueuedOnce
<1>10. TakenApart'
  <2>1. ASSUME NEW u \in Workers, NEW k \in DOMAIN stack'[u]
        PROVE  fate'[stack'[u][k].item] \notin {"new", "queued"}
    <3>1. CASE u = w /\ k = 1
        BY <1>2, <1>3, <3>1
    <3>2. CASE ~(u = w /\ k = 1)
      <4>1. PICK j \in DOMAIN stack[u] : stack'[u][k].item = stack[u][j].item
          BY <1>2, <2>1, <3>2 DEF Threads
      <4>2. fate[stack[u][j].item] \notin {"new", "queued"}
          BY DEF Fates, TakenApart
      <4>3. QED
          BY <1>3, <1>4, <1>6, <4>1, <4>2
    <3>3. QED
        BY <3>1, <3>2
  <2>2. QED
      BY <2>1 DEF TakenApart
<1>11. QED
    BY <1>3, <1>4, <1>8, <1>9, <1>10 DEF Fates

\* The workers keep the items apart.
LEMMA WorkerFates ==
    ASSUME TypeInv, Fates, NEW w \in Workers, WorkerActs(w)
    PROVE  /\ Fates'
           /\ \A i \in Items : fate'[i] = "running" /\ fate[i] # "running"
                                  => fate[i] = "queued"
<1> USE DEF poolVars, joinVars, drainVars
<1>1. /\ queue \in Seq(Works) /\ stack \in Stacks /\ w \in Threads
      /\ fate \in [Items -> {"new", "queued", "running", "done", "dropped",
                             "killed"}]
    BY DEF TypeInv, TypeOK, Stacks, Threads
<1>2. \A u \in Workers : \A k \in DOMAIN stack[u] : stack[u][k].item \in Items
    BY <1>1, FramesAreItems
<1>3. CASE FetchItem(w)
    BY <1>3, DispatchFates DEF FetchItem
<1>4. CASE SelfDrainDispatches(w) \/ SelfJoinDispatches(w)
  <2>1. stack[w] # <<>>
      BY <1>4 DEF SelfDrainDispatches, SelfJoinDispatches, TypeInv, StackInv,
                  Inside
  <2>2. QED
      BY <1>4, <2>1, DispatchFates DEF SelfDrainDispatches, SelfJoinDispatches
<1>5. CASE ItemReturns(w)
  <2>1. stack[w] # <<>>
      BY <1>5 DEF ItemReturns, TypeInv, StackInv, Inside
  <2>2. Head(stack[w]) = stack[w][1] /\ 1 \in DOMAIN stack[w]
      BY <1>1, <2>1, Top
  <2>3. /\ fate' = [fate EXCEPT ![stack[w][1].item] = "done"]
        /\ queue' = queue /\ stack' = stack
      BY <1>5, <2>2 DEF ItemReturns
  <2>4. fate[stack[w][1].item] \notin {"new", "queued"}
      BY <2>2 DEF Fates, TakenApart
  <2>5. \A i \in Items : fate'[i] = fate[i] \/ fate'[i] = "done"
      BY <1>1, <2>3
  <2>6. \A i \in Items : fate[i] = "queued" => fate'[i] = "queued"
      BY <1>1, <2>3, <2>4
  <2>7. \A k \in DOMAIN queue : queue[k].item \in Items
      BY <1>1, QueuedAreItems
  <2>8. WaitingQueued' /\ QueuedOnce'
      BY <2>3, <2>6, <2>7 DEF Fates, WaitingQueued, QueuedOnce
  <2>9. TakenApart'
      BY <1>2, <2>3, <2>5 DEF Fates, TakenApart
  <2>10. QED
      BY <2>5, <2>8, <2>9 DEF Fates
<1>6. CASE SelfTerminates(w)
  <2>1. /\ queue = <<>> /\ queue' = <<>> /\ stack' = stack
        /\ \A i \in Items : fate'[i] = fate[i] \/ fate'[i] = "killed"
      BY <1>1, <1>6 DEF SelfTerminates
  <2>2. WaitingQueued' /\ QueuedOnce'
      BY <2>1, EmptyDomain DEF WaitingQueued, QueuedOnce
  <2>3. TakenApart'
      BY <1>2, <2>1 DEF Fates, TakenApart
  <2>4. QED
      BY <2>1, <2>2, <2>3 DEF Fates
<1>7. CASE Unwrapped(w)
  <2>1. stack[w] # <<>>
      BY <1>7 DEF Unwrapped, TypeInv, StackInv, Inside
  <2>2. stack' = [stack EXCEPT ![w] = Tail(@)] /\ queue' = queue /\ fate' = fate
      BY <1>7 DEF Unwrapped
  <2>3. /\ \A t \in Threads \ {w} : stack'[t] = stack[t]
        /\ \A k \in DOMAIN stack'[w] : /\ k + 1 \in DOMAIN stack[w]
                                       /\ stack'[w][k] = stack[w][k + 1]
      BY <1>1, <2>1, <2>2, Popped
  <2>4. \A u \in Workers : \A k \in DOMAIN stack'[u] :
           \E j \in DOMAIN stack[u] : stack'[u][k].item = stack[u][j].item
      BY <2>3 DEF Threads
  <2>5. QED
      BY <2>2, <2>4, FatesKept
<1>8. CASE CompletePost(w)
  <2>1. stack[w] # <<>> /\ stack[w][1].wraps > 0
      BY <1>8 DEF CompletePost, TypeInv, StackInv, Inside
  <2>2. /\ stack' = [stack EXCEPT ![w][1].wraps = @ - 1]
        /\ queue' = queue /\ fate' = fate
      BY <1>8 DEF CompletePost
  <2>3. \A u \in Workers : \A k \in DOMAIN stack'[u] :
           k \in DOMAIN stack[u] /\ stack'[u][k].item = stack[u][k].item
      BY <1>1, <2>1, <2>2, Uncovered DEF Threads
  <2>4. QED
      BY <2>2, <2>3, FatesKept
<1>9. CASE WorkerStarts(w) \/ ReadTimeout(w) \/ SemBlocks(w) \/ SemTakes(w)
           \/ SemTimesOut(w) \/ FetchNothing(w) \/ CompleteNested(w)
           \/ SelfDrainEmpty(w) \/ WorkerLeaves(w) \/ WorkerExits(w)
  <2>1. queue' = queue /\ stack' = stack /\ fate' = fate
      BY <1>9 DEF WorkerStarts, ReadTimeout, SemBlocks, SemTakes, SemTimesOut,
                  FetchNothing, CompleteNested, SelfDrainEmpty, WorkerLeaves,
                  WorkerExits
  <2>2. QED
      BY <2>1, FatesKept
<1>10. QED
    BY <1>3, <1>4, <1>5, <1>6, <1>7, <1>8, <1>9 DEF WorkerActs

\* Nothing is queued at first.
LEMMA InitialFates == Init => Fates
BY EmptyDomain DEF Init, Fates, WaitingQueued, QueuedOnce, TakenApart, Threads

\* Every step keeps the items apart, and runs only what waits.
LEMMA FatesStep ==
    ASSUME TypeInv, Fates, [Next]_vars
    PROVE  /\ Fates'
           /\ \A i \in Items : fate'[i] = "running" /\ fate[i] # "running"
                                  => fate[i] = "queued"
<1>1. CASE UNCHANGED vars
    BY <1>1, FatesKept DEF vars, poolVars
<1>2. ASSUME NEW c \in Clients, DrainUnblocks(c)
      PROVE  Fates' /\ fate' = fate
  <2>1. queue' = queue /\ stack' = stack /\ fate' = fate
      BY <1>2 DEF DrainUnblocks, poolVars
  <2>2. QED
      BY <2>1, FatesKept
<1>3. QED
    BY <1>1, <1>2, Steps, CallFates, WorkerFates

\* An item runs at most once, and never after Stop() deleted it, whoever takes it
\* from the queue: a worker, or one that drains or joins its own group.
THEOREM ItemsRunOnce == Spec => RunsOnce
<1>1. TypeInv /\ Fates /\ [Next]_vars
         => /\ Fates'
            /\ [\A i \in Items : (fate'[i] = "running" /\ fate[i] # "running")
                                    => fate[i] = "queued"]_vars
    BY FatesStep
<1>2. QED
    BY InitialTypes, TypeKept, InitialFates, <1>1, PTL DEF Spec, RunsOnce

--------------------------------------------------------------------------------
(* When the join barrier opens the workers have left. *)

\* A worker leaves the running ones before it counts itself out.
Left(w) == pc[w] \in {"gone", "quiesce", "releasing"}
LeftWorkers == {w \in Workers : Left(w)}

RunningAtWork == \A w \in Workers : w \in running <=> ~Left(w) /\ pc[w] # "posting"
ExitsCounted == exits = Cardinality(LeftWorkers)
OpenAtEnd == (joinOpen \/ \E t \in Threads : pc[t] = "releasing") => exits = N

Leaving == RunningAtWork /\ ExitsCounted /\ OpenAtEnd

\* The workers that left can be counted, and N of them are all.
LEMMA LeftFinite ==
    /\ IsFiniteSet(LeftWorkers)
    /\ Cardinality(LeftWorkers) \in Nat
    /\ Cardinality(LeftWorkers) = N => LeftWorkers = Workers
<1>1. LeftWorkers \in SUBSET Workers
    BY DEF LeftWorkers
<1>2. QED
    BY <1>1, AllFinite, FS_Subset, FS_CardinalityType DEF N

\* A step on which nobody leaves, and nobody comes to open the barrier.
LEMMA StaysOrGone ==
    ASSUME TypeInv, Leaving, NEW t \in Threads, NEW l, Goto(t, l),
           running' = running, exits' = exits,
           joinOpen' => joinOpen \/ exits = N,
           t \in Workers /\ Left(t) => l \in {"gone", "quiesce", "releasing"},
           t \in Workers /\ ~Left(t) =>
              /\ l \notin {"gone", "quiesce", "releasing", "posting"}
              /\ pc[t] # "posting",
           l = "releasing" => exits = N
    PROVE  Leaving'
<1>1. pc' = [pc EXCEPT ![t] = l] /\ pc \in [Threads -> Places]
    BY DEF Goto, TypeInv, TypeOK
<1>2. \A w \in Workers : /\ Left(w)' = Left(w)
                         /\ ~Left(w) => (pc'[w] = "posting" <=> pc[w] = "posting")
    BY <1>1 DEF Left, Threads
<1>3. LeftWorkers' = LeftWorkers
    BY <1>2 DEF LeftWorkers
<1>4. RunningAtWork' /\ ExitsCounted'
    BY <1>2, <1>3 DEF Leaving, RunningAtWork, ExitsCounted
<1>5. OpenAtEnd'
    BY <1>1 DEF Leaving, OpenAtEnd
<1>6. QED
    BY <1>4, <1>5 DEF Leaving

\* A worker that counts itself out.
LEMMA OneMoreLeft ==
    ASSUME TypeInv, Leaving, NEW w \in Workers, ~Left(w),
           NEW l \in {"gone", "quiesce"}, Goto(w, l),
           running' = running \ {w}, exits' = Smaller(exits + 1, N),
           joinOpen' = joinOpen
    PROVE  Leaving'
<1>1. pc' = [pc EXCEPT ![w] = l] /\ pc \in [Threads -> Places] /\ w \in Threads
    BY DEF Goto, TypeInv, TypeOK, Threads
<1>2. LeftWorkers' = LeftWorkers \cup {w} /\ w \notin LeftWorkers
    BY <1>1 DEF LeftWorkers, Left, Threads
<1>3. Cardinality(LeftWorkers') = Cardinality(LeftWorkers) + 1
    BY <1>2, LeftFinite, FS_AddElement
<1>4. exits \in Nat /\ exits < N
  <2>1. LeftWorkers' \in SUBSET Workers
      BY <1>2 DEF LeftWorkers
  <2>2. Cardinality(LeftWorkers') <= N
      BY <2>1, AllFinite, FS_Subset DEF N
  <2>3. QED
      BY <1>3, <2>2, LeftFinite, AllFinite DEF Leaving, ExitsCounted
<1>5. ExitsCounted'
    BY <1>3, <1>4, AllFinite DEF Leaving, ExitsCounted, Smaller
<1>6. RunningAtWork'
    BY <1>1 DEF Leaving, RunningAtWork, Left, Threads
<1>7. OpenAtEnd'
    BY <1>1, <1>4, AllFinite DEF Leaving, OpenAtEnd
<1>8. QED
    BY <1>5, <1>6, <1>7 DEF Leaving

\* Calls do not count a worker out twice, and open the barrier at the end.
LEMMA CallLeaves ==
    ASSUME TypeInv, Leaving, NEW t \in Threads, CallActs(t)
    PROVE  Leaving'
<1> USE DEF poolVars, joinVars, drainVars
<1>1. \A call : MayCall(t, call) => pc[t] \in {"idle", "run"}
    BY DEF MayCall
<1>2. CASE \E i \in Items : Add(t, i)
  <2>1. PICK i \in Items : Add(t, i)
      BY <1>2
  <2>2. /\ Goto(t, "adding") /\ pc[t] \in {"idle", "run"}
        /\ running' = running /\ exits' = exits /\ joinOpen' = joinOpen
      BY <1>1, <2>1 DEF Add
  <2>3. QED
      BY <2>2, StaysOrGone DEF Left
<1>3. CASE AddPost(t) \/ AddRefused(t) \/ Stop(t) \/ Start(t) \/ DrainReturns(t)
           \/ DrainEnds(t) \/ JoinRefused(t) \/ DestroyAgain(t)
  <2>1. /\ pc[t] \in {"idle", "run", "adding", "drained"} /\ Return(t)
        /\ running' = running /\ exits' = exits /\ joinOpen' = joinOpen
      BY <1>1, <1>3 DEF AddPost, AddRefused, Stop, Start, DrainReturns,
                        DrainEnds, JoinRefused, DestroyAgain
  <2>2. PICK l \in {"run", "idle"} : Goto(t, l)
      BY <2>1 DEF Return
  <2>3. QED
      BY <2>1, <2>2, StaysOrGone DEF Left
<1>4. CASE DrainBegins(t)
  <2>1. /\ pc[t] \in {"idle", "run"}
        /\ running' = running /\ exits' = exits /\ joinOpen' = joinOpen
      BY <1>1, <1>4 DEF DrainBegins
  <2>2. PICK l \in {"drainHeld", "blocked"} : Goto(t, l)
      BY <1>4 DEF DrainBegins
  <2>3. QED
      BY <2>1, <2>2, StaysOrGone DEF Left
<1>5. CASE Join(t) \/ Destroy(t)
  <2>1. /\ pc[t] \in {"idle", "run"}
        /\ running' = running /\ exits' = exits /\ joinOpen' = joinOpen
        /\ Goto(t, IF t \in running THEN "joinHeld" ELSE "quiesce")
      BY <1>1, <1>5 DEF Join, Destroy, BeginJoining
  <2>2. CASE t \in Workers
    <3>1. t \in running
        BY <2>1, <2>2 DEF Leaving, RunningAtWork, Left
    <3>2. QED
        BY <2>1, <3>1, StaysOrGone DEF Left
  <2>3. CASE t \notin Workers
    <3>1. t \notin running
        BY <2>3 DEF TypeInv, TypeOK
    <3>2. QED
        BY <2>1, <2>3, <3>1, StaysOrGone DEF Left
  <2>4. QED
      BY <2>2, <2>3
<1>6. CASE CollectWorkers(t)
  <2>1. /\ pc[t] = "quiesce" /\ exits = N /\ Goto(t, "releasing")
        /\ running' = running /\ exits' = exits /\ joinOpen' = joinOpen
      BY <1>6 DEF CollectWorkers, AllWorkersLeft
  <2>2. QED
      BY <2>1, StaysOrGone DEF Left
<1>7. CASE JoinerDone(t) \/ FollowerDone(t)
  <2>1. /\ pc[t] \in {"quiesce", "releasing"}
        /\ running' = running /\ exits' = exits
        /\ Goto(t, IF t \in Workers THEN "gone" ELSE "idle")
      BY <1>7 DEF JoinerDone, FollowerDone, EndCall
  <2>2. joinOpen' => joinOpen \/ exits = N
      BY <1>7 DEF JoinerDone, FollowerDone, Leaving, OpenAtEnd
  <2>3. QED
      BY <2>1, <2>2, StaysOrGone DEF Left
<1>8. QED
    BY <1>2, <1>3, <1>4, <1>5, <1>6, <1>7 DEF CallActs

\* A worker counts itself out once: it leaves, or ends itself in a join.
LEMMA WorkerLeavesOnce ==
    ASSUME TypeInv, Leaving, NEW w \in Workers, WorkerActs(w)
    PROVE  Leaving'
<1> USE DEF poolVars, joinVars, drainVars
<1>1. w \in Threads /\ pc \in [Threads -> Places]
    BY DEF Threads, TypeInv, TypeOK
<1>2. CASE WorkerStarts(w) \/ ReadTimeout(w) \/ SemBlocks(w) \/ SemTakes(w)
           \/ SemTimesOut(w) \/ ItemReturns(w) \/ CompleteNested(w)
           \/ CompletePost(w) \/ SelfDrainEmpty(w)
  <2>1. /\ pc[w] \in {"start", "loop", "wait", "asleep", "run", "returned",
                      "completing", "draining"}
        /\ running' = running /\ exits' = exits /\ joinOpen' = joinOpen
      BY <1>2 DEF WorkerStarts, ReadTimeout, SemBlocks, SemTakes, SemTimesOut,
                  ItemReturns, CompleteNested, CompletePost, SelfDrainEmpty
  <2>2. PICK l \in {"loop", "wait", "asleep", "fetch", "returned", "completing",
                    "drained"} : Goto(w, l)
      BY <1>2 DEF WorkerStarts, ReadTimeout, SemBlocks, SemTakes, SemTimesOut,
                  ItemReturns, CompleteNested, CompletePost, SelfDrainEmpty
  <2>3. QED
      BY <1>1, <2>1, <2>2, StaysOrGone DEF Left
<1>3. CASE FetchItem(w) \/ SelfDrainDispatches(w) \/ SelfJoinDispatches(w)
  <2>1. /\ pc[w] \in {"fetch", "drainHeld", "draining", "joinHeld", "joining"}
        /\ running' = running /\ exits' = exits /\ joinOpen' = joinOpen
        /\ Goto(w, "run")
      BY <1>3 DEF FetchItem, SelfDrainDispatches, SelfJoinDispatches, Dispatch
  <2>2. QED
      BY <1>1, <2>1, StaysOrGone DEF Left
<1>4. CASE FetchNothing(w)
  <2>1. /\ pc[w] = "fetch"
        /\ running' = running /\ exits' = exits /\ joinOpen' = joinOpen
      BY <1>4 DEF FetchNothing
  <2>2. PICK l \in {"leaving", "loop"} : Goto(w, l)
      BY <1>4 DEF FetchNothing
  <2>3. QED
      BY <1>1, <2>1, <2>2, StaysOrGone DEF Left
<1>5. CASE Unwrapped(w)
  <2>1. /\ pc[w] = "returned" /\ Goto(w, Head(stack[w]).back)
        /\ running' = running /\ exits' = exits /\ joinOpen' = joinOpen
      BY <1>5 DEF Unwrapped
  <2>2. stack[w] # <<>> /\ stack \in Stacks
      BY <2>1 DEF TypeInv, TypeOK, StackInv, Inside, Stacks
  <2>3. Head(stack[w]).back \in {"loop", "draining", "joining"}
      BY <2>2, Top DEF Frames
  <2>4. QED
      BY <1>1, <2>1, <2>3, StaysOrGone DEF Left
<1>6. CASE SelfTerminates(w)
  <2>1. /\ pc[w] \in {"joinHeld", "joining"} /\ Goto(w, "quiesce")
        /\ running' = running \ {w} /\ exits' = Smaller(exits + 1, N)
        /\ joinOpen' = joinOpen
      BY <1>6 DEF SelfTerminates
  <2>2. QED
      BY <2>1, OneMoreLeft DEF Left
<1>7. CASE WorkerLeaves(w)
  <2>1. /\ pc[w] = "leaving" /\ pc' = [pc EXCEPT ![w] = "posting"]
        /\ running' = running \ {w} /\ exits' = exits /\ joinOpen' = joinOpen
      BY <1>7 DEF WorkerLeaves, Goto
  <2>2. \A u \in Workers : Left(u)' = Left(u)
      BY <1>1, <2>1 DEF Left, Threads
  <2>3. LeftWorkers' = LeftWorkers
      BY <2>2 DEF LeftWorkers
  <2>4. RunningAtWork' /\ ExitsCounted'
      BY <1>1, <2>1, <2>2, <2>3
         DEF Leaving, RunningAtWork, ExitsCounted, Threads, Left
  <2>5. OpenAtEnd'
      BY <1>1, <2>1 DEF Leaving, OpenAtEnd
  <2>6. QED
      BY <2>4, <2>5 DEF Leaving
<1>8. CASE WorkerExits(w)
  <2>1. /\ pc[w] = "posting" /\ Goto(w, "gone")
        /\ running' = running /\ exits' = Smaller(exits + 1, N)
        /\ joinOpen' = joinOpen
      BY <1>8 DEF WorkerExits
  <2>2. w \notin running
      BY <2>1 DEF Leaving, RunningAtWork
  <2>3. running' = running \ {w}
      BY <2>1, <2>2
  <2>4. QED
      BY <2>1, <2>3, OneMoreLeft DEF Left
<1>9. QED
    BY <1>2, <1>3, <1>4, <1>5, <1>6, <1>7, <1>8 DEF WorkerActs

\* No worker has left at first.
LEMMA InitialLeaving == Init => Leaving
<1>1. SUFFICES ASSUME Init
               PROVE  Leaving
    OBVIOUS
<1>2. /\ pc = [t \in Threads |-> IF t \in Workers THEN "start" ELSE "idle"]
      /\ running = Workers /\ exits = 0 /\ joinOpen = FALSE
    BY <1>1 DEF Init
<1>3. \A w \in Workers : ~Left(w) /\ pc[w] # "posting"
    BY <1>2 DEF Left, Threads
<1>4. LeftWorkers = {}
    BY <1>3 DEF LeftWorkers
<1>5. Cardinality(LeftWorkers) = 0
    BY <1>4, FS_EmptySet
<1>6. QED
    BY <1>2, <1>3, <1>5 DEF Leaving, RunningAtWork, ExitsCounted, OpenAtEnd

\* Every step keeps the count of those that left.
LEMMA LeavingKept == TypeInv /\ Leaving /\ [Next]_vars => Leaving'
<1>1. SUFFICES ASSUME TypeInv, Leaving, [Next]_vars
               PROVE  Leaving'
    OBVIOUS
<1>2. CASE UNCHANGED vars
    BY <1>1, <1>2 DEF vars, joinVars, Leaving, RunningAtWork, ExitsCounted,
                      OpenAtEnd, LeftWorkers, Left
<1>3. ASSUME NEW c \in Clients, DrainUnblocks(c)
      PROVE  Leaving'
  <2>1. /\ c \in Threads /\ c \notin Workers /\ Goto(c, "drained")
        /\ running' = running /\ exits' = exits /\ joinOpen' = joinOpen
      BY <1>3, ThreadGroupAssumption DEF DrainUnblocks, Threads, joinVars
  <2>2. QED
      BY <1>1, <2>1, StaysOrGone
<1>4. QED
    BY <1>1, <1>2, <1>3, Steps, CallLeaves, WorkerLeavesOnce

\* When the join barrier opens every worker has left: its thread is over, or it is
\* one that joins or destroys the group itself and is past its last item.
THEOREM WorkersGoneWhenJoined == Spec => []JoinedMeansGone
<1>1. TypeInv /\ Leaving => JoinedMeansGone
  <2>1. SUFFICES ASSUME TypeInv, Leaving, joinOpen
                 PROVE  running = {} /\ \A w \in Workers : Left(w)
      BY DEF JoinedMeansGone, Left
  <2>2. LeftWorkers = Workers
      BY <2>1, LeftFinite DEF Leaving, OpenAtEnd, ExitsCounted
  <2>3. \A w \in Workers : Left(w)
      BY <2>2 DEF LeftWorkers
  <2>4. QED
      BY <2>1, <2>3 DEF Leaving, RunningAtWork, TypeInv, TypeOK
<1>2. QED
    BY InitialTypes, TypeKept, InitialLeaving, LeavingKept, <1>1, PTL DEF Spec

===============================================================================
