------------------------ MODULE ThreadGroupDrainProofs -------------------------
(***************************************************************************)
(* Drain() of a client returns when all that was queued at its call has     *)
(* ended, and no wrapper is left when a new series of drains begins: for    *)
(* any number of workers, clients and items that add, stop, start, join and *)
(* destroy, and do not drain.                                               *)
(*                                                                         *)
(* The argument is a count.  An item is outstanding while it is wrapped and *)
(* waits in the queue or in a worker; the barrier lacks one count for each. *)
(* A worker that ends itself takes its items with it, killed: these stay    *)
(* outstanding until the joiner, when all workers have left, opens the      *)
(* barrier.                                                                 *)
(***************************************************************************)
EXTENDS ThreadGroupDestroyProofs

--------------------------------------------------------------------------------
(* The items the workers are in. *)

\* A worker between two items is in none; the outermost item alone was fetched.
Resting == {"start", "loop", "wait", "asleep", "fetch", "leaving", "posting"}

FetchedLast ==
    \A w \in Workers :
        /\ pc[w] \in Resting => DOMAIN stack[w] = {}
        /\ \A k \in DOMAIN stack[w] :
              stack[w][k].back = "loop" => k + 1 \notin DOMAIN stack[w]

\* No item runs in two places.
FramesApart ==
    \A v, w \in Workers : \A j \in DOMAIN stack[v] : \A k \in DOMAIN stack[w] :
        stack[v][j].item = stack[w][k].item => v = w /\ j = k

\* An item that completes is done, and one whose worker has left was killed.
TopDone ==
    \A w \in Workers :
        pc[w] \in {"returned", "completing"} => fate[stack[w][1].item] = "done"
LeftKilled ==
    \A w \in Workers : Left(w) =>
        \A k \in DOMAIN stack[w] : fate[stack[w][k].item] = "killed"

FrameInv == FetchedLast /\ FramesApart /\ TopDone /\ LeftKilled

\* A step that enters and leaves no item.
LEMMA FramesKept ==
    ASSUME TypeInv, FrameInv, NEW t \in Threads, NEW l, Goto(t, l),
           \A w \in Workers :
              /\ DOMAIN stack'[w] = DOMAIN stack[w]
              /\ \A k \in DOMAIN stack[w] :
                    /\ stack'[w][k].item = stack[w][k].item
                    /\ stack'[w][k].back = stack[w][k].back,
           \A v \in Workers : v # t => \A k \in DOMAIN stack[v] :
              fate[stack[v][k].item] \in {"done", "killed"} =>
                 fate'[stack[v][k].item] = fate[stack[v][k].item],
           t \in Workers =>
              /\ l \in Resting => DOMAIN stack[t] = {}
              /\ l \in {"returned", "completing"} =>
                    1 \in DOMAIN stack[t] /\ fate'[stack[t][1].item] = "done"
              /\ l \in {"gone", "quiesce", "releasing"} =>
                    \A k \in DOMAIN stack[t] : fate'[stack[t][k].item] = "killed"
    PROVE  FrameInv'
<1>1. pc' = [pc EXCEPT ![t] = l] /\ pc \in [Threads -> Places] /\ stack \in Stacks
    BY DEF Goto, TypeInv, TypeOK, Stacks
<1>2. FetchedLast'
    BY <1>1 DEF FrameInv, FetchedLast, Threads
<1>3. FramesApart'
    BY DEF FrameInv, FramesApart
<1>4. ASSUME NEW w \in Workers, pc'[w] \in {"returned", "completing"}
      PROVE  fate'[stack'[w][1].item] = "done"
  <2>1. 1 \in DOMAIN stack[w]
    <3>1. CASE w = t
        BY <1>1, <1>4, <3>1
    <3>2. CASE w # t
        BY <1>1, <1>4, <3>2, Top DEF TypeInv, StackInv, Inside, Threads
    <3>3. QED
        BY <3>1, <3>2
  <2>2. QED
      BY <1>1, <1>4, <2>1 DEF FrameInv, TopDone, Threads
<1>5. LeftKilled'
    BY <1>1 DEF FrameInv, LeftKilled, Left, Threads
<1>6. QED
    BY <1>2, <1>3, <1>4, <1>5 DEF FrameInv, TopDone

\* A call changes the fate of waiting items only: it adds one, or drops them.
LEMMA CallSpares ==
    ASSUME TypeInv, Fates, NEW t \in Threads, CallActs(t), NEW i \in Items
    PROVE  fate'[i] = fate[i] \/ fate[i] \in {"new", "queued"}
<1> USE DEF TypeInv, TypeOK
<1>1. CASE \E j \in Items : Add(t, j)
    BY <1>1 DEF Add
<1>2. CASE Stop(t)
  <2>1. fate' = fate \/ fate' = [j \in Items |->
                                   IF j \in QueuedItems THEN "dropped" ELSE fate[j]]
      BY <1>2 DEF Stop, Discard
  <2>2. i \in QueuedItems => fate[i] = "queued"
      BY DEF QueuedItems, Fates, WaitingQueued
  <2>3. QED
      BY <2>1, <2>2
<1>3. CASE \/ AddPost(t) \/ AddRefused(t) \/ Start(t) \/ DrainReturns(t)
           \/ DrainBegins(t) \/ DrainEnds(t) \/ JoinRefused(t) \/ DestroyAgain(t)
    BY <1>3 DEF AddPost, AddRefused, Start, DrainReturns, DrainBegins, DrainEnds,
                JoinRefused, DestroyAgain
<1>4. CASE Join(t) \/ Destroy(t) \/ CollectWorkers(t) \/ JoinerDone(t)
           \/ FollowerDone(t)
    BY <1>4 DEF Join, Destroy, BeginJoining, CollectWorkers, JoinerDone,
                FollowerDone, EndCall
<1>5. QED
    BY <1>1, <1>2, <1>3, <1>4 DEF CallActs

\* No call enters or leaves an item.
LEMMA CallKeepsFrames ==
    ASSUME TypeInv, Fates, Leaving, FrameInv, NEW t \in Threads, CallActs(t)
    PROVE  FrameInv'
<1>1. PICK l \in CallPlaces : Goto(t, l) /\ (t \in Workers /\ l \in Departing => Left(t))
    BY CallMoves
<1>2. \A w \in Workers :
         /\ DOMAIN stack'[w] = DOMAIN stack[w]
         /\ \A k \in DOMAIN stack[w] :
               /\ stack'[w][k].item = stack[w][k].item
               /\ stack'[w][k].back = stack[w][k].back
    BY CallFrames
<1>3. \A v \in Workers : \A k \in DOMAIN stack[v] :
         fate'[stack[v][k].item] = fate[stack[v][k].item]
  <2>1. stack \in Stacks
      BY DEF TypeInv, TypeOK, Stacks
  <2>2. QED
      BY <2>1, FramesAreItems, CallSpares DEF Fates, TakenApart
<1>4. t \in Workers /\ l \in {"gone", "quiesce", "releasing"} =>
         \A k \in DOMAIN stack[t] : fate'[stack[t][k].item] = "killed"
    BY <1>1, <1>3 DEF Departing, FrameInv, LeftKilled
<1>5. l \notin Resting /\ l \notin {"returned", "completing"}
    BY DEF CallPlaces, Resting
<1>6. QED
    BY <1>1, <1>2, <1>3, <1>4, <1>5, FramesKept

\* A worker enters an item, which nobody else is in.
LEMMA DispatchFrames ==
    ASSUME TypeInv, Fates, FrameInv, NEW w \in Workers,
           NEW back \in {"loop", "draining", "joining"}, Dispatch(w, back),
           ~Left(w), back = "loop" => DOMAIN stack[w] = {},
           back # "loop" => stack[w] # <<>>
    PROVE  FrameInv'
<1> DEFINE h == queue[1].item
<1>1. stack \in Stacks /\ stack' \in Stacks /\ queue \in Seq(Works)
      /\ pc \in [Threads -> Places] /\ w \in Threads
      /\ fate \in [Items -> {"new", "queued", "running", "done", "dropped",
                             "killed"}]
    BY Dispatched DEF TypeInv, TypeOK, Stacks, Threads
<1>2. /\ Head(queue) = queue[1] /\ 1 \in DOMAIN queue /\ h \in Items
      /\ fate' = [fate EXCEPT ![h] = "running"]
      /\ \A t \in Threads \ {w} : stack'[t] = stack[t]
      /\ stack'[w][1].item = h
      /\ stack'[w][1].back = back
      /\ \A k \in DOMAIN stack'[w] :
            k # 1 => k - 1 \in DOMAIN stack[w] /\ stack'[w][k] = stack[w][k - 1]
      /\ pc' = [pc EXCEPT ![w] = "run"]
    BY Dispatched
<1>3. fate[h] = "queued"
    BY <1>2 DEF Fates, WaitingQueued
<1>4. \A u \in Workers : \A k \in DOMAIN stack[u] :
         stack[u][k].item # h /\ fate'[stack[u][k].item] = fate[stack[u][k].item]
  <2>1. \A u \in Workers : \A k \in DOMAIN stack[u] :
           stack[u][k].item # h /\ stack[u][k].item \in Items
      BY <1>1, <1>3, FramesAreItems DEF Fates, TakenApart
  <2>2. QED
      BY <1>1, <1>2, <2>1
<1>5. \A u \in Workers \ {w} : stack'[u] = stack[u] /\ pc'[u] = pc[u]
    BY <1>1, <1>2 DEF Threads
<1>6. pc'[w] = "run"
    BY <1>1, <1>2
<1>7. FetchedLast'
  <2>1. ASSUME NEW k \in DOMAIN stack'[w], stack'[w][k].back = "loop",
               k + 1 \in DOMAIN stack'[w]
        PROVE  FALSE
    <3>1. k \in Nat \ {0}
        BY <1>1 DEF Stacks, Threads
    <3>2. k + 1 # 1 /\ (k + 1) - 1 = k /\ (k # 1 => (k - 1) + 1 = k)
        BY <3>1
    <3>3. k \in DOMAIN stack[w]
        BY <1>2, <2>1, <3>2
    <3>4. CASE k = 1
        BY <1>2, <2>1, <3>3, <3>4
    <3>5. CASE k # 1
        BY <1>2, <2>1, <3>2, <3>3, <3>5 DEF FrameInv, FetchedLast
    <3>6. QED
        BY <3>4, <3>5
  <2>2. QED
      BY <1>5, <1>6, <2>1 DEF FrameInv, FetchedLast, Resting
<1>8. FramesApart'
  <2>1. ASSUME NEW v \in Workers, NEW j \in DOMAIN stack'[v], ~(v = w /\ j = 1)
        PROVE  /\ stack'[v][j].item # h
               /\ v = w => j - 1 \in DOMAIN stack[v] /\ stack'[v][j] = stack[v][j - 1]
               /\ v # w => j \in DOMAIN stack[v] /\ stack'[v][j] = stack[v][j]
    <3>1. CASE v = w
        BY <1>2, <1>4, <2>1, <3>1
    <3>2. CASE v # w
        BY <1>4, <1>5, <2>1, <3>2
    <3>3. QED
        BY <3>1, <3>2
  <2>2. \A j \in DOMAIN stack'[w] : j \in Nat
      BY <1>1 DEF Stacks, Threads
  <2>3. ASSUME NEW u \in Workers, NEW v \in Workers,
               NEW j \in DOMAIN stack'[u], NEW k \in DOMAIN stack'[v],
               stack'[u][j].item = stack'[v][k].item
        PROVE  u = v /\ j = k
    <3>1. CASE u = w /\ j = 1
        BY <1>2, <2>1, <2>3, <3>1
    <3>2. CASE v = w /\ k = 1
        BY <1>2, <2>1, <2>3, <3>2
    <3>3. CASE ~(u = w /\ j = 1) /\ ~(v = w /\ k = 1)
      <4>1. CASE u = w /\ v = w
        <5>1. j - 1 = k - 1
            BY <2>1, <2>3, <3>3, <4>1 DEF FrameInv, FramesApart
        <5>2. QED
            BY <2>2, <4>1, <5>1
      <4>2. CASE ~(u = w /\ v = w)
          BY <2>1, <2>3, <3>3, <4>2 DEF FrameInv, FramesApart
      <4>3. QED
          BY <4>1, <4>2
    <3>4. QED
        BY <3>1, <3>2, <3>3
  <2>4. QED
      BY <2>3 DEF FramesApart
<1>9. TopDone'
  <2>1. ASSUME NEW u \in Workers, pc'[u] \in {"returned", "completing"}
        PROVE  fate'[stack'[u][1].item] = "done"
    <3>1. u # w /\ pc[u] \in {"returned", "completing"} /\ stack'[u] = stack[u]
        BY <1>5, <1>6, <2>1
    <3>2. 1 \in DOMAIN stack[u]
        BY <1>1, <3>1, Top DEF TypeInv, StackInv, Inside
    <3>3. QED
        BY <1>4, <3>1, <3>2 DEF FrameInv, TopDone
  <2>2. QED
      BY <2>1 DEF TopDone
<1>10. LeftKilled'
    BY <1>4, <1>5, <1>6 DEF FrameInv, LeftKilled, Left
<1>11. QED
    BY <1>7, <1>8, <1>9, <1>10 DEF FrameInv

\* A worker leaves the item it is in; from the one it fetched it goes to rest.
LEMMA UnwrappedFrames ==
    ASSUME TypeInv, FrameInv, NEW w \in Workers, Unwrapped(w)
    PROVE  FrameInv'
<1>1. stack \in Stacks /\ pc \in [Threads -> Places] /\ w \in Threads
    BY DEF TypeInv, TypeOK, Stacks, Threads
<1>2. /\ stack[w] # <<>> /\ stack' = [stack EXCEPT ![w] = Tail(@)]
      /\ pc' = [pc EXCEPT ![w] = Head(stack[w]).back] /\ fate' = fate
    BY DEF Unwrapped, Goto, TypeInv, StackInv, Inside
<1>3. /\ stack' \in Stacks
      /\ Len(stack[w]) \in Nat \ {0} /\ Len(stack'[w]) = Len(stack[w]) - 1
      /\ \A t \in Threads \ {w} : stack'[t] = stack[t]
      /\ \A k \in DOMAIN stack'[w] : /\ k + 1 \in DOMAIN stack[w]
                                     /\ stack'[w][k] = stack[w][k + 1]
    BY <1>1, <1>2, Popped
<1>4. /\ Head(stack[w]) = stack[w][1] /\ 1 \in DOMAIN stack[w]
      /\ Head(stack[w]).back \in {"loop", "draining", "joining"}
    BY <1>1, <1>2, Top DEF Frames
<1>5. /\ \A u \in Workers \ {w} : stack'[u] = stack[u] /\ pc'[u] = pc[u]
      /\ pc'[w] = Head(stack[w]).back
    BY <1>1, <1>2, <1>3 DEF Threads
<1>6. \A k \in DOMAIN stack'[w] : k \in Nat \ {0} /\ k + 1 \in Nat
    BY <1>1, <1>3 DEF Stacks
<1>7. FetchedLast'
  <2>1. ASSUME NEW k \in DOMAIN stack'[w], stack'[w][k].back = "loop",
               k + 1 \in DOMAIN stack'[w]
        PROVE  FALSE
      BY <1>3, <2>1 DEF FrameInv, FetchedLast
  <2>2. ASSUME pc'[w] \in Resting, NEW k \in DOMAIN stack'[w]
        PROVE  FALSE
    <3>1. stack[w][1].back = "loop"
        BY <1>4, <1>5, <2>2 DEF Resting
    <3>2. 1 + 1 \notin DOMAIN stack[w]
        BY <1>4, <3>1 DEF FrameInv, FetchedLast
    <3>3. /\ DOMAIN stack[w] = 1..Len(stack[w])
          /\ DOMAIN stack'[w] = 1..Len(stack'[w])
        BY <1>1, <1>3 DEF Stacks
    <3>4. QED
        BY <1>3, <2>2, <3>2, <3>3
  <2>3. QED
      BY <1>5, <2>1, <2>2 DEF FrameInv, FetchedLast
<1>8. FramesApart'
  <2>1. ASSUME NEW u \in Workers, NEW v \in Workers,
               NEW j \in DOMAIN stack'[u], NEW k \in DOMAIN stack'[v],
               stack'[u][j].item = stack'[v][k].item
        PROVE  u = v /\ j = k
    <3>1. CASE u = w /\ v = w
      <4>1. j + 1 = k + 1
          BY <1>3, <2>1, <3>1 DEF FrameInv, FramesApart
      <4>2. QED
          BY <1>6, <3>1, <4>1
    <3>2. CASE ~(u = w /\ v = w)
        BY <1>3, <1>5, <2>1, <3>2 DEF FrameInv, FramesApart
    <3>3. QED
        BY <3>1, <3>2
  <2>2. QED
      BY <2>1 DEF FramesApart
<1>9. TopDone' /\ LeftKilled'
    BY <1>2, <1>4, <1>5 DEF FrameInv, TopDone, LeftKilled, Left
<1>10. QED
    BY <1>7, <1>8, <1>9 DEF FrameInv

\* A worker ends itself: its items are killed, and those of the others are not.
LEMMA TerminatesFrames ==
    ASSUME TypeInv, FrameInv, NEW w \in Workers, SelfTerminates(w)
    PROVE  FrameInv'
<1>1. w \in Threads /\ stack \in Stacks /\ stack' = stack /\ Goto(w, "quiesce")
    BY DEF SelfTerminates, TypeInv, TypeOK, Stacks, Threads
<1>2. fate' = [i \in Items |->
                 IF \E k \in DOMAIN stack[w] : stack[w][k].item = i
                 THEN "killed" ELSE fate[i]]
    BY DEF SelfTerminates
<1>3. \A v \in Workers : v # w => \A k \in DOMAIN stack[v] :
         fate'[stack[v][k].item] = fate[stack[v][k].item]
    BY <1>1, <1>2, FramesAreItems DEF FrameInv, FramesApart
<1>4. \A k \in DOMAIN stack[w] : fate'[stack[w][k].item] = "killed"
    BY <1>1, <1>2, FramesAreItems
<1>5. QED
    BY <1>1, <1>3, <1>4, FramesKept DEF Resting

\* An item returns: it is done, and nobody else is in it.
LEMMA ReturnsFrames ==
    ASSUME TypeInv, FrameInv, NEW w \in Workers, ItemReturns(w)
    PROVE  FrameInv'
<1>1. /\ w \in Threads /\ stack \in Stacks /\ stack' = stack /\ Goto(w, "returned")
      /\ stack[w] # <<>> /\ fate' = [fate EXCEPT ![Head(stack[w]).item] = "done"]
      /\ fate \in [Items -> {"new", "queued", "running", "done", "dropped",
                             "killed"}]
    BY DEF ItemReturns, TypeInv, TypeOK, Stacks, Threads, StackInv, Inside
<1>2. Head(stack[w]) = stack[w][1] /\ 1 \in DOMAIN stack[w]
    BY <1>1, Top
<1>3. fate'[stack[w][1].item] = "done"
    BY <1>1, <1>2, FramesAreItems
<1>4. \A v \in Workers : v # w => \A k \in DOMAIN stack[v] :
         fate'[stack[v][k].item] = fate[stack[v][k].item]
    BY <1>1, <1>2, FramesAreItems DEF FrameInv, FramesApart
<1>5. QED
    BY <1>1, <1>2, <1>3, <1>4, FramesKept DEF Resting

\* Every step of a worker keeps what is known of its items.
LEMMA WorkerKeepsFrames ==
    ASSUME TypeInv, Fates, FrameInv, NEW w \in Workers, WorkerActs(w)
    PROVE  FrameInv'
<1>1. w \in Threads /\ stack \in Stacks
    BY DEF Threads, TypeInv, TypeOK, Stacks
<1>2. CASE WorkerStarts(w) \/ ReadTimeout(w) \/ SemBlocks(w) \/ SemTakes(w)
           \/ SemTimesOut(w) \/ FetchNothing(w) \/ WorkerLeaves(w) \/ WorkerExits(w)
  <2>1. /\ pc[w] \in Resting /\ stack' = stack /\ fate' = fate
        /\ \E l \in Resting \cup {"gone"} : Goto(w, l)
      BY <1>2 DEF WorkerStarts, ReadTimeout, SemBlocks, SemTakes, SemTimesOut,
                  FetchNothing, WorkerLeaves, WorkerExits, Resting
  <2>2. DOMAIN stack[w] = {}
      BY <2>1 DEF FrameInv, FetchedLast
  <2>3. QED
      BY <1>1, <2>1, <2>2, FramesKept DEF Resting
<1>3. CASE SelfDrainEmpty(w)
    BY <1>1, <1>3, FramesKept DEF SelfDrainEmpty, Resting
<1>4. CASE CompleteNested(w)
  <2>1. /\ pc[w] = "returned" /\ stack[w] # <<>>
        /\ Goto(w, "completing") /\ stack' = stack /\ fate' = fate
      BY <1>4 DEF CompleteNested, TypeInv, StackInv, Inside
  <2>2. 1 \in DOMAIN stack[w] /\ fate[stack[w][1].item] = "done"
      BY <1>1, <2>1, Top DEF FrameInv, TopDone
  <2>3. QED
      BY <1>1, <2>1, <2>2, FramesKept DEF Resting
<1>5. CASE CompletePost(w)
  <2>1. /\ pc[w] = "completing" /\ stack[w] # <<>> /\ stack[w][1].wraps > 0
        /\ stack' = [stack EXCEPT ![w][1].wraps = @ - 1]
        /\ Goto(w, "returned") /\ fate' = fate
      BY <1>5 DEF CompletePost, TypeInv, StackInv, Inside
  <2>2. /\ \A t \in Threads \ {w} : stack'[t] = stack[t]
        /\ DOMAIN stack'[w] = DOMAIN stack[w]
        /\ \A k \in DOMAIN stack[w] :
              /\ stack'[w][k].back = stack[w][k].back
              /\ stack'[w][k].item = stack[w][k].item
      BY <1>1, <2>1, Uncovered
  <2>3. 1 \in DOMAIN stack[w] /\ fate[stack[w][1].item] = "done"
      BY <1>1, <2>1, Top DEF FrameInv, TopDone
  <2>4. \A u \in Workers :
           /\ DOMAIN stack'[u] = DOMAIN stack[u]
           /\ \A k \in DOMAIN stack[u] :
                 /\ stack'[u][k].item = stack[u][k].item
                 /\ stack'[u][k].back = stack[u][k].back
      BY <2>2 DEF Threads
  <2>5. QED
      BY <1>1, <2>1, <2>3, <2>4, FramesKept DEF Resting
<1>6. CASE FetchItem(w)
  <2>1. pc[w] = "fetch" /\ Dispatch(w, "loop")
      BY <1>6 DEF FetchItem
  <2>2. DOMAIN stack[w] = {} /\ ~Left(w)
      BY <2>1 DEF FrameInv, FetchedLast, Resting, Left
  <2>3. QED
      BY <2>1, <2>2, DispatchFrames
<1>7. CASE SelfDrainDispatches(w) \/ SelfJoinDispatches(w)
  <2>1. PICK back \in {"draining", "joining"} : Dispatch(w, back)
      BY <1>7 DEF SelfDrainDispatches, SelfJoinDispatches
  <2>2. stack[w] # <<>> /\ ~Left(w)
      BY <1>7 DEF SelfDrainDispatches, SelfJoinDispatches, TypeInv, StackInv, Inside,
                  Left
  <2>3. QED
      BY <2>1, <2>2, DispatchFrames
<1>8. QED
    BY <1>2, <1>3, <1>4, <1>5, <1>6, <1>7, UnwrappedFrames, TerminatesFrames,
       ReturnsFrames DEF WorkerActs

\* What is known of the items holds at first, and after every step.
LEMMA InitialFrames == Init => FrameInv
<1>1. SUFFICES ASSUME Init
               PROVE  FrameInv
    OBVIOUS
<1>2. \A w \in Workers : stack[w] = <<>> /\ pc[w] = "start"
    BY <1>1 DEF Init, Threads
<1>3. QED
    BY <1>2, EmptyDomain DEF FrameInv, FetchedLast, FramesApart, TopDone, LeftKilled,
                             Left

LEMMA FramesStep ==
    TypeInv /\ Fates /\ Leaving /\ FrameInv /\ [Next]_vars => FrameInv'
<1>1. SUFFICES ASSUME TypeInv, Fates, Leaving, FrameInv, [Next]_vars
               PROVE  FrameInv'
    OBVIOUS
<1>2. CASE UNCHANGED vars
    BY <1>1, <1>2 DEF vars, FrameInv, FetchedLast, FramesApart, TopDone, LeftKilled,
                      Left
<1>3. ASSUME NEW c \in Clients, DrainUnblocks(c)
      PROVE  FrameInv'
    BY <1>1, <1>3, FramesKept, ThreadGroupAssumption DEF DrainUnblocks, Threads
<1>4. QED
    BY <1>1, <1>2, <1>3, Steps, CallKeepsFrames, WorkerKeepsFrames

--------------------------------------------------------------------------------
(* What a Drain() waits for.                                                *)
(*                                                                         *)
(* A worker that drains its own group ends the drain without the items that *)
(* other workers run, and these then complete for the barrier of the next    *)
(* series (the run ThreadGroupDrainEarly shows this).  Where only clients     *)
(* drain, the barrier counts what it should.                                *)

\* No item drains the group.
NoSelfDrains == \A i \in Items : \A k \in DOMAIN Script[i] : Script[i][k] # "drain"

\* The items that will still complete for the barrier: wrapped, and queued or in a
\* worker.
Outstanding ==
    {i \in Items :
        \/ \E k \in DOMAIN queue : queue[k].item = i /\ queue[k].wraps > 0
        \/ \E w \in Workers : \E k \in DOMAIN stack[w] :
              stack[w][k].item = i /\ stack[w][k].wraps > 0}

NoneHeld == \A w \in Workers : selfDrains[w] = 0
WrappedOnce ==
    /\ \A k \in DOMAIN queue : queue[k].wraps <= 1
    /\ \A w \in Workers : \A k \in DOMAIN stack[w] : stack[w][k].wraps <= 1

\* While the group drains, all that is queued is wrapped; what is added when it is
\* joined is not, and the rest has been run when the first worker leaves.
ClosedWrapped ==
    nestLevel > 0 /\ state = "Draining" => \A k \in DOMAIN queue : queue[k].wraps > 0
DepartedUnwrapped ==
    (\E w \in Workers : pc[w] \in Departing) => \A k \in DOMAIN queue : queue[k].wraps = 0

\* The barrier lacks one count for each item outstanding, until all workers left.
Counted ==
    /\ IsFiniteSet(Outstanding)
    /\ exits # N => barrier.count + Cardinality(Outstanding) = barrier.unlock

\* When no drain is on, or one ends, nothing is outstanding.
Settled ==
    (nestLevel = 0 \/ \E c \in Clients : pc[c] = "drained")
        => Outstanding = {} \/ exits = N

\* What a client waits for is outstanding until it has ended.
DueKept ==
    \A c \in Clients : pc[c] \in Calling =>
        \A i \in due[c] : fate[i] \in {"done", "killed"} \/ i \in Outstanding

\* A listed wrapper is the one of an item outstanding that does not complete yet.
NestedOut ==
    \A p \in nested :
        /\ p[2] = 1 /\ p[1] \in Outstanding
        /\ \A w \in Workers : pc[w] = "completing" => stack[w][1].item # p[1]

DrainInv ==
    /\ NoneHeld /\ WrappedOnce /\ ClosedWrapped /\ DepartedUnwrapped
    /\ Counted /\ Settled /\ DueKept /\ NestedOut

\* What has been shown of every program of calls.
Known ==
    /\ TypeInv /\ Fates /\ Leaving /\ NestExact /\ EndInv /\ CleanInv /\ FrameInv
    /\ DrainKeepsClosed

\* A step that keeps the queue and the wrapping of what runs.
LEMMA OutstandingSame ==
    ASSUME \A k \in DOMAIN queue' :
              \/ k \in DOMAIN queue /\ queue'[k] = queue[k]
              \/ ~(queue'[k].wraps > 0),
           \A k \in DOMAIN queue : k \in DOMAIN queue' /\ queue'[k] = queue[k],
           \A w \in Workers :
              /\ DOMAIN stack'[w] = DOMAIN stack[w]
              /\ \A k \in DOMAIN stack[w] :
                    /\ stack'[w][k].item = stack[w][k].item
                    /\ stack'[w][k].wraps = stack[w][k].wraps
    PROVE  Outstanding' = Outstanding
BY DEF Outstanding

\* With nothing outstanding nothing is wrapped.
LEMMA NothingWrapped ==
    ASSUME TypeInv, Outstanding = {}
    PROVE  /\ \A k \in DOMAIN queue : queue[k].wraps = 0
           /\ \A w \in Workers : \A k \in DOMAIN stack[w] : stack[w][k].wraps = 0
<1>1. \A k \in DOMAIN queue : queue[k].item \in Items /\ queue[k].wraps \in Nat
    BY QueuedAreItems DEF TypeInv, TypeOK, Works
<1>2. ASSUME NEW w \in Workers, NEW k \in DOMAIN stack[w]
      PROVE  stack[w][k].item \in Items /\ stack[w][k].wraps \in Nat
  <2>1. stack[w] \in Seq(Frames)
      BY DEF TypeInv, TypeOK, Threads
  <2>2. stack[w][k] \in Frames
      BY <2>1
  <2>3. QED
      BY <2>2 DEF Frames
<1>3. QED
    BY <1>1, <1>2 DEF Outstanding

\* When the barrier of the exits is full, all workers have left a joined group.
LEMMA ExitedJoined ==
    ASSUME TypeInv, Leaving, CleanInv, exits = N
    PROVE  state = "Joining" /\ \A w \in Workers : Left(w)
<1>1. LeftWorkers = Workers
    BY LeftFinite DEF Leaving, ExitsCounted
<1>2. \A w \in Workers : Left(w)
    BY <1>1 DEF LeftWorkers
<1>3. PICK w \in Workers : Left(w)
    BY <1>2, ThreadGroupAssumption
<1>4. QED
    BY <1>2, <1>3 DEF CleanInv, DepartingJoined, Departing, Left

\* The length of a sequence counts its indices.
LEMMA IndicesCounted ==
    ASSUME NEW n \in Nat
    PROVE  IsFiniteSet(1..n) /\ Cardinality(1..n) = n
<1>1. IsFiniteSet(1..n) /\ Cardinality(1..n) = IF 1 > n THEN 0 ELSE n - 1 + 1
    BY FS_Interval
<1>2. QED
    BY <1>1

\* The items in the queue are as many as it is long.
LEMMA QueueCounted ==
    ASSUME queue \in Seq(Works), QueuedOnce
    PROVE  IsFiniteSet(QueuedItems) /\ Cardinality(QueuedItems) = Len(queue)
<1> DEFINE n == Len(queue)
           f == [k \in 1..n |-> queue[k].item]
<1>1. n \in Nat /\ DOMAIN queue = 1..n
    OBVIOUS
<1>2. IsFiniteSet(1..n) /\ Cardinality(1..n) = n
    BY <1>1, IndicesCounted
<1>3. QueuedItems = {queue[k].item : k \in 1..n}
    BY <1>1 DEF QueuedItems
<1>4. f \in [1..n -> QueuedItems]
    BY <1>3
<1>5. f \in Surjection(1..n, QueuedItems)
    BY <1>3, <1>4 DEF Surjection
<1>6. \A k \in 1..n : f[k] = queue[k].item
    OBVIOUS
<1> HIDE DEF f
<1>7. \A j, k \in 1..n : f[j] = f[k] => j = k
    BY <1>1, <1>6 DEF QueuedOnce
<1>8. f \in Injection(1..n, QueuedItems)
    BY <1>4, <1>7 DEF Injection, IsInjective
<1>9. QED
    BY <1>2, <1>5, <1>8, FS_Surjection

\* A step that begins no drain, unblocks none and completes no item.
LEMMA DrainKept ==
    ASSUME Known, DrainInv, NEW t \in Threads, NEW l, Goto(t, l),
           Outstanding' = Outstanding, selfDrains' = selfDrains,
           \A k \in DOMAIN queue' :
              \/ \E j \in DOMAIN queue : queue'[k] = queue[j]
              \/ queue'[k].wraps = 0 /\ state' # "Draining",
           \A w \in Workers : \A k \in DOMAIN stack'[w] : stack'[w][k].wraps <= 1,
           state' = "Draining" => state = "Draining",
           nestLevel' > 0 => nestLevel > 0,
           nestLevel' = 0 => nestLevel = 0 \/ \E c \in Clients : pc[c] = "drained",
           exits = N => exits' = N,
           exits' = N \/ barrier' = barrier,
           \A i \in Items : fate[i] \in {"done", "killed"} =>
                               fate'[i] \in {"done", "killed"},
           \A c \in Clients : c # t => due'[c] = due[c],
           t \in Clients => l \notin Calling,
           t \in Workers /\ l \in Departing => pc[t] \in Departing \/ queue' = <<>>,
           nested' \subseteq nested,
           \A w \in Workers \ {t} :
              pc[w] = "completing" => stack'[w][1].item = stack[w][1].item,
           t \in Workers /\ l = "completing" =>
              \A p \in nested' : p[1] # stack'[t][1].item
    PROVE  DrainInv'
<1>1. pc' = [pc EXCEPT ![t] = l] /\ pc \in [Threads -> Places]
      /\ due \in [Clients -> SUBSET Items]
    BY DEF Goto, Known, TypeInv, TypeOK
<1>2. /\ \A w \in Workers : w # t => pc'[w] = pc[w]
      /\ \A c \in Clients : c # t => pc'[c] = pc[c]
      /\ pc'[t] = l
    BY <1>1 DEF Threads
<1>3. NoneHeld'
    BY DEF DrainInv, NoneHeld
<1>4. WrappedOnce'
    BY DEF DrainInv, WrappedOnce
<1>5. ClosedWrapped'
    BY DEF DrainInv, ClosedWrapped
<1>6. DepartedUnwrapped'
  <2>1. ASSUME NEW w \in Workers, pc'[w] \in Departing
        PROVE  queue' = <<>> \/ pc[w] \in Departing
      BY <1>2, <2>1
  <2>2. QED
      BY <2>1, EmptyDomain DEF DrainInv, DepartedUnwrapped
<1>7. Counted'
    BY DEF DrainInv, Counted
<1>8. Settled'
  <2>1. \A c \in Clients : pc'[c] = "drained" => pc[c] = "drained"
      BY <1>2 DEF Calling
  <2>2. QED
      BY <2>1 DEF DrainInv, Settled
<1>9. DueKept'
  <2>1. ASSUME NEW c \in Clients, pc'[c] \in Calling
        PROVE  pc[c] \in Calling /\ due'[c] = due[c] /\ due[c] \subseteq Items
      BY <1>1, <1>2, <2>1
  <2>2. QED
      BY <2>1 DEF DrainInv, DueKept
<1>10. NestedOut'
  <2>1. ASSUME NEW p \in nested', NEW w \in Workers, pc'[w] = "completing"
        PROVE  stack'[w][1].item # p[1]
    <3>1. CASE w = t
        BY <1>2, <2>1, <3>1
    <3>2. CASE w # t
        BY <1>2, <2>1, <3>2 DEF DrainInv, NestedOut
    <3>3. QED
        BY <3>1, <3>2
  <2>2. QED
      BY <2>1 DEF DrainInv, NestedOut
<1>11. QED
    BY <1>3, <1>4, <1>5, <1>6, <1>7, <1>8, <1>9, <1>10 DEF DrainInv

\* A Drain() that unblocks finds the barrier full, so that nothing is outstanding.
LEMMA UnblockSettles ==
    ASSUME Known, DrainInv, NEW c \in Clients, DrainUnblocks(c)
    PROVE  DrainInv'
<1>1. /\ pc' = [pc EXCEPT ![c] = "drained"] /\ pc \in [Threads -> Places]
      /\ c \in Threads /\ c \notin Workers
    BY ThreadGroupAssumption DEF DrainUnblocks, Goto, Known, TypeInv, TypeOK, Threads
<1>2. /\ pc[c] = "blocked" /\ barrier.count >= barrier.unlock
      /\ barrier \in [count : Nat, unlock : Nat]
    BY DEF DrainUnblocks, Known, TypeInv, TypeOK
<1>3. /\ UNCHANGED <<poolVars, drainVars, stack, due, fate>> /\ exits' = exits
    BY DEF DrainUnblocks, joinVars
<1>4. /\ \A w \in Workers : pc'[w] = pc[w]
      /\ \A d \in Clients : d # c => pc'[d] = pc[d]
      /\ pc'[c] = "drained"
    BY <1>1 DEF Threads
<1>5. Outstanding' = Outstanding
    BY <1>3 DEF Outstanding, poolVars
<1>6. NoneHeld' /\ WrappedOnce' /\ ClosedWrapped' /\ DepartedUnwrapped'
    BY <1>3, <1>4 DEF DrainInv, NoneHeld, WrappedOnce, ClosedWrapped,
                      DepartedUnwrapped, poolVars, drainVars
<1>7. Counted'
    BY <1>3, <1>5 DEF DrainInv, Counted, drainVars
<1>8. Settled'
  <2>1. ASSUME exits # N
        PROVE  Outstanding = {}
    <3>1. /\ IsFiniteSet(Outstanding)
          /\ barrier.count + Cardinality(Outstanding) = barrier.unlock
        BY <2>1 DEF DrainInv, Counted
    <3>2. Cardinality(Outstanding) \in Nat /\ barrier.count \in Nat
                /\ barrier.unlock \in Nat
        BY <1>2, <3>1, FS_CardinalityType
    <3>3. Cardinality(Outstanding) = 0
        BY <1>2, <3>1, <3>2
    <3>4. QED
        BY <3>1, <3>3, FS_EmptySet
  <2>2. QED
      BY <1>3, <1>5, <2>1 DEF Settled
<1>9. DueKept'
  <2>1. \A d \in Clients : pc'[d] \in Calling => pc[d] \in Calling
      BY <1>2, <1>4 DEF Calling
  <2>2. QED
      BY <1>3, <1>5, <2>1 DEF DrainInv, DueKept
<1>10. NestedOut'
    BY <1>3, <1>4, <1>5 DEF DrainInv, NestedOut, drainVars
<1>11. QED
    BY <1>6, <1>7, <1>8, <1>9, <1>10 DEF DrainInv

\* An item that completes is outstanding no more, and no other ceases to be.
LEMMA OneCompletes ==
    ASSUME Known, DrainInv, NEW w \in Workers, CompletePost(w)
    PROVE  /\ stack[w][1].item \in Outstanding
           /\ Outstanding' = Outstanding \ {stack[w][1].item}
           /\ \A u \in Workers : \A k \in DOMAIN stack'[u] : stack'[u][k].wraps <= 1
           /\ \A u \in Workers \ {w} : stack'[u] = stack[u]
<1> DEFINE h == stack[w][1].item
<1>1. /\ stack[w] # <<>> /\ stack \in Stacks /\ stack[w][1].wraps > 0
      /\ stack' = [stack EXCEPT ![w][1].wraps = @ - 1] /\ queue' = queue
    BY DEF CompletePost, Known, TypeInv, TypeOK, Stacks, StackInv, Inside, poolVars
<1>2. 1 \in DOMAIN stack[w] /\ stack[w][1] \in Frames /\ h \in Items
    BY <1>1, Top, FramesAreItems
<1>3. stack[w][1].wraps <= 1
    BY <1>2 DEF DrainInv, WrappedOnce
<1>4. stack[w][1].wraps \in Nat
    BY <1>2 DEF Frames
<1>5. stack'[w][1].wraps = 0
  <2>1. stack'[w][1].wraps = stack[w][1].wraps - 1
      BY <1>1, Uncovered
  <2>2. QED
      BY <1>1, <1>3, <1>4, <2>1
<1>6. ASSUME NEW u \in Workers
      PROVE  /\ DOMAIN stack'[u] = DOMAIN stack[u]
             /\ \A k \in DOMAIN stack[u] :
                   /\ stack'[u][k].item = stack[u][k].item
                   /\ u # w \/ k # 1 => stack'[u][k] = stack[u][k]
  <2>1. CASE u = w
    <3>1. /\ DOMAIN stack'[w] = DOMAIN stack[w]
          /\ \A k \in DOMAIN stack[w] : stack'[w][k].item = stack[w][k].item
        BY <1>1, Uncovered
    <3>2. \A k \in DOMAIN stack[w] : k # 1 => stack'[w][k] = stack[w][k]
        BY <1>1 DEF Stacks, Threads
    <3>3. QED
        BY <2>1, <3>1, <3>2
  <2>2. CASE u # w
      BY <1>1, <2>2, Uncovered DEF Threads
  <2>3. QED
      BY <2>1, <2>2
<1>7. h \in Outstanding
    BY <1>1, <1>2 DEF Outstanding
<1>8. ASSUME NEW i \in Outstanding'
      PROVE  i \in Outstanding /\ i # h
  <2>1. CASE \E k \in DOMAIN queue : queue[k].item = i /\ queue[k].wraps > 0
    <3>1. i \in Outstanding
        BY <1>1, <2>1 DEF Outstanding
    <3>2. fate[i] = "queued" /\ fate[h] # "queued"
        BY <1>2, <2>1 DEF Known, Fates, WaitingQueued, TakenApart
    <3>3. QED
        BY <3>1, <3>2
  <2>2. ASSUME NEW u \in Workers, NEW k \in DOMAIN stack'[u],
               stack'[u][k].item = i, stack'[u][k].wraps > 0
        PROVE  i \in Outstanding /\ i # h
    <3>1. ~(u = w /\ k = 1)
        BY <1>5, <2>2
    <3>2. k \in DOMAIN stack[u] /\ stack[u][k] = stack'[u][k]
        BY <1>6, <2>2, <3>1
    <3>3. i \in Outstanding
        BY <2>2, <3>2 DEF Outstanding
    <3>4. i # h
        BY <1>2, <2>2, <3>1, <3>2 DEF Known, FrameInv, FramesApart
    <3>5. QED
        BY <3>3, <3>4
  <2>3. QED
      BY <1>1, <2>1, <2>2 DEF Outstanding
<1>9. ASSUME NEW i \in Outstanding, i # h
      PROVE  i \in Outstanding'
  <2>1. i \in Items
      BY DEF Outstanding
  <2>2. CASE \E k \in DOMAIN queue : queue[k].item = i /\ queue[k].wraps > 0
      BY <1>1, <2>1, <2>2 DEF Outstanding
  <2>3. ASSUME NEW u \in Workers, NEW k \in DOMAIN stack[u],
               stack[u][k].item = i, stack[u][k].wraps > 0
        PROVE  i \in Outstanding'
    <3>1. ~(u = w /\ k = 1)
        BY <1>9, <2>3
    <3>2. k \in DOMAIN stack'[u] /\ stack'[u][k] = stack[u][k]
        BY <1>6, <2>3, <3>1
    <3>3. QED
        BY <2>1, <2>3, <3>2 DEF Outstanding
  <2>4. QED
      BY <2>2, <2>3 DEF Outstanding
<1>10. Outstanding' = Outstanding \ {h}
    BY <1>8, <1>9
<1>11. ASSUME NEW u \in Workers, NEW k \in DOMAIN stack'[u]
       PROVE  stack'[u][k].wraps <= 1
  <2>1. CASE u = w /\ k = 1
      BY <1>5, <2>1
  <2>2. CASE ~(u = w /\ k = 1)
      BY <1>6, <2>2 DEF DrainInv, WrappedOnce
  <2>3. QED
      BY <2>1, <2>2
<1>12. QED
    BY <1>1, <1>7, <1>10, <1>11, Uncovered DEF Threads

\* Its Post() is counted, for the barrier lacks a count for it.
LEMMA CompletionCounts ==
    ASSUME Known, DrainInv, NEW w \in Workers, CompletePost(w)
    PROVE  DrainInv'
<1> DEFINE h == stack[w][1].item
<1>1. /\ h \in Outstanding /\ Outstanding' = Outstanding \ {h}
      /\ \A u \in Workers : \A k \in DOMAIN stack'[u] : stack'[u][k].wraps <= 1
      /\ \A u \in Workers \ {w} : stack'[u] = stack[u]
    BY OneCompletes
<1>2. /\ pc[w] = "completing" /\ pc' = [pc EXCEPT ![w] = "returned"]
      /\ pc \in [Threads -> Places] /\ w \in Threads /\ w \notin Clients
    BY ThreadGroupAssumption DEF CompletePost, Goto, Known, TypeInv, TypeOK, Threads
<1>3. /\ UNCHANGED <<poolVars, nestLevel, selfDrains, nested, due, fate>>
      /\ exits' = exits
      /\ barrier' = [barrier EXCEPT !.count = Smaller(@ + 1, barrier.unlock)]
      /\ barrier \in [count : Nat, unlock : Nat]
    BY DEF CompletePost, joinVars, Known, TypeInv, TypeOK
<1>4. /\ \A u \in Workers : u # w => pc'[u] = pc[u]
      /\ \A c \in Clients : pc'[c] = pc[c]
      /\ pc'[w] = "returned"
    BY <1>2 DEF Threads
<1>5. exits # N
    BY <1>2, ExitedJoined DEF Known, Left
<1>6. NoneHeld' /\ WrappedOnce' /\ ClosedWrapped'
    BY <1>1, <1>3 DEF DrainInv, NoneHeld, WrappedOnce, ClosedWrapped, poolVars
<1>7. DepartedUnwrapped'
    BY <1>3, <1>4 DEF DrainInv, DepartedUnwrapped, poolVars, Departing
<1>8. Counted'
  <2>1. /\ IsFiniteSet(Outstanding)
        /\ barrier.count + Cardinality(Outstanding) = barrier.unlock
      BY <1>5 DEF DrainInv, Counted
  <2>2. /\ IsFiniteSet(Outstanding')
        /\ Cardinality(Outstanding') = Cardinality(Outstanding) - 1
      BY <1>1, <2>1, FS_RemoveElement
  <2>3. Cardinality(Outstanding) \in Nat /\ Cardinality(Outstanding') \in Nat
      BY <2>1, <2>2, FS_CardinalityType
  <2>4. barrier'.count = Smaller(barrier.count + 1, barrier.unlock)
        /\ barrier'.unlock = barrier.unlock
      BY <1>3
  <2>5. barrier.count \in Nat /\ barrier.unlock \in Nat
      BY <1>3
  <2>6. barrier'.count = barrier.count + 1
      BY <2>1, <2>2, <2>3, <2>4, <2>5 DEF Smaller
  <2>7. barrier'.count + Cardinality(Outstanding') = barrier'.unlock
      BY <2>1, <2>2, <2>3, <2>4, <2>5, <2>6
  <2>8. QED
      BY <2>2, <2>7 DEF Counted
<1>9. Settled'
    BY <1>1, <1>3, <1>4, <1>5 DEF DrainInv, Settled
<1>10. DueKept'
  <2>1. fate[h] = "done"
      BY <1>2 DEF Known, FrameInv, TopDone
  <2>2. QED
      BY <1>1, <1>3, <1>4, <2>1 DEF DrainInv, DueKept
<1>11. NestedOut'
    BY <1>1, <1>2, <1>3, <1>4 DEF DrainInv, NestedOut
<1>12. QED
    BY <1>6, <1>7, <1>8, <1>9, <1>10, <1>11 DEF DrainInv

\* Only clients drain.
LEMMA ClientsDrain ==
    ASSUME NoSelfDrains, TypeInv, NEW t \in Threads, MayCall(t, "drain")
    PROVE  t \in Clients /\ t \notin Workers /\ pc[t] = "idle"
<1>1. ASSUME t \in Workers
      PROVE  FALSE
  <2> DEFINE top == Head(stack[t])
  <2>1. stack[t] # <<>> /\ stack \in Stacks
      BY <1>1, Caller DEF TypeInv, TypeOK, Stacks, Threads
  <2>2. top \in Frames
      BY <1>1, <2>1, Top
  <2>3. Script[top.item] \in Seq(Calls) /\ top.item \in Items
      BY <2>2, ThreadGroupAssumption DEF Frames
  <2>4. top.next <= Len(Script[top.item]) /\ "drain" = Script[top.item][top.next]
      BY <1>1, ThreadGroupAssumption DEF MayCall
  <2>5. top.next \in DOMAIN Script[top.item]
      BY <2>2, <2>3, <2>4 DEF Frames
  <2>6. QED
      BY <2>3, <2>4, <2>5 DEF NoSelfDrains
<1>2. QED
    BY <1>1, Caller DEF Threads

\* What a client does that begins a drain.
LEMMA BeginsBy ==
    ASSUME NoSelfDrains, Known, NEW t \in Threads, DrainBegins(t)
    PROVE  /\ t \in Clients /\ t \notin Workers /\ pc[t] = "idle"
           /\ pc' = [pc EXCEPT ![t] = "blocked"] /\ pc \in [Threads -> Places]
           /\ due' = [due EXCEPT ![t] = QueuedItems]
           /\ due \in [Clients -> SUBSET Items]
           /\ stack' = stack /\ selfDrains' = selfDrains
           /\ fate' = fate /\ exits' = exits
           /\ state # "Joining" /\ state' = "Draining" /\ exits # N
           /\ Begin
<1>1. t \in Clients /\ t \notin Workers /\ pc[t] = "idle" /\ t \notin running
    BY ClientsDrain DEF Known, DrainBegins, TypeInv, TypeOK
<1>2. state # "Joining" /\ exits # N
    BY NoDrainWhenJoined, ExitedJoined DEF Known
<1>3. pc \in [Threads -> Places] /\ due \in [Clients -> SUBSET Items]
    BY DEF Known, TypeInv, TypeOK
<1>4. QED
    BY <1>1, <1>2, <1>3 DEF DrainBegins, Goto, joinVars

\* The first of a series of drains wraps all that is queued, and the barrier waits
\* for as many items.
LEMMA FirstDrain ==
    ASSUME NoSelfDrains, Known, DrainInv, NEW t \in Threads, DrainBegins(t),
           nestLevel = 0
    PROVE  /\ nested = {}
           /\ \A k \in DOMAIN queue' : /\ k \in DOMAIN queue
                                       /\ queue'[k].item = queue[k].item
                                       /\ queue'[k].wraps = 1
           /\ \A w \in Workers : \A k \in DOMAIN stack[w] : stack[w][k].wraps = 0
           /\ Outstanding' = QueuedItems
           /\ barrier' = [count |-> 0, unlock |-> Len(queue)]
           /\ nested' = {<<queue[k].item, 1>> : k \in DOMAIN queue}
<1>1. stack' = stack /\ exits # N /\ Begin
    BY BeginsBy
<1>2. Outstanding = {}
    BY <1>1 DEF DrainInv, Settled
<1>3. /\ \A k \in DOMAIN queue : queue[k].wraps = 0
      /\ \A w \in Workers : \A k \in DOMAIN stack[w] : stack[w][k].wraps = 0
    BY <1>2, NothingWrapped DEF Known
<1>4. nested = {}
    BY <1>2 DEF DrainInv, NestedOut
<1>5. /\ queue' = [k \in DOMAIN queue |-> [queue[k] EXCEPT !.wraps = @ + 1]]
      /\ barrier' = [count |-> 0, unlock |-> Len(queue)]
      /\ nested' = nested \cup
                   {<<queue[k].item, queue[k].wraps + 1>> : k \in DOMAIN queue}
    BY <1>1 DEF Begin
<1>6. \A k \in DOMAIN queue : queue[k] \in Works /\ queue[k].item \in Items
    BY QueuedAreItems DEF Known, TypeInv, TypeOK
<1>7. \A k \in DOMAIN queue :
         LET wrapped == [queue[k] EXCEPT !.wraps = @ + 1]
         IN  wrapped.item = queue[k].item /\ wrapped.wraps = 1
    BY <1>3, <1>6 DEF Works
<1>8. \A k \in DOMAIN queue' : /\ k \in DOMAIN queue
                               /\ queue'[k].item = queue[k].item
                               /\ queue'[k].wraps = 1
    BY <1>5, <1>7
<1>9. nested' = {<<queue[k].item, 1>> : k \in DOMAIN queue}
  <2>1. \A k \in DOMAIN queue : queue[k].wraps + 1 = 1
      BY <1>3
  <2>2. QED
      BY <1>4, <1>5, <2>1
<1>10. Outstanding' = QueuedItems
  <2>1. DOMAIN queue' = DOMAIN queue
      BY <1>5
  <2>2. Outstanding' = {i \in Items : \E k \in DOMAIN queue : queue[k].item = i}
      BY <1>1, <1>3, <1>8, <2>1 DEF Outstanding
  <2>3. QED
      BY <1>6, <2>2 DEF QueuedItems
<1>11. QED
    BY <1>3, <1>4, <1>5, <1>8, <1>9, <1>10

\* So it counts what is outstanding, and who drains waits for that.
LEMMA FirstDrainCounts ==
    ASSUME NoSelfDrains, Known, DrainInv, NEW t \in Threads, DrainBegins(t),
           nestLevel = 0
    PROVE  DrainInv'
<1>1. /\ t \in Clients /\ t \notin Workers /\ t \in Threads
      /\ pc' = [pc EXCEPT ![t] = "blocked"] /\ pc \in [Threads -> Places]
      /\ due' = [due EXCEPT ![t] = QueuedItems] /\ due \in [Clients -> SUBSET Items]
      /\ stack' = stack /\ selfDrains' = selfDrains
      /\ state # "Joining" /\ Begin
    BY BeginsBy
<1>2. /\ \A k \in DOMAIN queue' : /\ k \in DOMAIN queue
                                  /\ queue'[k].item = queue[k].item
                                  /\ queue'[k].wraps = 1
      /\ \A w \in Workers : \A k \in DOMAIN stack[w] : stack[w][k].wraps = 0
      /\ Outstanding' = QueuedItems
      /\ barrier' = [count |-> 0, unlock |-> Len(queue)]
      /\ nested' = {<<queue[k].item, 1>> : k \in DOMAIN queue}
    BY FirstDrain
<1>3. /\ \A w \in Workers : pc'[w] = pc[w]
      /\ \A c \in Clients : c # t => pc'[c] = pc[c]
      /\ pc'[t] = "blocked"
    BY <1>1 DEF Threads
<1>4. \A c \in Clients : pc[c] \notin Calling
    BY CallerNests DEF Known
<1>5. NoneHeld' /\ WrappedOnce' /\ ClosedWrapped'
    BY <1>1, <1>2 DEF DrainInv, NoneHeld, WrappedOnce, ClosedWrapped
<1>6. DepartedUnwrapped'
    BY <1>1, <1>3 DEF DepartedUnwrapped, Known, CleanInv, DepartingJoined
<1>7. Counted'
  <2>1. /\ queue \in Seq(Works) /\ QueuedOnce
      BY DEF Known, TypeInv, TypeOK, Fates
  <2>2. /\ IsFiniteSet(Outstanding')
        /\ Cardinality(Outstanding') = Len(queue) /\ Len(queue) \in Nat
      BY <1>2, <2>1, QueueCounted
  <2>3. barrier'.count = 0 /\ barrier'.unlock = Len(queue)
      BY <1>2
  <2>4. QED
      BY <2>2, <2>3 DEF Counted
<1>8. Settled'
  <2>1. nestLevel' # 0
      BY <1>1, Begun DEF Known, TypeInv, TypeOK
  <2>2. \A c \in Clients : pc'[c] # "drained"
      BY <1>3, <1>4 DEF Calling
  <2>3. QED
      BY <2>1, <2>2 DEF Settled
<1>9. DueKept'
    BY <1>1, <1>2, <1>3, <1>4 DEF DueKept
<1>10. NestedOut'
  <2>1. ASSUME NEW k \in DOMAIN queue, NEW w \in Workers, pc[w] = "completing"
        PROVE  stack[w][1].item # queue[k].item
    <3>1. 1 \in DOMAIN stack[w]
        BY <2>1, Top DEF Known, TypeInv, TypeOK, StackInv, Inside, Stacks
    <3>2. QED
        BY <3>1 DEF Known, Fates, WaitingQueued, TakenApart
  <2>2. QED
      BY <1>1, <1>2, <1>3, <2>1 DEF NestedOut, QueuedItems
<1>11. QED
    BY <1>5, <1>6, <1>7, <1>8, <1>9, <1>10 DEF DrainInv

\* A drain that overlaps others waits with them: all that is queued is wrapped.
LEMMA NextDrainCounts ==
    ASSUME NoSelfDrains, Known, DrainInv, NEW t \in Threads, DrainBegins(t),
           nestLevel # 0
    PROVE  DrainInv'
<1>1. /\ t \in Clients /\ t \notin Workers /\ t \in Threads
      /\ pc' = [pc EXCEPT ![t] = "blocked"] /\ pc \in [Threads -> Places]
      /\ due' = [due EXCEPT ![t] = QueuedItems] /\ due \in [Clients -> SUBSET Items]
      /\ stack' = stack /\ selfDrains' = selfDrains /\ fate' = fate
      /\ exits' = exits /\ state # "Joining" /\ Begin
    BY BeginsBy
<1>2. barrier' = barrier /\ queue' = queue /\ nested' = nested
      /\ nestLevel' = nestLevel + 1 /\ nestLevel \in Nat
    BY <1>1 DEF Begin, Known, TypeInv, TypeOK
<1>3. state = "Draining"
    BY <1>1, <1>2 DEF Known, DrainKeepsClosed
<1>4. /\ \A w \in Workers : pc'[w] = pc[w]
      /\ \A c \in Clients : c # t => pc'[c] = pc[c]
      /\ pc'[t] = "blocked"
    BY <1>1 DEF Threads
<1>5. Outstanding' = Outstanding
    BY <1>1, <1>2 DEF Outstanding
<1>6. \A k \in DOMAIN queue : queue[k].wraps > 0
    BY <1>2, <1>3 DEF DrainInv, ClosedWrapped
<1>7. NoneHeld' /\ WrappedOnce' /\ ClosedWrapped' /\ DepartedUnwrapped'
    BY <1>1, <1>2, <1>4, <1>6 DEF DrainInv, NoneHeld, WrappedOnce, ClosedWrapped,
                                  DepartedUnwrapped
<1>8. Counted'
    BY <1>1, <1>2, <1>5 DEF DrainInv, Counted
<1>9. Settled'
  <2>1. \A c \in Clients : pc'[c] = "drained" => pc[c] = "drained"
      BY <1>4
  <2>2. QED
      BY <1>1, <1>2, <1>5, <2>1 DEF DrainInv, Settled
<1>10. DueKept'
  <2>1. QueuedItems \subseteq Outstanding
    <3>1. \A k \in DOMAIN queue : queue[k].item \in Items
        BY QueuedAreItems DEF Known, TypeInv, TypeOK
    <3>2. QED
        BY <1>6, <3>1 DEF QueuedItems, Outstanding
  <2>2. QED
      BY <1>1, <1>4, <1>5, <2>1 DEF DrainInv, DueKept
<1>11. NestedOut'
    BY <1>1, <1>2, <1>4, <1>5 DEF DrainInv, NestedOut
<1>12. QED
    BY <1>7, <1>8, <1>9, <1>10, <1>11 DEF DrainInv

\* What the other calls do to the drains.
LEMMA CallsKeepCount ==
    ASSUME NoSelfDrains, Known, DrainInv, NEW t \in Threads, CallActs(t),
           ~DrainBegins(t)
    PROVE  /\ selfDrains' = selfDrains /\ exits' = exits /\ nested' \subseteq nested
           /\ exits = N \/ barrier' = barrier
           /\ nestLevel' > 0 => nestLevel > 0
           /\ nestLevel' = 0 => nestLevel = 0 \/ \E c \in Clients : pc[c] = "drained"
           /\ \A c \in Clients : c # t => due'[c] = due[c]
<1>1. CASE \/ \E i \in Items : Add(t, i)
           \/ AddPost(t) \/ AddRefused(t) \/ Stop(t) \/ Start(t)
           \/ DrainReturns(t) \/ JoinRefused(t) \/ DestroyAgain(t)
  <2>1. UNCHANGED <<joinVars, drainVars, due>>
      BY <1>1 DEF Add, AddPost, AddRefused, Stop, Start, DrainReturns, JoinRefused,
                  DestroyAgain
  <2>2. QED
      BY <2>1 DEF joinVars, drainVars
<1>2. CASE Join(t) \/ Destroy(t)
    BY <1>2 DEF Join, Destroy, BeginJoining, drainVars
<1>3. CASE CollectWorkers(t)
    BY <1>3 DEF CollectWorkers, AllWorkersLeft
<1>4. CASE JoinerDone(t) \/ FollowerDone(t)
    BY <1>4 DEF JoinerDone, FollowerDone, EndCall, drainVars
<1>5. CASE DrainEnds(t)
  <2>1. /\ pc[t] = "drained" /\ nestLevel' = LevelAfter(t)
        /\ UNCHANGED <<joinVars, nested, barrier>>
        /\ due' = IF t \in Clients THEN [due EXCEPT ![t] = {}] ELSE due
        /\ selfDrains' = IF t \in Workers /\ KnownDrainer(t)
                         THEN [selfDrains EXCEPT ![t] = @ - 1] ELSE selfDrains
      BY <1>5 DEF DrainEnds
  <2>2. t \notin Clients => ~KnownDrainer(t)
      BY DEF DrainInv, NoneHeld, KnownDrainer, Threads
  <2>3. t \in Clients => t \notin Workers
      BY ThreadGroupAssumption
  <2>4. selfDrains' = selfDrains
      BY <2>1, <2>2, <2>3 DEF Threads
  <2>5. nestLevel \in Nat /\ due \in [Clients -> SUBSET Items]
      BY DEF Known, TypeInv, TypeOK
  <2>6. \/ nestLevel' = nestLevel
        \/ t \in Clients /\ nestLevel > 0 /\ nestLevel' = nestLevel - 1
      BY <2>1, <2>2 DEF LevelAfter
  <2>7. \A c \in Clients : c # t => due'[c] = due[c]
      BY <2>1, <2>5
  <2>8. QED
      BY <2>1, <2>4, <2>5, <2>6, <2>7 DEF joinVars
<1>6. QED
    BY <1>1, <1>2, <1>3, <1>4, <1>5 DEF CallActs

\* None of them makes the group drain: not the end of a drain within others, and no
\* Start(), unless it is called during a drain.
LEMMA CallsDrainNot ==
    ASSUME ~StartAnytime, Known, NEW t \in Threads, CallActs(t), ~DrainBegins(t),
           state' = "Draining"
    PROVE  state = "Draining"
<1>1. CASE \/ \E i \in Items : Add(t, i)
           \/ AddPost(t) \/ AddRefused(t) \/ DrainReturns(t) \/ JoinRefused(t)
           \/ DestroyAgain(t) \/ CollectWorkers(t) \/ JoinerDone(t) \/ FollowerDone(t)
    BY <1>1 DEF Add, AddPost, AddRefused, DrainReturns, JoinRefused, DestroyAgain,
                CollectWorkers, JoinerDone, FollowerDone, EndCall, poolVars
<1>2. CASE Join(t) \/ Destroy(t)
    BY <1>2 DEF Join, Destroy, BeginJoining
<1>3. CASE Stop(t) \/ Start(t)
    BY <1>3 DEF Stop, Start, Transition
<1>4. CASE DrainEnds(t)
  <2>1. state' = StateAtLevel(LevelAfter(t))
      BY <1>4 DEF DrainEnds
  <2>2. nestLevel \in Nat
      BY DEF Known, TypeInv, TypeOK
  <2>3. CASE LevelAfter(t) = 0
      BY <2>1, <2>3 DEF StateAtLevel, Transition
  <2>4. CASE LevelAfter(t) # 0
    <3>1. nestLevel > 0
        BY <2>2, <2>4 DEF LevelAfter
    <3>2. state \in {"Draining", "Joining"}
        BY <3>1 DEF Known, DrainKeepsClosed
    <3>3. QED
        BY <2>1, <3>2 DEF StateAtLevel, Transition
  <2>5. QED
      BY <2>3, <2>4
<1>5. QED
    BY <1>1, <1>2, <1>3, <1>4 DEF CallActs

\* They add what is not wrapped, and Stop() deletes the queue only when nothing is
\* outstanding.
LEMMA CallsKeepOutstanding ==
    ASSUME Known, DrainInv, NEW t \in Threads, CallActs(t), ~DrainBegins(t)
    PROVE  /\ Outstanding' = Outstanding
           /\ \A k \in DOMAIN queue' :
                 \/ \E j \in DOMAIN queue : queue'[k] = queue[j]
                 \/ queue'[k].wraps = 0 /\ state' # "Draining"
<1>1. \A w \in Workers :
         /\ DOMAIN stack'[w] = DOMAIN stack[w]
         /\ \A k \in DOMAIN stack[w] :
               /\ stack'[w][k].item = stack[w][k].item
               /\ stack'[w][k].wraps = stack[w][k].wraps
    BY CallFrames DEF Known
<1>2. CASE \E i \in Items : Add(t, i)
  <2>1. PICK i \in Items : Add(t, i)
      BY <1>2
  <2>2. /\ queue' = Append(queue, [item |-> i, wraps |-> 0])
        /\ queue \in Seq(Works) /\ state' # "Draining"
      BY <2>1 DEF Add, AcceptsWork, Known, TypeInv, TypeOK
  <2>3. /\ \A k \in DOMAIN queue : k \in DOMAIN queue' /\ queue'[k] = queue[k]
        /\ \A k \in DOMAIN queue' :
              \/ k \in DOMAIN queue /\ queue'[k] = queue[k]
              \/ queue'[k].wraps = 0
      BY <2>2 DEF Works
  <2>4. \A k \in DOMAIN queue' :
           \/ k \in DOMAIN queue /\ queue'[k] = queue[k]
           \/ ~(queue'[k].wraps > 0)
      BY <2>3
  <2>5. Outstanding' = Outstanding
      BY <1>1, <2>3, <2>4, OutstandingSame
  <2>6. QED
      BY <2>2, <2>3, <2>5
<1>3. CASE Stop(t) /\ queue' # queue
  <2>1. queue' = <<>> /\ state' = "Stopped" /\ state' = Transition("Stopped")
      BY <1>3 DEF Stop, Discard
  <2>2. state \notin {"Draining", "Joining"}
      BY <2>1 DEF Transition
  <2>3. nestLevel = 0 /\ exits # N
      BY <2>2, ExitedJoined DEF Known, DrainKeepsClosed, TypeInv, TypeOK
  <2>4. Outstanding = {}
      BY <2>3 DEF DrainInv, Settled
  <2>5. Outstanding' = {}
      BY <1>1, <2>1, <2>4, EmptyDomain DEF Outstanding
  <2>6. QED
      BY <2>1, <2>4, <2>5, EmptyDomain
<1>4. CASE queue' = queue
  <2>1. Outstanding' = Outstanding
      BY <1>1, <1>4 DEF Outstanding
  <2>2. QED
      BY <1>4, <2>1
<1>5. CASE ~Stop(t) /\ ~\E i \in Items : Add(t, i)
  <2>1. queue' = queue
    <3>1. CASE Join(t) \/ Destroy(t) \/ CollectWorkers(t) \/ JoinerDone(t)
               \/ FollowerDone(t)
        BY <3>1 DEF Join, Destroy, BeginJoining, CollectWorkers, JoinerDone,
                    FollowerDone, EndCall, poolVars
    <3>2. CASE AddPost(t) \/ AddRefused(t) \/ Start(t) \/ DrainReturns(t)
               \/ DrainEnds(t) \/ JoinRefused(t) \/ DestroyAgain(t)
        BY <3>2 DEF AddPost, AddRefused, Start, DrainReturns, DrainEnds,
                    JoinRefused, DestroyAgain, poolVars
    <3>3. QED
        BY <1>5, <3>1, <3>2 DEF CallActs
  <2>2. QED
      BY <1>4, <2>1
<1>6. QED
    BY <1>2, <1>3, <1>4, <1>5

\* Every call keeps what is known of the drains.
LEMMA CallDrains ==
    ASSUME NoSelfDrains, ~StartAnytime, Known, DrainInv,
           NEW t \in Threads, CallActs(t)
    PROVE  DrainInv'
<1>1. CASE DrainBegins(t)
    BY <1>1, FirstDrainCounts, NextDrainCounts
<1>2. CASE ~DrainBegins(t)
  <2>1. PICK l \in CallPlaces :
            /\ Goto(t, l)
            /\ t \in Workers /\ l \in Departing => pc[t] \in Departing
            /\ l \notin Calling
      BY <1>2, CallMoves DEF Known, Left, Departing, Calling, CallPlaces
  <2>2. \A i \in Items : fate[i] \in {"done", "killed"} =>
                            fate'[i] \in {"done", "killed"}
      BY CallSpares DEF Known
  <2>3. \A w \in Workers : \A k \in DOMAIN stack'[w] : stack'[w][k].wraps <= 1
      BY CallFrames DEF Known, DrainInv, WrappedOnce
  <2>4. ASSUME NEW w \in Workers, pc[w] = "completing"
        PROVE  stack'[w][1].item = stack[w][1].item
    <3>1. stack \in Stacks /\ stack[w] # <<>>
        BY <2>4 DEF Known, TypeInv, TypeOK, StackInv, Inside, Stacks
    <3>2. 1 \in DOMAIN stack[w]
        BY <3>1, Top
    <3>3. QED
        BY <3>2, CallFrames DEF Known
  <2>5. l # "completing"
      BY DEF CallPlaces
  <2>6. /\ selfDrains' = selfDrains /\ exits' = exits /\ nested' \subseteq nested
        /\ exits = N \/ barrier' = barrier
        /\ nestLevel' > 0 => nestLevel > 0
        /\ nestLevel' = 0 => nestLevel = 0 \/ \E c \in Clients : pc[c] = "drained"
        /\ \A c \in Clients : c # t => due'[c] = due[c]
      BY <1>2, CallsKeepCount
  <2>7. state' = "Draining" => state = "Draining"
      BY <1>2, CallsDrainNot
  <2>8. /\ Outstanding' = Outstanding
        /\ \A k \in DOMAIN queue' :
              \/ \E j \in DOMAIN queue : queue'[k] = queue[j]
              \/ queue'[k].wraps = 0 /\ state' # "Draining"
      BY <1>2, CallsKeepOutstanding
  <2>9. QED
      BY <2>1, <2>2, <2>3, <2>4, <2>5, <2>6, <2>7, <2>8, DrainKept
<1>3. QED
    BY <1>1, <1>2

\* What a worker waits for, and what it takes, stays outstanding until it completes.
LEMMA DispatchOutstanding ==
    ASSUME Known, DrainInv, NEW w \in Workers,
           NEW back \in {"loop", "draining", "joining"}, Dispatch(w, back),
           back # "loop" => stack[w] # <<>>
    PROVE  /\ Outstanding' = Outstanding
           /\ \A k \in DOMAIN queue' : \E j \in DOMAIN queue : queue'[k] = queue[j]
           /\ \A u \in Workers : \A k \in DOMAIN stack'[u] : stack'[u][k].wraps <= 1
           /\ \A u \in Workers \ {w} : stack'[u] = stack[u]
           /\ Goto(w, "run")
           /\ \A i \in Items : fate[i] \in {"done", "killed"} => fate'[i] = fate[i]
<1> DEFINE h == queue[1].item
<1>1. /\ queue \in Seq(Works) /\ queue' \in Seq(Works)
      /\ Len(queue') = Len(queue) - 1 /\ Len(queue) \in Nat \ {0}
      /\ stack \in Stacks /\ stack' \in Stacks
      /\ fate \in [Items -> {"new", "queued", "running", "done", "dropped",
                             "killed"}]
    BY Dispatched DEF Known, TypeInv, TypeOK, Stacks
<1>2. /\ \A k \in DOMAIN queue' : /\ k + 1 \in DOMAIN queue
                                  /\ queue'[k] = queue[k + 1]
      /\ Head(queue) = queue[1] /\ 1 \in DOMAIN queue /\ h \in Items
      /\ fate' = [fate EXCEPT ![h] = "running"]
      /\ 1 \in DOMAIN stack'[w]
      /\ stack'[w][1].item = h /\ stack'[w][1].wraps = queue[1].wraps
      /\ \A k \in DOMAIN stack'[w] :
            k # 1 => k - 1 \in DOMAIN stack[w] /\ stack'[w][k] = stack[w][k - 1]
      /\ \A u \in Workers \ {w} : stack'[u] = stack[u]
    BY Dispatched DEF Known, Threads
<1>3. \A k \in DOMAIN queue : k # 1 => k - 1 \in DOMAIN queue' /\ queue'[k - 1] = queue[k]
  <2>1. DOMAIN queue = 1..Len(queue) /\ DOMAIN queue' = 1..Len(queue')
      BY <1>1
  <2>2. ASSUME NEW k \in DOMAIN queue, k # 1
        PROVE  k - 1 \in DOMAIN queue' /\ (k - 1) + 1 = k
      BY <1>1, <2>1, <2>2
  <2>3. QED
      BY <1>2, <2>2
<1>4. \A k \in DOMAIN stack[w] : k + 1 \in DOMAIN stack'[w] /\ stack'[w][k + 1] = stack[w][k]
  <2>1. stack' = [stack EXCEPT ![w] = <<Frame(Head(queue), back)>> \o @]
      BY DEF Dispatch
  <2>2. stack'[w] = <<Frame(Head(queue), back)>> \o stack[w] /\ stack[w] \in Seq(Frames)
      BY <1>1, <2>1 DEF Stacks, Threads
  <2>3. QED
      BY <2>2
<1>5. \A i \in Items : fate[i] \in {"done", "killed"} => fate'[i] = fate[i]
    BY <1>1, <1>2 DEF Known, Fates, WaitingQueued
<1>6. \A u \in Workers : \A k \in DOMAIN stack'[u] : stack'[u][k].wraps <= 1
    BY <1>2 DEF DrainInv, WrappedOnce
<1>7. ASSUME NEW i \in Outstanding
      PROVE  i \in Outstanding'
  <2>1. i \in Items
      BY DEF Outstanding
  <2>2. ASSUME NEW k \in DOMAIN queue, queue[k].item = i, queue[k].wraps > 0
        PROVE  i \in Outstanding'
    <3>1. CASE k = 1
        BY <1>2, <2>1, <2>2, <3>1 DEF Outstanding
    <3>2. CASE k # 1
        BY <1>3, <2>1, <2>2, <3>2 DEF Outstanding
    <3>3. QED
        BY <3>1, <3>2
  <2>3. ASSUME NEW u \in Workers, NEW k \in DOMAIN stack[u],
               stack[u][k].item = i, stack[u][k].wraps > 0
        PROVE  i \in Outstanding'
    <3>1. CASE u = w
        BY <1>4, <2>1, <2>3, <3>1 DEF Outstanding
    <3>2. CASE u # w
        BY <1>2, <2>1, <2>3, <3>2 DEF Outstanding
    <3>3. QED
        BY <3>1, <3>2
  <2>4. QED
      BY <2>2, <2>3 DEF Outstanding
<1>8. ASSUME NEW i \in Outstanding'
      PROVE  i \in Outstanding
  <2>1. i \in Items
      BY DEF Outstanding
  <2>2. ASSUME NEW k \in DOMAIN queue', queue'[k].item = i, queue'[k].wraps > 0
        PROVE  i \in Outstanding
      BY <1>2, <2>1, <2>2 DEF Outstanding
  <2>3. ASSUME NEW u \in Workers, NEW k \in DOMAIN stack'[u],
               stack'[u][k].item = i, stack'[u][k].wraps > 0
        PROVE  i \in Outstanding
    <3>1. CASE u = w /\ k = 1
        BY <1>2, <2>1, <2>3, <3>1 DEF Outstanding
    <3>2. CASE u = w /\ k # 1
        BY <1>2, <2>1, <2>3, <3>2 DEF Outstanding
    <3>3. CASE u # w
        BY <1>2, <2>1, <2>3, <3>3 DEF Outstanding
    <3>4. QED
        BY <3>1, <3>2, <3>3
  <2>4. QED
      BY <2>2, <2>3 DEF Outstanding
<1>9. Goto(w, "run")
    BY DEF Dispatch
<1>10. QED
    BY <1>2, <1>5, <1>6, <1>7, <1>8, <1>9

\* An item that is left is not outstanding.
LEMMA UnwrappedOutstanding ==
    ASSUME Known, DrainInv, NEW w \in Workers, Unwrapped(w)
    PROVE  /\ Outstanding' = Outstanding
           /\ \A u \in Workers : \A k \in DOMAIN stack'[u] : stack'[u][k].wraps <= 1
           /\ \A u \in Workers \ {w} : stack'[u] = stack[u]
           /\ \E l \in {"loop", "draining", "joining"} : Goto(w, l)
<1>1. stack \in Stacks /\ stack[w] # <<>> /\ stack' = [stack EXCEPT ![w] = Tail(@)]
      /\ Head(stack[w]).wraps = 0 /\ queue' = queue /\ Goto(w, Head(stack[w]).back)
    BY DEF Unwrapped, Known, TypeInv, TypeOK, Stacks, StackInv, Inside, poolVars
<1>2. /\ \A u \in Workers \ {w} : stack'[u] = stack[u]
      /\ \A k \in DOMAIN stack'[w] : /\ k + 1 \in DOMAIN stack[w]
                                     /\ stack'[w][k] = stack[w][k + 1]
    BY <1>1, Popped DEF Threads
<1>3. \A k \in DOMAIN stack[w] :
         k # 1 => k - 1 \in DOMAIN stack'[w] /\ stack'[w][k - 1] = stack[w][k]
  <2>1. \A k \in DOMAIN stack[w] : k # 1 => k - 1 \in DOMAIN stack'[w]
      BY <1>1, Popped
  <2>2. \A k \in DOMAIN stack[w] : (k - 1) + 1 = k
      BY <1>1 DEF Stacks, Threads
  <2>3. QED
      BY <1>2, <2>1, <2>2
<1>4. stack[w][1].wraps = 0 /\ Head(stack[w]).back \in {"loop", "draining", "joining"}
    BY <1>1, Top DEF Frames
<1>5. ASSUME NEW i \in Outstanding
      PROVE  i \in Outstanding'
  <2>1. i \in Items
      BY DEF Outstanding
  <2>2. ASSUME NEW u \in Workers, NEW k \in DOMAIN stack[u],
               stack[u][k].item = i, stack[u][k].wraps > 0
        PROVE  i \in Outstanding'
    <3>1. CASE u = w
      <4>1. k # 1
          BY <1>4, <2>2, <3>1
      <4>2. QED
          BY <1>3, <2>1, <2>2, <3>1, <4>1 DEF Outstanding
    <3>2. CASE u # w
        BY <1>2, <2>1, <2>2, <3>2 DEF Outstanding
    <3>3. QED
        BY <3>1, <3>2
  <2>3. QED
      BY <1>1, <2>1, <2>2 DEF Outstanding
<1>6. ASSUME NEW i \in Outstanding'
      PROVE  i \in Outstanding
  <2>1. i \in Items
      BY DEF Outstanding
  <2>2. ASSUME NEW u \in Workers, NEW k \in DOMAIN stack'[u],
               stack'[u][k].item = i, stack'[u][k].wraps > 0
        PROVE  i \in Outstanding
    <3>1. CASE u = w
        BY <1>2, <2>1, <2>2, <3>1 DEF Outstanding
    <3>2. CASE u # w
        BY <1>2, <2>1, <2>2, <3>2 DEF Outstanding
    <3>3. QED
        BY <3>1, <3>2
  <2>3. QED
      BY <1>1, <2>1, <2>2 DEF Outstanding
<1>7. \A u \in Workers : \A k \in DOMAIN stack'[u] : stack'[u][k].wraps <= 1
    BY <1>2 DEF DrainInv, WrappedOnce
<1>8. QED
    BY <1>1, <1>2, <1>4, <1>5, <1>6, <1>7

\* A step of a worker that completes no item.
LEMMA WorkerKept ==
    ASSUME Known, DrainInv, NEW w \in Workers, NEW l, Goto(w, l),
           Outstanding' = Outstanding,
           UNCHANGED <<state, nestLevel, selfDrains, barrier, due>>,
           \A k \in DOMAIN queue' : \E j \in DOMAIN queue : queue'[k] = queue[j],
           \A u \in Workers : \A k \in DOMAIN stack'[u] : stack'[u][k].wraps <= 1,
           \A u \in Workers \ {w} : stack'[u] = stack[u],
           exits = N => exits' = N,
           \A i \in Items : fate[i] \in {"done", "killed"} =>
                               fate'[i] \in {"done", "killed"},
           l \in Departing => pc[w] \in Departing \/ queue' = <<>>,
           nested' \subseteq nested,
           l = "completing" => \A p \in nested' : p[1] # stack'[w][1].item
    PROVE  DrainInv'
<1>1. w \in Threads /\ w \notin Clients
    BY ThreadGroupAssumption DEF Threads
<1>2. nestLevel' = 0 => nestLevel = 0 \/ \E c \in Clients : pc[c] = "drained"
    OBVIOUS
<1>3. \A u \in Workers \ {w} :
         pc[u] = "completing" => stack'[u][1].item = stack[u][1].item
    OBVIOUS
<1>4. QED
    BY <1>1, <1>2, <1>3, DrainKept

\* A worker that enters and leaves no item.
LEMMA WorkerStays ==
    ASSUME Known, DrainInv, NEW w \in Workers, NEW l, Goto(w, l),
           UNCHANGED <<state, queue, stack, nestLevel, selfDrains, barrier, due>>,
           exits = N => exits' = N,
           \A i \in Items : fate[i] \in {"done", "killed"} =>
                               fate'[i] \in {"done", "killed"},
           l \in Departing => pc[w] \in Departing \/ queue = <<>>,
           nested' \subseteq nested,
           l = "completing" => \A p \in nested' : p[1] # stack[w][1].item
    PROVE  DrainInv'
<1>1. Outstanding' = Outstanding
    BY DEF Outstanding
<1>2. /\ \A k \in DOMAIN queue' : \E j \in DOMAIN queue : queue'[k] = queue[j]
      /\ \A u \in Workers : \A k \in DOMAIN stack'[u] : stack'[u][k].wraps <= 1
    BY DEF DrainInv, WrappedOnce
<1>3. QED
    BY <1>1, <1>2, WorkerKept

\* A wrapper goes off the list before its item completes.
LEMMA ListedDrains ==
    ASSUME Known, DrainInv, NEW w \in Workers, CompleteNested(w)
    PROVE  DrainInv'
<1>1. /\ stack[w] # <<>> /\ stack \in Stacks /\ Head(stack[w]).wraps > 0
      /\ nested' = nested \ {<<Head(stack[w]).item, Head(stack[w]).wraps>>}
      /\ Goto(w, "completing")
    BY DEF CompleteNested, Known, TypeInv, TypeOK, Stacks, StackInv, Inside
<1>2. /\ UNCHANGED <<state, queue, stack, nestLevel, selfDrains, barrier, due>>
      /\ exits' = exits /\ fate' = fate
    BY DEF CompleteNested, poolVars, joinVars
<1>3. /\ Head(stack[w]) = stack[w][1] /\ 1 \in DOMAIN stack[w]
      /\ stack[w][1].wraps \in Nat
    BY <1>1, Top DEF Frames
<1>4. stack[w][1].wraps = 1
    BY <1>1, <1>3 DEF DrainInv, WrappedOnce
<1>5. ASSUME NEW p \in nested', p[1] = stack[w][1].item
      PROVE  FALSE
  <2>1. p \in nested /\ p # <<stack[w][1].item, 1>>
      BY <1>1, <1>3, <1>4
  <2>2. p[2] = 1 /\ p \in Items \X Nat
      BY <2>1 DEF DrainInv, NestedOut, Known, TypeInv, TypeOK
  <2>3. QED
      BY <1>5, <2>1, <2>2
<1>6. QED
    BY <1>1, <1>2, <1>5, WorkerStays DEF Departing

\* A worker that ends itself holds no drain, and its items stay outstanding.
LEMMA TerminatesDrains ==
    ASSUME Known, DrainInv, NEW w \in Workers, SelfTerminates(w)
    PROVE  DrainInv'
<1>1. /\ pc[w] \in {"joinHeld", "joining"} /\ queue = <<>> /\ Goto(w, "quiesce")
      /\ UNCHANGED <<state, queue, stack, nested, due>>
      /\ exits' = Smaller(exits + 1, N)
    BY DEF SelfTerminates, poolVars
<1>2. selfDrains[w] = 0
    BY DEF DrainInv, NoneHeld
<1>3. nestLevel' = nestLevel - Smaller(0, nestLevel) /\ nestLevel \in Nat
      /\ selfDrains' = [selfDrains EXCEPT ![w] = 0]
      /\ selfDrains \in [Workers -> Nat]
    BY <1>2 DEF SelfTerminates, Known, TypeInv, TypeOK
<1>4. nestLevel' = nestLevel /\ selfDrains' = selfDrains
    BY <1>2, <1>3 DEF Smaller
<1>5. exits # N
    BY <1>1, ExitedJoined DEF Known, Left
<1>6. barrier' = barrier
  <2>1. /\ barrier' = [barrier EXCEPT !.count = Smaller(@ + 0, barrier.unlock)]
        /\ barrier \in [count : Nat, unlock : Nat]
      BY <1>2 DEF SelfTerminates, Known, TypeInv, TypeOK
  <2>2. /\ barrier.count + Cardinality(Outstanding) = barrier.unlock
        /\ Cardinality(Outstanding) \in Nat
      BY <1>5, FS_CardinalityType DEF DrainInv, Counted
  <2>3. barrier.count \in Nat /\ barrier.unlock \in Nat
      BY <2>1
  <2>4. Smaller(barrier.count + 0, barrier.unlock) = barrier.count
      BY <2>2, <2>3 DEF Smaller
  <2>5. QED
      BY <2>1, <2>4
<1>7. \A i \in Items : fate[i] \in {"done", "killed"} =>
                          fate'[i] \in {"done", "killed"}
    BY DEF SelfTerminates
<1>8. QED
    BY <1>1, <1>4, <1>5, <1>6, <1>7, WorkerStays

\* Every step of a worker keeps what is known of the drains.
LEMMA WorkerDrains ==
    ASSUME Known, DrainInv, NEW w \in Workers, WorkerActs(w)
    PROVE  DrainInv'
<1>1. CASE WorkerStarts(w) \/ ReadTimeout(w) \/ SemBlocks(w) \/ SemTakes(w)
           \/ SemTimesOut(w) \/ SelfDrainEmpty(w)
  <2>1. PICK l \in {"loop", "wait", "asleep", "fetch", "drained"} : Goto(w, l)
      BY <1>1 DEF WorkerStarts, ReadTimeout, SemBlocks, SemTakes, SemTimesOut,
                  SelfDrainEmpty
  <2>2. /\ UNCHANGED <<state, queue, drainVars, stack, due, fate>>
        /\ exits' = exits
      BY <1>1 DEF WorkerStarts, ReadTimeout, SemBlocks, SemTakes, SemTimesOut,
                  SelfDrainEmpty, poolVars, joinVars
  <2>3. QED
      BY <2>1, <2>2, WorkerStays DEF drainVars, Departing
<1>2. CASE FetchNothing(w)
  <2>1. /\ UNCHANGED <<state, queue, drainVars, stack, due, fate>>
        /\ exits' = exits
        /\ Goto(w, IF state = "Joining" THEN "leaving" ELSE "loop")
        /\ state = "Joining" => queue = <<>>
      BY <1>2 DEF FetchNothing, NothingToDo, poolVars, joinVars
  <2>2. QED
      BY <2>1, WorkerStays DEF drainVars, Departing
<1>3. CASE WorkerLeaves(w)
  <2>1. /\ UNCHANGED <<state, queue, drainVars, stack, due, fate>>
        /\ exits' = exits /\ pc[w] = "leaving" /\ Goto(w, "posting")
      BY <1>3 DEF WorkerLeaves, poolVars
  <2>2. QED
      BY <2>1, WorkerStays DEF drainVars, Departing
<1>4. CASE WorkerExits(w)
  <2>1. /\ UNCHANGED <<state, queue, drainVars, stack, due, fate>>
        /\ exits' = Smaller(exits + 1, N) /\ pc[w] = "posting" /\ Goto(w, "gone")
      BY <1>4 DEF WorkerExits, poolVars
  <2>2. exits = N => exits' = N
      BY <2>1, AllFinite DEF Smaller
  <2>3. QED
      BY <2>1, <2>2, WorkerStays DEF drainVars, Departing
<1>5. CASE ItemReturns(w)
  <2>1. /\ UNCHANGED <<state, queue, drainVars, stack, due>>
        /\ exits' = exits /\ Goto(w, "returned")
        /\ fate' = [fate EXCEPT ![Head(stack[w]).item] = "done"]
      BY <1>5 DEF ItemReturns, poolVars, joinVars
  <2>2. \A i \in Items : fate[i] \in {"done", "killed"} =>
                            fate'[i] \in {"done", "killed"}
      BY <2>1 DEF Known, TypeInv, TypeOK
  <2>3. QED
      BY <2>1, <2>2, WorkerStays DEF drainVars, Departing
<1>6. CASE FetchItem(w) \/ SelfDrainDispatches(w) \/ SelfJoinDispatches(w)
  <2>1. PICK back \in {"loop", "draining", "joining"} :
           Dispatch(w, back) /\ (back # "loop" => stack[w] # <<>>)
      BY <1>6 DEF FetchItem, SelfDrainDispatches, SelfJoinDispatches, Known, TypeInv,
                  StackInv, Inside
  <2>2. UNCHANGED <<state, drainVars, due>> /\ exits' = exits
      BY <1>6 DEF FetchItem, SelfDrainDispatches, SelfJoinDispatches, joinVars
  <2>3. /\ Outstanding' = Outstanding
        /\ \A k \in DOMAIN queue' : \E j \in DOMAIN queue : queue'[k] = queue[j]
        /\ \A u \in Workers : \A k \in DOMAIN stack'[u] : stack'[u][k].wraps <= 1
        /\ \A u \in Workers \ {w} : stack'[u] = stack[u]
        /\ Goto(w, "run")
        /\ \A i \in Items : fate[i] \in {"done", "killed"} => fate'[i] = fate[i]
      BY <2>1, DispatchOutstanding
  <2>4. QED
      BY <2>2, <2>3, WorkerKept DEF drainVars, Departing
<1>7. CASE Unwrapped(w)
  <2>1. /\ Outstanding' = Outstanding
        /\ \A u \in Workers : \A k \in DOMAIN stack'[u] : stack'[u][k].wraps <= 1
        /\ \A u \in Workers \ {w} : stack'[u] = stack[u]
      BY <1>7, UnwrappedOutstanding
  <2>2. PICK l \in {"loop", "draining", "joining"} : Goto(w, l)
      BY <1>7, UnwrappedOutstanding
  <2>3. /\ UNCHANGED <<state, queue, drainVars, due, fate>> /\ exits' = exits
      BY <1>7 DEF Unwrapped, poolVars, joinVars
  <2>4. \A k \in DOMAIN queue' : \E j \in DOMAIN queue : queue'[k] = queue[j]
      BY <2>3
  <2>5. QED
      BY <2>1, <2>2, <2>3, <2>4, WorkerKept DEF drainVars, Departing
<1>8. QED
    BY <1>1, <1>2, <1>3, <1>4, <1>5, <1>6, <1>7, ListedDrains, CompletionCounts,
       TerminatesDrains DEF WorkerActs

--------------------------------------------------------------------------------
(* The theorems. *)

\* Nothing is wrapped at first.
LEMMA InitialDrains == Init => DrainInv
<1>1. SUFFICES ASSUME Init
               PROVE  DrainInv
    OBVIOUS
<1>2. /\ queue = <<>> /\ nested = {} /\ barrier = [count |-> 0, unlock |-> 0]
      /\ \A w \in Workers : /\ stack[w] = <<>> /\ selfDrains[w] = 0
                            /\ pc[w] = "start"
      /\ \A c \in Clients : pc[c] = "idle"
    BY <1>1, ThreadGroupAssumption DEF Init, Threads
<1>3. Outstanding = {}
    BY <1>2, EmptyDomain DEF Outstanding
<1>4. NoneHeld /\ WrappedOnce /\ ClosedWrapped /\ DepartedUnwrapped
    BY <1>2, EmptyDomain DEF NoneHeld, WrappedOnce, ClosedWrapped, DepartedUnwrapped
<1>5. Counted /\ Settled
    BY <1>2, <1>3, FS_EmptySet DEF Counted, Settled
<1>6. DueKept /\ NestedOut
    BY <1>2 DEF DueKept, NestedOut, Calling
<1>7. QED
    BY <1>4, <1>5, <1>6 DEF DrainInv

\* Every step keeps what is known of the drains, where only clients drain.
LEMMA DrainStep ==
    ASSUME NoSelfDrains, ~StartAnytime
    PROVE  Known /\ DrainInv /\ [Next]_vars => DrainInv'
<1>1. SUFFICES ASSUME Known, DrainInv, [Next]_vars
               PROVE  DrainInv'
    OBVIOUS
<1>2. CASE UNCHANGED vars
  <2>1. Outstanding' = Outstanding
      BY <1>2 DEF vars, poolVars, Outstanding
  <2>2. QED
      BY <1>1, <1>2, <2>1
         DEF vars, poolVars, joinVars, drainVars, DrainInv, NoneHeld, WrappedOnce,
             ClosedWrapped, DepartedUnwrapped, Counted, Settled, DueKept, NestedOut
<1>3. CASE Next
    BY <1>1, <1>3, Steps, CallDrains, WorkerDrains, UnblockSettles
<1>4. QED
    BY <1>1, <1>2, <1>3

\* All that has been shown holds in every state.
LEMMA AllKnown ==
    ASSUME ~StartAnytime
    PROVE  Spec => []Known
<1>1. Init => DrainKeepsClosed
    BY DEF Init, DrainKeepsClosed
<1>2. TypeInv /\ DrainKeepsClosed /\ [Next]_vars => DrainKeepsClosed'
    BY ClosedKept
<1>3. TypeInv /\ Fates /\ [Next]_vars => Fates'
    BY FatesStep
<1>4. TypeInv /\ Fates /\ Leaving /\ NestExact /\ EndInv /\ CleanInv /\ FrameInv
      /\ DrainKeepsClosed => Known
    BY DEF Known
<1>5. QED
    BY InitialTypes, TypeKept, InitialFates, <1>3, InitialLeaving, LeavingKept,
       InitialEnd, NestStep, EndStep, InitialClean, CleanStep, InitialFrames,
       FramesStep, <1>1, <1>2, <1>4, PTL DEF Spec

\* "All work items in the Thread Group work queue will be executed before Drain()
\* returns": an external Drain() resumes when all that was queued at its call is
\* done, except for what a worker was in that ended itself in Join() or Destroy().
\* Items may add, stop, start, join and destroy, but not drain.
THEOREM DrainWaitsForAll ==
    ASSUME NoSelfDrains, ~StartAnytime
    PROVE  Spec => []DrainedItemsDone
<1>1. Known /\ DrainInv => DrainedItemsDone
  <2>1. SUFFICES ASSUME Known, DrainInv, NEW c \in Clients, pc[c] = "drained",
                        NEW i \in due[c]
                 PROVE  fate[i] \in {"done", "killed"}
      BY DEF DrainedItemsDone
  <2>2. fate[i] \in {"done", "killed"} \/ i \in Outstanding
      BY <2>1 DEF DrainInv, DueKept, Calling
  <2>3. CASE Outstanding = {}
      BY <2>2, <2>3
  <2>4. CASE exits = N /\ i \in Outstanding
    <3>1. \A w \in Workers : Left(w)
        BY <2>1, <2>4, ExitedJoined DEF Known
    <3>2. \A k \in DOMAIN queue : queue[k].wraps = 0
        BY <2>1, <3>1, ThreadGroupAssumption
           DEF DrainInv, DepartedUnwrapped, Left, Departing
    <3>3. PICK w \in Workers : \E k \in DOMAIN stack[w] : stack[w][k].item = i
        BY <2>4, <3>2 DEF Outstanding
    <3>4. QED
        BY <2>1, <3>1, <3>3 DEF Known, FrameInv, LeftKilled
  <2>5. QED
      BY <2>1, <2>2, <2>3, <2>4 DEF DrainInv, Settled
<1>2. QED
    BY AllKnown, InitialDrains, DrainStep, <1>1, PTL DEF Spec

\* Begin() finds what it asserts: when a new series of drains begins, no wrapper of
\* an earlier one is on the list.
THEOREM SeriesDoNotMix ==
    ASSUME NoSelfDrains, ~StartAnytime
    PROVE  Spec => BeginFindsNoNested
<1>1. Known /\ DrainInv /\ [Next]_vars
         => [nestLevel = 0 /\ nestLevel' = 1 => nested = {}]_vars
  <2>1. SUFFICES ASSUME Known, DrainInv, Next, nestLevel = 0, nestLevel' = 1
                 PROVE  nested = {}
      OBVIOUS
  <2>2. ASSUME NEW c \in Clients, DrainUnblocks(c)
        PROVE  FALSE
      BY <2>1, <2>2 DEF DrainUnblocks, drainVars
  <2>3. ASSUME NEW w \in Workers, WorkerActs(w)
        PROVE  FALSE
    <3>1. CASE SelfTerminates(w)
      <4>1. nestLevel' = 0 - Smaller(selfDrains[w], 0) /\ selfDrains[w] \in Nat
          BY <2>1, <3>1 DEF SelfTerminates, Known, TypeInv, TypeOK
      <4>2. QED
          BY <2>1, <4>1 DEF Smaller
    <3>2. CASE ~SelfTerminates(w)
      <4>1. nestLevel' = nestLevel
          BY <2>3, <3>2 DEF WorkerActs, WorkerStarts, ReadTimeout, SemBlocks,
             SemTakes, SemTimesOut, FetchItem, FetchNothing, ItemReturns, Unwrapped,
             CompleteNested, CompletePost, SelfDrainDispatches, SelfDrainEmpty,
             SelfJoinDispatches, WorkerLeaves, WorkerExits, drainVars
      <4>2. QED
          BY <2>1, <4>1
    <3>3. QED
        BY <3>1, <3>2
  <2>4. ASSUME NEW t \in Threads, CallActs(t), ~DrainBegins(t)
        PROVE  FALSE
      BY <2>1, <2>4, CallsKeepCount
  <2>5. ASSUME NEW t \in Threads, DrainBegins(t)
        PROVE  nested = {}
      BY <2>1, <2>5, FirstDrain
  <2>6. QED
      BY <2>1, <2>2, <2>3, <2>4, <2>5, Steps
<1>2. QED
    BY AllKnown, InitialDrains, DrainStep, <1>1, PTL DEF Spec, BeginFindsNoNested

================================================================================
