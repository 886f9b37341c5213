------------------------------ MODULE ThreadGroup ------------------------------
(***************************************************************************)
(* AAL::OSLThreadGroup: a queue of work items, worker threads that run      *)
(* them, and calls to add work, to stop and start, to drain the queue and   *)
(* to join the workers.  Any thread may make these calls: an external       *)
(* client, or a worker from inside the item it runs.                        *)
(*                                                                         *)
(* One action is one section under the lock of ThrGrpState, or one call on  *)
(* the semaphore and the barriers made outside it.  The work semaphore is   *)
(* the atomic one of CountingSemaphore (Semaphore implements it); a barrier *)
(* is its count and unlock count, which is what Barrier shows of itself.    *)
(*                                                                         *)
(* A dispatched item is a frame on the stack of the worker that runs it; an *)
(* item that drains or joins its own group runs further items above itself. *)
(***************************************************************************)
EXTENDS Integers, Sequences, FiniteSets

CONSTANTS
    Workers,        \* the threads of the group
    Clients,        \* the other threads that call it
    Items,          \* work items; each is added once
    Script,         \* the calls each item makes on its group when it runs
    ClientCalls,    \* the calls each client may make
    StartAnytime,   \* whether Start() may be called during a Drain(), too
    NoThread        \* m_Joiner before THRGRPSTATE_FLAG_JOINING is set

Calls == {"add", "drain", "stop", "start", "join", "destroy"}

ASSUME ThreadGroupAssumption ==
    /\ IsFiniteSet(Workers) /\ Workers # {}
    /\ IsFiniteSet(Clients)
    /\ Workers \cap Clients = {}
    /\ NoThread \notin Workers \cup Clients
    /\ Script \in [Items -> Seq(Calls)]
    /\ ClientCalls \in [Clients -> SUBSET Calls]
    /\ StartAnytime \in BOOLEAN

Threads == Workers \cup Clients
N == Cardinality(Workers)

VARIABLES
    state,      \* m_eState
    queue,      \* m_workqueue: items and how often a Drain() has wrapped them
    tokens,     \* the count of m_WorkSem
    polling,    \* m_WorkSemTimeout is PollingInterval(), not infinite
    joiner,     \* m_Joiner
    running,    \* m_RunningThreads
    exited,     \* m_ExitedThreads
    started,    \* the count of m_ThrStartBarrier
    exits,      \* the count of m_ThrExitBarrier
    joinOpen,   \* m_ThrJoinBarrier is open
    nestLevel,  \* m_DrainNestLevel
    selfDrains, \* m_SelfDrainers: how often it holds each worker
    nested,     \* m_NestedWorkItems: the wrappers not completed
    barrier,    \* m_DrainBarrier: its count and its unlock count
    destroyed,  \* m_bDestroyed
    freed       \* the ThrGrpState has been deleted

VARIABLES
    pc,         \* where each thread stands
    stack,      \* the items each thread is in, the innermost first
    timed,      \* the worker sleeps on m_WorkSem with a timeout
    ending,     \* the call that brought the thread to Quiesce()
    due,        \* history: what was queued when the client called Drain()
    fate        \* history: what has become of each item

poolVars == <<state, queue, tokens, polling>>
joinVars == <<joiner, running, exited, started, exits, joinOpen, destroyed, freed>>
drainVars == <<nestLevel, selfDrains, nested, barrier>>
vars == <<poolVars, joinVars, drainVars, pc, stack, timed, ending, due, fate>>

Smaller(m, n) == IF m < n THEN m ELSE n

Init ==
    /\ state = "Running"
    /\ queue = <<>>
    /\ tokens = 0
    /\ polling = FALSE
    /\ joiner = NoThread
    /\ running = Workers
    /\ exited = {}
    /\ started = 0
    /\ exits = 0
    /\ joinOpen = FALSE
    /\ nestLevel = 0
    /\ selfDrains = [w \in Workers |-> 0]
    /\ nested = {}
    /\ barrier = [count |-> 0, unlock |-> 0]
    /\ destroyed = FALSE
    /\ freed = FALSE
    /\ pc = [t \in Threads |-> IF t \in Workers THEN "start" ELSE "idle"]
    /\ stack = [t \in Threads |-> <<>>]
    /\ timed = [w \in Workers |-> FALSE]
    /\ ending = [t \in Threads |-> "none"]
    /\ due = [c \in Clients |-> {}]
    /\ fate = [i \in Items |-> "new"]

Goto(t, l) == pc' = [pc EXCEPT ![t] = l]

--------------------------------------------------------------------------------
(* Helpers of the state. *)

\* The checking mutator State(st): the state after the request.  What it asserts of
\* Stop() during a drain is compiled out of a release build: a step of nothing.
Transition(st) ==
    CASE state = "Running" -> st
      [] state = "Stopped" -> IF st = "Draining" THEN "Stopped" ELSE st
      [] state = "Draining" -> IF st = "Stopped" THEN "Draining" ELSE st
      [] OTHER -> "Joining"

QueuedItems == {queue[k].item : k \in DOMAIN queue}

\* A worker that drains or joins its own group keeps the lock from the start of
\* the call to its first unlocked dispatch.
Holding == {"drainHeld", "joinHeld"}
LockFree(t) == \A w \in Workers \ {t} : pc[w] \notin Holding

\* A thread asleep on the work semaphore.
Asleep == {w \in Workers : pc[w] = "asleep"}

\* The frame of an item that a worker starts; back is where the worker goes on
\* when the item returns, next the call of its script it is at.
Frame(work, back) ==
    [item |-> work.item, wraps |-> work.wraps, next |-> 1, back |-> back,
     due |-> {}]

\* Pop the queue and run the item.
Dispatch(w, back) ==
    /\ queue # <<>>
    /\ queue' = Tail(queue)
    /\ stack' = [stack EXCEPT ![w] = <<Frame(Head(queue), back)>> \o @]
    /\ fate' = [fate EXCEPT ![Head(queue).item] = "running"]
    /\ Goto(w, "run")

\* The call a thread is about to make: a client is free to choose, an item
\* follows its script.  A client does not call a group being destroyed.
MayCall(t, call) ==
    \/ /\ t \in Clients
       /\ pc[t] = "idle"
       /\ started = N
       /\ call \in ClientCalls[t]
       /\ ~destroyed
    \/ /\ t \in Workers
       /\ pc[t] = "run"
       /\ LET top == Head(stack[t])
          IN  /\ top.next <= Len(Script[top.item])
              /\ call = Script[top.item][top.next]

\* The call returns to its caller.
Return(t) ==
    /\ Goto(t, IF t \in Workers THEN "run" ELSE "idle")
    /\ stack' = IF t \in Workers
                THEN [stack EXCEPT ![t][1].next = @ + 1, ![t][1].due = {}]
                ELSE stack

--------------------------------------------------------------------------------
(* Adding work, stopping and starting. *)

AcceptsWork == state \notin {"Stopped", "Draining"}

\* Push under the lock ...
Add(t, i) ==
    /\ MayCall(t, "add")
    /\ AcceptsWork
    /\ fate[i] = "new"
    /\ queue' = Append(queue, [item |-> i, wraps |-> 0])
    /\ fate' = [fate EXCEPT ![i] = "queued"]
    /\ Goto(t, "adding")
    /\ UNCHANGED <<state, tokens, polling, joinVars, drainVars, stack, timed,
                   ending, due>>

\* ... Post outside it.
AddPost(t) ==
    /\ pc[t] = "adding"
    /\ tokens' = tokens + 1
    /\ Return(t)
    /\ UNCHANGED <<state, queue, polling, joinVars, drainVars, timed, ending, due,
                   fate>>

AddRefused(t) ==
    /\ MayCall(t, "add")
    /\ \/ ~AcceptsWork
       \/ \A i \in Items : fate[i] # "new"      \* nothing left to add
    /\ Return(t)
    /\ UNCHANGED <<poolVars, joinVars, drainVars, timed, ending, due, fate>>

\* A slip: one count is taken off for each item deleted.
DiscardCounts ==
    /\ tokens' = tokens - Len(queue)
    /\ queue' = <<>>
    /\ fate' = [i \in Items |-> IF i \in QueuedItems THEN "dropped" ELSE fate[i]]

\* A slip: the items are deleted and stay in the queue.
DiscardDangling ==
    /\ tokens' = IF Asleep = {} THEN 0 ELSE tokens
    /\ fate' = [i \in Items |-> IF i \in QueuedItems THEN "dropped" ELSE fate[i]]
    /\ UNCHANGED queue

\* Reset() of the semaphore fails, without effect, while a worker sleeps on it.
Discard ==
    /\ tokens' = IF Asleep = {} THEN 0 ELSE tokens
    /\ queue' = <<>>
    /\ fate' = [i \in Items |-> IF i \in QueuedItems THEN "dropped" ELSE fate[i]]

Stop(t) ==
    /\ MayCall(t, "stop")
    /\ state' = Transition("Stopped")
    /\ IF state' = "Stopped" THEN Discard ELSE UNCHANGED <<tokens, queue, fate>>
    /\ Return(t)
    /\ UNCHANGED <<polling, joinVars, drainVars, timed, ending, due>>

Start(t) ==
    /\ MayCall(t, "start")
    /\ state # "Draining" \/ StartAnytime
    /\ state' = Transition("Running")
    /\ tokens' = IF state' = "Running" /\ tokens < Len(queue)
                 THEN Len(queue) ELSE tokens
    /\ Return(t)
    /\ UNCHANGED <<queue, polling, joinVars, drainVars, timed, ending, due, fate>>

--------------------------------------------------------------------------------
(* Draining. *)

\* Drain() with nothing queued, or in a state that does not allow it.
DrainReturns(t) ==
    /\ MayCall(t, "drain")
    /\ queue = <<>> \/ Transition("Draining") # "Draining"
    /\ Return(t)
    /\ UNCHANGED <<poolVars, joinVars, drainVars, timed, ending, due, fate>>

\* A slip: the barrier opens at the first completion.
BeginForOne ==
    /\ nestLevel' = nestLevel + 1
    /\ IF nestLevel = 0
       THEN /\ barrier' = [count |-> 0, unlock |-> 1]
            /\ queue' = [k \in DOMAIN queue |-> [queue[k] EXCEPT !.wraps = @ + 1]]
            /\ nested' = nested \cup
                         {<<queue[k].item, queue[k].wraps + 1>> : k \in DOMAIN queue}
       ELSE UNCHANGED <<barrier, queue, nested>>

\* DrainManager::Begin(): the first of a series of overlapping Drain() calls
\* makes the barrier anew and wraps every queued item.
Begin ==
    /\ nestLevel' = nestLevel + 1
    /\ IF nestLevel = 0
       THEN /\ barrier' = [count |-> 0, unlock |-> Len(queue)]
            /\ queue' = [k \in DOMAIN queue |-> [queue[k] EXCEPT !.wraps = @ + 1]]
            /\ nested' = nested \cup
                         {<<queue[k].item, queue[k].wraps + 1>> : k \in DOMAIN queue}
       ELSE UNCHANGED <<barrier, queue, nested>>

DrainBegins(t) ==
    /\ MayCall(t, "drain")
    /\ queue # <<>>
    /\ Transition("Draining") = "Draining"
    /\ state' = "Draining"
    /\ Begin
    /\ IF t \in running
       THEN /\ selfDrains' = [selfDrains EXCEPT ![t] = @ + 1]
            /\ stack' = [stack EXCEPT ![t][1].due = QueuedItems]
            /\ Goto(t, "drainHeld")
            /\ UNCHANGED due
       ELSE /\ due' = [due EXCEPT ![t] = QueuedItems]
            /\ Goto(t, "blocked")
            /\ UNCHANGED <<selfDrains, stack>>
    /\ UNCHANGED <<tokens, polling, joinVars, timed, ending, fate>>

\* A worker that drains its own group runs what is queued, unlocked each time.
SelfDrainDispatches(w) ==
    /\ pc[w] \in {"drainHeld", "draining"}
    /\ Dispatch(w, "draining")
    /\ UNCHANGED <<state, tokens, polling, joinVars, drainVars, timed, ending, due>>

SelfDrainEmpty(w) ==
    /\ pc[w] = "draining"
    /\ queue = <<>>
    /\ Goto(w, "drained")
    /\ UNCHANGED <<poolVars, joinVars, drainVars, stack, timed, ending, due, fate>>

\* An external caller waits for the barrier.
DrainUnblocks(c) ==
    /\ pc[c] = "blocked"
    /\ barrier.count >= barrier.unlock
    /\ Goto(c, "drained")
    /\ UNCHANGED <<poolVars, joinVars, drainVars, stack, timed, ending, due, fate>>

\* A slip: the end of any Drain() ends the draining.
StateAtAnyLevel(level) == Transition("Running")

StateAtLevel(level) == Transition(IF level = 0 THEN "Running" ELSE "Draining")

\* DrainManager::End() counts an external drainer, and a worker it knows.
KnownDrainer(t) == t \in Clients \/ selfDrains[t] > 0

LevelAfter(t) ==
    IF KnownDrainer(t) /\ nestLevel > 0 THEN nestLevel - 1 ELSE nestLevel

DrainEnds(t) ==
    /\ pc[t] = "drained"
    /\ nestLevel' = LevelAfter(t)
    /\ selfDrains' = IF t \in Workers /\ KnownDrainer(t)
                     THEN [selfDrains EXCEPT ![t] = @ - 1] ELSE selfDrains
    /\ state' = StateAtLevel(LevelAfter(t))
    /\ Return(t)
    /\ due' = IF t \in Clients THEN [due EXCEPT ![t] = {}] ELSE due
    /\ UNCHANGED <<queue, tokens, polling, joinVars, nested, barrier, timed, ending,
                   fate>>

--------------------------------------------------------------------------------
(* The workers: ExecProc(), GetWorkItem(), and the work items. *)

\* WorkerHasStarted()
WorkerStarts(w) ==
    /\ pc[w] = "start"
    /\ started' = started + 1
    /\ Goto(w, "loop")
    /\ UNCHANGED <<poolVars, drainVars, joiner, running, exited, exits, joinOpen,
                   destroyed, freed, stack, timed, ending, due, fate>>

\* m_WorkSemTimeout is read without the lock.
ReadTimeout(w) ==
    /\ pc[w] = "loop"
    /\ timed' = [timed EXCEPT ![w] = polling]
    /\ Goto(w, "wait")
    /\ UNCHANGED <<poolVars, joinVars, drainVars, stack, ending, due, fate>>

SemBlocks(w) ==
    /\ pc[w] = "wait"
    /\ tokens = 0
    /\ Goto(w, "asleep")
    /\ UNCHANGED <<poolVars, joinVars, drainVars, stack, timed, ending, due, fate>>

SemTakes(w) ==
    /\ pc[w] \in {"wait", "asleep"}
    /\ tokens > 0
    /\ tokens' = tokens - 1
    /\ Goto(w, "fetch")
    /\ UNCHANGED <<state, queue, polling, joinVars, drainVars, stack, timed, ending,
                   due, fate>>

\* The result of the timed wait is not looked at.
SemTimesOut(w) ==
    /\ pc[w] = "asleep"
    /\ timed[w]
    /\ Goto(w, "fetch")
    /\ UNCHANGED <<poolVars, joinVars, drainVars, stack, timed, ending, due, fate>>

\* A slip: a worker leaves a joined group before the queue is empty.
NothingLeftToDo == state \in {"Stopped", "Joining"} \/ queue = <<>>

NothingToDo == state = "Stopped" \/ queue = <<>>

FetchItem(w) ==
    /\ pc[w] = "fetch"
    /\ ~NothingToDo
    /\ Dispatch(w, "loop")
    /\ UNCHANGED <<state, tokens, polling, joinVars, drainVars, timed, ending, due>>

FetchNothing(w) ==
    /\ pc[w] = "fetch"
    /\ NothingToDo
    /\ Goto(w, IF state = "Joining" THEN "leaving" ELSE "loop")
    /\ UNCHANGED <<poolVars, joinVars, drainVars, stack, timed, ending, due, fate>>

\* The item returns; a wrapped one still has to signal its completion.
ItemReturns(w) ==
    /\ pc[w] = "run"
    /\ LET top == Head(stack[w])
       IN  /\ top.next > Len(Script[top.item])
           /\ fate' = [fate EXCEPT ![top.item] = "done"]
    /\ Goto(w, "returned")
    /\ UNCHANGED <<poolVars, joinVars, drainVars, stack, timed, ending, due>>

Unwrapped(w) ==
    /\ pc[w] = "returned"
    /\ Head(stack[w]).wraps = 0
    /\ Goto(w, Head(stack[w]).back)
    /\ stack' = [stack EXCEPT ![w] = Tail(@)]
    /\ UNCHANGED <<poolVars, joinVars, drainVars, timed, ending, due, fate>>

\* A slip: the wrapper stays on the list.
CompleteListed(w) ==
    /\ pc[w] = "returned"
    /\ Head(stack[w]).wraps > 0
    /\ Goto(w, "completing")
    /\ UNCHANGED <<poolVars, joinVars, drainVars, stack, timed, ending, due, fate>>

\* DrainManager::CompleteNestedWorkItem(): off the list under the lock ...
CompleteNested(w) ==
    /\ pc[w] = "returned"
    /\ Head(stack[w]).wraps > 0
    /\ nested' = nested \ {<<Head(stack[w]).item, Head(stack[w]).wraps>>}
    /\ Goto(w, "completing")
    /\ UNCHANGED <<poolVars, joinVars, nestLevel, selfDrains, barrier, stack, timed,
                   ending, due, fate>>

\* ... and a Post() to whatever barrier there is, outside it.
CompletePost(w) ==
    /\ pc[w] = "completing"
    /\ barrier' = [barrier EXCEPT !.count = Smaller(@ + 1, barrier.unlock)]
    /\ stack' = [stack EXCEPT ![w][1].wraps = @ - 1]
    /\ Goto(w, "returned")
    /\ UNCHANGED <<poolVars, joinVars, nestLevel, selfDrains, nested, timed, ending,
                   due, fate>>

\* WorkerHasExited(): from Running to Exited under the lock, then the Post().
WorkerLeaves(w) ==
    /\ pc[w] = "leaving"
    /\ running' = running \ {w}
    /\ exited' = IF w \in running THEN exited \cup {w} ELSE exited
    /\ Goto(w, "posting")
    /\ UNCHANGED <<poolVars, drainVars, joiner, started, exits, joinOpen, destroyed,
                   freed, stack, timed, ending, due, fate>>

WorkerExits(w) ==
    /\ pc[w] = "posting"
    /\ exits' = Smaller(exits + 1, N)
    /\ Goto(w, "gone")
    /\ UNCHANGED <<poolVars, drainVars, joiner, running, exited, started, joinOpen,
                   destroyed, freed, stack, timed, ending, due, fate>>

--------------------------------------------------------------------------------
(* Joining and destroying. *)

\* A slip: nobody wakes the workers.
WakeNobody == UNCHANGED <<polling, tokens>>

\* No more infinite sleeps, and a count for everybody.
WakeWorkers ==
    /\ polling' = TRUE
    /\ tokens' = tokens + Cardinality(running)

\* Common to Join() and Destroy().
BeginJoining(t, call) ==
    /\ state' = "Joining"
    /\ WakeWorkers
    /\ joiner' = IF state = "Joining" THEN joiner ELSE t
    /\ ending' = [ending EXCEPT ![t] = call]
    /\ Goto(t, IF t \in running THEN "joinHeld" ELSE "quiesce")
    /\ UNCHANGED <<queue, drainVars, running, exited, started, exits, joinOpen, freed,
                   stack, timed, due, fate>>

Join(t) ==
    /\ MayCall(t, "join")
    /\ state # "Joining"
    /\ BeginJoining(t, "join")
    /\ UNCHANGED destroyed

JoinRefused(t) ==
    /\ MayCall(t, "join")
    /\ state = "Joining"
    /\ Return(t)
    /\ UNCHANGED <<poolVars, joinVars, drainVars, timed, ending, due, fate>>

\* The owner does not destroy the group while another client is inside Add().
\* OSLThreadGroup::Destroy() sets m_bDestroyed in a section of its own before the
\* state's Destroy(); the two are one step, since only a second Destroy() reads it.
Destroy(t) ==
    /\ MayCall(t, "destroy")
    /\ ~destroyed
    /\ \A c \in Clients : pc[c] # "adding"
    /\ destroyed' = TRUE
    /\ BeginJoining(t, "destroy")

DestroyAgain(t) ==
    /\ MayCall(t, "destroy")
    /\ destroyed
    /\ Return(t)
    /\ UNCHANGED <<poolVars, joinVars, drainVars, timed, ending, due, fate>>

\* A worker that joins its own group runs what is queued ...
SelfJoinDispatches(w) ==
    /\ pc[w] \in {"joinHeld", "joining"}
    /\ Dispatch(w, "joining")
    /\ UNCHANGED <<state, tokens, polling, joinVars, drainVars, timed, ending, due>>

\* ... and, under the same lock as the test that it is empty, terminates itself:
\* WorkerIsSelfTerminating() ends its Drain() calls and completes an item for each.
SelfTerminates(w) ==
    /\ pc[w] \in {"joinHeld", "joining"}
    /\ queue = <<>>
    /\ running' = running \ {w}
    /\ selfDrains' = [selfDrains EXCEPT ![w] = 0]
    /\ nestLevel' = nestLevel - Smaller(selfDrains[w], nestLevel)
    /\ barrier' = [barrier EXCEPT
                     !.count = Smaller(@ + selfDrains[w], barrier.unlock)]
    /\ exits' = Smaller(exits + 1, N)
    /\ fate' = [i \in Items |->
                  IF \E k \in DOMAIN stack[w] : stack[w][k].item = i
                  THEN "killed" ELSE fate[i]]
    /\ Goto(w, "quiesce")
    /\ UNCHANGED <<poolVars, joiner, exited, started, joinOpen, destroyed, freed,
                   nested, stack, timed, ending, due>>

\* A slip: the joiner waits for the first worker only.
FirstWorkerLeft == exits > 0

\* WaitForAllWorkersToExit(), and the threads are over.
AllWorkersLeft == exits = N /\ \A w \in exited : pc[w] = "gone"

\* A slip: ReleaseAllDrainers() is forgotten.
ReleaseNobody == UNCHANGED barrier

ReleaseAllDrainers == barrier' = [barrier EXCEPT !.count = barrier.unlock]

\* Quiesce(): the joiner collects the threads of the workers, and releases the
\* external callers of Drain().
CollectWorkers(t) ==
    /\ pc[t] = "quiesce"
    /\ AllWorkersLeft
    /\ joiner = t
    /\ exited' = {}
    /\ nested' = {}
    /\ ReleaseAllDrainers
    /\ Goto(t, "releasing")
    /\ UNCHANGED <<poolVars, joiner, running, started, exits, joinOpen, destroyed,
                   freed, nestLevel, selfDrains, stack, timed, ending, due, fate>>

\* The call is over: Destroy() deletes the state, a worker's thread ends here.
EndCall(t) ==
    /\ freed' = (freed \/ ending[t] = "destroy")
    /\ Goto(t, IF t \in Workers THEN "gone" ELSE "idle")
    /\ ending' = [ending EXCEPT ![t] = "none"]
    /\ UNCHANGED <<poolVars, drainVars, joiner, running, exited, started, exits,
                   destroyed, stack, timed, due, fate>>

\* A slip: the drainers are not waited for.
DrainersIgnored == TRUE

AllDrainersAreDone == nestLevel = 0

\* Once these have left it opens the join barrier, ...
JoinerDone(t) ==
    /\ pc[t] = "releasing"
    /\ AllDrainersAreDone
    /\ joinOpen' = TRUE
    /\ EndCall(t)

\* ... for which a thread that is not the joiner waits.
FollowerDone(t) ==
    /\ pc[t] = "quiesce"
    /\ exits = N
    /\ joiner # t
    /\ joinOpen
    /\ EndCall(t)
    /\ UNCHANGED joinOpen

--------------------------------------------------------------------------------
(* What starts under the lock of the group, and what does not need it. *)

ClientCall(c) ==
    \/ \E i \in Items : Add(c, i)
    \/ AddRefused(c)
    \/ Stop(c)
    \/ Start(c)
    \/ DrainReturns(c)
    \/ DrainBegins(c)
    \/ Join(c)
    \/ JoinRefused(c)
    \/ Destroy(c)

ClientGoesOn(c) ==
    \/ AddPost(c)
    \/ DrainUnblocks(c)
    \/ LockFree(c) /\ (DrainEnds(c) \/ CollectWorkers(c) \/ JoinerDone(c))
    \/ FollowerDone(c)

WorkerLocked(w) ==
    \/ \E i \in Items : Add(w, i)
    \/ AddRefused(w)
    \/ Stop(w)
    \/ Start(w)
    \/ DrainReturns(w)
    \/ DrainBegins(w)
    \/ SelfDrainDispatches(w)
    \/ SelfDrainEmpty(w)
    \/ DrainEnds(w)
    \/ FetchItem(w)
    \/ FetchNothing(w)
    \/ CompleteNested(w)
    \/ WorkerLeaves(w)
    \/ Join(w)
    \/ JoinRefused(w)
    \/ Destroy(w)
    \/ SelfJoinDispatches(w)
    \/ SelfTerminates(w)
    \/ CollectWorkers(w)
    \/ JoinerDone(w)

WorkerUnlocked(w) ==
    \/ WorkerStarts(w)
    \/ ReadTimeout(w)
    \/ SemBlocks(w)
    \/ SemTakes(w)
    \/ SemTimesOut(w)
    \/ AddPost(w)
    \/ ItemReturns(w)
    \/ Unwrapped(w)
    \/ CompletePost(w)
    \/ WorkerExits(w)
    \/ DestroyAgain(w)
    \/ FollowerDone(w)

WorkerStep(w) ==
    \/ LockFree(w) /\ WorkerLocked(w)
    \/ WorkerUnlocked(w)

Next ==
    \/ \E c \in Clients : LockFree(c) /\ ClientCall(c)
    \/ \E c \in Clients : ClientGoesOn(c)
    \/ \E w \in Workers : WorkerStep(w)

Spec == Init /\ [][Next]_vars

\* Every thread runs; a client is not obliged to call the group.
Fairness ==
    /\ \A w \in Workers : WF_vars(WorkerStep(w))
    /\ \A c \in Clients : WF_vars(ClientGoesOn(c))

FairSpec == Spec /\ Fairness

--------------------------------------------------------------------------------
(* Properties. *)

Places ==
    {"start", "loop", "wait", "asleep", "fetch", "run", "returned", "completing",
     "leaving", "posting", "gone", "idle", "adding", "drainHeld", "draining",
     "blocked", "drained", "joinHeld", "joining", "quiesce", "releasing"}

Works == [item : Items, wraps : Nat]
Frames == [item : Items, wraps : Nat, next : Nat \ {0}, due : SUBSET Items,
           back : {"loop", "draining", "joining"}]

TypeOK ==
    /\ state \in {"Running", "Stopped", "Draining", "Joining"}
    /\ queue \in Seq(Works)
    /\ tokens \in Nat
    /\ polling \in BOOLEAN
    /\ joiner \in Threads \cup {NoThread}
    /\ running \subseteq Workers
    /\ exited \subseteq Workers
    /\ started \in Nat
    /\ exits \in Nat
    /\ joinOpen \in BOOLEAN
    /\ nestLevel \in Nat
    /\ selfDrains \in [Workers -> Nat]
    /\ nested \subseteq Items \X Nat
    /\ barrier \in [count : Nat, unlock : Nat]
    /\ destroyed \in BOOLEAN
    /\ freed \in BOOLEAN
    /\ pc \in [Threads -> Places]
    /\ stack \in [Threads -> Seq(Frames)]
    /\ timed \in [Workers -> BOOLEAN]
    /\ ending \in [Threads -> {"none", "join", "destroy"}]
    /\ due \in [Clients -> SUBSET Items]
    /\ fate \in [Items -> {"new", "queued", "running", "done", "dropped", "killed"}]

At(l) == {t \in Threads : pc[t] = l}

\* No queued item is forgotten by the semaphore: for each there is a count, a
\* Post() still to come from its Add(), or a worker about to look at the queue.
\* Add() posts outside the lock, Stop() may fail to reset the count, Start()
\* tops it up, and drains and joins of a worker take items without a count.
WorkIsSignalled ==
    Len(queue) <= tokens + Cardinality(At("adding")) + Cardinality(At("fetch"))

\* While a Drain() is in progress no new work is accepted, unless by a Join():
\* overlapping drains, and the end of the inner ones, keep the group Draining.
DrainKeepsClosed == nestLevel > 0 => state \in {"Draining", "Joining"}

\* An item runs at most once and never after Stop() deleted it, whoever takes it
\* from the queue: a worker, or a worker that drains or joins its group.
RunsOnce ==
    [][\A i \in Items : (fate'[i] = "running" /\ fate[i] # "running")
                           => fate[i] = "queued"]_vars

\* "All work items in the Thread Group work queue will be executed before Drain()
\* returns": when an external Drain() resumes, what was queued at its call is
\* done, except for an item whose worker ended itself in Join() or Destroy().
DrainedItemsDone ==
    \A c \in Clients : pc[c] = "drained" =>
        \A i \in due[c] : fate[i] \in {"done", "killed"}

\* The same for a worker that drains its own group: "waiting until they are all
\* complete before returning".  It does not wait for an item that another worker
\* has taken.
SelfDrainedItemsDone ==
    \A w \in Workers : pc[w] = "drained" =>
        \A i \in Head(stack[w]).due : fate[i] \in {"done", "killed"}

\* Begin() asserts that no wrapper of an earlier Drain() is left when a new
\* series of drains begins: ASSERT(0 == m_NestedWorkItems.size()).
BeginFindsNoNested ==
    [][nestLevel = 0 /\ nestLevel' = 1 => nested = {}]_vars

\* When the join barrier opens every worker has left: its thread is over, or it
\* is one that joins or destroys the group itself and is past its last item.
JoinedMeansGone ==
    joinOpen => /\ running = {}
                /\ \A w \in Workers : pc[w] \in {"gone", "quiesce", "releasing"}

\* The state is deleted only when no thread is inside a call on it.
FreedIsQuiet == freed => \A t \in Threads : pc[t] \in {"idle", "gone"}

\* The assertions of ~ThrGrpState() and ~DrainManager().
DestructorAsserts ==
    freed => /\ state = "Joining"
             /\ queue = <<>>
             /\ running = {} /\ exited = {}
             /\ nestLevel = 0
             /\ \A w \in Workers : selfDrains[w] = 0
             /\ nested = {}

\* An item that waits in the queue of a group nobody has joined yet is run or
\* deleted, whichever way the group goes on: the workers leave, and a worker that
\* joins the group ends itself, only after the queue is empty.
AcceptedItemEnds ==
    \A i \in Items : (fate[i] = "queued" /\ state # "Joining")
                        ~> fate[i] \in {"done", "dropped", "killed"}

\* An external Drain() returns, also when a worker joins or destroys the group
\* from inside an item the Drain() waits for.
DrainReturnsAtLast ==
    \A c \in Clients : pc[c] = "blocked" ~> pc[c] = "idle"

\* Destroy() comes to its end: no worker sleeps through it.
DestroyFrees == destroyed ~> freed

================================================================================
