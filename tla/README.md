# A TLA+ model of AALSDK

AALSDK is Intel's Accelerator Abstraction Layer: a C++ user-space library (a
runtime, services, a broker and a resource manager), the OS abstraction layer
(OSAL) it stands on, and a set of Linux kernel modules (a bus, a resource manager
and the CCI-P PCIe driver). This directory holds TLA+ modules that model its core,
configurations that check them with TLC, and proofs that TLAPS checks. Paths are
relative to the root of the repository, and `OSAL` is `src/aaluser/aas/OSAL`.

Modelled are three layers of it:

* the OSAL's concurrency: the semaphore, the barrier and the thread group, on which
  everything above runs;
* the start, stop and release of the runtime with its message delivery, the service
  broker's shutdown and the service modules: where those primitives are put together;
* in the driver, the partial reconfiguration of an AFU under its owner: the longest
  protocol of timeouts, retries and revocation in the repository.

A wakeup lost or a wait cut short in the first is a hang or a use after free
everywhere else; the other two are the places where threads, callbacks and owners
that nobody controls meet.

## 1. Inventory

| Component | Source | State | Operations | What is hard |
|---|---|---|---|---|
| `CSemaphore` | `OSAL/OSSemaphore.cpp` | count, maximum, number of waiters, OK and unblocked flags, one condition variable | `Create`, `Destroy`, `Reset`, `Post`, `UnblockAll`, `Wait`, `Wait(timeout)` | signal or broadcast, count-up, the flag the last waiter clears, deadlines, spurious wakeups |
| `Barrier` | `OSAL/Barrier.cpp` | count, unlock count, five flags, waiters and pre-waiters, two condition variables | the same, with auto-reset | volleys must not mix; who is last closes the barrier and wakes the held-back threads |
| `OSLThreadGroup` | `OSAL/ThreadGroup.cpp` | state, queue, work semaphore, lists of threads, drain manager, joiner | `Add`, `Stop`, `Start`, `Drain`, `Join`, `Destroy`, from outside or from inside a work item; the workers' loop | nested drains, a worker that drains, joins or destroys its own group, Posts outside the lock |
| Other OSAL | `CriticalSection.cpp`, `Thread.cpp`, `Timer.cpp`, ... | handles | wrappers of pthread, clock and loader calls | nothing of their own |
| `AALRuntime` | `src/aaluser/aas/AALRuntime/_RuntimeImpl.cpp` and others | runtime state, proxies and owner, broker pointer, a semaphore | `start`, `stop`, `releaseRuntimeInstance`, `schedDispatchable`, the callbacks of the broker | the delivery thread stops and drains itself inside the message that answers `stop` |
| Service broker | `AALRuntime/_ServiceBroker.cpp` | map of loaded service packages | `allocService`, `DoShutdown` with one thread for each package | the order of handlers, services and delivery; a failed allocation that forgets a package |
| Service module, services | `AASLib/AALServiceModule.cpp`, `AALService.cpp` | set of live services, a pending count, a count-up semaphore | `Construct`, `Destroy`, `RemovefromServiceList`, `serviceReleased` | one Post too few hangs, one too many unloads a library in use; a service that initialises itself, or failed to, is on no list |
| AASLib utilities | `AASLib/` | values | events, transaction ids, named values | sequential |
| Resource manager | `AASResourceManager/`, `RRMBrokerService/`, `src/aalkernel/aalresourcemgr_*` | registry of devices, requests | request and release of a device, events of the driver | a protocol between daemon, driver and broker |
| AFU interface service | `AIAService/` | proxies, their sessions | transactions with the driver, message loop | release while events are delivered |
| Kernel event queue | `src/common_hdrs/aalqueue.h`, `cci_pcie_driver_umapi_common.c` | a list under a semaphore | enqueue, dequeue, poll, get message | a test and a dequeue in two critical sections; an interrupted enqueue drops the item |
| CCI-P driver | `src/aalkernel/cci_PCIe_driver` | port registers, AFU devices, reconfiguration context | quiesce, reset, deactivate, configure, activate, revoke | timeouts against the release by the owner; a lock handed through a work queue and given back in a dozen places |
| AAL bus | `src/aalkernel/aalbus` | devices, owners | register, add and remove owner, unregister | owner limits, removal while owned |

**How they interact.** A client calls the runtime; the runtime hands events to a
thread group (`_MessageDelivery.cpp`); the group's workers call the client back,
and the client may call the runtime from the callback, down to stopping or
destroying it, which is why the thread group supports calls from its own workers.
The runtime asks the broker for services, the broker loads a package, and the
package's service module constructs the service. Shutdown runs the other way
through semaphores armed with a negative count. Below, an AFU service talks to the
driver by ioctl and reads events from a queue per session.

**Properties by component.** Semaphore: no lost wakeup, exact counting, the
released waiters fail and nobody else does, it is a counting semaphore. Barrier:
nobody left asleep, one volley at a time, no member of a volley is lost, Destroy
ends. Thread group: accepted work is run once or deleted, Drain returns when and only
when its items are done, joined means gone, freed means unused. Runtime, broker and
service module: stop returns, once everything is released, and nothing is used
afterwards. Event queue: nothing is lost or delivered twice, in order. Driver: a port
is reset only when quiet, reconfiguration has no owner. Bus: no more owners than
allowed, no removal under an owner.

## 2. Modules

| Module | What it is |
|---|---|
| `CountingSemaphore` | what a semaphore promises: an atomic counting semaphore |
| `Semaphore`, `SemaphoreMC` | `CSemaphore`; its instances. Implements `CountingSemaphore` |
| `SemaphoreProofs` | theorems about `Semaphore` |
| `Barrier` | `Barrier` |
| `BarrierProofs` | theorems about `Barrier` |
| `ThreadGroup`, `ThreadGroupMC` | `OSLThreadGroup`; its instances |
| `ThreadGroupProofs` | theorems about `ThreadGroup`: its types, the semaphore, the items, the workers |
| `ThreadGroupDestroyProofs` | theorems about `Destroy()`, `Join()` and the destructors of its state; extends `ThreadGroupProofs` |
| `ThreadGroupDrainProofs` | theorems about `Drain()`; extends `ThreadGroupDestroyProofs` |
| `Runtime`, `RuntimeMC` | `_runtime`, its delivery thread, the broker and the service modules, composed; their instances |
| `RuntimeProofs` | theorems about `Runtime` |
| `PortReconf`, `PortReconfMC` | `CommandHandler()` and the work queue of `ccip_pr.c`; their instances |
| `PortReconfProofs` | theorems about `PortReconf` |

`PROJECT.json` maps every definition to the lines it models.

**Locks and waits.** A method that holds its mutex from start to end is one action.
Where the code gives the mutex up, the action ends: in a condition wait, in the
unlocked part of the timed `Wait()`, between a worker's locked sections. `pc[t]` says
where thread `t` stands. A condition variable is the set of threads asleep on it:
signal wakes one of them, broadcast all, a spurious wakeup any at any time, and a
woken thread still has to get the mutex before it re-reads its predicate. A deadline
is an action that may happen at any time while a timed wait sleeps; its length is
not modelled.

**`Semaphore`.** Each method is an action of its name. `Wait()` is cut into the entry
(`EnterTakes`, `EnterBlocks`, `WaitRefused`, and `WaitTimed` for the first section of
the timed variant) and the ways back from the condition wait (`ResumeExpired`,
`ResumeUnblocked`, `ResumeTakes`, `ResumeBlocks`). `flushed` and `missing` are history
variables: who was in `Wait()` when `UnblockAll()` ran, and how many Posts a count-up
semaphore still has to see.
Counts are integers without a width (the code's are `btInt`, and its
users count services and work items); `Post()` gets positive counts, as everywhere in
the repository. `Create()` and `Destroy()` touch the condition variable, which is
undefined under a thread that uses it, so the model calls them only when no thread is
about to.

**`Barrier`.** The `AutoResetManager` is folded into the methods that call it. A thread
inside `Wait()` is held back (`pre`, `prewoken`) or a waiter (`blocked`, `woken`,
`expired`). `Destroy()` has two actions: it sends the waiters away, and ends once both
counters are zero. `volley`, `flushed` and `overlooked` are history variables. A
thread's result stays in `res` until its caller takes it (`Returned`); only then may the
thread call `Wait()` again, so that a member of a volley that comes back while the others
are still leaving is a call of its own. A barrier is destroyed by one owner, once.

**`ThreadGroup`.** The semaphore and the barriers of the group appear as what they promise:
`tokens` is the count of `m_WorkSem`, with a worker asleep on it; a barrier is its count.
That the promise is kept is what `Semaphore` and `Barrier` show. A worker has a stack of
frames, one for each item it is in, because an item that drains or joins its own group runs
further items inside itself. `Script` says what each item calls when it runs. A queued item
carries the number of wrappers that `DrainManager::Begin()` has put around it. A worker that
begins a self-referential `Drain()` or `Join()` keeps the recursive lock until it dispatches
its first item; `LockFree` expresses this. Each item is added once, which bounds the model.
Clients keep off a group that is being destroyed, the one thing a user must ensure. Not
modelled: the timeouts of `Join()` and `Destroy()` (they wait as long as it takes) and the
creation of the workers. Two things are simpler than the code: `Transition` refuses a
`Stop()` during a drain without a word, as a release build does (`ThreadGroup.cpp:470` has
an `ASSERT` for debug builds), and `Destroy` joins the section that sets `m_bDestroyed`
(172-179) with the `Destroy()` of the state. `CollectWorkers` and the release of the
drainers in it run without the lock in the code and are one step here: at that point all
workers have left.

**`Runtime`.** The actors are the owner's thread, the clients, the services'
initialisation, the message delivery thread (MDS), the broker's shutdown thread and one
handler thread for each package. `queue` is what MDS has not delivered. Its thread
group has one worker and appears as what `ThreadGroup` shows it to promise: items run in
order, `Stop()` refuses further ones (`accepts`), and the drain inside
`_runtime::serviceReleased()` (`BrokerReleased`, then `RuntimeStopped`) runs what is
queued first. The three semaphores (`m_sem` of the runtime, `m_srvcCount` of each module,
`srvcCount` of the shutdown) are counts, with what `Semaphore` shows of `Create(-n)` and
`Reset(-n)`: `CountUp`, `Post`. A service is constructed, initialises itself, is on its
module's list (`listed`), is in its destructor (`ending`) and is deleted. One that cannot
initialise itself is on no list: a thread of its own calls its client back (`failing`) and
then deletes it (`failed`), whatever the rest of the runtime is at. The destructor's
two actions matter: `ServiceReleased` runs it up to `RemovefromServiceList()`, whose Post
may wake the handler, and `DestructorReturns` runs the rest, in a library that may have
been unloaded meanwhile. `crashed` is what C++ leaves undefined: a deleted service, an
unloaded library or a null broker is used. `rushed` records that a client was at work when
the broker was released or afterwards, which the properties about an orderly stop exclude.
The runtime is started once: a second `start()` fails and changes nothing (section 3).

| Action | Code |
|---|---|
| `Start`, `StartReturns` | `_runtime::start()`, `InstallDefaults()` before and after its wait |
| `Stop`, `StopAgain`, `Delete`, `DeleteResumes`, `DeleteStopped`, `Leave` | `_runtime::stop()`, `releaseRuntimeInstance()` and the destructor |
| `AllocService`, `AllocServiceFails`, `InitDone`, `InitFails`, `Release` | `_ServiceBroker::allocService()`, `AALServiceModule::Construct()`, `ServiceInitialized()`, `ServiceInitFailed()`, `ServiceBase::Release()` |
| `FailureTold`, `FailedDestroyed` | `ServiceAllocateFailed` and `DestroyServiceObject`, the dispatchables of the `FireAndForget()` thread of a service that failed |
| `ServiceAllocated`, `BrokerAllocated`, `ServiceReleased`, `DestructorReturns`, `BrokerReleased`, `RuntimeStopped` | the dispatchables MDS delivers, with the callbacks they make |
| `DoShutdown`, `ShutdownDone` | `_ServiceBroker::DoShutdown()` before and after its wait |
| `DestroyEmpty`, `Destroy`, `DestroyReturns`, `Unload` | `ShutdownHandler()` with `AALServiceModule::Destroy()` |

**`PortReconf`.** A request walks from `Send` through the places that the module's
header names. Each callback of the work queue is one action for each way it can go, and so
is each case of `CommandHandler()`; `m_pr_sem` (`prSem`) is counted as the code counts it,
a surplus permit included. The owner count of a device is read without a lock, and often
more than once: each further read, and the removal of an AFU after a read that found no
owner, is a step of its own (`hfree`, `hbusy` in the handler, `wfree`, `wbusy`, `expired` in
a callback), and an owner may come or go in between. That is how the branches that refuse
a request with `BadParameter` are reached (`HandlerRefusesOdd`, `BitstreamRefusesOdd`). The
other side, owners that bind and unbind devices, is free. Of the events that they are sent,
only the revoke events to the AFU's owner are recorded, in the history variable `revoked`:
they make the AAL service of the owner release the AFU (`HWALIBase.cpp:552-554`,
`AALService.cpp:305-308`). The release events and those to the signal tap are not in the
state, because an owner may or may not heed them. The client of the PR device may unbind
while a call of its own is in the driver, which does not prevent it; what happens to the
freed session is not modelled. A null or dangling device that
the code follows leads to `"oops"`, a kernel fault. The hardware appears as success or
failure of the programming. `waited` is a history variable: the delays that have passed.
Time is counted in the code's unit, one slice (`AFU_RES_RELEASE_TIMEOUT`) at a time.

**Slips.** A definition whose comment begins "A slip:" is not part of a
specification. It is a variant of the definition that follows it, with a mistake one
could make in that code: a reset that counts wrong, a signal for a broadcast, a
completion not taken off its list. With the slip in place of the definition, TLC finds
the property named in `PROJECT.json` ("mutants") violated, which shows that each
property depends on the code doing what it does.

## 3. Runs

| Run | Instance | Distinct states | What it shows |
|---|---|---|---|
| `semaphore` | 3 threads, initial counts -2, 0, 1, maxima 0 and 2, Posts of 1 and 2 | 16,453 | four invariants, two action properties and the refinement of `CountingSemaphore`, with the liveness of waiters |
| `barrier` | 3 threads, unlock counts 0 (the default) and 2, Posts of 1 and 2 | 31,682 | five invariants, three action properties, `Destroy()` ends |
| `thread_group_open` | 2 workers, 2 clients, 3 items, one of which stops and starts the group; a client adds, drains, stops and starts, the other drains and destroys | 262,794 | five invariants, two action properties |
| `thread_group_self` | 2 workers, 2 clients, 3 items: one drains and destroys its own group, one adds and joins; clients add, drain, join, destroy | 178,510 | two invariants, three liveness properties |
| `runtime` | 2 packages, 3 services (two of one package), the service alone in its package may fail to construct or to initialise itself | 353,400 | three invariants, every stop is answered |
| `reconf` | 2 requests, 2 sessions, four kinds of orders, a slice of 5, 1 retry (`MaxTry`) | 942,408 | six invariants, every request is answered |

Why these bounds are enough to be interesting. Three threads are the fewest with which a
volley of two has an outsider, a signal may go to either of two sleepers while a third takes
the count, and one waiter can be last while another is held back. Counts of -2 and 2 tell
the signal of `Post()` (count 1) from its broadcast (more), and a count-up that is off by
one from one that is not. Two workers and two clients let a worker drain or join while
another runs an item, and an external drain nest with a worker's; three items let one be
queued, one run, and one be added late. Two packages give the broker's count-up more than
one Post, two services in one of them the module's. Two requests are the fewest that can
work beside each other when the lock has been given back twice; two sessions let a client go
and another come while a request is queued. The orders (`MixedOrders`) have each command,
timeouts of zero, shorter than a slice and of two slices, an owner that is honored and one
that is revoked, and an AFU left deactivated; `MaxTry` stands for `PR_AFU_REVOKE_MAX_TRY`,
and 1 has a first attempt, a repeated one and giving up. Everything else is unbounded in the
specifications but finite here: counts are capped by the maximum, items are added once,
services are allocated once, requests are sent once.

Deadlock is checked for the semaphore and the barrier. It is not where the system rightly
comes to rest: the thread group when its items are used up and no client calls, the
runtime when it has been deleted, the driver when no request is left.

**What the violations show.** Six runs check what a comment, a test or an assertion says
and the code does not do; each has an entry under "findings".

* `semaphore_stale_unblock`: `UnblockAll()` with nobody waiting leaves the unblocked
  flag set, and a later `Wait()` that sleeps comes back false when it is woken. While
  the flag is set a sleeper may also stay beside a positive count, which is why
  `NoLostWakeup` speaks of times when no unblocking is in progress.
* `thread_group_drain_early`: a completion left over from one series of drains is counted
  in the next, whose `Drain()` then returns one item early. It takes a `Drain()` by a
  worker, which does not wait at the barrier; with external drains alone
  `thread_group_open` shows that every item is done.
* `thread_group_add_after_join`: `Add()` accepts an item after the workers have left, and
  the destructor's assertion on the empty queue fails.
* `runtime_forgets`: the second allocation from a package fails to construct; the broker
  erases the package from its map, live service and all, and `runtimeStopped()` is called
  with that service running.
* `reconf_double_release`: a deactivation answered at once gives `m_pr_sem` back twice,
  and from then on two requests may work on the port together.
* `reconf_endless_grace`: with a timeout longer than a slice and no multiple of it, the
  last delay is never added to `m_timeElapsed`. While the owner keeps the AFU the
  callback queues itself for ever, and the request is not answered.

The passing runs avoid just these situations, by their instance or in the property:
`thread_group_open` has no call of `Join()` other than the final `Destroy()`,
`AcceptedItemEnds` speaks of items that wait while the group is not joined, in `runtime`
the service that may fail is alone in its package, `reconf` has timeouts that are
shorter than a slice or multiples of it, and `AfuPointerLive` and `ProgramsOnlyDeactivated`
speak of times when `m_pr_sem` has no surplus: after the first request that gives it back
twice they say nothing. `LockNeverLost` and `DroppedOnlyIfGone` hold without such a
condition. `FullGrace` speaks of what the callbacks do, and of deactivations; what the
handler does to the owner in the way of a configuration is the first item below.

**Promises that the code does not keep, without a run of their own.** They are stated in
the modules, or have a note under "hazards":

* `PortReconf!RevokedAfterGrace` (the comments at `ccip_pr.c:2296`, `2302`, `2317`, `2323`;
  `IALIAFU.h:740-750`, `762-764`): when `CommandHandler()` finds an owner in the way of a
  configuration it calls `afu_request_release_revoke_sendevent(..., false)` (2303, 2324), and
  `false` asks for the revoke event (1116-1123). The AAL service of the owner releases the AFU
  at once, before any grace, also when the order honors the owner or is refused because its
  timeout is zero. The comments speak of a release event, which deactivations and
  `reconfigure_bitstream()` do send. TLC finds it in `HandlerTells` within a few steps.
* `Barrier!UnblockedFail` (`src/aaluser/include/aalsdk/osal/Barrier.h:111`): a thread held
  back by an auto-reset survives `UnblockAll()`, and may return true.
* `ThreadGroup!SelfDrainedItemsDone` (`ThreadGroup.h:88-89`): a worker's own `Drain()` does
  not wait for an item that another worker is running.
* `ThreadGroup!DrainKeepsClosed` with `StartAnytime = TRUE` (`ThreadGroup.h:89-90`):
  `Start()` reopens a group that is being drained. The runs call `Start()` only when no drain
  is in progress.
* `Runtime!StoppedLeavesNothing` (`Runtime.h:211-212`): a service that could not initialise
  itself is deleted by a `FireAndForget()` thread (`AALServiceModule.cpp:236-245`), and nobody
  waits for that thread. An orderly stop may be answered, and the runtime deleted, while the
  service is still there. `StoppedMeansShutDown` allows for it.
* `Runtime!UnloadedIsQuiet` (`AALServiceModule.h:328-330`): the last service Posts its
  module's semaphore in the middle of its destructor, so that the library may be unloaded
  before the destructor has returned; and it may be unloaded before a service that failed has
  been deleted.

Some ways to a crash are in no text of the repository. `m_pendingcount` is counted and never
read, so a service that initialises itself during a stop loses its library; and a client's
`Release()` may meet the release of the same service by the stop. `crashed` and `rushed` keep
these apart from an orderly stop. `StopAnswered` allows for a crash, which takes a rushed stop
or one of the late deletions of the last two items. In the same way `RequestAnswered` allows for
a kernel fault (`Faulted`): one that follows a double release of the lock, or a deactivation
whose AFU shared the port with an owned signal tap, for which `reconfigure_bitstream()` reads
`m_pSigtap_dev`, which only a configuration has set (`ccip_pr.c:1371-1380`).

A second `start()` fails. After a stop `ThrGrpState::Add()` refuses the broker's message
(`ThreadGroup.cpp:367-369`), so the broker's `Construct()` fails, `InstallDefaults()` returns
false before it waits (`_RuntimeImpl.cpp:694-696`), and `start()` calls `runtimeStartFailed()`
and returns false with the state as it was. `Start` therefore asks for `accepts`. An owner that
deletes the runtime right after `stop()`, as `gtRuntime.cpp:75-80` does, is not modelled: the
module's owner waits for `runtimeStopped()`.

## 4. Fairness

Liveness needs only that the threads run. `Semaphore` and `Barrier`: a woken thread gets
the mutex and takes its step (weak fairness of `Resume`), because the methods hold the
mutex for a bounded time. A deadline of a timed wait passes (strong fairness of
`Expire`), since it is computed once, before the loop, and passes even if the thread is
woken and sleeps again meanwhile. `Destroy()` of a barrier polls every 100 ms, hence weak
fairness of `DestroyEnd`. No fairness is asked of callers, of Posts, or of spurious
wakeups. `ThreadGroup`: every worker takes steps, and a client that is inside a call goes
on; no client has to make a call. A work item returns after its script, so an item that
never returns is outside the model. `Runtime`: MDS, the shutdown thread and each handler
take steps; the owner need not start or stop anything, clients need not allocate or release,
a service need not finish its initialisation, and the thread that deletes a service that
failed may take as long as it likes. `PortReconf`: a thread in
`CommandHandler()` and the work queue go on (weak fairness of `Handler` and `Callback` for each
request); owners need not let go, and a request need not be made or interrupted.

## 5. Proofs

TLC checks the instances of section 3. The theorems hold for every value of the constants
under the named assumptions of the modules alone (`SemaphoreAssumption`,
`BarrierAssumption`, `ThreadGroupAssumption`, `RuntimeAssumption`, `PortReconfAssumption`);
what a theorem assumes besides is in the table.

| Theorem | Property |
|---|---|
| `SemaphoreProofs!TypeCorrect` | `TypeOK` |
| `SemaphoreProofs!WaitersCounted` | `WaitCountExact` |
| `SemaphoreProofs!NoWakeupLost` | `NoLostWakeup` |
| `SemaphoreProofs!CountsUp` | `CountUpExact` |
| `SemaphoreProofs!UnblockedFails` | `UnblockedReturnsFalse` |
| `SemaphoreProofs!ImplementsCounting` | `RefinesCounting` |
| `BarrierProofs!TypeCorrect` | `TypeOK` |
| `BarrierProofs!WaitersCounted` | `CountersExact` |
| `BarrierProofs!NobodyLeftAsleep` | `NoSleeperLeftBehind` |
| `BarrierProofs!HeldBackForAReset` | `PreWaiterHasReset` |
| `BarrierProofs!ClosedBetweenVolleys` | `AutoResetCloses` |
| `BarrierProofs!UnblockedFails` | `UnblockedWaitersFail` |
| `BarrierProofs!VolleyComplete` | `VolleyGetsThrough` |
| `BarrierProofs!VolleysDoNotMix` | `OneVolleyAtATime` |
| `ThreadGroupProofs!TypeCorrect` | `TypeOK` |
| `ThreadGroupProofs!NoItemForgotten` | `WorkIsSignalled` |
| `ThreadGroupProofs!ClosedWhileDraining` | `DrainKeepsClosed`, if `~StartAnytime` |
| `ThreadGroupProofs!ItemsRunOnce` | `RunsOnce` |
| `ThreadGroupProofs!WorkersGoneWhenJoined` | `JoinedMeansGone` |
| `ThreadGroupDestroyProofs!DrainsAreCounted` | `NestExact`: `m_DrainNestLevel` is the number of drains in progress |
| `ThreadGroupDestroyProofs!DestroyedWhenQuiet` | `FreedIsQuiet` |
| `ThreadGroupDestroyProofs!FreedIsEmptied` | `NobodyLeft`: what the destructors assert, but for the empty queue |
| `ThreadGroupDestroyProofs!DestructorsAreRight` | `DestructorAsserts`, if `NobodyJoins` |
| `ThreadGroupDrainProofs!DrainWaitsForAll` | `DrainedItemsDone`, if `NoSelfDrains` and `~StartAnytime` |
| `ThreadGroupDrainProofs!SeriesDoNotMix` | `BeginFindsNoNested`, if `NoSelfDrains` and `~StartAnytime` |
| `RuntimeProofs!TypeCorrect` | `TypeOK` |
| `RuntimeProofs!StopShutsDown` | `StoppedMeansShutDown`, if `FailsAlone` |
| `RuntimeProofs!UnloadedEmpty` | `UnloadedIsEmpty`, if `FailsAlone` |
| `PortReconfProofs!TypeCorrect` | `TypeOK` |
| `PortReconfProofs!LockKept` | `LockNeverLost` |
| `PortReconfProofs!PointersLive` | `AfuPointerLive` |
| `PortReconfProofs!ProgramsDeactivated` | `ProgramsOnlyDeactivated` |
| `PortReconfProofs!GraceIsFull` | `FullGrace` |
| `PortReconfProofs!DroppedIfGone` | `DroppedOnlyIfGone` |

*Semaphore.* The invariants are nearly inductive together, and none is alone: that
`m_WaitCount` is exact is needed for its type (it is decremented on every way out), for
`Reset()` (it acts when the count says that nobody waits) and for `DelWaiter` (the last
waiter ends the unblocking). What is missing is `FlushedWait`: a thread that an
`UnblockAll()` found is still inside `Wait()` and the flag still set. It gives
`UnblockedReturnsFalse` at once. The refinement needs one fact more, `ClosedIsEmpty`: a
semaphore that does not exist has the count 0 and no timed `Wait()` about to enter it.
The owner's methods, the entries and the ways out are then each one step of the counting
semaphore; deadlines, wakeups and failed loop tests are steps of nothing.

*Barrier.* The two counters carry the argument, since `RemoveWaiter()` closes the
barrier, clears the flags and wakes the held-back threads when a counter reaches zero.
The strengthening has four parts. `FlagsAgree`: only an auto-reset barrier with a waiter
inside is resetting, and a barrier in use has an unlock count above zero. `FlushedAwake`
and `VolleyAwake`: those an `UnblockAll()` or an opening found have been woken, and the
unblocking or the reset outlives them. `VolleyIsAll`: while the reset lasts nobody
becomes a waiter. Mixing of volleys is excluded by the last one, losing a member by
`VolleyAwake`. `Outcome` and `Passing` say what a single step may do to a woken waiter and
who may return true.

*Thread group.* Several arguments stand side by side, because the properties have little in
common. Those of `ThreadGroupProofs` are each inductive on top of `TypeInv`, which is
`TypeOK` with `StackInv` (a worker inside an item has a frame for it, and a frame that
returns into another item has one below it). `Signalled`: `WorkIsSignalled` needs
`StoppedEmpty`, that a stopped group has an empty queue, since `Start()` tops the semaphore
up by what it finds. `Fates`: an item that waits is in the queue, once, and nobody has it,
so that whoever takes it is the first (`WaitingQueued`, `QueuedOnce`, `TakenApart`).
`Leaving`: a running worker is at work (`RunningAtWork`), the exit count is the number of
those that have left (`ExitsCounted`), and the barrier is open only when it has reached the
number of workers (`OpenAtEnd`). That one action is one locked section is all these
arguments use of the group's lock. `DrainKeepsClosed` is inductive with the types alone, but
false without the assumption on `Start()`.

*The end of a group.* `Destroy()` may delete the state when no other thread is inside a call.
A thread can be inside one in two ways. It may wait in `Drain()`: `NestExact` counts these
against `m_DrainNestLevel`, for which the joiner waits. Or it may be in `Join()` or
`Destroy()` itself: `EndInv` bounds these to one joiner (`OneJoiner`) and one destroyer
(`OneDestroyer`), and says that the join barrier opens only when the drains are over
(`ClosedAtEnd`), so that the one who follows is the last. The theorems use, as the model
does, that nobody makes a new call on a group whose `Destroy()` has begun; the code leaves
this to its callers. For the destructors, `CleanInv` follows what the joiner collects: workers
leave only a joined group, and after the joiner has collected the exited threads nothing puts
one back. The assertion on the empty queue needs `NobodyJoins`, that the program leaves the
joining to `Destroy()`. Then `ServedInv` holds: while work is queued in a joined group some
worker will look at the queue again, be it the one that destroys its own group. With a `Join()`
of its own work may be added when nobody is left to run it (`thread_group_add_after_join`).

*Draining.* `DrainWaitsForAll` is a count. An item is `Outstanding` while it is wrapped and
waits in the queue or in a worker, and `Counted` says that the drain barrier lacks one count
for each. A worker that ends itself, by joining or destroying its own group, takes its items
along, killed: they stay outstanding, and it is the joiner who opens the barrier, after all
workers have left (`Settled`). `DueKept` ties the count to the property: what a draining
client found unfinished has ended or is outstanding. `NestedOut` says the same of the list of
nested wrappers, whence `SeriesDoNotMix`. `FrameInv` is what the count needs to know of the
stacks: no item runs in two places, only the outermost was fetched by the worker's loop, and
what a worker that has left was in was killed. Neither hypothesis can be dropped from
`DrainWaitsForAll`: an item that drains its own group ends the drain without waiting for the
other workers (`thread_group_drain_early`), and with `StartAnytime = TRUE` TLC finds a drain
that returns too early in the instance of `thread_group_open`, because unwrapped work gets in
between. `SeriesDoNotMix` shares the invariant and so the hypotheses; the second may be more
than it needs, since TLC finds no violation of it without in that instance. Items may add,
stop, start, join and destroy. `thread_group_open` is an
instance of the hypotheses of all three.

*Runtime.* The invariant `IInv` says how far the parts of an orderly shutdown are from each
other: `~rushed => OwnerInStep /\ MessagesSound /\ ServicesHoused /\ HandlersInStep`. The
owner believes the runtime started, stopping or stopped only when the broker, the shutdown
and the delivery agree; each message names an object that is alive, and no two release the
same one; a service that is initialising or listed has its library, and before the shutdown
is done its package is in the broker's map; when the runtime is stopped only services that
failed are left, since an orderly stop comes after the clients were called back; a handler
unloads only when no service is on its module's list, and while it waits the semaphore lacks
as many Posts as services are listed. The last is the count-up argument, for any number of
services. `TypeInv` adds `HandlersCounted` to the types: `m_servicecount` is the number of
handlers that are not done. `FailsAlone` is needed where the run `runtime_forgets` shows it
is.

*Port reconfiguration.* `LockNeverLost` is a count: each step that leaves `Working` gives a
permit back. `AfuPointerLive` and `ProgramsOnlyDeactivated` hold each other up: while there is no
surplus a request at work is alone, so nobody else destroys or creates the device between
its aiming and its use. `FullGrace` needs what `m_timeElapsed` and `waited` have to do with
each other in `"grace"` (`TimerRuns`), and that a revoke event of a callback, or any in a
deactivation, is sent only after `"expired"` (`RevokesLate`); `DroppedOnlyIfGone` needs that
a session whose request is at work either owns the device or has closed.

TLC confirmed each inductive invariant on the instance of its run before it was proved.

*Only model-checked.* The liveness properties (`UnblockedLeaves`, `TimedWaitReturns`,
`DestroyEnds`, `AcceptedItemEnds`, `DrainReturnsAtLast`, `DestroyFrees`, `StopAnswered`,
`RequestAnswered`): fairness and ENABLED are out of the prover's reach. Every invariant and
every action property of a passing run is a theorem, under the hypotheses the table names.

## 6. Not modelled

* *Kernel event queue and sessions, AFU interface service*: in the plan. `aalqueue.h` is small;
  its hazards lie in the sessions that use it, hence the two are planned together.
* *AAL bus*: owners come and go in `PortReconf`; its lists and registrations are bookkeeping
  under a lock. *Resource manager*: a sequential event loop over records.
* *Other OSAL, kOSAL*: wrappers of pthread and kernel calls. `AASLib`'s values and events are
  sequential containers.
* *CCI-P driver outside reconfiguration*: enumeration, registers, the FME and the port reset
  are hardware access with bounded polling.
* In the modelled components: `ThreadGroup` without the timeouts of `Join()` and `Destroy()`
  and without the creation of the workers; `Runtime` without other clients' proxies, an
  alternative broker and the finite timeouts of a shutdown that no caller asks for;
  `PortReconf` without the sessions that receive the answers. Lengths of time, except in
  `PortReconf`, widths of integers, user-defined pointers, queries that change nothing
  (`CurrCounts`, `NumWaiters`, `GetNumThreads`, ...), failing pthread calls and the Windows
  build are left out throughout. The hazards with a note in `PROJECT.json` say where this
  leaves something uncovered.
* Samples, tools, tests and `valapps`, which use the SDK.

## 7. Plan

Done, in this order: `Semaphore`, `Barrier`, `ThreadGroup`, `PortReconf`, `Runtime` (which
took in the shutdown of broker and service modules), and the proofs about each. What is left:

1. `EventQueue`: `aalqueue.h`, the session's `bind` and get-message ioctls and the poll of the
   CCI-P driver, with interrupted semaphore waits and several readers, against an abstract
   queue; above it the message thread and the release of the AFU interface service.
2. `ThreadGroup`: timeouts of `Join()` and `Destroy()`, creation of the workers, and an
   abstract pool of work that it implements.
3. Proofs: what `DrainedItemsDone` becomes when items drain their own group, which is a
   weaker promise than the documented one; that `ThreadGroup` implements the abstract pool, and
   `EventQueue` the abstract queue.
