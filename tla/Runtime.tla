------------------------------- MODULE Runtime --------------------------------
(***************************************************************************)
(* Start, shutdown and release of the AAL runtime with everything that     *)
(* takes part: the _runtime object (AALRuntime/_RuntimeImpl.cpp), its       *)
(* single message delivery thread (MDS), the service broker                 *)
(* (_ServiceBroker.cpp) with its shutdown thread and one handler thread for *)
(* each loaded package, and in each package the service module              *)
(* (AASLib/AALServiceModule.cpp) with its services (AALService.cpp).        *)
(*                                                                         *)
(* One thread, the owner's, starts, stops and deletes the runtime; it waits *)
(* for runtimeStopped() before it goes on, as gtRuntime_Int.cpp asks.  It   *)
(* starts the runtime once.  After a stop MDS refuses the message that says *)
(* that the broker is there; its Construct() then fails and deletes it, and *)
(* start() calls runtimeStartFailed() and returns false, with nothing       *)
(* changed: a step of nothing here.                                         *)
(* Each service has a client of its own, which should be done when the      *)
(* runtime is stopped, but need not be: rushed.  A C++ object used after    *)
(* its deletion, or code that is unloaded while it runs, crashes the        *)
(* process: crashed.                                                        *)
(* An alternative broker (AALRUNTIME_CONFIG_BROKER_SERVICE) and the finite  *)
(* timeouts that no caller passes to the broker's Release() are left out.   *)
(***************************************************************************)
EXTENDS Integers, FiniteSets, Sequences

CONSTANTS
    Packages,       \* service libraries
    Services,       \* requests to allocate a service
    Home,           \* the library of each service
    MayFail,        \* services whose InitializeService() may return false
    Broker

ASSUME RuntimeAssumption ==
    /\ IsFiniteSet(Packages)
    /\ IsFiniteSet(Services)
    /\ Home \in [Services -> Packages]
    /\ MayFail \subseteq Services
    /\ Broker \notin Services

\* What stop() can be relied on for: a service that may fail to construct has no
\* other service beside it in its library.
FailsAlone == \A s \in MayFail, t \in Services : Home[s] = Home[t] => s = t

VARIABLES
    owner,          \* what the owner's thread is at
    m_state,        \* "Stopped" or "Started"
    m_sem,          \* count of the runtime's semaphore
    m_pBroker,      \* the broker's pointer is set
    accepts,        \* MDS takes dispatchables
    queue,          \* dispatchables not delivered yet
    ending,         \* services whose destructor MDS is in: at most one
    stopping,       \* MDS runs _runtime::serviceReleased()
    broker,         \* the broker object
    m_ServiceMap,   \* packages the broker knows
    loaded,         \* packages whose library and service module are there
    service,        \* life of each service object
    m_srvcCount,    \* each module's semaphore
    shutdown,       \* the broker's shutdown thread
    handler,        \* the handler thread of each package
    m_servicecount, \* handlers the shutdown thread still counts
    srvcCount,      \* its semaphore
    known,          \* services whose client knows them and has not released
    stopped,        \* runtimeStopped() was called
    asked,          \* the broker has been released
    rushed,         \* history: clients were at work when it was, or afterwards
    crashed

runtime == <<m_state, m_sem, m_pBroker, stopped, asked>>
delivery == <<accepts, queue, ending, stopping>>
packages == <<m_ServiceMap, loaded>>
down == <<shutdown, handler, m_servicecount, srvcCount>>
services == <<service, m_srvcCount>>
vars == <<owner, runtime, delivery, broker, packages, services, down, known,
          rushed, crashed>>

Listed(p) == {s \in Services : Home[s] = p /\ service[s] = "listed"}

\* The object is there.  A service that could not initialise itself is "failing"
\* until its client is called back, and "failed" until it is deleted.
Alive ==
    {s \in Services :
        service[s] \in {"initialising", "listed", "ending", "failing", "failed"}}

Message == [kind : {"allocated", "released"}, of : Services \cup {Broker},
            filter : BOOLEAN]

Allocated(x) == [kind |-> "allocated", of |-> x, filter |-> FALSE]

Released(x, filter) == [kind |-> "released", of |-> x, filter |-> filter]

Init ==
    /\ owner = "idle"
    /\ m_state = "Stopped"
    /\ m_sem = 0
    /\ m_pBroker = FALSE
    /\ accepts = TRUE
    /\ queue = <<>>
    /\ ending = {}
    /\ stopping = FALSE
    /\ broker = "none"
    /\ m_ServiceMap = {}
    /\ loaded = {}
    /\ service = [s \in Services |-> "none"]
    /\ m_srvcCount = [p \in Packages |-> 0]
    /\ shutdown = "off"
    /\ handler = [p \in Packages |-> "off"]
    /\ m_servicecount = 0
    /\ srvcCount = 0
    /\ known = {}
    /\ stopped = FALSE
    /\ asked = FALSE
    /\ rushed = FALSE
    /\ crashed = FALSE

--------------------------------------------------------------------------------
(* Semaphores and dispatchables, as their users see them *)

\* CSemaphore::Post(1): never beyond the maximum, 1 in all these semaphores.
Post(count) == IF count < 1 THEN count + 1 ELSE count

\* A slip: a count-up semaphore armed for one Post too few.
CountUpShort(n) == 2 - n

\* A slip: ... or for one too many.
CountUpPlain(n) == 0 - n

\* What Create() or Reset() stores for -n.
CountUp(n) == IF n = 0 THEN 0 ELSE 1 - n

\* _runtime::schedDispatchable(): refused once the thread group is stopped.
Schedule(messages) == queue' = IF accepts THEN queue \o messages ELSE queue

Deliver == queue' = Tail(queue)

\* The oldest message, when MDS is free to take it.
Takes(kind) ==
    /\ ending = {}
    /\ queue # <<>>
    /\ Head(queue).kind = kind

Advance(s, stage) == service' = [service EXCEPT ![s] = stage]

\* The clients have heard of what they asked for: nothing is under way.
Settled ==
    /\ queue = <<>>
    /\ ending = {}
    /\ \A s \in Services : service[s] \notin {"initialising", "failing"}

\* A client does something; once the broker is released it should not.
ClientActing == rushed' = (rushed \/ shutdown # "off")

--------------------------------------------------------------------------------
(* The owner of the runtime *)

\* start() up to the wait of InstallDefaults(); MDS has not been stopped.
Start ==
    /\ owner = "idle"
    /\ m_state = "Stopped"
    /\ accepts
    /\ owner' = "installing"
    /\ broker' = "alive"
    /\ Schedule(<<Allocated(Broker)>>)
    /\ stopped' = FALSE
    /\ UNCHANGED <<m_state, m_sem, m_pBroker, asked, accepts, ending, stopping,
                   packages, services, down, known, crashed, rushed>>

StartReturns ==
    /\ owner = "installing"
    /\ m_sem > 0
    /\ m_sem' = m_sem - 1
    /\ m_state' = "Started"
    /\ owner' = "idle"
    /\ UNCHANGED <<m_pBroker, stopped, asked, delivery, broker,
                   packages, services, down, known, crashed, rushed>>

\* m_sem.Reset(0), then Release() of the broker, which starts a thread for it.
ReleaseBroker ==
    /\ m_state = "Started"
    /\ shutdown = "off"
    /\ m_sem' = 0
    /\ rushed' = (rushed \/ ~Settled)
    /\ asked' = TRUE
    /\ shutdown' = "started"
    /\ crashed' = ~m_pBroker
    /\ UNCHANGED <<m_state, m_pBroker, stopped, delivery, broker,
                   packages, services, handler, m_servicecount, srvcCount,
                   known>>

Stop ==
    /\ owner = "idle"
    /\ ReleaseBroker
    /\ UNCHANGED owner

\* stop() of a runtime that is stopped answers at once.
StopAgain ==
    /\ owner = "idle"
    /\ m_state = "Stopped"
    /\ stopped' = TRUE
    /\ UNCHANGED <<owner, m_state, m_sem, m_pBroker, asked, delivery,
                   broker, packages, services, down, known, crashed, rushed>>

\* delete of a runtime not stopped before: releaseRuntimeInstance() waits.
Delete ==
    /\ owner = "idle"
    /\ ReleaseBroker
    /\ owner' = "deleting"

DeleteResumes ==
    /\ owner = "deleting"
    /\ m_sem > 0
    /\ m_sem' = m_sem - 1
    /\ owner' = "leaving"
    /\ UNCHANGED <<m_state, m_pBroker, stopped, asked, delivery,
                   broker, packages, services, down, known, crashed, rushed>>

DeleteStopped ==
    /\ owner = "idle"
    /\ m_state = "Stopped"
    /\ owner' = "leaving"
    /\ UNCHANGED <<runtime, delivery, broker, packages, services, down, known,
                   crashed, rushed>>

\* ~_runtime: StopMessageDelivery() waits for what MDS has left to deliver.
Leave ==
    /\ owner = "leaving"
    /\ queue = <<>> /\ ending = {} /\ ~stopping
    /\ owner' = "gone"
    /\ accepts' = FALSE
    /\ UNCHANGED <<runtime, queue, ending, stopping, broker, packages,
                   services, down, known, crashed, rushed>>

--------------------------------------------------------------------------------
(* Clients and the initialisation of their services *)

\* allocService() finds or loads the package; Construct() leaves the service to
\* initialise itself.  A package that is known but gone is used all the same.
AllocService(s) ==
    LET p == Home[s] IN
    /\ m_state = "Started"
    /\ service[s] = "none"
    /\ ClientActing
    /\ m_ServiceMap' = m_ServiceMap \cup {p}
    /\ loaded' = loaded \cup {p}
    /\ crashed' = (~m_pBroker \/ (p \in m_ServiceMap /\ p \notin loaded))
    /\ Advance(s, "initialising")
    /\ UNCHANGED <<owner, runtime, delivery, broker, m_srvcCount, down,
                   known>>

\* What is left of m_ServiceMap when InstantiateService() has failed.
MapAfterFailure(s) == m_ServiceMap \ {Home[s]}

\* Construct() fails: the broker takes the package off its map, library and all.
AllocServiceFails(s) ==
    LET p == Home[s] IN
    /\ m_state = "Started"
    /\ service[s] = "none"
    /\ s \in MayFail
    /\ ClientActing
    /\ loaded' = loaded \cup {p}
    /\ m_ServiceMap' = MapAfterFailure(s)
    /\ crashed' = (~m_pBroker \/ (p \in m_ServiceMap /\ p \notin loaded))
    /\ Advance(s, "deleted")
    /\ UNCHANGED <<owner, runtime, delivery, broker, m_srvcCount, down,
                   known>>

\* ServiceInitialized()
InitDone(s) ==
    /\ service[s] = "initialising"
    /\ Advance(s, "listed")
    /\ Schedule(<<Allocated(s)>>)
    /\ crashed' = (Home[s] \notin loaded)
    /\ UNCHANGED <<owner, runtime, accepts, ending, stopping, broker,
                   packages, m_srvcCount, down, known, rushed>>

\* ServiceInitFailed(): what is left is handed to a thread of its own.
InitFails(s) ==
    /\ service[s] = "initialising"
    /\ Advance(s, "failing")
    /\ crashed' = (Home[s] \notin loaded)
    /\ UNCHANGED <<owner, runtime, delivery, broker, packages, m_srvcCount,
                   down, known, rushed>>

\* That thread calls serviceAllocateFailed() of the client first ...
FailureTold(s) ==
    /\ service[s] = "failing"
    /\ Advance(s, "failed")
    /\ UNCHANGED <<owner, runtime, delivery, broker, packages, m_srvcCount,
                   down, known, rushed, crashed>>

\* ... and then has the library delete the service, which is on no list.
FailedDestroyed(s) ==
    /\ service[s] = "failed"
    /\ Advance(s, "deleted")
    /\ crashed' = (Home[s] \notin loaded)
    /\ UNCHANGED <<owner, runtime, delivery, broker, packages, m_srvcCount,
                   down, known, rushed>>

\* Release() by the client.
Release(s) ==
    /\ s \in known
    /\ ClientActing
    /\ known' = known \ {s}
    /\ Schedule(<<Released(s, FALSE)>>)
    /\ crashed' = (service[s] # "listed")
    /\ UNCHANGED <<owner, runtime, accepts, ending, stopping, broker,
                   packages, services, down>>

--------------------------------------------------------------------------------
(* The message delivery thread *)

\* ServiceAllocated of a service: its client is called back.
ServiceAllocated ==
    LET x == Head(queue).of IN
    /\ Takes("allocated")
    /\ x # Broker
    /\ known' = known \cup {x}
    /\ Deliver
    /\ UNCHANGED <<owner, runtime, accepts, ending, stopping, broker,
                   packages, services, down, crashed, rushed>>

\* ServiceAllocated of the broker: _runtime::serviceAllocated() wakes start().
BrokerAllocated ==
    /\ Takes("allocated")
    /\ Head(queue).of = Broker
    /\ m_pBroker' = TRUE
    /\ m_sem' = Post(m_sem)
    /\ Deliver
    /\ UNCHANGED <<owner, m_state, stopped, asked, accepts, ending,
                   stopping, broker, packages, services, down, known, crashed,
                   rushed>>

\* RemovefromServiceList() Posts only what it removes.
PostRemoved(s) ==
    m_srvcCount' = IF handler[Home[s]] \in {"waiting", "unloading"}
                   THEN [m_srvcCount EXCEPT ![Home[s]] = Post(@)]
                   ELSE m_srvcCount

\* ServiceReleased of a service: ReleaseComplete() deletes it.  Its destructor,
\* which is the library's code, takes it off the module's list.
ServiceReleased ==
    LET s == Head(queue).of IN
    /\ Takes("released")
    /\ s # Broker
    /\ crashed' = (service[s] # "listed")
    /\ Advance(s, "ending")
    /\ PostRemoved(s)
    /\ ending' = {s}
    /\ Deliver
    /\ UNCHANGED <<owner, runtime, accepts, stopping, broker, packages, down,
                   known, rushed>>

\* The destructor returns, through code of the library.  The client that asked
\* for the release is called back; nobody is when the module did (filter).
DestructorReturns(s) ==
    /\ s \in ending
    /\ ending' = {}
    /\ Advance(s, "deleted")
    /\ crashed' \in {FALSE, Home[s] \notin loaded}
    /\ UNCHANGED <<owner, runtime, accepts, queue, stopping, broker, packages,
                   m_srvcCount, down, known, rushed>>

\* ServiceReleased of the broker: it is deleted, and _runtime::serviceReleased()
\* stops the delivery of messages.
BrokerReleased ==
    /\ Takes("released")
    /\ Head(queue).of = Broker
    /\ broker' = "deleted"
    /\ m_pBroker' = FALSE
    /\ stopping' = TRUE
    /\ accepts' = FALSE
    /\ Deliver
    /\ UNCHANGED <<owner, m_state, m_sem, stopped, asked, ending,
                   packages, services, down, known, crashed, rushed>>

\* ... which first delivers what there is.  Then runtimeStopped() is called.
RuntimeStopped ==
    /\ stopping
    /\ ending = {}
    /\ queue = <<>>
    /\ stopping' = FALSE
    /\ m_state' = "Stopped"
    /\ stopped' = TRUE
    /\ m_sem' = Post(m_sem)
    /\ UNCHANGED <<owner, m_pBroker, asked, accepts, queue, ending,
                   broker, packages, services, down, known, crashed, rushed>>

--------------------------------------------------------------------------------
(* The broker's shutdown *)

\* A slip: handlers for the libraries that are there.
LoadedPackages == loaded

\* The packages that get a handler.
Handled == m_ServiceMap

\* DoShutdown() up to its wait.
DoShutdown ==
    /\ shutdown = "started"
    /\ shutdown' = "waiting"
    /\ m_servicecount' = Cardinality(m_ServiceMap)
    /\ srvcCount' = CountUp(Cardinality(m_ServiceMap))
    /\ handler' =
         [p \in Packages |-> IF p \in Handled THEN "destroying" ELSE "off"]
    /\ UNCHANGED <<owner, runtime, delivery, broker, packages, services,
                   known, crashed, rushed>>

\* Wait(timeout): with nothing to wait for the timeout is 0.
AllHandled == srvcCount > 0 \/ \A p \in Packages : handler[p] = "off"

\* DoShutdown() after its wait.  Handlers that are still counted would be a
\* timeout, of which only an event tells.
ShutdownDone ==
    /\ shutdown = "waiting"
    /\ AllHandled
    /\ shutdown' = "done"
    /\ m_ServiceMap' = IF m_servicecount > 0 THEN m_ServiceMap ELSE {}
    /\ Schedule(IF m_servicecount > 0 THEN <<>> ELSE <<Released(Broker, FALSE)>>)
    /\ UNCHANGED <<owner, runtime, accepts, ending, stopping, broker, loaded,
                   services, handler, m_servicecount, srvcCount, known, crashed,
                   rushed>>

Handles(p, stage) == handler' = [handler EXCEPT ![p] = stage]

\* One message for each service of the list; its order is left open.
ReleaseAll(p) ==
    \E order \in [1..Cardinality(Listed(p)) -> Listed(p)] :
        /\ \A i, j \in DOMAIN order : order[i] = order[j] => i = j
        /\ Schedule([i \in DOMAIN order |-> Released(order[i], TRUE)])

\* A slip: Destroy() that always takes its list for empty.
NothingToRelease(p) == TRUE

\* AALServiceModule::Destroy() has nothing to release.
NothingListed(p) == Listed(p) = {}

DestroyEmpty(p) ==
    /\ handler[p] = "destroying"
    /\ NothingListed(p)
    /\ Handles(p, "unloading")
    /\ UNCHANGED <<owner, runtime, delivery, broker, packages, services,
                   shutdown, m_servicecount, srvcCount, known, crashed,
                   rushed>>

\* Destroy() up to its wait: SendReleaseToAll().
Destroy(p) ==
    /\ handler[p] = "destroying"
    /\ ~NothingListed(p)
    /\ m_srvcCount' =
         [m_srvcCount EXCEPT ![p] = CountUp(Cardinality(Listed(p)))]
    /\ ReleaseAll(p)
    /\ Handles(p, "waiting")
    /\ UNCHANGED <<owner, runtime, accepts, ending, stopping, broker,
                   packages, service, shutdown, m_servicecount, srvcCount,
                   known, crashed, rushed>>

DestroyReturns(p) ==
    /\ handler[p] = "waiting"
    /\ m_srvcCount[p] > 0
    /\ m_srvcCount' = [m_srvcCount EXCEPT ![p] = @ - 1]
    /\ Handles(p, "unloading")
    /\ UNCHANGED <<owner, runtime, delivery, broker, packages, service,
                   shutdown, m_servicecount, srvcCount, known, crashed,
                   rushed>>

\* The rest of ShutdownHandler(): the library is unloaded.
Unload(p) ==
    /\ handler[p] = "unloading"
    /\ loaded' = loaded \ {p}
    /\ m_servicecount' = m_servicecount - 1
    /\ srvcCount' = Post(srvcCount)
    /\ Handles(p, "done")
    /\ UNCHANGED <<owner, runtime, delivery, broker, m_ServiceMap, services,
                   shutdown, known, crashed, rushed>>

--------------------------------------------------------------------------------

OwnerActs ==
    Start \/ StartReturns \/ Stop \/ StopAgain
    \/ Delete \/ DeleteResumes \/ DeleteStopped \/ Leave

ClientActs ==
    \E s \in Services : AllocService(s) \/ AllocServiceFails(s) \/ Release(s)

ServiceActs ==
    \E s \in Services :
        InitDone(s) \/ InitFails(s) \/ FailureTold(s) \/ FailedDestroyed(s)

Delivers ==
    \/ ServiceAllocated \/ BrokerAllocated \/ ServiceReleased \/ BrokerReleased
    \/ RuntimeStopped
    \/ \E s \in Services : DestructorReturns(s)

ShutdownActs == DoShutdown \/ ShutdownDone

HandlerActs(p) ==
    DestroyEmpty(p) \/ Destroy(p) \/ DestroyReturns(p) \/ Unload(p)

Next ==
    /\ ~crashed
    /\ \/ OwnerActs \/ ClientActs \/ ServiceActs \/ Delivers \/ ShutdownActs
       \/ \E p \in Packages : HandlerActs(p)

Spec == Init /\ [][Next]_vars

(***************************************************************************)
(* The threads of the runtime go on: MDS, the broker's shutdown thread and  *)
(* each handler.  The owner, the clients and the services do as they like.  *)
(***************************************************************************)
FairSpec ==
    /\ Spec
    /\ WF_vars(~crashed /\ Delivers)
    /\ WF_vars(~crashed /\ ShutdownActs)
    /\ \A p \in Packages : WF_vars(~crashed /\ HandlerActs(p))

--------------------------------------------------------------------------------
(* Properties *)

\* Every variable keeps its type; the count of handlers never goes below zero.
TypeOK ==
    /\ owner \in {"idle", "installing", "deleting", "leaving", "gone"}
    /\ m_state \in {"Stopped", "Started"}
    /\ m_sem \in 0..1
    /\ queue \in Seq(Message)
    /\ ending \subseteq Services
    /\ broker \in {"none", "alive", "deleted"}
    /\ m_ServiceMap \subseteq Packages
    /\ loaded \subseteq Packages
    /\ service \in [Services ->
                      {"none", "initialising", "listed", "ending", "failing",
                       "failed", "deleted"}]
    /\ m_srvcCount \in [Packages -> Int]
    /\ shutdown \in {"off", "started", "waiting", "done"}
    /\ handler \in [Packages ->
                      {"off", "destroying", "waiting", "unloading", "done"}]
    /\ m_servicecount \in Nat
    /\ srvcCount \in Int
    /\ known \subseteq Services
    /\ {m_pBroker, accepts, stopping} \subseteq BOOLEAN
    /\ {stopped, asked, rushed, crashed} \subseteq BOOLEAN

\* stop(): "Releases any resources and shuts down all Services."  When
\* runtimeStopped() is called, or the runtime is deleted, every service has been
\* released and deleted; only one that could not initialise itself, and whose client
\* has heard so, may still wait for the thread that deletes it.
StoppedMeansShutDown ==
    ~rushed /\ (stopped \/ owner \in {"leaving", "gone"}) =>
        \A s \in Alive : service[s] = "failed"

\* Not true of the code: nothing at all is left.  A service that failed is on no
\* module's list, and m_pendingcount does not count it any more.
StoppedLeavesNothing ==
    ~rushed /\ (stopped \/ owner \in {"leaving", "gone"}) => Alive = {}

\* AALServiceModule::Destroy() waits for every service of the list: no service
\* that initialises itself or is listed has lost its library.
UnloadedIsEmpty ==
    ~rushed => \A s \in Services :
        service[s] \in {"initialising", "listed"} => Home[s] \in loaded

\* "The call stack and all threads within this modules address space MUST be
\* deleted" when Destroy() returns; false of the destructor of the last service, and
\* of a service that failed and has not been deleted yet.
UnloadedIsQuiet == ~rushed => \A s \in Alive : Home[s] \in loaded

\* A runtime that is stopped or deleted says so in the end, unless it crashes.
StopAnswered == asked ~> (stopped \/ crashed)

================================================================================
