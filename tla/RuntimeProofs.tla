---------------------------- MODULE RuntimeProofs -----------------------------
(***************************************************************************)
(* Proofs about Runtime, for any packages and services.                     *)
(*                                                                         *)
(* What stop() promises hangs on a chain: the delivery thread stops only    *)
(* after the broker's answer, the broker answers only when its count of     *)
(* handlers is complete, a handler is through only when its module's count  *)
(* of services is, and every service is in a package that has a handler.    *)
(* The invariant has a part for each link.  All of it is about a runtime    *)
(* that is stopped in order (~rushed); the last link needs FailsAlone.  A   *)
(* service that could not initialise itself is outside the chain: nobody    *)
(* waits for the thread that deletes it.                                    *)
(***************************************************************************)
EXTENDS Runtime, FiniteSetTheorems, TLAPS

Active(p) == handler[p] \in {"destroying", "waiting", "unloading"}

ActiveHandlers == {p \in Packages : Active(p)}

\* DoShutdown() counts at least the handlers that are not through.
HandlersCounted == Cardinality(ActiveHandlers) <= m_servicecount

TypeInv == TypeOK /\ HandlersCounted

\* Where the owner, the runtime and the delivery thread are with each other.
OwnerInStep ==
    /\ stopped => m_state = "Stopped"
    /\ owner = "installing" => m_state = "Stopped" /\ ~stopped
    /\ owner \in {"leaving", "gone"} => m_state = "Stopped"
    /\ owner = "deleting" /\ m_sem > 0 => m_state = "Stopped"
    /\ stopping => m_state = "Started" /\ shutdown = "done" /\ ~accepts
    /\ shutdown \in {"started", "waiting"} => m_state = "Started"
    /\ accepts /\ m_state = "Stopped" => shutdown = "off"
    /\ accepts /\ m_state = "Stopped" /\ owner = "idle" => m_sem = 0

\* What a message in the queue says of whom it is about.
MessageSound(i) ==
    LET x == queue[i].of IN
    /\ x = Broker /\ queue[i].kind = "allocated" =>
          owner = "installing" /\ m_sem = 0
    /\ x = Broker /\ queue[i].kind = "released" =>
          shutdown = "done" /\ m_state = "Started" /\ accepts
    /\ x # Broker =>
          /\ service[x] = "listed"
          /\ shutdown # "off" => handler[Home[x]] = "waiting"

\* No two messages are about the same.
MessagesApart ==
    \A i, j \in DOMAIN queue : queue[i].of = queue[j].of => i = j

\* Until the broker is released, what clients know of is there, and nobody has
\* asked for its release.
KnownSound ==
    accepts /\ shutdown = "off" =>
        \A s \in known : /\ service[s] = "listed"
                         /\ \A i \in DOMAIN queue : queue[i].of # s

MessagesSound ==
    /\ \A i \in DOMAIN queue : MessageSound(i)
    /\ MessagesApart
    /\ KnownSound

\* Which services there can be, and that their packages are known and loaded.
ServicesHoused ==
    /\ m_state = "Stopped" => \A s \in Alive : service[s] = "failed"
    /\ \A s \in ending : service[s] = "ending"
    /\ \A s \in Services :
          /\ service[s] = "ending" => ending = {s}
          /\ service[s] \in {"initialising", "failing"} => shutdown = "off"
          /\ service[s] = "listed" => shutdown # "done"
          /\ service[s] \in {"initialising", "listed"} =>
                /\ Home[s] \in loaded
                /\ shutdown # "done" => Home[s] \in m_ServiceMap

\* The handlers of the packages, and both counts.
HandlersInStep ==
    /\ \A p \in Packages :
          /\ shutdown \in {"off", "started"} => handler[p] = "off"
          /\ shutdown = "waiting" /\ p \in m_ServiceMap => handler[p] # "off"
          /\ handler[p] \in {"unloading", "done"} => Listed(p) = {}
          /\ handler[p] = "waiting" =>
                m_srvcCount[p] = 1 - Cardinality(Listed(p))
    /\ shutdown = "waiting" =>
          \/ \A p \in Packages : handler[p] = "off"
          \/ srvcCount = 1 - m_servicecount

Orderly ==
    /\ OwnerInStep
    /\ MessagesSound
    /\ ServicesHoused
    /\ HandlersInStep

IInv == ~rushed => Orderly

--------------------------------------------------------------------------------
(* The queue, the counts and the types. *)

\* Each message says what it is and by whom.
LEMMA MessageTypes ==
    /\ \A x \in Services \cup {Broker} :
          /\ Allocated(x) \in Message
          /\ Allocated(x).of = x /\ Allocated(x).kind = "allocated"
          /\ \A f \in BOOLEAN :
                /\ Released(x, f) \in Message
                /\ Released(x, f).of = x /\ Released(x, f).kind = "released"
    /\ \A m \in Message : /\ m.of \in Services \cup {Broker}
                          /\ m.kind \in {"allocated", "released"}
BY DEF Message, Allocated, Released

\* What a thread schedules comes after what is there, unless it is refused.
LEMMA Scheduled ==
    ASSUME queue \in Seq(Message), NEW news \in Seq(Message), Schedule(news)
    PROVE  /\ queue' \in Seq(Message)
           /\ ~accepts => queue' = queue
           /\ accepts =>
                /\ Len(queue') = Len(queue) + Len(news)
                /\ \A i \in 1..Len(queue) : queue'[i] = queue[i]
                /\ \A i \in 1..Len(news) : queue'[Len(queue) + i] = news[i]
BY DEF Schedule

\* ... such as a single message.
LEMMA ScheduledOne ==
    ASSUME queue \in Seq(Message), NEW m \in Message, Schedule(<<m>>)
    PROVE  /\ queue' \in Seq(Message)
           /\ ~accepts => queue' = queue
           /\ accepts =>
                /\ DOMAIN queue' = 1..(Len(queue) + 1)
                /\ \A i \in 1..Len(queue) : queue'[i] = queue[i]
                /\ queue'[Len(queue) + 1] = m
                /\ \A i \in DOMAIN queue' :
                      \/ i = Len(queue) + 1
                      \/ i \in DOMAIN queue /\ queue'[i] = queue[i]
BY DEF Schedule

\* The delivery thread takes the oldest message.
LEMMA Delivered ==
    ASSUME queue \in Seq(Message), queue # <<>>, Deliver
    PROVE  /\ queue' \in Seq(Message)
           /\ DOMAIN queue' = 1..(Len(queue) - 1)
           /\ \A i \in DOMAIN queue' : /\ queue'[i] = queue[i + 1]
                                      /\ i + 1 \in DOMAIN queue /\ i + 1 # 1
           /\ 1 \in DOMAIN queue
           /\ Len(queue) \in Nat \ {0}
           /\ Head(queue) = queue[1]
           /\ Head(queue) \in Message
BY DEF Deliver

\* Packages and services can be counted.
LEMMA FiniteSets ==
    /\ \A S \in SUBSET Packages : IsFiniteSet(S) /\ Cardinality(S) \in Nat
    /\ \A S \in SUBSET Services : IsFiniteSet(S) /\ Cardinality(S) \in Nat
BY RuntimeAssumption, FS_Subset, FS_CardinalityType

\* The messages of SendReleaseToAll() are about different services of the list.
LEMMA ReleasedAll ==
    ASSUME queue \in Seq(Message), NEW p \in Packages, ReleaseAll(p)
    PROVE  \E order \in Seq(Listed(p)) :
              /\ \A i, j \in 1..Len(order) : order[i] = order[j] => i = j
              /\ queue' \in Seq(Message)
              /\ ~accepts => queue' = queue
              /\ accepts =>
                   /\ Len(queue') = Len(queue) + Len(order)
                   /\ \A i \in 1..Len(queue) : queue'[i] = queue[i]
                   /\ \A i \in 1..Len(order) :
                         queue'[Len(queue) + i] = Released(order[i], TRUE)
<1>1. Listed(p) \subseteq Services
    BY DEF Listed
<1> DEFINE n == Cardinality(Listed(p))
<1>2. n \in Nat
    BY <1>1, FiniteSets
<1> HIDE DEF n
<1>3. PICK order \in [1..n -> Listed(p)] :
          /\ \A i, j \in DOMAIN order : order[i] = order[j] => i = j
          /\ Schedule([i \in DOMAIN order |-> Released(order[i], TRUE)])
    BY DEF ReleaseAll, n
<1> DEFINE news == [i \in DOMAIN order |-> Released(order[i], TRUE)]
<1>4. order \in Seq(Listed(p)) /\ DOMAIN order = 1..n /\ Len(order) = n
    BY <1>2, <1>3
<1>5. \A i \in 1..n : order[i] \in Services
    BY <1>1, <1>3
<1>6. news \in [1..n -> Message]
    BY <1>4, <1>5, MessageTypes
<1>7. \A i \in 1..n : news[i] = Released(order[i], TRUE)
    BY <1>4
<1>8. Schedule(news)
    BY <1>3
<1> HIDE DEF news
<1>9. news \in Seq(Message) /\ Len(news) = n
    BY <1>2, <1>6
<1>10. /\ queue' \in Seq(Message)
       /\ ~accepts => queue' = queue
       /\ accepts =>
            /\ Len(queue') = Len(queue) + n
            /\ \A i \in 1..Len(queue) : queue'[i] = queue[i]
            /\ \A i \in 1..n : queue'[Len(queue) + i] = news[i]
    BY <1>8, <1>9, Scheduled
<1>11. accepts => /\ Len(queue') = Len(queue) + Len(order)
                  /\ \A i \in 1..Len(order) :
                        queue'[Len(queue) + i] = Released(order[i], TRUE)
    BY <1>4, <1>7, <1>10
<1>12. \A i, j \in 1..Len(order) : order[i] = order[j] => i = j
    BY <1>3, <1>4
<1>13. QED
    BY <1>4, <1>10, <1>11, <1>12

\* ... and they are about nobody that a message was about before, when none of
\* those is in the library.
LEMMA ReleasedApart ==
    ASSUME queue \in Seq(Message), NEW p \in Packages, ReleaseAll(p),
           \A i \in DOMAIN queue :
              queue[i].of # Broker => Home[queue[i].of] # p,
           \A i, j \in DOMAIN queue : queue[i].of = queue[j].of => i = j
    PROVE  /\ \A i \in DOMAIN queue' :
                 \/ i \in DOMAIN queue /\ queue'[i] = queue[i]
                 \/ /\ i \notin DOMAIN queue
                    /\ queue'[i].of \in Listed(p) /\ queue'[i].kind = "released"
           /\ \A i, j \in DOMAIN queue' :
                 queue'[i].of = queue'[j].of => i = j
<1>1. PICK order \in Seq(Listed(p)) :
         /\ \A i, j \in 1..Len(order) : order[i] = order[j] => i = j
         /\ queue' \in Seq(Message)
         /\ ~accepts => queue' = queue
         /\ accepts =>
              /\ Len(queue') = Len(queue) + Len(order)
              /\ \A i \in 1..Len(queue) : queue'[i] = queue[i]
              /\ \A i \in 1..Len(order) :
                    queue'[Len(queue) + i] = Released(order[i], TRUE)
    BY ReleasedAll
<1>2. CASE ~accepts
    BY <1>1, <1>2
<1>3. CASE accepts
  <2>1. DOMAIN queue = 1..Len(queue) /\ Len(queue) \in Nat
      OBVIOUS
  <2>2. DOMAIN queue' = 1..(Len(queue) + Len(order))
      BY <1>1, <1>3
  <2>3. \A k \in 1..Len(order) :
           /\ Released(order[k], TRUE).of = order[k]
           /\ Released(order[k], TRUE).kind = "released"
           /\ order[k] \in Listed(p)
           /\ order[k] # Broker /\ Home[order[k]] = p
      BY RuntimeAssumption DEF Released, Listed
  <2>4. \A i \in DOMAIN queue' : i \notin DOMAIN queue =>
           \E k \in 1..Len(order) : i = Len(queue) + k
    <3>1. SUFFICES ASSUME NEW i \in DOMAIN queue', i \notin DOMAIN queue
                   PROVE  \E k \in 1..Len(order) : i = Len(queue) + k
        OBVIOUS
    <3>2. i \in Int /\ i > Len(queue) /\ i <= Len(queue) + Len(order)
        BY <2>1, <2>2, <3>1
    <3>3. i - Len(queue) \in 1..Len(order) /\ i = Len(queue) + (i - Len(queue))
        BY <2>1, <3>2
    <3>4. QED
        BY <3>3
  <2>5. \A i \in DOMAIN queue' : i \notin DOMAIN queue =>
           \E k \in 1..Len(order) : /\ i = Len(queue) + k
                                    /\ queue'[i].of = order[k]
                                    /\ queue'[i].kind = "released"
    <3>1. SUFFICES ASSUME NEW i \in DOMAIN queue', i \notin DOMAIN queue
                   PROVE  \E k \in 1..Len(order) :
                             /\ i = Len(queue) + k
                             /\ queue'[i].of = order[k]
                             /\ queue'[i].kind = "released"
        OBVIOUS
    <3>2. PICK k \in 1..Len(order) : i = Len(queue) + k
        BY <2>4, <3>1
    <3>3. queue'[Len(queue) + k] = Released(order[k], TRUE)
        BY <1>1, <1>3
    <3>4. QED
        BY <2>3, <3>2, <3>3
  <2>6. \A i \in DOMAIN queue : queue'[i] = queue[i]
      BY <1>1, <1>3, <2>1
  <2>7. \A i \in DOMAIN queue' : i \notin DOMAIN queue =>
           queue'[i].of # Broker /\ Home[queue'[i].of] = p
    <3>1. SUFFICES ASSUME NEW i \in DOMAIN queue', i \notin DOMAIN queue
                   PROVE  queue'[i].of # Broker /\ Home[queue'[i].of] = p
        OBVIOUS
    <3>2. PICK k \in 1..Len(order) : queue'[i].of = order[k]
        BY <2>5, <3>1
    <3>3. QED
        BY <2>3, <3>2
  <2>8. ASSUME NEW i \in DOMAIN queue', NEW j \in DOMAIN queue',
               queue'[i].of = queue'[j].of
        PROVE  i = j
    <3>1. CASE i \in DOMAIN queue /\ j \in DOMAIN queue
        BY <2>6, <2>8, <3>1
    <3>2. CASE i \notin DOMAIN queue /\ j \notin DOMAIN queue
      <4>1. PICK k \in 1..Len(order) : /\ i = Len(queue) + k
                                       /\ queue'[i].of = order[k]
          BY <2>5, <3>2
      <4>2. PICK l \in 1..Len(order) : /\ j = Len(queue) + l
                                       /\ queue'[j].of = order[l]
          BY <2>5, <3>2
      <4>3. k = l
          BY <1>1, <2>8, <4>1, <4>2
      <4>4. QED
          BY <4>1, <4>2, <4>3
    <3>3. CASE i \in DOMAIN queue /\ j \notin DOMAIN queue
        BY <2>6, <2>7, <2>8, <3>3
    <3>4. CASE i \notin DOMAIN queue /\ j \in DOMAIN queue
        BY <2>6, <2>7, <2>8, <3>4
    <3>5. QED
        BY <3>1, <3>2, <3>3, <3>4
  <2>9. \A i \in DOMAIN queue' :
           \/ i \in DOMAIN queue /\ queue'[i] = queue[i]
           \/ /\ i \notin DOMAIN queue
              /\ queue'[i].of \in Listed(p) /\ queue'[i].kind = "released"
      BY <2>3, <2>5, <2>6
  <2>10. QED
      BY <2>8, <2>9
<1>4. QED
    BY <1>2, <1>3

\* Nothing has happened yet.
LEMMA Initial ==
    ASSUME Init
    PROVE  TypeInv /\ IInv
<1>1. TypeOK
  <2>1. queue \in Seq(Message)
      BY DEF Init
  <2>2. ending \subseteq Services /\ known \subseteq Services
      BY DEF Init
  <2>3. m_ServiceMap \subseteq Packages /\ loaded \subseteq Packages
      BY DEF Init
  <2>4. /\ {m_pBroker, accepts, stopping} \subseteq BOOLEAN
        /\ {stopped, asked, rushed, crashed} \subseteq BOOLEAN
      BY Zenon DEF Init
  <2>5. /\ service \in
               [Services ->
                  {"none", "initialising", "listed", "ending", "failing",
                   "failed", "deleted"}]
        /\ m_srvcCount \in [Packages -> Int]
        /\ handler \in [Packages ->
                         {"off", "destroying", "waiting", "unloading", "done"}]
      BY DEF Init
  <2>6. QED
      BY <2>1, <2>2, <2>3, <2>4, <2>5 DEF Init, TypeOK
<1>2. ActiveHandlers = {}
    BY DEF Init, ActiveHandlers, Active
<1>3. HandlersCounted
    BY <1>2, FS_EmptySet DEF HandlersCounted, Init
<1>4. Alive = {}
    BY DEF Alive, Init
<1>5. Orderly
    BY <1>4 DEF Init, Orderly, OwnerInStep, MessagesSound, MessageSound,
                MessagesApart, KnownSound, ServicesHoused, HandlersInStep,
                Listed
<1>6. QED
    BY <1>1, <1>3, <1>4, <1>5 DEF Init, TypeInv, IInv

\* The steps of the handlers, and what becomes of the count.
LEMMA HandlerTypes ==
    ASSUME TypeInv, NEW p \in Packages, HandlerActs(p)
    PROVE  TypeInv'
<1> USE DEF TypeInv, HandlersCounted
<1>0. /\ IsFiniteSet(ActiveHandlers) /\ Cardinality(ActiveHandlers) \in Nat
      /\ m_servicecount \in Nat
    BY FiniteSets DEF ActiveHandlers, TypeOK
<1>1. CASE DestroyEmpty(p)
  <2>1. ActiveHandlers' = ActiveHandlers
      BY <1>1 DEF DestroyEmpty, Handles, ActiveHandlers, Active, TypeOK
  <2>2. TypeOK'
      BY <1>1 DEF DestroyEmpty, Handles, TypeOK, runtime, delivery, packages,
                  services
  <2>3. QED
      BY <2>1, <2>2, <1>1 DEF DestroyEmpty
<1>2. CASE Destroy(p)
  <2>1. ActiveHandlers' = ActiveHandlers
      BY <1>2 DEF Destroy, Handles, ActiveHandlers, Active, TypeOK
  <2>2. queue' \in Seq(Message)
      BY <1>2, ReleasedAll DEF Destroy, TypeOK
  <2>3. CountUp(Cardinality(Listed(p))) \in Int
      BY FiniteSets DEF CountUp, Listed
  <2>4. m_srvcCount' \in [Packages -> Int]
      BY <1>2, <2>3 DEF Destroy, TypeOK
  <2>5. TypeOK'
      BY <1>2, <2>2, <2>4 DEF Destroy, Handles, TypeOK, runtime, packages
  <2>6. QED
      BY <2>1, <2>5, <1>2 DEF Destroy
<1>3. CASE DestroyReturns(p)
  <2>1. ActiveHandlers' = ActiveHandlers
      BY <1>3 DEF DestroyReturns, Handles, ActiveHandlers, Active, TypeOK
  <2>2. TypeOK'
      BY <1>3 DEF DestroyReturns, Handles, TypeOK, runtime, delivery, packages
  <2>3. QED
      BY <2>1, <2>2, <1>3 DEF DestroyReturns
<1>4. CASE Unload(p)
  <2>1. p \in ActiveHandlers /\ ActiveHandlers' = ActiveHandlers \ {p}
      BY <1>4 DEF Unload, Handles, ActiveHandlers, Active, TypeOK
  <2>2. Cardinality(ActiveHandlers') = Cardinality(ActiveHandlers) - 1
      BY <1>0, <2>1, FS_RemoveElement
  <2>3. Cardinality(ActiveHandlers') \in Nat
      BY FiniteSets, <2>1 DEF ActiveHandlers
  <2>4. m_servicecount' = m_servicecount - 1
      BY <1>4 DEF Unload
  <2>5. m_servicecount' \in Nat
      BY <1>0, <2>2, <2>3, <2>4
  <2>6. TypeOK'
      BY <1>4, <2>5 DEF Unload, Handles, Post, TypeOK, runtime, delivery,
                        services
  <2>7. QED
      BY <1>0, <2>2, <2>4, <2>6
<1>5. QED
    BY <1>1, <1>2, <1>3, <1>4 DEF HandlerActs

\* The steps of the owner.
LEMMA OwnerTypes ==
    ASSUME TypeInv, OwnerActs
    PROVE  TypeInv'
<1> USE DEF TypeInv, TypeOK, runtime, delivery, packages, services, down
<1>1. CASE Start
  <2>1. queue' \in Seq(Message)
      BY <1>1, ScheduledOne, MessageTypes DEF Start
  <2>2. /\ {m_pBroker', accepts', stopping'} \subseteq BOOLEAN
        /\ {stopped', asked', rushed', crashed'} \subseteq BOOLEAN
      BY <1>1, Zenon DEF Start
  <2>3. TypeOK'
      BY <1>1, <2>1, <2>2 DEF Start
  <2>4. HandlersCounted'
    <3>1. ActiveHandlers' = ActiveHandlers
        BY <1>1 DEF Start, ActiveHandlers, Active
    <3>2. QED
        BY <3>1, <1>1 DEF Start, HandlersCounted
  <2>5. QED
      BY <2>3, <2>4
<1>2. CASE StartReturns
  <2>1. /\ {m_pBroker', accepts', stopping'} \subseteq BOOLEAN
        /\ {stopped', asked', rushed', crashed'} \subseteq BOOLEAN
      BY <1>2, Zenon DEF StartReturns
  <2>2. TypeOK'
      BY <1>2, <2>1 DEF StartReturns
  <2>3. HandlersCounted'
      BY <1>2 DEF StartReturns, HandlersCounted, ActiveHandlers, Active
  <2>4. QED
      BY <2>2, <2>3
<1>3. CASE Stop
  <2>1. /\ {m_pBroker', accepts', stopping'} \subseteq BOOLEAN
        /\ {stopped', asked', rushed', crashed'} \subseteq BOOLEAN
      BY <1>3, Zenon DEF Stop, ReleaseBroker, Settled
  <2>2. TypeOK'
      BY <1>3, <2>1 DEF Stop, ReleaseBroker, Settled
  <2>3. HandlersCounted'
      BY <1>3 DEF Stop, ReleaseBroker, Settled, HandlersCounted,
                  ActiveHandlers, Active
  <2>4. QED
      BY <2>2, <2>3
<1>4. CASE StopAgain
  <2>1. /\ {m_pBroker', accepts', stopping'} \subseteq BOOLEAN
        /\ {stopped', asked', rushed', crashed'} \subseteq BOOLEAN
      BY <1>4, Zenon DEF StopAgain
  <2>2. TypeOK'
      BY <1>4, <2>1 DEF StopAgain
  <2>3. HandlersCounted'
      BY <1>4 DEF StopAgain, HandlersCounted, ActiveHandlers, Active
  <2>4. QED
      BY <2>2, <2>3
<1>5. CASE Delete
  <2>1. /\ {m_pBroker', accepts', stopping'} \subseteq BOOLEAN
        /\ {stopped', asked', rushed', crashed'} \subseteq BOOLEAN
      BY <1>5, Zenon DEF Delete, ReleaseBroker, Settled
  <2>2. TypeOK'
      BY <1>5, <2>1 DEF Delete, ReleaseBroker, Settled
  <2>3. HandlersCounted'
      BY <1>5 DEF Delete, ReleaseBroker, Settled, HandlersCounted,
                  ActiveHandlers, Active
  <2>4. QED
      BY <2>2, <2>3
<1>6. CASE DeleteResumes
  <2>1. /\ {m_pBroker', accepts', stopping'} \subseteq BOOLEAN
        /\ {stopped', asked', rushed', crashed'} \subseteq BOOLEAN
      BY <1>6, Zenon DEF DeleteResumes
  <2>2. TypeOK'
      BY <1>6, <2>1 DEF DeleteResumes
  <2>3. HandlersCounted'
      BY <1>6 DEF DeleteResumes, HandlersCounted, ActiveHandlers, Active
  <2>4. QED
      BY <2>2, <2>3
<1>7. CASE DeleteStopped
  <2>1. /\ {m_pBroker', accepts', stopping'} \subseteq BOOLEAN
        /\ {stopped', asked', rushed', crashed'} \subseteq BOOLEAN
      BY <1>7, Zenon DEF DeleteStopped
  <2>2. TypeOK'
      BY <1>7, <2>1 DEF DeleteStopped
  <2>3. HandlersCounted'
      BY <1>7 DEF DeleteStopped, HandlersCounted, ActiveHandlers, Active
  <2>4. QED
      BY <2>2, <2>3
<1>8. CASE Leave
  <2>1. /\ {m_pBroker', accepts', stopping'} \subseteq BOOLEAN
        /\ {stopped', asked', rushed', crashed'} \subseteq BOOLEAN
      BY <1>8, Zenon DEF Leave
  <2>2. TypeOK'
      BY <1>8, <2>1 DEF Leave
  <2>3. HandlersCounted'
      BY <1>8 DEF Leave, HandlersCounted, ActiveHandlers, Active
  <2>4. QED
      BY <2>2, <2>3
<1>9. QED
    BY <1>1, <1>2, <1>3, <1>4, <1>5, <1>6, <1>7, <1>8 DEF OwnerActs

\* The steps of a client, and of the service it asked for.
LEMMA ClientTypes ==
    ASSUME TypeInv, NEW s \in Services,
           \/ AllocService(s) \/ AllocServiceFails(s) \/ Release(s)
           \/ InitDone(s) \/ InitFails(s) \/ FailureTold(s)
           \/ FailedDestroyed(s)
    PROVE  TypeInv'
<1> USE DEF TypeInv, TypeOK, runtime, delivery, packages, services, down
<1>1. CASE AllocService(s)
  <2>1. /\ {m_pBroker', accepts', stopping'} \subseteq BOOLEAN
        /\ {stopped', asked', rushed', crashed'} \subseteq BOOLEAN
      BY <1>1, Zenon DEF AllocService, Advance, ClientActing
  <2>2. TypeOK'
      BY <1>1, <2>1, RuntimeAssumption DEF AllocService, Advance, ClientActing
  <2>3. HandlersCounted'
      BY <1>1 DEF AllocService, Advance, ClientActing, HandlersCounted,
                  ActiveHandlers, Active
  <2>4. QED
      BY <2>2, <2>3
<1>2. CASE AllocServiceFails(s)
  <2>1. /\ {m_pBroker', accepts', stopping'} \subseteq BOOLEAN
        /\ {stopped', asked', rushed', crashed'} \subseteq BOOLEAN
      BY <1>2, Zenon DEF AllocServiceFails, Advance, ClientActing,
                         MapAfterFailure
  <2>2. TypeOK'
      BY <1>2, <2>1, RuntimeAssumption DEF AllocServiceFails, Advance,
                                           ClientActing, MapAfterFailure
  <2>3. HandlersCounted'
      BY <1>2 DEF AllocServiceFails, Advance, ClientActing, MapAfterFailure,
                  HandlersCounted, ActiveHandlers, Active
  <2>4. QED
      BY <2>2, <2>3
<1>3. CASE Release(s)
  <2>1. queue' \in Seq(Message)
      BY <1>3, ScheduledOne, MessageTypes DEF Release, ClientActing
  <2>2. /\ {m_pBroker', accepts', stopping'} \subseteq BOOLEAN
        /\ {stopped', asked', rushed', crashed'} \subseteq BOOLEAN
      BY <1>3, Zenon DEF Release, ClientActing
  <2>3. TypeOK'
      BY <1>3, <2>1, <2>2 DEF Release, ClientActing
  <2>4. HandlersCounted'
      BY <1>3 DEF Release, ClientActing, HandlersCounted, ActiveHandlers, Active
  <2>5. QED
      BY <2>3, <2>4
<1>4. CASE InitDone(s)
  <2>1. queue' \in Seq(Message)
      BY <1>4, ScheduledOne, MessageTypes DEF InitDone, Advance
  <2>2. /\ {m_pBroker', accepts', stopping'} \subseteq BOOLEAN
        /\ {stopped', asked', rushed', crashed'} \subseteq BOOLEAN
      BY <1>4, Zenon DEF InitDone, Advance
  <2>3. TypeOK'
      BY <1>4, <2>1, <2>2 DEF InitDone, Advance
  <2>4. HandlersCounted'
      BY <1>4 DEF InitDone, Advance, HandlersCounted, ActiveHandlers, Active
  <2>5. QED
      BY <2>3, <2>4
<1>5. CASE InitFails(s)
  <2>1. /\ {m_pBroker', accepts', stopping'} \subseteq BOOLEAN
        /\ {stopped', asked', rushed', crashed'} \subseteq BOOLEAN
      BY <1>5, Zenon DEF InitFails, Advance
  <2>2. TypeOK'
      BY <1>5, <2>1 DEF InitFails, Advance
  <2>3. HandlersCounted'
      BY <1>5 DEF InitFails, Advance, HandlersCounted, ActiveHandlers, Active
  <2>4. QED
      BY <2>2, <2>3
<1>6. CASE FailureTold(s)
  <2>1. /\ {m_pBroker', accepts', stopping'} \subseteq BOOLEAN
        /\ {stopped', asked', rushed', crashed'} \subseteq BOOLEAN
      BY <1>6, Zenon DEF FailureTold, Advance
  <2>2. TypeOK'
      BY <1>6, <2>1 DEF FailureTold, Advance
  <2>3. HandlersCounted'
      BY <1>6 DEF FailureTold, Advance, HandlersCounted, ActiveHandlers,
                  Active
  <2>4. QED
      BY <2>2, <2>3
<1>7. CASE FailedDestroyed(s)
  <2>1. /\ {m_pBroker', accepts', stopping'} \subseteq BOOLEAN
        /\ {stopped', asked', rushed', crashed'} \subseteq BOOLEAN
      BY <1>7, Zenon DEF FailedDestroyed, Advance
  <2>2. TypeOK'
      BY <1>7, <2>1 DEF FailedDestroyed, Advance
  <2>3. HandlersCounted'
      BY <1>7 DEF FailedDestroyed, Advance, HandlersCounted, ActiveHandlers,
                  Active
  <2>4. QED
      BY <2>2, <2>3
<1>8. QED
    BY <1>1, <1>2, <1>3, <1>4, <1>5, <1>6, <1>7 DEF TypeOK

\* The steps of the delivery thread.
LEMMA DeliveryTypes ==
    ASSUME TypeInv, Delivers
    PROVE  TypeInv'
<1> USE DEF TypeInv, TypeOK, runtime, delivery, packages, services, down
<1>1. CASE ServiceAllocated
  <2>1. queue' \in Seq(Message)
      BY <1>1, Delivered, MessageTypes DEF ServiceAllocated, Takes
  <2>2. /\ {m_pBroker', accepts', stopping'} \subseteq BOOLEAN
        /\ {stopped', asked', rushed', crashed'} \subseteq BOOLEAN
      BY <1>1, Zenon DEF ServiceAllocated, Takes
  <2>3. TypeOK'
      BY <1>1, <2>1, <2>2, Delivered, MessageTypes DEF ServiceAllocated, Takes
  <2>4. HandlersCounted'
      BY <1>1 DEF ServiceAllocated, Takes, HandlersCounted, ActiveHandlers,
                  Active
  <2>5. QED
      BY <2>3, <2>4
<1>2. CASE BrokerAllocated
  <2>1. queue' \in Seq(Message)
      BY <1>2, Delivered DEF BrokerAllocated, Takes, Post
  <2>2. /\ {m_pBroker', accepts', stopping'} \subseteq BOOLEAN
        /\ {stopped', asked', rushed', crashed'} \subseteq BOOLEAN
      BY <1>2, Zenon DEF BrokerAllocated, Takes, Post
  <2>3. TypeOK'
      BY <1>2, <2>1, <2>2 DEF BrokerAllocated, Takes, Post
  <2>4. HandlersCounted'
      BY <1>2 DEF BrokerAllocated, Takes, Post, HandlersCounted,
                  ActiveHandlers, Active
  <2>5. QED
      BY <2>3, <2>4
<1>3. CASE ServiceReleased
  <2>1. queue' \in Seq(Message)
      BY <1>3, Delivered, MessageTypes DEF ServiceReleased, Takes, Advance,
                                           PostRemoved, Post
  <2>2. /\ {m_pBroker', accepts', stopping'} \subseteq BOOLEAN
        /\ {stopped', asked', rushed', crashed'} \subseteq BOOLEAN
      BY <1>3, Zenon DEF ServiceReleased, Takes, Advance, PostRemoved, Post
  <2>3. Head(queue).of \in Services
      BY <1>3, Delivered, MessageTypes DEF ServiceReleased, Takes
  <2>4. Home[Head(queue).of] \in Packages
      BY <2>3, RuntimeAssumption
  <2>5. m_srvcCount' \in [Packages -> Int]
      BY <1>3, <2>3, <2>4 DEF ServiceReleased, PostRemoved, Post
  <2>6. TypeOK'
      BY <1>3, <2>1, <2>2, <2>3, <2>5 DEF ServiceReleased, Advance
  <2>7. HandlersCounted'
      BY <1>3 DEF ServiceReleased, Takes, Advance, PostRemoved, Post,
                  HandlersCounted, ActiveHandlers, Active
  <2>8. QED
      BY <2>6, <2>7
<1>4. CASE BrokerReleased
  <2>1. queue' \in Seq(Message)
      BY <1>4, Delivered DEF BrokerReleased, Takes
  <2>2. /\ {m_pBroker', accepts', stopping'} \subseteq BOOLEAN
        /\ {stopped', asked', rushed', crashed'} \subseteq BOOLEAN
      BY <1>4, Zenon DEF BrokerReleased, Takes
  <2>3. TypeOK'
      BY <1>4, <2>1, <2>2 DEF BrokerReleased, Takes
  <2>4. HandlersCounted'
      BY <1>4 DEF BrokerReleased, Takes, HandlersCounted, ActiveHandlers, Active
  <2>5. QED
      BY <2>3, <2>4
<1>5. CASE RuntimeStopped
  <2>1. /\ {m_pBroker', accepts', stopping'} \subseteq BOOLEAN
        /\ {stopped', asked', rushed', crashed'} \subseteq BOOLEAN
      BY <1>5, Zenon DEF RuntimeStopped, Post
  <2>2. TypeOK'
      BY <1>5, <2>1 DEF RuntimeStopped, Post
  <2>3. HandlersCounted'
      BY <1>5 DEF RuntimeStopped, Post, HandlersCounted, ActiveHandlers, Active
  <2>4. QED
      BY <2>2, <2>3
<1>6. CASE \E s \in Services : DestructorReturns(s)
  <2>1. /\ {m_pBroker', accepts', stopping'} \subseteq BOOLEAN
        /\ {stopped', asked', rushed', crashed'} \subseteq BOOLEAN
      BY <1>6, Zenon DEF DestructorReturns, Advance
  <2>2. TypeOK'
      BY <1>6, <2>1 DEF DestructorReturns, Advance
  <2>3. HandlersCounted'
      BY <1>6 DEF DestructorReturns, Advance, HandlersCounted, ActiveHandlers,
                  Active
  <2>4. QED
      BY <2>2, <2>3
<1>7. QED
    BY <1>1, <1>2, <1>3, <1>4, <1>5, <1>6 DEF Delivers

\* The steps of the shutdown thread.
LEMMA ShutdownTypes ==
    ASSUME TypeInv, ShutdownActs
    PROVE  TypeInv'
<1> USE DEF TypeInv, TypeOK, runtime, delivery, packages, services
<1>1. CASE DoShutdown
  <2>1. ActiveHandlers' = m_ServiceMap
      BY <1>1 DEF DoShutdown, Handled, ActiveHandlers, Active
  <2>2. Cardinality(m_ServiceMap) \in Nat
      BY FiniteSets
  <2>3. CountUp(Cardinality(m_ServiceMap)) \in Int
      BY <2>2 DEF CountUp
  <2>4. TypeOK'
      BY <1>1, <2>2, <2>3 DEF DoShutdown
  <2>5. HandlersCounted'
      BY <1>1, <2>1, <2>2 DEF DoShutdown, HandlersCounted
  <2>6. QED
      BY <2>4, <2>5
<1>2. CASE ShutdownDone
  <2>1. queue' \in Seq(Message)
    <3>1. CASE m_servicecount > 0
        BY <1>2, <3>1 DEF ShutdownDone, Schedule
    <3>2. CASE ~(m_servicecount > 0)
        BY <1>2, <3>2, ScheduledOne, MessageTypes DEF ShutdownDone
    <3>3. QED
        BY <3>1, <3>2
  <2>2. TypeOK'
      BY <1>2, <2>1 DEF ShutdownDone
  <2>3. HandlersCounted'
      BY <1>2 DEF ShutdownDone, HandlersCounted, ActiveHandlers, Active
  <2>4. QED
      BY <2>2, <2>3
<1>3. QED
    BY <1>1, <1>2 DEF ShutdownActs

\* Every step keeps the types and the count of handlers.
LEMMA TypeKept == TypeInv /\ [Next]_vars => TypeInv'
<1>1. TypeInv /\ Next => TypeInv'
  <2>1. SUFFICES ASSUME TypeInv, Next
                 PROVE  TypeInv'
      OBVIOUS
  <2>2. QED
      BY <2>1, OwnerTypes, ClientTypes, DeliveryTypes, ShutdownTypes,
         HandlerTypes DEF Next, ClientActs, ServiceActs
<1>2. TypeInv /\ UNCHANGED vars => TypeInv'
    BY DEF TypeInv, TypeOK, HandlersCounted, ActiveHandlers, Active, vars,
           runtime, delivery, packages, services, down
<1>3. QED
    BY <1>1, <1>2

\* Every variable keeps its type; the shutdown thread's count of handlers, which
\* each handler decrements, never goes below zero.
THEOREM TypeCorrect == Spec => []TypeOK
<1>1. TypeInv => TypeOK
    BY DEF TypeInv
<1>2. QED
    BY Initial, TypeKept, <1>1, PTL DEF Spec

--------------------------------------------------------------------------------
(* The parts of the invariant, step by step. *)

\* Nothing changes in the lists of the modules.
LEMMA SameServices ==
    ASSUME service' = service
    PROVE  Alive' = Alive /\ \A p \in Packages : Listed(p)' = Listed(p)
BY DEF Alive, Listed

\* Nothing is left to deliver.
LEMMA NoMessages == DOMAIN <<>> = {}
OBVIOUS

\* What is scheduled when nothing is left to deliver comes first.
LEMMA ScheduledAlone ==
    ASSUME queue \in Seq(Message), \A i \in DOMAIN queue : FALSE,
           NEW m \in Message, Schedule(<<m>>)
    PROVE  \A i \in DOMAIN queue' : accepts /\ i = 1 /\ queue'[i] = m
<1>1. Len(queue) = 0 /\ DOMAIN queue = {}
    OBVIOUS
<1>2. /\ ~accepts => queue' = queue
      /\ accepts => /\ DOMAIN queue' = 1..(Len(queue) + 1)
                    /\ queue'[Len(queue) + 1] = m
    BY ScheduledOne
<1>3. CASE accepts
    BY <1>1, <1>2, <1>3
<1>4. CASE ~accepts
    BY <1>1, <1>2, <1>4
<1>5. QED
    BY <1>3, <1>4

\* The steps of the owner.
LEMMA OwnerOrderly ==
    ASSUME TypeInv, Orderly, ~rushed', OwnerActs
    PROVE  Orderly'
<1> USE DEF TypeInv, TypeOK, Orderly, OwnerInStep, MessagesSound, MessageSound,
            MessagesApart, KnownSound, ServicesHoused, HandlersInStep, runtime,
            delivery, packages, services, down
<1>1. CASE Start
  <2>1. Alive' = Alive /\ \A p \in Packages : Listed(p)' = Listed(p)
      BY <1>1, SameServices DEF Start
  <2>2. /\ ~accepts => queue' = queue
        /\ accepts =>
             /\ DOMAIN queue' = 1..(Len(queue) + 1)
             /\ \A i \in 1..Len(queue) : queue'[i] = queue[i]
             /\ queue'[Len(queue) + 1] = Allocated(Broker)
             /\ \A i \in DOMAIN queue' :
                   \/ i = Len(queue) + 1
                   \/ i \in DOMAIN queue /\ queue'[i] = queue[i]
      BY <1>1, ScheduledOne, MessageTypes DEF Start
  <2>3. Allocated(Broker).of = Broker /\ Allocated(Broker).kind = "allocated"
      BY <1>1, MessageTypes DEF Start
  <2>4. \A s \in Services : service[s] # "initialising" /\ service[s] # "listed"
      BY <1>1 DEF Start, Alive
  <2>5. \A i \in DOMAIN queue : FALSE
      BY <1>1, <2>4, MessageTypes DEF Start
  <2>6. Len(queue) = 0 /\ DOMAIN queue = {}
      BY <1>1, <2>5 DEF Start
  <2>7. \A i \in DOMAIN queue' : /\ accepts /\ i = 1
                                /\ queue'[i] = Allocated(Broker)
      BY <1>1, <2>2, <2>6 DEF Start
  <2>8. accepts => known = {}
      BY <1>1, <2>4 DEF Start
  <2>9. OwnerInStep'
      BY <1>1, <2>1, <2>2, <2>3, <2>4, <2>5, <2>6, <2>7, <2>8 DEF Start
  <2>10. MessagesSound'
      BY <1>1, <2>1, <2>2, <2>3, <2>4, <2>5, <2>6, <2>7, <2>8 DEF Start
  <2>11. ServicesHoused'
      BY <1>1, <2>1, <2>2, <2>3, <2>4, <2>5, <2>6, <2>7, <2>8 DEF Start
  <2>12. HandlersInStep'
      BY <1>1, <2>1, <2>2, <2>3, <2>4, <2>5, <2>6, <2>7, <2>8 DEF Start
  <2>13. QED
      BY <2>9, <2>10, <2>11, <2>12
<1>2. CASE StartReturns
  <2>1. Alive' = Alive /\ \A p \in Packages : Listed(p)' = Listed(p)
      BY <1>2, SameServices DEF StartReturns
  <2>2. OwnerInStep'
      BY <1>2, <2>1 DEF StartReturns
  <2>3. MessagesSound'
      BY <1>2, <2>1 DEF StartReturns
  <2>4. ServicesHoused'
      BY <1>2, <2>1 DEF StartReturns
  <2>5. HandlersInStep'
      BY <1>2, <2>1 DEF StartReturns
  <2>6. QED
      BY <2>2, <2>3, <2>4, <2>5
<1>3. CASE Stop
  <2>1. Alive' = Alive /\ \A p \in Packages : Listed(p)' = Listed(p)
      BY <1>3, SameServices DEF Stop, ReleaseBroker, Settled
  <2>2. queue' = <<>>
      BY <1>3 DEF Stop, ReleaseBroker, Settled
  <2>3. DOMAIN queue' = {}
      BY <1>3, <2>2, NoMessages DEF Stop, ReleaseBroker, Settled
  <2>4. OwnerInStep'
      BY <1>3, <2>1, <2>2, <2>3 DEF Stop, ReleaseBroker, Settled
  <2>5. MessagesSound'
      BY <1>3, <2>1, <2>2, <2>3 DEF Stop, ReleaseBroker, Settled
  <2>6. ServicesHoused'
      BY <1>3, <2>1, <2>2, <2>3 DEF Stop, ReleaseBroker, Settled
  <2>7. HandlersInStep'
      BY <1>3, <2>1, <2>2, <2>3 DEF Stop, ReleaseBroker, Settled
  <2>8. QED
      BY <2>4, <2>5, <2>6, <2>7
<1>4. CASE StopAgain
  <2>1. Alive' = Alive /\ \A p \in Packages : Listed(p)' = Listed(p)
      BY <1>4, SameServices DEF StopAgain
  <2>2. OwnerInStep'
      BY <1>4, <2>1 DEF StopAgain
  <2>3. MessagesSound'
      BY <1>4, <2>1 DEF StopAgain
  <2>4. ServicesHoused'
      BY <1>4, <2>1 DEF StopAgain
  <2>5. HandlersInStep'
      BY <1>4, <2>1 DEF StopAgain
  <2>6. QED
      BY <2>2, <2>3, <2>4, <2>5
<1>5. CASE Delete
  <2>1. Alive' = Alive /\ \A p \in Packages : Listed(p)' = Listed(p)
      BY <1>5, SameServices DEF Delete, ReleaseBroker, Settled
  <2>2. queue' = <<>>
      BY <1>5 DEF Delete, ReleaseBroker, Settled
  <2>3. DOMAIN queue' = {}
      BY <1>5, <2>2, NoMessages DEF Delete, ReleaseBroker, Settled
  <2>4. OwnerInStep'
      BY <1>5, <2>1, <2>2, <2>3 DEF Delete, ReleaseBroker, Settled
  <2>5. MessagesSound'
      BY <1>5, <2>1, <2>2, <2>3 DEF Delete, ReleaseBroker, Settled
  <2>6. ServicesHoused'
      BY <1>5, <2>1, <2>2, <2>3 DEF Delete, ReleaseBroker, Settled
  <2>7. HandlersInStep'
      BY <1>5, <2>1, <2>2, <2>3 DEF Delete, ReleaseBroker, Settled
  <2>8. QED
      BY <2>4, <2>5, <2>6, <2>7
<1>6. CASE DeleteResumes
  <2>1. Alive' = Alive /\ \A p \in Packages : Listed(p)' = Listed(p)
      BY <1>6, SameServices DEF DeleteResumes
  <2>2. OwnerInStep'
      BY <1>6, <2>1 DEF DeleteResumes
  <2>3. MessagesSound'
      BY <1>6, <2>1 DEF DeleteResumes
  <2>4. ServicesHoused'
      BY <1>6, <2>1 DEF DeleteResumes
  <2>5. HandlersInStep'
      BY <1>6, <2>1 DEF DeleteResumes
  <2>6. QED
      BY <2>2, <2>3, <2>4, <2>5
<1>7. CASE DeleteStopped
  <2>1. Alive' = Alive /\ \A p \in Packages : Listed(p)' = Listed(p)
      BY <1>7, SameServices DEF DeleteStopped
  <2>2. OwnerInStep'
      BY <1>7, <2>1 DEF DeleteStopped
  <2>3. MessagesSound'
      BY <1>7, <2>1 DEF DeleteStopped
  <2>4. ServicesHoused'
      BY <1>7, <2>1 DEF DeleteStopped
  <2>5. HandlersInStep'
      BY <1>7, <2>1 DEF DeleteStopped
  <2>6. QED
      BY <2>2, <2>3, <2>4, <2>5
<1>8. CASE Leave
  <2>1. Alive' = Alive /\ \A p \in Packages : Listed(p)' = Listed(p)
      BY <1>8, SameServices DEF Leave
  <2>2. queue' = <<>>
      BY <1>8 DEF Leave
  <2>3. DOMAIN queue' = {}
      BY <1>8, <2>2, NoMessages DEF Leave
  <2>4. OwnerInStep'
      BY <1>8, <2>1, <2>2, <2>3 DEF Leave
  <2>5. MessagesSound'
      BY <1>8, <2>1, <2>2, <2>3 DEF Leave
  <2>6. ServicesHoused'
      BY <1>8, <2>1, <2>2, <2>3 DEF Leave
  <2>7. HandlersInStep'
      BY <1>8, <2>1, <2>2, <2>3 DEF Leave
  <2>8. QED
      BY <2>4, <2>5, <2>6, <2>7
<1>9. QED
    BY <1>1, <1>2, <1>3, <1>4, <1>5, <1>6, <1>7, <1>8 DEF OwnerActs

\* The steps of a client, and of the service it asked for.
LEMMA ClientOrderly ==
    ASSUME TypeInv, Orderly, ~rushed', FailsAlone, NEW s \in Services,
           \/ AllocService(s) \/ AllocServiceFails(s) \/ Release(s)
           \/ InitDone(s) \/ InitFails(s) \/ FailureTold(s)
           \/ FailedDestroyed(s)
    PROVE  Orderly'
<1> USE DEF TypeInv, TypeOK, Orderly, OwnerInStep, MessagesSound, MessageSound,
            MessagesApart, KnownSound, ServicesHoused, HandlersInStep, runtime,
            delivery, packages, services, down
<1>1. CASE AllocService(s)
  <2>1. shutdown = "off"
      BY <1>1 DEF AllocService, ClientActing, Advance
  <2>2. \A t \in Services :
           service'[t] = IF t = s THEN "initialising" ELSE service[t]
      BY <1>1 DEF AllocService, ClientActing, Advance
  <2>3. \A p \in Packages : Listed(p)' = Listed(p)
      BY <1>1, <2>2 DEF AllocService, ClientActing, Advance, Listed
  <2>4. OwnerInStep'
      BY <1>1, <2>1, <2>2, <2>3 DEF AllocService, ClientActing, Advance
  <2>5. MessagesSound'
      BY <1>1, <2>1, <2>2, <2>3 DEF AllocService, ClientActing, Advance
  <2>6. ServicesHoused'
      BY <1>1, <2>1, <2>2, <2>3 DEF AllocService, ClientActing, Advance
  <2>7. HandlersInStep'
      BY <1>1, <2>1, <2>2, <2>3 DEF AllocService, ClientActing, Advance
  <2>8. QED
      BY <2>4, <2>5, <2>6, <2>7
<1>2. CASE AllocServiceFails(s)
  <2>1. shutdown = "off"
      BY <1>2 DEF AllocServiceFails, ClientActing, Advance, MapAfterFailure
  <2>2. \A t \in Services :
           service'[t] = IF t = s THEN "deleted" ELSE service[t]
      BY <1>2 DEF AllocServiceFails, ClientActing, Advance, MapAfterFailure
  <2>3. \A p \in Packages : Listed(p)' = Listed(p)
      BY <1>2, <2>2
         DEF AllocServiceFails, ClientActing, Advance, MapAfterFailure,
             Listed
  <2>4. \A t \in Services : Home[t] = Home[s] => t = s
      BY <1>2
         DEF AllocServiceFails, ClientActing, Advance, MapAfterFailure,
             FailsAlone
  <2>5. OwnerInStep'
      BY <1>2, <2>1, <2>2, <2>3, <2>4
         DEF AllocServiceFails, ClientActing, Advance, MapAfterFailure
  <2>6. MessagesSound'
      BY <1>2, <2>1, <2>2, <2>3, <2>4
         DEF AllocServiceFails, ClientActing, Advance, MapAfterFailure
  <2>7. ServicesHoused'
      BY <1>2, <2>1, <2>2, <2>3, <2>4
         DEF AllocServiceFails, ClientActing, Advance, MapAfterFailure
  <2>8. HandlersInStep'
      BY <1>2, <2>1, <2>2, <2>3, <2>4
         DEF AllocServiceFails, ClientActing, Advance, MapAfterFailure
  <2>9. QED
      BY <2>5, <2>6, <2>7, <2>8
<1>3. CASE Release(s)
  <2>1. shutdown = "off"
      BY <1>3 DEF Release, ClientActing
  <2>2. Alive' = Alive /\ \A p \in Packages : Listed(p)' = Listed(p)
      BY <1>3, SameServices DEF Release, ClientActing
  <2>3. /\ ~accepts => queue' = queue
        /\ accepts =>
             /\ DOMAIN queue' = 1..(Len(queue) + 1)
             /\ \A i \in 1..Len(queue) : queue'[i] = queue[i]
             /\ queue'[Len(queue) + 1] = Released(s, FALSE)
             /\ \A i \in DOMAIN queue' :
                   \/ i = Len(queue) + 1
                   \/ i \in DOMAIN queue /\ queue'[i] = queue[i]
      BY <1>3, ScheduledOne, MessageTypes DEF Release, ClientActing
  <2>4. accepts => queue'[Len(queue) + 1].of = s
      BY <1>3, <2>3 DEF Release, ClientActing, Released
  <2>5. accepts => \A i \in DOMAIN queue : queue[i].of # s
      BY <1>3, <2>1 DEF Release, ClientActing
  <2>6. OwnerInStep'
      BY <1>3, <2>1, <2>2, <2>3, <2>4, <2>5 DEF Release, ClientActing
  <2>7. MessagesSound'
    <3>1. CASE ~accepts
        BY <1>3, <3>1, <2>1, <2>2, <2>3, <2>4, <2>5 DEF Release, ClientActing
    <3>2. CASE accepts
      <4>1. \A i \in DOMAIN queue' :
               \/ i = Len(queue) + 1
               \/ i \in DOMAIN queue /\ queue'[i] = queue[i]
          BY <3>2, <2>1, <2>2, <2>3, <2>4, <2>5
      <4>2. \A i \in DOMAIN queue' : MessageSound(i)'
          BY <1>3, <3>2, <4>1, <2>1, <2>2, <2>3, <2>4, <2>5, RuntimeAssumption
             DEF Release, ClientActing
      <4>3. MessagesApart'
          BY <1>3, <3>2, <4>1, <2>1, <2>2, <2>3, <2>4, <2>5
             DEF Release, ClientActing
      <4>4. KnownSound'
          BY <1>3, <3>2, <4>1, <2>1, <2>2, <2>3, <2>4, <2>5
             DEF Release, ClientActing
      <4>5. QED
          BY <4>2, <4>3, <4>4 DEF MessagesSound
    <3>3. QED
        BY <3>1, <3>2
  <2>8. ServicesHoused'
      BY <1>3, <2>1, <2>2, <2>3, <2>4, <2>5 DEF Release, ClientActing
  <2>9. HandlersInStep'
      BY <1>3, <2>1, <2>2, <2>3, <2>4, <2>5 DEF Release, ClientActing
  <2>10. QED
      BY <2>6, <2>7, <2>8, <2>9
<1>4. CASE InitDone(s)
  <2>1. shutdown = "off" /\ m_state = "Started"
      BY <1>4 DEF InitDone, Advance, Alive
  <2>2. \A t \in Services : service'[t] = IF t = s THEN "listed" ELSE service[t]
      BY <1>4 DEF InitDone, Advance
  <2>3. /\ ~accepts => queue' = queue
        /\ accepts =>
             /\ DOMAIN queue' = 1..(Len(queue) + 1)
             /\ \A i \in 1..Len(queue) : queue'[i] = queue[i]
             /\ queue'[Len(queue) + 1] = Allocated(s)
             /\ \A i \in DOMAIN queue' :
                   \/ i = Len(queue) + 1
                   \/ i \in DOMAIN queue /\ queue'[i] = queue[i]
      BY <1>4, ScheduledOne, MessageTypes DEF InitDone, Advance
  <2>4. accepts => queue'[Len(queue) + 1].of = s
      BY <1>4, <2>3 DEF InitDone, Advance, Allocated
  <2>5. \A i \in DOMAIN queue : queue[i].of # s
      BY <1>4, RuntimeAssumption DEF InitDone, Advance
  <2>6. OwnerInStep'
      BY <1>4, <2>1, <2>2, <2>3, <2>4, <2>5 DEF InitDone, Advance
  <2>7. MessagesSound'
    <3>1. CASE ~accepts
        BY <1>4, <3>1, <2>1, <2>2, <2>3, <2>4, <2>5 DEF InitDone, Advance
    <3>2. CASE accepts
      <4>1. \A i \in DOMAIN queue' :
               \/ i = Len(queue) + 1
               \/ i \in DOMAIN queue /\ queue'[i] = queue[i]
          BY <3>2, <2>1, <2>2, <2>3, <2>4, <2>5
      <4>2. \A i \in DOMAIN queue' : MessageSound(i)'
          BY <1>4, <3>2, <4>1, <2>1, <2>2, <2>3, <2>4, <2>5, RuntimeAssumption
             DEF InitDone, Advance
      <4>3. MessagesApart'
          BY <1>4, <3>2, <4>1, <2>1, <2>2, <2>3, <2>4, <2>5
             DEF InitDone, Advance
      <4>4. KnownSound'
          BY <1>4, <3>2, <4>1, <2>1, <2>2, <2>3, <2>4, <2>5
             DEF InitDone, Advance
      <4>5. QED
          BY <4>2, <4>3, <4>4 DEF MessagesSound
    <3>3. QED
        BY <3>1, <3>2
  <2>8. ServicesHoused'
      BY <1>4, <2>1, <2>2, <2>3, <2>4, <2>5 DEF InitDone, Advance
  <2>9. HandlersInStep'
      BY <1>4, <2>1, <2>2, <2>3, <2>4, <2>5 DEF InitDone, Advance
  <2>10. QED
      BY <2>6, <2>7, <2>8, <2>9
<1>5. CASE InitFails(s)
  <2>1. shutdown = "off" /\ m_state = "Started"
      BY <1>5 DEF InitFails, Advance, Alive
  <2>2. \A t \in Services :
           service'[t] = IF t = s THEN "failing" ELSE service[t]
      BY <1>5 DEF InitFails, Advance
  <2>3. \A p \in Packages : Listed(p)' = Listed(p)
      BY <1>5, <2>2 DEF InitFails, Advance, Listed
  <2>4. OwnerInStep'
      BY <1>5, <2>1, <2>2, <2>3 DEF InitFails, Advance
  <2>5. MessagesSound'
      BY <1>5, <2>1, <2>2, <2>3 DEF InitFails, Advance
  <2>6. ServicesHoused'
      BY <1>5, <2>1, <2>2, <2>3 DEF InitFails, Advance
  <2>7. HandlersInStep'
      BY <1>5, <2>1, <2>2, <2>3 DEF InitFails, Advance
  <2>8. QED
      BY <2>4, <2>5, <2>6, <2>7
<1>6. CASE FailureTold(s)
  <2>1. shutdown = "off" /\ m_state = "Started"
      BY <1>6 DEF FailureTold, Advance, Alive
  <2>2. \A t \in Services :
           service'[t] = IF t = s THEN "failed" ELSE service[t]
      BY <1>6 DEF FailureTold, Advance
  <2>3. \A p \in Packages : Listed(p)' = Listed(p)
      BY <1>6, <2>2 DEF FailureTold, Advance, Listed
  <2>4. OwnerInStep'
      BY <1>6, <2>1, <2>2, <2>3 DEF FailureTold, Advance
  <2>5. MessagesSound'
      BY <1>6, <2>1, <2>2, <2>3 DEF FailureTold, Advance
  <2>6. ServicesHoused'
      BY <1>6, <2>1, <2>2, <2>3 DEF FailureTold, Advance
  <2>7. HandlersInStep'
      BY <1>6, <2>1, <2>2, <2>3 DEF FailureTold, Advance
  <2>8. QED
      BY <2>4, <2>5, <2>6, <2>7
<1>7. CASE FailedDestroyed(s)
  <2>1. service[s] = "failed"
      BY <1>7 DEF FailedDestroyed, Advance, Alive
  <2>2. \A t \in Services :
           service'[t] = IF t = s THEN "deleted" ELSE service[t]
      BY <1>7 DEF FailedDestroyed, Advance
  <2>3. \A p \in Packages : Listed(p)' = Listed(p)
      BY <1>7, <2>2 DEF FailedDestroyed, Advance, Listed
  <2>4. OwnerInStep'
      BY <1>7, <2>1, <2>2, <2>3 DEF FailedDestroyed, Advance
  <2>5. MessagesSound'
      BY <1>7, <2>1, <2>2, <2>3 DEF FailedDestroyed, Advance
  <2>6. ServicesHoused'
      BY <1>7, <2>1, <2>2, <2>3 DEF FailedDestroyed, Advance, Alive
  <2>7. HandlersInStep'
      BY <1>7, <2>1, <2>2, <2>3 DEF FailedDestroyed, Advance
  <2>8. QED
      BY <2>4, <2>5, <2>6, <2>7
<1>8. QED
    BY <1>1, <1>2, <1>3, <1>4, <1>5, <1>6, <1>7

\* The steps of the delivery thread.
LEMMA DeliveryOrderly ==
    ASSUME TypeInv, Orderly, ~rushed', Delivers
    PROVE  Orderly'
<1> USE DEF TypeInv, TypeOK, Orderly, OwnerInStep, MessagesSound, MessageSound,
            MessagesApart, KnownSound, ServicesHoused, HandlersInStep, runtime,
            delivery, packages, services, down
<1>1. CASE ServiceAllocated
  <2>1. /\ Head(queue) = queue[1] /\ 1 \in DOMAIN queue
        /\ \A i \in DOMAIN queue' : /\ queue'[i] = queue[i + 1]
                                   /\ i + 1 \in DOMAIN queue /\ i + 1 # 1
        /\ \A i, j \in DOMAIN queue' : i + 1 = j + 1 => i = j
        /\ Head(queue).of \in Services \cup {Broker}
      BY <1>1, Delivered, MessageTypes DEF ServiceAllocated, Takes
  <2>2. \A i \in DOMAIN queue' : queue'[i].of # Head(queue).of
      BY <1>1, <2>1 DEF ServiceAllocated, Takes
  <2>3. Alive' = Alive /\ \A p \in Packages : Listed(p)' = Listed(p)
      BY <1>1, SameServices DEF ServiceAllocated, Takes
  <2>4. OwnerInStep'
      BY <1>1, <2>1, <2>2, <2>3 DEF ServiceAllocated, Takes
  <2>5. MessagesSound'
    <3>1. \A i \in DOMAIN queue' : MessageSound(i)'
        BY <1>1, <2>1, <2>2, <2>3, RuntimeAssumption DEF ServiceAllocated, Takes
    <3>2. MessagesApart'
        BY <1>1, <2>1, <2>2, <2>3 DEF ServiceAllocated, Takes
    <3>3. KnownSound'
        BY <1>1, <2>1, <2>2, <2>3 DEF ServiceAllocated, Takes
    <3>4. QED
        BY <3>1, <3>2, <3>3 DEF MessagesSound
  <2>6. ServicesHoused'
      BY <1>1, <2>1, <2>2, <2>3 DEF ServiceAllocated, Takes
  <2>7. HandlersInStep'
      BY <1>1, <2>1, <2>2, <2>3 DEF ServiceAllocated, Takes
  <2>8. QED
      BY <2>4, <2>5, <2>6, <2>7
<1>2. CASE BrokerAllocated
  <2>1. /\ Head(queue) = queue[1] /\ 1 \in DOMAIN queue
        /\ \A i \in DOMAIN queue' : /\ queue'[i] = queue[i + 1]
                                   /\ i + 1 \in DOMAIN queue /\ i + 1 # 1
        /\ \A i, j \in DOMAIN queue' : i + 1 = j + 1 => i = j
        /\ Head(queue).of \in Services \cup {Broker}
      BY <1>2, Delivered, MessageTypes DEF BrokerAllocated, Takes, Post
  <2>2. \A i \in DOMAIN queue' : queue'[i].of # Broker
      BY <1>2, <2>1 DEF BrokerAllocated, Takes, Post
  <2>3. Alive' = Alive /\ \A p \in Packages : Listed(p)' = Listed(p)
      BY <1>2, SameServices DEF BrokerAllocated, Takes, Post
  <2>4. OwnerInStep'
      BY <1>2, <2>1, <2>2, <2>3 DEF BrokerAllocated, Takes, Post
  <2>5. MessagesSound'
    <3>1. \A i \in DOMAIN queue' : MessageSound(i)'
        BY <1>2, <2>1, <2>2, <2>3, RuntimeAssumption
           DEF BrokerAllocated, Takes, Post
    <3>2. MessagesApart'
        BY <1>2, <2>1, <2>2, <2>3 DEF BrokerAllocated, Takes, Post
    <3>3. KnownSound'
        BY <1>2, <2>1, <2>2, <2>3 DEF BrokerAllocated, Takes, Post
    <3>4. QED
        BY <3>1, <3>2, <3>3 DEF MessagesSound
  <2>6. ServicesHoused'
      BY <1>2, <2>1, <2>2, <2>3 DEF BrokerAllocated, Takes, Post
  <2>7. HandlersInStep'
      BY <1>2, <2>1, <2>2, <2>3 DEF BrokerAllocated, Takes, Post
  <2>8. QED
      BY <2>4, <2>5, <2>6, <2>7
<1>3. CASE ServiceReleased
  <2>1. /\ Head(queue) = queue[1] /\ 1 \in DOMAIN queue
        /\ \A i \in DOMAIN queue' : /\ queue'[i] = queue[i + 1]
                                   /\ i + 1 \in DOMAIN queue /\ i + 1 # 1
        /\ \A i, j \in DOMAIN queue' : i + 1 = j + 1 => i = j
        /\ Head(queue).of \in Services \cup {Broker}
      BY <1>3, Delivered, MessageTypes
         DEF ServiceReleased, Takes, Advance, PostRemoved
  <2>2. \A i \in DOMAIN queue' : queue'[i].of # Head(queue).of
      BY <1>3, <2>1 DEF ServiceReleased, Takes, Advance, PostRemoved
  <2>3. service[Head(queue).of] = "listed" /\ Head(queue).of \in Services
      BY <1>3, <2>1 DEF ServiceReleased, Takes, Advance, PostRemoved
  <2>4. m_state = "Started"
      BY <1>3, <2>3 DEF ServiceReleased, Takes, Advance, PostRemoved, Alive
  <2>5. OwnerInStep'
      BY <1>3, <2>1, <2>2, <2>3, <2>4
         DEF ServiceReleased, Takes, Advance, PostRemoved
  <2>6. MessagesSound'
    <3>1. \A i \in DOMAIN queue' : MessageSound(i)'
        BY <1>3, <2>1, <2>2, <2>3, <2>4, RuntimeAssumption
           DEF ServiceReleased, Takes, Advance, PostRemoved
    <3>2. MessagesApart'
        BY <1>3, <2>1, <2>2, <2>3, <2>4
           DEF ServiceReleased, Takes, Advance, PostRemoved
    <3>3. KnownSound'
        BY <1>3, <2>1, <2>2, <2>3, <2>4
           DEF ServiceReleased, Takes, Advance, PostRemoved
    <3>4. QED
        BY <3>1, <3>2, <3>3 DEF MessagesSound
  <2>7. ServicesHoused'
      BY <1>3, <2>1, <2>2, <2>3, <2>4
         DEF ServiceReleased, Takes, Advance, PostRemoved
  <2>8. HandlersInStep'
    <3>1. PICK s \in Services : s = Head(queue).of
        BY <2>3
    <3>2. \A t \in Services :
             service'[t] = IF t = s THEN "ending" ELSE service[t]
        BY <1>3, <3>1 DEF ServiceReleased, Takes, Advance, PostRemoved
    <3>3. PICK h \in Packages : h = Home[s]
        BY RuntimeAssumption
    <3>4. s \in Listed(h) /\ Listed(h)' = Listed(h) \ {s}
        BY <2>3, <3>1, <3>2, <3>3 DEF Listed
    <3>5. \A p \in Packages \ {h} : Listed(p)' = Listed(p)
        BY <3>2, <3>3 DEF Listed
    <3>6. /\ Cardinality(Listed(h)) \in Nat /\ Cardinality(Listed(h)') \in Nat
          /\ Cardinality(Listed(h)') = Cardinality(Listed(h)) - 1
      <4>1. Listed(h) \in SUBSET Services
          BY DEF Listed
      <4>2. IsFiniteSet(Listed(h)) /\ Listed(h)' \in SUBSET Services
          BY <3>4, <4>1, FiniteSets
      <4>3. Cardinality(Listed(h) \ {s}) = Cardinality(Listed(h)) - 1
          BY <3>4, <4>2, FS_RemoveElement
      <4>4. QED
          BY <3>4, <4>1, <4>2, <4>3, FiniteSets
    <3>7. /\ UNCHANGED <<shutdown, handler, m_ServiceMap, m_servicecount>>
          /\ UNCHANGED srvcCount
          /\ m_srvcCount' = IF handler[h] \in {"waiting", "unloading"}
                            THEN [m_srvcCount EXCEPT ![h] = Post(@)]
                            ELSE m_srvcCount
        BY <1>3, <3>1, <3>3 DEF ServiceReleased, Takes, Advance, PostRemoved
    <3>8. handler[h] = "waiting" =>
             m_srvcCount'[h] = 1 - Cardinality(Listed(h)')
      <4>1. handler[h] = "waiting" =>
               m_srvcCount[h] = 1 - Cardinality(Listed(h))
          OBVIOUS
      <4>2. QED
          BY <3>6, <3>7, <4>1 DEF Post
    <3>9. \A p \in Packages \ {h} : m_srvcCount'[p] = m_srvcCount[p]
        BY <3>7
    <3>10. handler[h] \notin {"unloading", "done"}
        BY <3>4
    <3>11. QED
        BY <3>5, <3>7, <3>8, <3>9, <3>10
  <2>9. QED
      BY <2>5, <2>6, <2>7, <2>8
<1>4. CASE BrokerReleased
  <2>1. /\ Head(queue) = queue[1] /\ 1 \in DOMAIN queue
        /\ \A i \in DOMAIN queue' : /\ queue'[i] = queue[i + 1]
                                   /\ i + 1 \in DOMAIN queue /\ i + 1 # 1
        /\ \A i, j \in DOMAIN queue' : i + 1 = j + 1 => i = j
        /\ Head(queue).of \in Services \cup {Broker}
      BY <1>4, Delivered, MessageTypes DEF BrokerReleased, Takes
  <2>2. \A i \in DOMAIN queue' : queue'[i].of # Broker
      BY <1>4, <2>1 DEF BrokerReleased, Takes
  <2>3. Alive' = Alive /\ \A p \in Packages : Listed(p)' = Listed(p)
      BY <1>4, SameServices DEF BrokerReleased, Takes
  <2>4. OwnerInStep'
      BY <1>4, <2>1, <2>2, <2>3 DEF BrokerReleased, Takes
  <2>5. MessagesSound'
    <3>1. \A i \in DOMAIN queue' : MessageSound(i)'
        BY <1>4, <2>1, <2>2, <2>3, RuntimeAssumption DEF BrokerReleased, Takes
    <3>2. MessagesApart'
        BY <1>4, <2>1, <2>2, <2>3 DEF BrokerReleased, Takes
    <3>3. KnownSound'
        BY <1>4, <2>1, <2>2, <2>3 DEF BrokerReleased, Takes
    <3>4. QED
        BY <3>1, <3>2, <3>3 DEF MessagesSound
  <2>6. ServicesHoused'
      BY <1>4, <2>1, <2>2, <2>3 DEF BrokerReleased, Takes
  <2>7. HandlersInStep'
      BY <1>4, <2>1, <2>2, <2>3 DEF BrokerReleased, Takes
  <2>8. QED
      BY <2>4, <2>5, <2>6, <2>7
<1>5. CASE RuntimeStopped
  <2>1. DOMAIN queue = {}
      BY <1>5, NoMessages DEF RuntimeStopped, Post
  <2>2. \A s \in Alive : service[s] = "failed"
      BY <1>5 DEF RuntimeStopped, Post, Alive
  <2>3. Alive' = Alive /\ \A p \in Packages : Listed(p)' = Listed(p)
      BY <1>5, SameServices DEF RuntimeStopped, Post
  <2>4. OwnerInStep'
      BY <1>5, <2>1, <2>2, <2>3 DEF RuntimeStopped, Post
  <2>5. MessagesSound'
      BY <1>5, <2>1, <2>2, <2>3 DEF RuntimeStopped, Post
  <2>6. ServicesHoused'
      BY <1>5, <2>1, <2>2, <2>3 DEF RuntimeStopped, Post
  <2>7. HandlersInStep'
      BY <1>5, <2>1, <2>2, <2>3 DEF RuntimeStopped, Post
  <2>8. QED
      BY <2>4, <2>5, <2>6, <2>7
<1>6. CASE \E s \in Services : DestructorReturns(s)
  <2>1. PICK s \in Services : DestructorReturns(s)
      BY <1>6 DEF DestructorReturns, Advance
  <2>2. service[s] = "ending" /\ ending = {s}
      BY <1>6, <2>1 DEF DestructorReturns, Advance
  <2>3. m_state = "Started"
      BY <1>6, <2>2 DEF DestructorReturns, Advance, Alive
  <2>4. \A t \in Services :
           service'[t] = IF t = s THEN "deleted" ELSE service[t]
      BY <1>6, <2>1 DEF DestructorReturns, Advance
  <2>5. \A p \in Packages : Listed(p)' = Listed(p)
      BY <1>6, <2>2, <2>4 DEF DestructorReturns, Advance, Listed
  <2>6. OwnerInStep'
      BY <1>6, <2>1, <2>2, <2>3, <2>4, <2>5 DEF DestructorReturns, Advance
  <2>7. MessagesSound'
      BY <1>6, <2>1, <2>2, <2>3, <2>4, <2>5 DEF DestructorReturns, Advance
  <2>8. ServicesHoused'
    <3>1. /\ ending' = {}
          /\ m_state' = m_state /\ shutdown' = shutdown
          /\ loaded' = loaded /\ m_ServiceMap' = m_ServiceMap
        BY <2>1 DEF DestructorReturns
    <3>2. \A t \in Services : service'[t] # "ending"
        BY <2>2, <2>4
    <3>3. \A t \in Services : service'[t] # "deleted" => service'[t] = service[t]
        BY <2>4
    <3>4. QED
        BY <2>3, <3>1, <3>2, <3>3
  <2>9. HandlersInStep'
      BY <1>6, <2>1, <2>2, <2>3, <2>4, <2>5 DEF DestructorReturns, Advance
  <2>10. QED
      BY <2>6, <2>7, <2>8, <2>9
<1>7. QED
    BY <1>1, <1>2, <1>3, <1>4, <1>5, <1>6 DEF Delivers

\* The steps of the shutdown thread.
LEMMA ShutdownOrderly ==
    ASSUME TypeInv, Orderly, ~rushed', ShutdownActs
    PROVE  Orderly'
<1> USE DEF TypeInv, TypeOK, Orderly, OwnerInStep, MessagesSound, MessageSound,
            MessagesApart, KnownSound, ServicesHoused, HandlersInStep, runtime,
            delivery, packages, services, down
<1>1. CASE DoShutdown
  <2>1. m_state = "Started" /\ \A p \in Packages : handler[p] = "off"
      BY <1>1 DEF DoShutdown, Handled
  <2>2. \A i \in DOMAIN queue : FALSE
    <3>1. SUFFICES ASSUME NEW i \in DOMAIN queue
                   PROVE  FALSE
        OBVIOUS
    <3>2. /\ queue[i].of \in Services \cup {Broker}
          /\ queue[i].kind \in {"allocated", "released"}
        BY MessageTypes
    <3>3. CASE queue[i].of = Broker
        BY <1>1, <2>1, <3>2, <3>3 DEF DoShutdown
    <3>4. CASE queue[i].of # Broker
        BY <1>1, <2>1, <3>2, <3>4, RuntimeAssumption DEF DoShutdown
    <3>5. QED
        BY <3>3, <3>4
  <2>3. Alive' = Alive /\ \A p \in Packages : Listed(p)' = Listed(p)
      BY <1>1, SameServices DEF DoShutdown, Handled
  <2>4. \A s \in Services : service[s] \notin {"initialising", "failing"}
      BY <1>1 DEF DoShutdown, Handled
  <2>5. m_ServiceMap # {} => srvcCount' = 1 - m_servicecount'
      BY <1>1, FiniteSets, FS_EmptySet DEF DoShutdown, Handled, CountUp
  <2>6. OwnerInStep'
      BY <1>1, <2>1, <2>2, <2>3, <2>4, <2>5 DEF DoShutdown, Handled
  <2>7. MessagesSound'
      BY <1>1, <2>1, <2>2, <2>3, <2>4, <2>5 DEF DoShutdown, Handled
  <2>8. ServicesHoused'
      BY <1>1, <2>1, <2>2, <2>3, <2>4, <2>5 DEF DoShutdown, Handled
  <2>9. HandlersInStep'
      BY <1>1, <2>1, <2>2, <2>3, <2>4, <2>5 DEF DoShutdown, Handled
  <2>10. QED
      BY <2>6, <2>7, <2>8, <2>9
<1>2. CASE ShutdownDone
  <2>1. m_state = "Started"
      BY <1>2 DEF ShutdownDone
  <2>2. \A s \in Services : service[s] # "initialising" /\ service[s] # "listed"
    <3>1. SUFFICES ASSUME NEW s \in Services, service[s] = "listed"
                   PROVE  FALSE
        BY <1>2 DEF ShutdownDone
    <3>2. PICK p \in Packages : p = Home[s]
        BY RuntimeAssumption
    <3>3. handler[p] # "off" /\ Listed(p) # {}
        BY <1>2, <3>1, <3>2 DEF ShutdownDone, Listed
    <3>4. m_servicecount = 0
        BY <1>2, <3>3 DEF ShutdownDone, AllHandled
    <3>5. ActiveHandlers = {}
      <4>1. IsFiniteSet(ActiveHandlers) /\ Cardinality(ActiveHandlers) \in Nat
          BY FiniteSets DEF ActiveHandlers
      <4>2. Cardinality(ActiveHandlers) = 0
          BY <3>4, <4>1 DEF HandlersCounted
      <4>3. QED
          BY <4>1, <4>2, FS_EmptySet
    <3>6. ~Active(p)
        BY <3>5 DEF ActiveHandlers
    <3>7. QED
        BY <3>3, <3>6 DEF Active
  <2>3. \A i \in DOMAIN queue : FALSE
      BY <1>2, <2>1, <2>2, MessageTypes DEF ShutdownDone
  <2>4. Alive' = Alive /\ \A p \in Packages : Listed(p)' = Listed(p)
      BY <1>2, SameServices DEF ShutdownDone
  <2>5. \A i \in DOMAIN queue' : /\ accepts /\ i = 1
                                /\ queue'[i] = Released(Broker, FALSE)
    <3>1. Len(queue) = 0 /\ DOMAIN queue = {}
        BY <2>3
    <3>2. CASE m_servicecount > 0
      <4>1. queue' = queue
          BY <1>2, <3>2 DEF ShutdownDone, Schedule
      <4>2. QED
          BY <3>1, <4>1
    <3>3. CASE ~(m_servicecount > 0)
      <4>1. Schedule(<<Released(Broker, FALSE)>>)
          BY <1>2, <3>3 DEF ShutdownDone
      <4>2. Released(Broker, FALSE) \in Message
          BY MessageTypes
      <4>3. QED
          BY <2>3, <4>1, <4>2, ScheduledAlone
    <3>4. QED
        BY <3>2, <3>3
  <2>6. OwnerInStep'
      BY <1>2, <2>1, <2>2, <2>3, <2>4, <2>5 DEF ShutdownDone
  <2>7. MessagesSound'
    <3>1. \A i \in DOMAIN queue' :
             queue'[i].of = Broker /\ queue'[i].kind = "released"
        BY <2>5 DEF Released
    <3>2. /\ shutdown' = "done" /\ m_state' = "Started"
          /\ accepts' = accepts
        BY <1>2, <2>1 DEF ShutdownDone
    <3>3. \A i \in DOMAIN queue' : i = 1
        BY <2>5
    <3>4. \A i \in DOMAIN queue' : accepts
        BY <2>5
    <3>5. QED
        BY <3>1, <3>2, <3>3, <3>4
  <2>8. ServicesHoused'
      BY <1>2, <2>1, <2>2, <2>3, <2>4, <2>5 DEF ShutdownDone
  <2>9. HandlersInStep'
      BY <1>2, <2>1, <2>2, <2>3, <2>4, <2>5 DEF ShutdownDone
  <2>10. QED
      BY <2>6, <2>7, <2>8, <2>9
<1>3. QED
    BY <1>1, <1>2 DEF ShutdownActs

\* The steps of the handlers.
LEMMA HandlerOrderly ==
    ASSUME TypeInv, Orderly, ~rushed', NEW p \in Packages, HandlerActs(p)
    PROVE  Orderly'
<1> USE DEF TypeInv, TypeOK, Orderly, OwnerInStep, MessagesSound, MessageSound,
            MessagesApart, KnownSound, ServicesHoused, HandlersInStep, runtime,
            delivery, packages, services, down
<1>1. CASE DestroyEmpty(p)
  <2>1. shutdown \notin {"off", "started"}
      BY <1>1 DEF DestroyEmpty, NothingListed, Handles
  <2>2. Alive' = Alive /\ \A q \in Packages : Listed(q)' = Listed(q)
      BY <1>1, SameServices DEF DestroyEmpty, NothingListed, Handles
  <2>3. \A q \in Packages :
           handler'[q] = IF q = p THEN "unloading" ELSE handler[q]
      BY <1>1 DEF DestroyEmpty, NothingListed, Handles
  <2>4. OwnerInStep'
      BY <1>1, <2>1, <2>2, <2>3 DEF DestroyEmpty, NothingListed, Handles
  <2>5. MessagesSound'
    <3>1. SUFFICES ASSUME NEW i \in DOMAIN queue, queue[i].of # Broker
                   PROVE  Home[queue[i].of] # p
        BY <1>1, <2>1, <2>2, <2>3, MessageTypes, RuntimeAssumption
           DEF DestroyEmpty, NothingListed, Handles
    <3>2. /\ queue[i].of \in Services /\ service[queue[i].of] = "listed"
          /\ handler[Home[queue[i].of]] = "waiting"
        BY <2>1, <2>2, <2>3, <3>1, MessageTypes
    <3>3. QED
        BY <1>1, <2>1, <2>2, <2>3, <3>2 DEF DestroyEmpty, NothingListed, Handles
  <2>6. ServicesHoused'
      BY <1>1, <2>1, <2>2, <2>3 DEF DestroyEmpty, NothingListed, Handles
  <2>7. HandlersInStep'
      BY <1>1, <2>1, <2>2, <2>3 DEF DestroyEmpty, NothingListed, Handles
  <2>8. QED
      BY <2>4, <2>5, <2>6, <2>7
<1>2. CASE Destroy(p)
  <2>1. shutdown \notin {"off", "started"}
      BY <1>2 DEF Destroy, NothingListed, Handles
  <2>2. Alive' = Alive /\ \A q \in Packages : Listed(q)' = Listed(q)
      BY <1>2, SameServices DEF Destroy, NothingListed, Handles
  <2>3. \A q \in Packages :
           handler'[q] = IF q = p THEN "waiting" ELSE handler[q]
      BY <1>2 DEF Destroy, NothingListed, Handles
  <2>4. OwnerInStep'
      BY <1>2, <2>1, <2>2, <2>3 DEF Destroy, NothingListed, Handles
  <2>5. MessagesSound'
    <3>1. \A i \in DOMAIN queue : queue[i].of # Broker => Home[queue[i].of] # p
      <4>1. SUFFICES ASSUME NEW i \in DOMAIN queue, queue[i].of # Broker
                     PROVE  Home[queue[i].of] # p
          OBVIOUS
      <4>2. handler[Home[queue[i].of]] = "waiting"
          BY <2>1, <4>1, MessageTypes
      <4>3. QED
          BY <1>2, <4>2 DEF Destroy
    <3>2. /\ \A i \in DOMAIN queue' :
                \/ i \in DOMAIN queue /\ queue'[i] = queue[i]
                \/ /\ i \notin DOMAIN queue
                   /\ queue'[i].of \in Listed(p) /\ queue'[i].kind = "released"
          /\ \A i, j \in DOMAIN queue' :
                queue'[i].of = queue'[j].of => i = j
        BY <1>2, <3>1, ReleasedApart DEF Destroy
    <3>3. \A s \in Listed(p) : /\ s \in Services /\ s # Broker
                               /\ service[s] = "listed" /\ Home[s] = p
        BY RuntimeAssumption DEF Listed
    <3>4. /\ owner' = owner /\ m_sem' = m_sem /\ m_state' = m_state
          /\ accepts' = accepts /\ shutdown' = shutdown /\ service' = service
        BY <1>2 DEF Destroy
    <3>5. ASSUME NEW i \in DOMAIN queue'
          PROVE  MessageSound(i)'
      <4>1. CASE i \in DOMAIN queue /\ queue'[i] = queue[i]
        <5>1. queue[i].of \in Services \cup {Broker}
            BY <4>1, MessageTypes
        <5>2. queue[i].of # Broker => Home[queue[i].of] \in Packages
            BY <5>1, RuntimeAssumption
        <5>3. QED
            BY <2>3, <3>1, <3>4, <4>1, <5>2
      <4>2. CASE queue'[i].of \in Listed(p)
          BY <2>3, <3>3, <3>4, <4>2
      <4>3. QED
          BY <3>2, <4>1, <4>2
    <3>6. QED
        BY <2>1, <3>2, <3>4, <3>5
  <2>6. ServicesHoused'
      BY <1>2, <2>1, <2>2, <2>3 DEF Destroy, NothingListed, Handles
  <2>7. HandlersInStep'
    <3>1. /\ IsFiniteSet(Listed(p)) /\ Cardinality(Listed(p)) \in Nat
          /\ Listed(p) # {}
        BY <1>2, FiniteSets DEF Destroy, NothingListed, Listed
    <3>2. m_srvcCount'[p] = 1 - Cardinality(Listed(p))
        BY <1>2, <3>1, FS_EmptySet DEF Destroy, CountUp
    <3>3. \A q \in Packages \ {p} : m_srvcCount'[q] = m_srvcCount[q]
        BY <1>2 DEF Destroy
    <3>4. /\ shutdown' = shutdown /\ m_ServiceMap' = m_ServiceMap
          /\ srvcCount' = srvcCount /\ m_servicecount' = m_servicecount
          /\ handler[p] = "destroying"
        BY <1>2 DEF Destroy
    <3>5. QED
        BY <2>1, <2>2, <2>3, <3>2, <3>3, <3>4
  <2>8. QED
      BY <2>4, <2>5, <2>6, <2>7
<1>3. CASE DestroyReturns(p)
  <2>1. shutdown \notin {"off", "started"}
      BY <1>3 DEF DestroyReturns, Handles
  <2>2. Alive' = Alive /\ \A q \in Packages : Listed(q)' = Listed(q)
      BY <1>3, SameServices DEF DestroyReturns, Handles
  <2>3. \A q \in Packages :
           handler'[q] = IF q = p THEN "unloading" ELSE handler[q]
      BY <1>3 DEF DestroyReturns, Handles
  <2>4. Listed(p) = {}
    <3>1. IsFiniteSet(Listed(p)) /\ Cardinality(Listed(p)) \in Nat
        BY FiniteSets DEF Listed
    <3>2. m_srvcCount[p] = 1 - Cardinality(Listed(p)) /\ m_srvcCount[p] > 0
        BY <1>3 DEF DestroyReturns
    <3>3. Cardinality(Listed(p)) = 0
        BY <3>1, <3>2
    <3>4. QED
        BY <3>1, <3>3, FS_EmptySet
  <2>5. OwnerInStep'
      BY <1>3, <2>1, <2>2, <2>3, <2>4 DEF DestroyReturns, Handles
  <2>6. MessagesSound'
    <3>1. SUFFICES ASSUME NEW i \in DOMAIN queue, queue[i].of # Broker
                   PROVE  Home[queue[i].of] # p
        BY <1>3, <2>1, <2>2, <2>3, <2>4, MessageTypes, RuntimeAssumption
           DEF DestroyReturns, Handles
    <3>2. /\ queue[i].of \in Services /\ service[queue[i].of] = "listed"
          /\ handler[Home[queue[i].of]] = "waiting"
        BY <2>1, <2>2, <2>3, <2>4, <3>1, MessageTypes
    <3>3. queue[i].of \notin Listed(p)
        BY <2>1, <2>2, <2>3, <2>4
    <3>4. QED
        BY <3>2, <3>3 DEF Listed
  <2>7. ServicesHoused'
      BY <1>3, <2>1, <2>2, <2>3, <2>4 DEF DestroyReturns, Handles
  <2>8. HandlersInStep'
      BY <1>3, <2>1, <2>2, <2>3, <2>4 DEF DestroyReturns, Handles
  <2>9. QED
      BY <2>5, <2>6, <2>7, <2>8
<1>4. CASE Unload(p)
  <2>1. shutdown \notin {"off", "started"}
      BY <1>4 DEF Unload, Handles
  <2>2. Alive' = Alive /\ \A q \in Packages : Listed(q)' = Listed(q)
      BY <1>4, SameServices DEF Unload, Handles
  <2>3. \A q \in Packages : handler'[q] = IF q = p THEN "done" ELSE handler[q]
      BY <1>4 DEF Unload, Handles
  <2>4. Listed(p) = {}
      BY <1>4 DEF Unload, Handles
  <2>5. OwnerInStep'
      BY <1>4, <2>1, <2>2, <2>3, <2>4 DEF Unload, Handles
  <2>6. MessagesSound'
    <3>1. SUFFICES ASSUME NEW i \in DOMAIN queue, queue[i].of # Broker
                   PROVE  Home[queue[i].of] # p
        BY <1>4, <2>1, <2>2, <2>3, <2>4, MessageTypes, RuntimeAssumption
           DEF Unload, Handles
    <3>2. /\ queue[i].of \in Services /\ service[queue[i].of] = "listed"
          /\ handler[Home[queue[i].of]] = "waiting"
        BY <2>1, <2>2, <2>3, <2>4, <3>1, MessageTypes
    <3>3. QED
        BY <1>4, <2>1, <2>2, <2>3, <2>4, <3>2 DEF Unload, Handles
  <2>7. ServicesHoused'
    <3>1. \A s \in Services :
             service[s] \in {"initialising", "listed"} => Home[s] # p
        BY <2>1, <2>4 DEF Listed
    <3>2. QED
        BY <1>4, <2>1, <2>2, <3>1 DEF Unload
  <2>8. HandlersInStep'
    <3>1. p \in ActiveHandlers
        BY <1>4 DEF Unload, ActiveHandlers, Active
    <3>2. m_servicecount # 0
      <4>1. /\ IsFiniteSet(ActiveHandlers)
            /\ Cardinality(ActiveHandlers) \in Nat
          BY FiniteSets DEF ActiveHandlers
      <4>2. Cardinality(ActiveHandlers) # 0
          BY <3>1, <4>1, FS_EmptySet
      <4>3. QED
          BY <4>1, <4>2 DEF HandlersCounted
    <3>3. shutdown = "waiting" => srvcCount = 1 - m_servicecount
        BY <1>4 DEF Unload
    <3>4. shutdown = "waiting" => srvcCount' = 1 - m_servicecount'
        BY <1>4, <3>2, <3>3 DEF Unload, Post
    <3>5. /\ shutdown' = shutdown /\ m_ServiceMap' = m_ServiceMap
          /\ m_srvcCount' = m_srvcCount
        BY <1>4 DEF Unload
    <3>6. QED
        BY <2>1, <2>2, <2>3, <2>4, <3>4, <3>5
  <2>9. QED
      BY <2>5, <2>6, <2>7, <2>8
<1>5. QED
    BY <1>1, <1>2, <1>3, <1>4 DEF HandlerActs

\* Every step of a runtime that is stopped in order keeps the invariant.
LEMMA Inductive ==
    ASSUME FailsAlone
    PROVE  TypeInv /\ IInv /\ [Next]_vars => IInv'
<1>1. SUFFICES ASSUME TypeInv, IInv, [Next]_vars, ~rushed'
               PROVE  Orderly'
    BY DEF IInv
<1>2. CASE UNCHANGED vars
  <2>1. ~rushed
      BY <1>1, <1>2 DEF vars
  <2>2. Orderly
      BY <1>1, <2>1 DEF IInv
  <2>3. Alive' = Alive /\ \A q \in Packages : Listed(q)' = Listed(q)
      BY <1>2, SameServices DEF vars, services
  <2>4. QED
      BY <1>2, <2>2, <2>3
         DEF Orderly, OwnerInStep, MessagesSound, MessageSound, MessagesApart,
             KnownSound, ServicesHoused, HandlersInStep, vars, runtime,
             delivery, packages, services, down
<1>3. CASE Next
  <2>1. ~rushed
    <3>1. rushed \in BOOLEAN
        BY <1>1 DEF TypeInv, TypeOK
    <3>2. QED
        BY <1>1, <1>3, <3>1, Zenon
           DEF Next, OwnerActs, ClientActs, ServiceActs, Delivers,
               ShutdownActs, HandlerActs, Start, StartReturns, Stop, StopAgain,
               Delete, ReleaseBroker, DeleteResumes, DeleteStopped, Leave,
               AllocService, AllocServiceFails, Release, ClientActing,
               InitDone, InitFails, FailureTold, FailedDestroyed,
               ServiceAllocated, BrokerAllocated, ServiceReleased,
               DestructorReturns, BrokerReleased, RuntimeStopped, DoShutdown,
               ShutdownDone, DestroyEmpty, Destroy, DestroyReturns, Unload
  <2>2. Orderly
      BY <1>1, <2>1 DEF IInv
  <2>3. QED
      BY <1>1, <1>3, <2>2, OwnerOrderly, ClientOrderly, DeliveryOrderly,
         ShutdownOrderly, HandlerOrderly
         DEF Next, ClientActs, ServiceActs
<1>4. QED
    BY <1>1, <1>2, <1>3

\* _runtime::stop() and ~_runtime(): when runtimeStopped() is called, and when
\* the runtime is deleted, no service is left that anybody could use, however
\* the threads interleave: only one that could not initialise itself, and whose
\* client was told so, may still wait for the thread that deletes it.
THEOREM StopShutsDown ==
    ASSUME FailsAlone
    PROVE  Spec => []StoppedMeansShutDown
<1>1. IInv => StoppedMeansShutDown
    BY DEF IInv, Orderly, OwnerInStep, ServicesHoused, StoppedMeansShutDown
<1>2. QED
    BY Initial, TypeKept, Inductive, <1>1, PTL DEF Spec

\* AALServiceModule::Destroy(): the broker unloads no library while a service
\* of it initialises itself or is on its module's list.
THEOREM UnloadedEmpty ==
    ASSUME FailsAlone
    PROVE  Spec => []UnloadedIsEmpty
<1>1. IInv => UnloadedIsEmpty
    BY DEF IInv, Orderly, ServicesHoused, UnloadedIsEmpty
<1>2. QED
    BY Initial, TypeKept, Inductive, <1>1, PTL DEF Spec

===============================================================================
