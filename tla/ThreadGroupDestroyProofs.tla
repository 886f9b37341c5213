----------------------- MODULE ThreadGroupDestroyProofs ------------------------
(***************************************************************************)
(* Destroy() deletes the state of a ThreadGroup when no other thread is     *)
(* inside a call on it: for any number of workers, clients and items, and   *)
(* for any calls these make.                                                *)
(*                                                                         *)
(* A thread may be inside a call in two ways.  It may wait in Drain():      *)
(* m_DrainNestLevel, which the joiner waits for, counts exactly these.  Or  *)
(* it may be in Join() or Destroy() itself: there are at most two of them,  *)
(* the joiner and one follower, and the follower ends last.                 *)
(*                                                                         *)
(* What the two destructors then assert holds as well; that the queue is    *)
(* empty takes a program that leaves the joining to Destroy().              *)
(***************************************************************************)
EXTENDS ThreadGroupProofs

--------------------------------------------------------------------------------
(* The nest level counts the drains. *)

\* The clients inside Drain(), and the drains of the workers, each with its number.
Calling == {"blocked", "drained"}
Callers == {c \in Clients : pc[c] \in Calling}
Holds == {p \in Workers \X Nat : p[2] # 0 /\ p[2] <= selfDrains[p[1]]}

NestExact ==
    /\ IsFiniteSet(Holds)
    /\ nestLevel = Cardinality(Callers) + Cardinality(Holds)

\* The clients can be counted.
LEMMA CallersFinite == IsFiniteSet(Callers) /\ Cardinality(Callers) \in Nat
<1>1. Callers \in SUBSET Clients
    BY DEF Callers
<1>2. QED
    BY <1>1, ThreadGroupAssumption, FS_Subset, FS_CardinalityType

\* A client inside Drain() keeps the nest level above zero.
LEMMA CallerNests ==
    ASSUME NestExact, NEW c \in Clients, pc[c] \in Calling
    PROVE  nestLevel > 0
<1>1. Cardinality(Callers) # 0
    BY CallersFinite, FS_EmptySet DEF Callers
<1>2. Cardinality(Holds) \in Nat
    BY FS_CardinalityType DEF NestExact
<1>3. QED
    BY <1>1, <1>2, CallersFinite DEF NestExact

\* A step that begins and ends no drain.
LEMMA NestKept ==
    ASSUME TypeInv, NestExact, NEW t \in Threads, NEW l, Goto(t, l),
           t \in Clients => (pc[t] \in Calling <=> l \in Calling),
           selfDrains' = selfDrains, nestLevel' = nestLevel
    PROVE  NestExact'
<1>1. pc' = [pc EXCEPT ![t] = l] /\ pc \in [Threads -> Places]
    BY DEF Goto, TypeInv, TypeOK
<1>2. Callers' = Callers
    BY <1>1 DEF Callers, Threads
<1>3. Holds' = Holds
    BY DEF Holds
<1>4. QED
    BY <1>2, <1>3 DEF NestExact

\* A client comes into Drain(), or leaves it.
LEMMA CallerComes ==
    ASSUME TypeInv, NestExact, NEW c \in Clients, NEW l \in Calling, Goto(c, l),
           pc[c] \notin Calling,
           selfDrains' = selfDrains, nestLevel' = nestLevel + 1
    PROVE  NestExact'
<1>1. pc' = [pc EXCEPT ![c] = l] /\ pc \in [Threads -> Places] /\ c \in Threads
    BY DEF Goto, TypeInv, TypeOK, Threads
<1>2. Callers' = Callers \cup {c} /\ c \notin Callers
    BY <1>1 DEF Callers, Threads
<1>3. Cardinality(Callers') = Cardinality(Callers) + 1
    BY <1>2, CallersFinite, FS_AddElement
<1>4. Holds' = Holds /\ Cardinality(Holds) \in Nat
    BY FS_CardinalityType DEF Holds, NestExact
<1>5. QED
    BY <1>3, <1>4, CallersFinite DEF NestExact

LEMMA CallerGoes ==
    ASSUME TypeInv, NestExact, NEW c \in Clients, NEW l, Goto(c, l),
           pc[c] \in Calling, l \notin Calling,
           selfDrains' = selfDrains, nestLevel' = nestLevel - 1
    PROVE  NestExact'
<1>1. pc' = [pc EXCEPT ![c] = l] /\ pc \in [Threads -> Places] /\ c \in Threads
    BY DEF Goto, TypeInv, TypeOK, Threads
<1>2. Callers' = Callers \ {c} /\ c \in Callers
    BY <1>1 DEF Callers, Threads
<1>3. Cardinality(Callers') = Cardinality(Callers) - 1
    BY <1>2, CallersFinite, FS_RemoveElement
<1>4. Holds' = Holds /\ Cardinality(Holds) \in Nat
    BY FS_CardinalityType DEF Holds, NestExact
<1>5. QED
    BY <1>3, <1>4, CallersFinite DEF NestExact

\* The same for a worker, which m_SelfDrainers holds once for each drain.
LEMMA WorkerComes ==
    ASSUME TypeInv, NestExact, NEW w \in Workers,
           selfDrains' = [selfDrains EXCEPT ![w] = @ + 1],
           nestLevel' = nestLevel + 1, Callers' = Callers
    PROVE  NestExact'
<1>1. selfDrains \in [Workers -> Nat] /\ selfDrains[w] \in Nat
    BY DEF TypeInv, TypeOK
<1> DEFINE new == <<w, selfDrains[w] + 1>>
<1>2. ASSUME NEW p \in Workers \X Nat
      PROVE  p \in Holds' <=> p \in Holds \/ p = new
  <2>1. CASE p[1] = w
      BY <1>1, <2>1 DEF Holds
  <2>2. CASE p[1] # w
      BY <1>1, <2>2 DEF Holds
  <2>3. QED
      BY <2>1, <2>2
<1>3. new \in Workers \X Nat /\ new \notin Holds
    BY <1>1 DEF Holds
<1>4. Holds' = Holds \cup {new}
  <2>1. Holds \subseteq Workers \X Nat /\ Holds' \subseteq Workers \X Nat
      BY DEF Holds
  <2>2. QED
      BY <1>2, <1>3, <2>1
<1>5. IsFiniteSet(Holds') /\ Cardinality(Holds') = Cardinality(Holds) + 1
    BY <1>3, <1>4, FS_AddElement DEF NestExact
<1>6. Cardinality(Holds) \in Nat
    BY FS_CardinalityType DEF NestExact
<1>7. QED
    BY <1>5, <1>6, CallersFinite DEF NestExact

LEMMA WorkerGoes ==
    ASSUME TypeInv, NestExact, NEW w \in Workers, NEW n \in 0..selfDrains[w],
           selfDrains' = [selfDrains EXCEPT ![w] = @ - n],
           nestLevel' = nestLevel - Smaller(n, nestLevel), Callers' = Callers
    PROVE  NestExact'
<1>1. selfDrains \in [Workers -> Nat] /\ selfDrains[w] \in Nat /\ n \in Nat
    BY DEF TypeInv, TypeOK
<1> DEFINE had == selfDrains[w]
           rest == had - n
           over == {w} \X ((rest + 1)..had)
<1>2. rest \in Nat /\ rest <= had /\ had \in Nat /\ selfDrains'[w] = rest
    BY <1>1
<1>3. ASSUME NEW p \in Workers \X Nat
      PROVE  p \in Holds' <=> p \in Holds /\ p \notin over
  <2>1. CASE p[1] = w
    <3>1. p \in Holds' <=> p[2] # 0 /\ p[2] <= rest
        BY <1>2, <2>1 DEF Holds
    <3>2. p \in Holds <=> p[2] # 0 /\ p[2] <= had
        BY <2>1 DEF Holds
    <3>3. p = <<w, p[2]>> /\ p[2] \in Nat
        BY <2>1
    <3>4. p \in over <=> rest + 1 <= p[2] /\ p[2] <= had
        BY <1>2, <3>3
    <3>5. ASSUME NEW k \in Nat
          PROVE  k <= rest <=> k <= had /\ ~(rest + 1 <= k /\ k <= had)
        BY <1>2
    <3> HIDE DEF rest, over, had
    <3>6. p[2] <= rest <=> p[2] <= had /\ ~(rest + 1 <= p[2] /\ p[2] <= had)
        BY <3>3, <3>5
    <3>7. QED
        BY <3>1, <3>2, <3>4, <3>6, Zenon
  <2>2. CASE p[1] # w
    <3>1. p \notin over
        BY <2>2
    <3>2. p \in Holds' <=> p \in Holds
        BY <1>1, <2>2 DEF Holds
    <3>3. QED
        BY <3>1, <3>2
  <2>3. QED
      BY <2>1, <2>2
<1>4. over \subseteq Holds
  <2>1. ASSUME NEW k \in (rest + 1)..had
        PROVE  <<w, k>> \in Holds
    <3>1. k \in Nat /\ k # 0 /\ k <= had
        BY <1>2
    <3>2. QED
        BY <3>1 DEF Holds
  <2> HIDE DEF rest, had
  <2>2. QED
      BY <2>1
<1>5. Holds' = Holds \ over
  <2>1. Holds \subseteq Workers \X Nat /\ Holds' \subseteq Workers \X Nat
      BY DEF Holds
  <2> HIDE DEF over
  <2>2. QED
      BY <1>3, <2>1
<1>6. Cardinality(over) = n
  <2>1. \A a, b \in Int : /\ IsFiniteSet(a..b)
                          /\ Cardinality(a..b) = IF a > b THEN 0 ELSE b - a + 1
      BY FS_Interval
  <2>2. rest + 1 \in Int /\ had \in Int
      BY <1>2
  <2>3. (IF rest + 1 > had THEN 0 ELSE had - (rest + 1) + 1) = n
      BY <1>1
  <2> HIDE DEF rest, had
  <2>4. IsFiniteSet((rest + 1)..had) /\ Cardinality((rest + 1)..had) = n
      BY <2>1, <2>2, <2>3
  <2>5. IsFiniteSet({w}) /\ Cardinality({w}) = 1
      BY FS_Singleton
  <2>6. Cardinality(over) = Cardinality({w}) * Cardinality((rest + 1)..had)
      BY <2>4, <2>5, FS_Product
  <2>7. QED
      BY <1>1, <2>4, <2>5, <2>6
<1> HIDE DEF over
<1>7. /\ IsFiniteSet(Holds')
      /\ Cardinality(Holds') = Cardinality(Holds) - n
      /\ n <= Cardinality(Holds)
  <2>1. IsFiniteSet(Holds) /\ Holds \cap over = over
      BY <1>4 DEF NestExact
  <2>2. n <= Cardinality(Holds)
    <3>1. over \in SUBSET Holds
        BY <1>4
    <3>2. QED
        BY <1>6, <2>1, <3>1, FS_Subset
  <2>3. QED
    <3>1. /\ IsFiniteSet(Holds \ over)
          /\ Cardinality(Holds \ over) =
                Cardinality(Holds) - Cardinality(Holds \cap over)
        BY <2>1, FS_Difference
    <3>2. QED
        BY <1>5, <1>6, <2>1, <2>2, <3>1
<1>8. Cardinality(Holds) \in Nat /\ Cardinality(Holds') \in Nat
    BY <1>7, FS_CardinalityType DEF NestExact
<1>9. nestLevel' = nestLevel - n
  <2>1. nestLevel \in Nat /\ n <= nestLevel
      BY <1>1, <1>7, <1>8, CallersFinite DEF NestExact
  <2>2. QED
      BY <1>1, <2>1 DEF Smaller
<1>10. QED
    BY <1>1, <1>7, <1>8, <1>9, CallersFinite DEF NestExact

\* The calls count the drains: each begins one and ends one.
LEMMA CallNests ==
    ASSUME TypeInv, Leaving, NestExact, NEW t \in Threads, CallActs(t)
    PROVE  NestExact'
<1> USE DEF poolVars, joinVars, drainVars
<1>1. \A call : MayCall(t, call) => pc[t] \in {"idle", "run"}
    BY DEF MayCall
<1>2. t \in Clients => t \notin Workers
    BY ThreadGroupAssumption
<1>3. CASE DrainBegins(t)
  <2>1. nestLevel' = nestLevel + 1 /\ pc[t] \in {"idle", "run"}
      BY <1>1, <1>3 DEF DrainBegins, Begin
  <2>2. CASE t \in running
    <3>1. t \in Workers
        BY <2>2 DEF TypeInv, TypeOK
    <3>2. selfDrains' = [selfDrains EXCEPT ![t] = @ + 1] /\ Goto(t, "drainHeld")
        BY <1>3, <2>2 DEF DrainBegins
    <3>3. Callers' = Callers
        BY <1>2, <3>1, <3>2 DEF Callers, Goto, TypeInv, TypeOK, Threads
    <3>4. QED
        BY <2>1, <3>1, <3>2, <3>3, WorkerComes
  <2>3. CASE t \notin running
    <3>1. t \in Clients
        BY <1>3, <2>3, Caller DEF DrainBegins, Leaving, RunningAtWork, Left, Threads
    <3>2. selfDrains' = selfDrains /\ Goto(t, "blocked")
        BY <1>3, <2>3 DEF DrainBegins
    <3>3. QED
        BY <2>1, <3>1, <3>2, CallerComes DEF Calling
  <2>4. QED
      BY <2>2, <2>3
<1>4. CASE DrainEnds(t)
  <2>1. pc[t] = "drained" /\ nestLevel' = LevelAfter(t) /\ Return(t)
      BY <1>4 DEF DrainEnds
  <2>2. nestLevel \in Nat /\ selfDrains \in [Workers -> Nat]
      BY DEF TypeInv, TypeOK
  <2>3. CASE t \in Clients
    <3>1. nestLevel' = nestLevel - 1
        BY <2>1, <2>3, CallerNests DEF LevelAfter, KnownDrainer, Calling
    <3>2. selfDrains' = selfDrains
        BY <1>2, <1>4, <2>3 DEF DrainEnds
    <3>3. Goto(t, "idle")
        BY <1>2, <2>1, <2>3 DEF Return
    <3>4. QED
        BY <2>1, <2>3, <3>1, <3>2, <3>3, CallerGoes DEF Calling
  <2>4. CASE t \in Workers /\ selfDrains[t] > 0
    <3>1. 1 \in 0..selfDrains[t]
        BY <2>2, <2>4
    <3>2. nestLevel' = nestLevel - Smaller(1, nestLevel)
        BY <2>1, <2>2, <2>4 DEF LevelAfter, KnownDrainer, Smaller
    <3>3. selfDrains' = [selfDrains EXCEPT ![t] = @ - 1]
        BY <1>4, <2>4 DEF DrainEnds, KnownDrainer
    <3>4. Callers' = Callers
        BY <1>2, <2>1, <2>4 DEF Callers, Return, Goto, TypeInv, TypeOK, Threads
    <3>5. QED
        BY <2>4, <3>1, <3>2, <3>3, <3>4, WorkerGoes
  <2>5. CASE t \in Workers /\ ~(selfDrains[t] > 0)
    <3>1. t \notin Clients
        BY <1>2, <2>5
    <3>2. nestLevel' = nestLevel /\ selfDrains' = selfDrains
        BY <1>4, <2>1, <2>5, <3>1 DEF DrainEnds, LevelAfter, KnownDrainer
    <3>3. Goto(t, "run")
        BY <2>1, <2>5 DEF Return
    <3>4. QED
        BY <3>1, <3>2, <3>3, NestKept
  <2>6. QED
      BY <2>3, <2>4, <2>5 DEF Threads
<1>5. CASE \E i \in Items : Add(t, i)
  <2>1. PICK i \in Items : Add(t, i)
      BY <1>5
  <2>2. /\ Goto(t, "adding") /\ pc[t] \in {"idle", "run"}
        /\ selfDrains' = selfDrains /\ nestLevel' = nestLevel
      BY <1>1, <2>1 DEF Add
  <2>3. QED
      BY <2>2, NestKept DEF Calling
<1>6. CASE AddPost(t) \/ AddRefused(t) \/ Stop(t) \/ Start(t) \/ DrainReturns(t)
           \/ JoinRefused(t) \/ DestroyAgain(t)
  <2>1. /\ pc[t] \in {"idle", "run", "adding"} /\ Return(t)
        /\ selfDrains' = selfDrains /\ nestLevel' = nestLevel
      BY <1>1, <1>6 DEF AddPost, AddRefused, Stop, Start, DrainReturns,
                        JoinRefused, DestroyAgain
  <2>2. PICK l \in {"run", "idle"} : Goto(t, l)
      BY <2>1 DEF Return
  <2>3. QED
      BY <2>1, <2>2, NestKept DEF Calling
<1>7. CASE Join(t) \/ Destroy(t)
  <2>1. /\ pc[t] \in {"idle", "run"}
        /\ selfDrains' = selfDrains /\ nestLevel' = nestLevel
      BY <1>1, <1>7 DEF Join, Destroy, BeginJoining
  <2>2. PICK l \in {"joinHeld", "quiesce"} : Goto(t, l)
      BY <1>7 DEF Join, Destroy, BeginJoining
  <2>3. QED
      BY <2>1, <2>2, NestKept DEF Calling
<1>8. CASE CollectWorkers(t) \/ JoinerDone(t) \/ FollowerDone(t)
  <2>1. /\ pc[t] \in {"quiesce", "releasing"}
        /\ selfDrains' = selfDrains /\ nestLevel' = nestLevel
      BY <1>8 DEF CollectWorkers, JoinerDone, FollowerDone, EndCall
  <2>2. PICK l \in {"releasing", "gone", "idle"} : Goto(t, l)
      BY <1>8 DEF CollectWorkers, JoinerDone, FollowerDone, EndCall
  <2>3. QED
      BY <2>1, <2>2, NestKept DEF Calling
<1>9. QED
    BY <1>3, <1>4, <1>5, <1>6, <1>7, <1>8 DEF CallActs

\* A worker that ends itself ends its drains with it.
LEMMA WorkerNests ==
    ASSUME TypeInv, NestExact, NEW w \in Workers, WorkerActs(w)
    PROVE  NestExact'
<1> USE DEF poolVars, joinVars, drainVars
<1>1. w \in Threads /\ w \notin Clients /\ pc \in [Threads -> Places]
    BY ThreadGroupAssumption DEF Threads, TypeInv, TypeOK
<1>2. CASE SelfTerminates(w)
  <2>1. selfDrains \in [Workers -> Nat] /\ selfDrains[w] \in Nat
      BY DEF TypeInv, TypeOK
  <2>2. selfDrains[w] \in 0..selfDrains[w] /\ selfDrains[w] - selfDrains[w] = 0
      BY <2>1
  <2>3. selfDrains' = [selfDrains EXCEPT ![w] = @ - selfDrains[w]]
      BY <1>2, <2>2 DEF SelfTerminates
  <2>4. nestLevel' = nestLevel - Smaller(selfDrains[w], nestLevel)
      BY <1>2 DEF SelfTerminates
  <2>5. Callers' = Callers
      BY <1>1, <1>2 DEF SelfTerminates, Goto, Callers, Threads
  <2>6. QED
      BY <2>2, <2>3, <2>4, <2>5, WorkerGoes
<1>3. CASE ~SelfTerminates(w)
  <2>1. PICK l : Goto(w, l)
      BY <1>3 DEF WorkerActs, WorkerStarts, ReadTimeout, SemBlocks, SemTakes,
                  SemTimesOut, FetchItem, FetchNothing, ItemReturns, Unwrapped,
                  CompleteNested, CompletePost, SelfDrainDispatches,
                  SelfDrainEmpty, SelfJoinDispatches, WorkerLeaves, WorkerExits,
                  Dispatch
  <2>2. selfDrains' = selfDrains /\ nestLevel' = nestLevel
      BY <1>3 DEF WorkerActs, WorkerStarts, ReadTimeout, SemBlocks, SemTakes,
                  SemTimesOut, FetchItem, FetchNothing, ItemReturns, Unwrapped,
                  CompleteNested, CompletePost, SelfDrainDispatches,
                  SelfDrainEmpty, SelfJoinDispatches, WorkerLeaves, WorkerExits
  <2>3. QED
      BY <1>1, <2>1, <2>2, NestKept
<1>4. QED
    BY <1>2, <1>3

--------------------------------------------------------------------------------
(* Who is in Join() or Destroy(). *)

AtEnd == {"joinHeld", "joining", "quiesce", "releasing"}
ClientPlaces == {"idle", "adding", "blocked", "drained", "quiesce", "releasing"}

\* A thread that is at the end of the group, or in an item it runs from there,
\* remembers the call that brought it there.
EndersKnown ==
    /\ \A t \in Threads : pc[t] \in AtEnd => ending[t] # "none"
    /\ \A w \in Workers : pc[w] # "gone" =>
          \A k \in DOMAIN stack[w] : stack[w][k].back = "joining" => ending[w] # "none"
    /\ \A c \in Clients :
          /\ pc[c] \in ClientPlaces
          /\ ending[c] # "none" => pc[c] \in {"quiesce", "releasing"}

\* Who joins without destroying is the joiner, and the barrier is closed till its
\* call returns.
OneJoiner ==
    \A t \in Threads : /\ ending[t] = "join" => joiner = t /\ ~joinOpen
                       /\ pc[t] = "releasing" => joiner = t

OneDestroyer ==
    /\ \A t \in Threads : ending[t] = "destroy" => destroyed /\ ~freed
    /\ \A t, u \in Threads : ending[t] = "destroy" /\ ending[u] = "destroy" => t = u

\* A group at its end accepts no drain, and one that is destroyed no client.
ClosedAtEnd ==
    /\ \A t \in Threads : ending[t] # "none" => state = "Joining"
    /\ joinOpen => state = "Joining" /\ nestLevel = 0
    /\ destroyed => state = "Joining" /\ \A c \in Clients : pc[c] # "adding"
    /\ freed => destroyed

EndInv == EndersKnown /\ OneJoiner /\ OneDestroyer /\ ClosedAtEnd /\ FreedIsQuiet

\* Nobody acts on a group whose state is deleted.
LEMMA FreedIsOver ==
    ASSUME TypeInv, EndInv, freed
    PROVE  /\ \A t \in Threads : ~CallActs(t)
           /\ \A c \in Clients : ~DrainUnblocks(c)
           /\ \A w \in Workers : ~WorkerActs(w)
<1>1. destroyed /\ \A t \in Threads : pc[t] \in {"idle", "gone"}
    BY DEF EndInv, FreedIsQuiet, ClosedAtEnd
<1>2. \A t \in Threads : \A call : ~MayCall(t, call)
    BY <1>1 DEF MayCall
<1>3. ASSUME NEW t \in Threads
      PROVE  ~CallActs(t)
    BY <1>1, <1>2 DEF CallActs, Add, AddPost, AddRefused, Stop, Start,
       DrainReturns, DrainBegins, DrainEnds, Join, JoinRefused, Destroy,
       DestroyAgain, CollectWorkers, JoinerDone, FollowerDone
<1>4. ASSUME NEW c \in Clients
      PROVE  ~DrainUnblocks(c)
    BY <1>1 DEF DrainUnblocks, Threads
<1>5. ASSUME NEW w \in Workers
      PROVE  ~WorkerActs(w)
  <2>1. pc[w] \in {"idle", "gone"}
      BY <1>1 DEF Threads
  <2>2. QED
      BY <2>1 DEF WorkerActs, WorkerStarts, ReadTimeout, SemBlocks, SemTakes,
         SemTimesOut, FetchItem, FetchNothing, ItemReturns, Unwrapped,
         CompleteNested, CompletePost, SelfDrainDispatches, SelfDrainEmpty,
         SelfJoinDispatches, SelfTerminates, WorkerLeaves, WorkerExits
<1>6. QED
    BY <1>3, <1>4, <1>5

\* A step of a thread that neither begins nor ends a Join() or a Destroy().
LEMMA EndKept ==
    ASSUME TypeInv, EndInv, ~freed, NEW t \in Threads, NEW l, Goto(t, l),
           freed' = freed, destroyed' = destroyed, joinOpen' = joinOpen,
           joiner' = joiner, ending' = ending,
           state = "Joining" => state' = "Joining",
           joinOpen => nestLevel' = 0,
           pc[t] # "gone",
           l \in AtEnd => ending[t] # "none",
           l = "releasing" => joiner = t,
           t \in Clients =>
              /\ l \in ClientPlaces
              /\ ending[t] # "none" => l \in {"quiesce", "releasing"}
              /\ l = "adding" => ~destroyed,
           \A w \in Workers : \A k \in DOMAIN stack'[w] :
              stack'[w][k].back = "joining" =>
                 \/ \E j \in DOMAIN stack[w] : stack[w][j].back = "joining"
                 \/ w = t /\ ending[t] # "none"
    PROVE  EndInv'
<1>1. /\ pc' = [pc EXCEPT ![t] = l] /\ pc'[t] = l
      /\ \A u \in Threads : u # t => pc'[u] = pc[u]
    BY DEF Goto, TypeInv, TypeOK
<1>2. EndersKnown'
  <2>1. \A u \in Threads : pc'[u] \in AtEnd => ending[u] # "none"
      BY <1>1 DEF EndInv, EndersKnown
  <2>2. ASSUME NEW w \in Workers, pc'[w] # "gone", NEW k \in DOMAIN stack'[w],
               stack'[w][k].back = "joining"
        PROVE  ending[w] # "none"
    <3>1. w \in Threads /\ pc[w] # "gone"
        BY <1>1, <2>2 DEF Threads
    <3>2. QED
        BY <2>2, <3>1 DEF EndInv, EndersKnown
  <2>3. ASSUME NEW c \in Clients
        PROVE  /\ pc'[c] \in ClientPlaces
               /\ ending[c] # "none" => pc'[c] \in {"quiesce", "releasing"}
      BY <1>1 DEF EndInv, EndersKnown, Threads
  <2>4. QED
      BY <2>1, <2>2, <2>3 DEF EndersKnown
<1>3. OneJoiner'
    BY <1>1 DEF EndInv, OneJoiner
<1>4. OneDestroyer'
    BY DEF EndInv, OneDestroyer
<1>5. ClosedAtEnd'
    BY <1>1 DEF EndInv, ClosedAtEnd, Threads
<1>6. FreedIsQuiet'
    BY DEF FreedIsQuiet
<1>7. QED
    BY <1>2, <1>3, <1>4, <1>5, <1>6 DEF EndInv

\* A thread begins a Join() or a Destroy().
LEMMA EndBegins ==
    ASSUME TypeInv, Leaving, EndInv, ~freed, NEW t \in Threads, Join(t) \/ Destroy(t)
    PROVE  EndInv'
<1>1. PICK call \in {"join", "destroy"} :
         /\ BeginJoining(t, call) /\ MayCall(t, call)
         /\ call = "join" => state # "Joining" /\ destroyed' = destroyed
         /\ call = "destroy" => /\ destroyed' = TRUE /\ ~destroyed
                                /\ \A c \in Clients : pc[c] # "adding"
    BY DEF Join, Destroy
<1>2. /\ state' = "Joining" /\ freed' = freed /\ joinOpen' = joinOpen
      /\ stack' = stack /\ nestLevel' = nestLevel
      /\ joiner' = IF state = "Joining" THEN joiner ELSE t
      /\ ending' = [ending EXCEPT ![t] = call]
      /\ Goto(t, IF t \in running THEN "joinHeld" ELSE "quiesce")
    BY <1>1 DEF BeginJoining, joinVars, drainVars
<1>3. /\ ending \in [Threads -> {"none", "join", "destroy"}]
      /\ pc \in [Threads -> Places]
    BY DEF TypeInv, TypeOK
<1>4. /\ ending'[t] = call
      /\ \A u \in Threads : u # t => ending'[u] = ending[u] /\ pc'[u] = pc[u]
    BY <1>2, <1>3 DEF Goto
<1>5. /\ pc'[t] \in {"joinHeld", "quiesce"}
      /\ t \in Clients => pc'[t] = "quiesce"
  <2>1. t \in Clients => t \notin running
      BY ThreadGroupAssumption DEF TypeInv, TypeOK
  <2>2. QED
      BY <1>2, <1>3, <2>1 DEF Goto
<1>6. EndersKnown'
  <2>1. \A u \in Threads : pc'[u] \in AtEnd => ending'[u] # "none"
      BY <1>1, <1>4 DEF EndInv, EndersKnown
  <2>2. ASSUME NEW w \in Workers, pc'[w] # "gone", NEW k \in DOMAIN stack[w],
               stack[w][k].back = "joining"
        PROVE  ending'[w] # "none"
    <3>1. CASE w = t
        BY <1>1, <1>4, <3>1
    <3>2. CASE w # t
        BY <1>4, <2>2, <3>2 DEF EndInv, EndersKnown, Threads
    <3>3. QED
        BY <3>1, <3>2
  <2>3. ASSUME NEW c \in Clients
        PROVE  /\ pc'[c] \in ClientPlaces
               /\ ending'[c] # "none" => pc'[c] \in {"quiesce", "releasing"}
    <3>1. CASE c = t
        BY <1>5, <3>1 DEF ClientPlaces
    <3>2. CASE c # t
        BY <1>4, <3>2 DEF EndInv, EndersKnown, Threads
    <3>3. QED
        BY <3>1, <3>2
  <2>4. QED
      BY <1>2, <2>1, <2>2, <2>3 DEF EndersKnown
<1>7. OneJoiner'
  <2>1. ASSUME NEW u \in Threads, ending'[u] = "join"
        PROVE  joiner' = u /\ ~joinOpen
    <3>1. CASE u = t
        BY <1>1, <1>2, <1>4, <2>1, <3>1 DEF EndInv, ClosedAtEnd
    <3>2. CASE u # t
      <4>1. ending[u] = "join" /\ state = "Joining" /\ joiner = u /\ ~joinOpen
          BY <1>4, <2>1, <3>2 DEF EndInv, OneJoiner, ClosedAtEnd
      <4>2. QED
          BY <1>2, <4>1
    <3>3. QED
        BY <3>1, <3>2
  <2>2. ASSUME NEW u \in Threads, pc'[u] = "releasing"
        PROVE  joiner' = u
    <3>1. u # t /\ pc[u] = "releasing"
        BY <1>4, <1>5, <2>2
    <3>2. joiner = u /\ ending[u] # "none" /\ state = "Joining"
        BY <3>1 DEF EndInv, OneJoiner, EndersKnown, AtEnd, ClosedAtEnd
    <3>3. QED
        BY <1>2, <3>2
  <2>3. QED
      BY <1>2, <2>1, <2>2 DEF OneJoiner
<1>8. OneDestroyer'
    BY <1>1, <1>2, <1>4 DEF EndInv, OneDestroyer
<1>9. ClosedAtEnd'
  <2>1. destroyed' => \A c \in Clients : pc'[c] # "adding"
      BY <1>1, <1>4, <1>5 DEF EndInv, ClosedAtEnd, Threads
  <2>2. QED
      BY <1>1, <1>2, <2>1 DEF EndInv, ClosedAtEnd
<1>10. FreedIsQuiet'
    BY <1>2 DEF FreedIsQuiet
<1>11. QED
    BY <1>6, <1>7, <1>8, <1>9, <1>10 DEF EndInv

\* A thread ends its Join() or its Destroy().
LEMMA EndEnds ==
    ASSUME TypeInv, Leaving, NestExact, EndInv, ~freed,
           NEW t \in Threads, JoinerDone(t) \/ FollowerDone(t)
    PROVE  EndInv'
<1>1. /\ pc[t] \in AtEnd /\ joinOpen' = TRUE
      /\ freed' = (freed \/ ending[t] = "destroy")
      /\ Goto(t, IF t \in Workers THEN "gone" ELSE "idle")
      /\ ending' = [ending EXCEPT ![t] = "none"]
      /\ state' = state /\ nestLevel' = nestLevel /\ joiner' = joiner
      /\ destroyed' = destroyed /\ stack' = stack
    BY DEF JoinerDone, FollowerDone, EndCall, EndInv, AtEnd, poolVars, drainVars
<1>2. /\ ending \in [Threads -> {"none", "join", "destroy"}]
      /\ pc \in [Threads -> Places]
    BY DEF TypeInv, TypeOK
<1>3. /\ ending'[t] = "none" /\ pc'[t] = IF t \in Workers THEN "gone" ELSE "idle"
      /\ \A u \in Threads : u # t => ending'[u] = ending[u] /\ pc'[u] = pc[u]
    BY <1>1, <1>2 DEF Goto
<1>4. ending[t] # "none" /\ state = "Joining"
    BY <1>1 DEF EndInv, EndersKnown, ClosedAtEnd
<1>5. nestLevel = 0
    BY DEF JoinerDone, AllDrainersAreDone, FollowerDone, EndInv, ClosedAtEnd
<1>6. exits = N
    BY DEF JoinerDone, FollowerDone, Leaving, OpenAtEnd
<1>7. \A u \in Threads : u # t => ending[u] # "join"
  <2>1. CASE JoinerDone(t)
    <3>1. joiner = t
        BY <2>1 DEF JoinerDone, EndInv, OneJoiner
    <3>2. QED
        BY <3>1 DEF EndInv, OneJoiner
  <2>2. CASE FollowerDone(t)
      BY <2>2 DEF FollowerDone, EndInv, OneJoiner
  <2>3. QED
      BY <2>1, <2>2
<1>8. ASSUME ending[t] = "destroy"
      PROVE  /\ destroyed
             /\ \A u \in Threads : u # t => ending[u] = "none"
  <2>1. destroyed /\ \A u \in Threads : u # t => ending[u] # "destroy"
      BY <1>8 DEF EndInv, OneDestroyer
  <2>2. QED
      BY <1>2, <1>7, <2>1
<1>9. EndersKnown'
  <2>1. \A u \in Threads : pc'[u] \in AtEnd => ending'[u] # "none"
    <3>1. pc'[t] \notin AtEnd
        BY <1>3 DEF AtEnd
    <3>2. QED
        BY <1>3, <3>1 DEF EndInv, EndersKnown
  <2>2. ASSUME NEW w \in Workers, pc'[w] # "gone", NEW k \in DOMAIN stack[w],
               stack[w][k].back = "joining"
        PROVE  ending'[w] # "none"
      BY <1>3, <2>2 DEF EndInv, EndersKnown, Threads
  <2>3. ASSUME NEW c \in Clients
        PROVE  /\ pc'[c] \in ClientPlaces
               /\ ending'[c] # "none" => pc'[c] \in {"quiesce", "releasing"}
    <3>1. CASE c = t
      <4>1. t \notin Workers
          BY <3>1, ThreadGroupAssumption
      <4>2. QED
          BY <1>3, <3>1, <4>1 DEF ClientPlaces
    <3>2. CASE c # t
        BY <1>3, <3>2 DEF EndInv, EndersKnown, Threads
    <3>3. QED
        BY <3>1, <3>2
  <2>4. QED
      BY <1>1, <2>1, <2>2, <2>3 DEF EndersKnown
<1>10. OneJoiner'
  <2>1. \A u \in Threads : ending'[u] # "join"
      BY <1>3, <1>7
  <2>2. \A u \in Threads : pc'[u] = "releasing" => joiner = u
      BY <1>3 DEF EndInv, OneJoiner
  <2>3. QED
      BY <1>1, <2>1, <2>2 DEF OneJoiner
<1>11. OneDestroyer'
  <2>1. \A u \in Threads : ending'[u] = "destroy" =>
           u # t /\ ending[u] = "destroy" /\ ending[t] # "destroy"
      BY <1>3, <1>8
  <2>2. QED
      BY <1>1, <2>1 DEF EndInv, OneDestroyer
<1>12. ClosedAtEnd'
  <2>1. \A c \in Clients : pc[c] # "adding" => pc'[c] # "adding"
      BY <1>3 DEF Threads
  <2>2. QED
      BY <1>1, <1>4, <1>5, <1>8, <2>1 DEF EndInv, ClosedAtEnd
<1>13. FreedIsQuiet'
  <2>1. SUFFICES ASSUME ending[t] = "destroy", NEW u \in Threads, u # t
                 PROVE  pc[u] \in {"idle", "gone"}
      BY <1>1, <1>3 DEF FreedIsQuiet
  <2>2. ending[u] = "none" /\ pc[u] \notin AtEnd
      BY <1>8, <2>1 DEF EndInv, EndersKnown
  <2>3. CASE u \in Workers
    <3>1. LeftWorkers = Workers
        BY <1>6, LeftFinite DEF Leaving, ExitsCounted
    <3>2. Left(u)
        BY <2>3, <3>1 DEF LeftWorkers
    <3>3. QED
        BY <2>2, <3>2 DEF Left, AtEnd
  <2>4. CASE u \in Clients
    <3>1. pc[u] \in ClientPlaces /\ pc[u] # "adding"
        BY <1>8, <2>1, <2>4 DEF EndInv, EndersKnown, ClosedAtEnd
    <3>2. pc[u] \notin Calling
        BY <1>5, <2>4, CallerNests
    <3>3. QED
        BY <2>2, <3>1, <3>2 DEF ClientPlaces, Calling, AtEnd
  <2>5. QED
      BY <2>3, <2>4 DEF Threads
<1>14. QED
    BY <1>9, <1>10, <1>11, <1>12, <1>13 DEF EndInv

\* A thread that stands nowhere at the end of the group.
LEMMA ClientAtRest ==
    ASSUME EndInv, NEW c \in Clients, pc[c] \notin AtEnd
    PROVE  ending[c] = "none"
BY DEF EndInv, EndersKnown, AtEnd

\* The calls keep what is known of the end.
LEMMA CallEnds ==
    ASSUME TypeInv, Leaving, NestExact, EndInv, ~freed,
           NEW t \in Threads, CallActs(t)
    PROVE  EndInv'
<1> USE DEF poolVars, joinVars, drainVars
<1>1. \A call : MayCall(t, call) =>
         pc[t] \in {"idle", "run"} /\ (t \in Clients => ~destroyed)
    BY ThreadGroupAssumption DEF MayCall
<1>2. \A w \in Workers : \A k \in DOMAIN stack'[w] :
         k \in DOMAIN stack[w] /\ stack'[w][k].back = stack[w][k].back
    BY CallFrames
<1>3. joinOpen => nestLevel = 0 /\ state = "Joining"
    BY DEF EndInv, ClosedAtEnd
<1>4. CASE \E i \in Items : Add(t, i)
  <2>1. PICK i \in Items : Add(t, i)
      BY <1>4
  <2>2. /\ Goto(t, "adding") /\ pc[t] \in {"idle", "run"}
        /\ t \in Clients => ~destroyed
        /\ freed' = freed /\ destroyed' = destroyed /\ joinOpen' = joinOpen
        /\ joiner' = joiner /\ ending' = ending /\ state' = state
        /\ nestLevel' = nestLevel
      BY <1>1, <2>1 DEF Add
  <2>3. t \in Clients => ending[t] = "none"
      BY <2>2, ClientAtRest DEF AtEnd
  <2>4. QED
      BY <1>2, <1>3, <2>2, <2>3, EndKept DEF AtEnd, ClientPlaces
<1>5. CASE AddPost(t) \/ AddRefused(t) \/ Stop(t) \/ Start(t) \/ DrainReturns(t)
           \/ DrainEnds(t) \/ JoinRefused(t) \/ DestroyAgain(t)
  <2>1. /\ pc[t] \in {"idle", "run", "adding", "drained"} /\ Return(t)
        /\ freed' = freed /\ destroyed' = destroyed /\ joinOpen' = joinOpen
        /\ joiner' = joiner /\ ending' = ending
      BY <1>1, <1>5 DEF AddPost, AddRefused, Stop, Start, DrainReturns,
                        DrainEnds, JoinRefused, DestroyAgain
  <2>2. state = "Joining" => state' = "Joining"
      BY <1>5 DEF AddPost, AddRefused, Stop, Start, DrainReturns, DrainEnds,
                  JoinRefused, DestroyAgain, StateAtLevel, Transition
  <2>3. nestLevel = 0 => nestLevel' = 0
      BY <1>5 DEF AddPost, AddRefused, Stop, Start, DrainReturns, DrainEnds,
                  JoinRefused, DestroyAgain, LevelAfter
  <2>4. t \in Clients => ending[t] = "none"
      BY <2>1, ClientAtRest DEF AtEnd
  <2>5. PICK l \in {"run", "idle"} : Goto(t, l) /\ (t \in Clients => l = "idle")
      BY <2>1, ThreadGroupAssumption DEF Return
  <2>6. QED
      BY <1>2, <1>3, <2>1, <2>2, <2>3, <2>4, <2>5, EndKept DEF AtEnd, ClientPlaces
<1>6. CASE DrainBegins(t)
  <2>1. /\ pc[t] \in {"idle", "run"} /\ state # "Joining"
        /\ freed' = freed /\ destroyed' = destroyed /\ joinOpen' = joinOpen
        /\ joiner' = joiner /\ ending' = ending
      BY <1>1, <1>6 DEF DrainBegins, Transition
  <2>2. t \in Clients => ending[t] = "none"
      BY <2>1, ClientAtRest DEF AtEnd
  <2>3. PICK l \in {"drainHeld", "blocked"} :
           Goto(t, l) /\ (t \in Clients => l = "blocked")
    <3>1. t \in Clients => t \notin running
        BY ThreadGroupAssumption DEF TypeInv, TypeOK
    <3>2. QED
        BY <1>6, <3>1 DEF DrainBegins
  <2>4. QED
      BY <1>2, <1>3, <2>1, <2>2, <2>3, EndKept DEF AtEnd, ClientPlaces
<1>7. CASE Join(t) \/ Destroy(t)
    BY <1>7, EndBegins
<1>8. CASE CollectWorkers(t)
  <2>1. /\ pc[t] = "quiesce" /\ joiner = t /\ Goto(t, "releasing")
        /\ freed' = freed /\ destroyed' = destroyed /\ joinOpen' = joinOpen
        /\ joiner' = joiner /\ ending' = ending /\ state' = state
        /\ nestLevel' = nestLevel
      BY <1>8 DEF CollectWorkers
  <2>2. ending[t] # "none"
      BY <2>1 DEF EndInv, EndersKnown, AtEnd
  <2>3. QED
      BY <1>2, <1>3, <2>1, <2>2, EndKept DEF ClientPlaces
<1>9. CASE JoinerDone(t) \/ FollowerDone(t)
    BY <1>9, EndEnds
<1>10. QED
    BY <1>4, <1>5, <1>6, <1>7, <1>8, <1>9 DEF CallActs

\* So do the workers: one that returns to its join began it.
LEMMA WorkerEnds ==
    ASSUME TypeInv, EndInv, ~freed, NEW w \in Workers, WorkerActs(w)
    PROVE  EndInv'
<1> USE DEF poolVars, joinVars, drainVars
<1>1. w \in Threads /\ w \notin Clients /\ stack \in Stacks
    BY ThreadGroupAssumption DEF Threads, TypeInv, TypeOK, Stacks
<1>2. /\ freed' = freed /\ destroyed' = destroyed /\ joinOpen' = joinOpen
      /\ joiner' = joiner /\ ending' = ending /\ state' = state
    BY DEF WorkerActs, WorkerStarts, ReadTimeout, SemBlocks, SemTakes,
       SemTimesOut, FetchItem, FetchNothing, ItemReturns, Unwrapped,
       CompleteNested, CompletePost, SelfDrainDispatches, SelfDrainEmpty,
       SelfJoinDispatches, SelfTerminates, WorkerLeaves, WorkerExits
<1>3. joinOpen => nestLevel' = 0
  <2>1. joinOpen => nestLevel = 0
      BY DEF EndInv, ClosedAtEnd
  <2>2. nestLevel = 0 => nestLevel' = 0
    <3>1. CASE SelfTerminates(w)
      <4>1. /\ selfDrains[w] \in Nat /\ nestLevel \in Nat
            /\ nestLevel' = nestLevel - Smaller(selfDrains[w], nestLevel)
          BY <3>1 DEF SelfTerminates, TypeInv, TypeOK
      <4>2. QED
          BY <4>1 DEF Smaller
    <3>2. CASE ~SelfTerminates(w)
        BY <3>2 DEF WorkerActs, WorkerStarts, ReadTimeout, SemBlocks, SemTakes,
           SemTimesOut, FetchItem, FetchNothing, ItemReturns, Unwrapped,
           CompleteNested, CompletePost, SelfDrainDispatches, SelfDrainEmpty,
           SelfJoinDispatches, WorkerLeaves, WorkerExits
    <3>3. QED
        BY <3>1, <3>2
  <2>3. QED
      BY <2>1, <2>2
<1>4. pc[w] # "gone"
    BY DEF WorkerActs, WorkerStarts, ReadTimeout, SemBlocks, SemTakes,
       SemTimesOut, FetchItem, FetchNothing, ItemReturns, Unwrapped,
       CompleteNested, CompletePost, SelfDrainDispatches, SelfDrainEmpty,
       SelfJoinDispatches, SelfTerminates, WorkerLeaves, WorkerExits
<1>5. ASSUME NEW l, Goto(w, l), l # "releasing", l \in AtEnd => ending[w] # "none",
             \A u \in Workers : \A k \in DOMAIN stack'[u] :
                stack'[u][k].back = "joining" =>
                   \/ \E j \in DOMAIN stack[u] : stack[u][j].back = "joining"
                   \/ u = w /\ ending[w] # "none"
      PROVE  EndInv'
    BY <1>1, <1>2, <1>3, <1>4, <1>5, EndKept
<1>6. CASE FetchItem(w)
  <2>1. Dispatch(w, "loop")
      BY <1>6 DEF FetchItem
  <2>2. /\ \A t \in Threads \ {w} : stack'[t] = stack[t]
        /\ stack'[w][1].back = "loop"
        /\ \A k \in DOMAIN stack'[w] :
              k # 1 => k - 1 \in DOMAIN stack[w] /\ stack'[w][k] = stack[w][k - 1]
      BY <2>1, Dispatched
  <2>3. Goto(w, "run")
      BY <2>1 DEF Dispatch
  <2>4. \A u \in Workers : \A k \in DOMAIN stack'[u] :
           stack'[u][k].back = "joining" =>
              \E j \in DOMAIN stack[u] : stack[u][j].back = "joining"
      BY <2>2 DEF Threads
  <2>5. QED
      BY <1>5, <2>3, <2>4 DEF AtEnd
<1>7. CASE SelfDrainDispatches(w) \/ SelfJoinDispatches(w)
  <2>1. PICK back \in {"draining", "joining"} :
           Dispatch(w, back) /\ (back = "joining" => pc[w] \in {"joinHeld", "joining"})
      BY <1>7 DEF SelfDrainDispatches, SelfJoinDispatches
  <2>2. stack[w] # <<>>
      BY <1>7 DEF SelfDrainDispatches, SelfJoinDispatches, TypeInv, StackInv,
                  Inside
  <2>3. /\ \A t \in Threads \ {w} : stack'[t] = stack[t]
        /\ stack'[w][1].back = back
        /\ \A k \in DOMAIN stack'[w] :
              k # 1 => k - 1 \in DOMAIN stack[w] /\ stack'[w][k] = stack[w][k - 1]
      BY <2>1, <2>2, Dispatched
  <2>4. Goto(w, "run")
      BY <2>1 DEF Dispatch
  <2>5. back = "joining" => ending[w] # "none"
      BY <1>1, <2>1 DEF EndInv, EndersKnown, AtEnd
  <2>6. \A u \in Workers : \A k \in DOMAIN stack'[u] :
           stack'[u][k].back = "joining" =>
              \/ \E j \in DOMAIN stack[u] : stack[u][j].back = "joining"
              \/ u = w /\ ending[w] # "none"
      BY <2>3, <2>5 DEF Threads
  <2>7. QED
      BY <1>5, <2>4, <2>6 DEF AtEnd
<1>8. CASE Unwrapped(w)
  <2>1. /\ stack[w] # <<>> /\ stack' = [stack EXCEPT ![w] = Tail(@)]
        /\ Goto(w, Head(stack[w]).back)
      BY <1>8 DEF Unwrapped, TypeInv, StackInv, Inside
  <2>2. /\ \A t \in Threads \ {w} : stack'[t] = stack[t]
        /\ \A k \in DOMAIN stack'[w] : /\ k + 1 \in DOMAIN stack[w]
                                       /\ stack'[w][k] = stack[w][k + 1]
      BY <1>1, <2>1, Popped
  <2>3. /\ Head(stack[w]) = stack[w][1] /\ 1 \in DOMAIN stack[w]
        /\ Head(stack[w]).back \in {"loop", "draining", "joining"}
      BY <1>1, <2>1, Top DEF Frames
  <2>4. Head(stack[w]).back = "joining" => ending[w] # "none"
      BY <1>4, <2>3 DEF EndInv, EndersKnown
  <2>5. \A u \in Workers : \A k \in DOMAIN stack'[u] :
           stack'[u][k].back = "joining" =>
              \E j \in DOMAIN stack[u] : stack[u][j].back = "joining"
      BY <2>2 DEF Threads
  <2>6. QED
      BY <1>5, <2>1, <2>3, <2>4, <2>5 DEF AtEnd
<1>9. CASE CompletePost(w)
  <2>1. /\ stack[w] # <<>> /\ stack[w][1].wraps > 0 /\ Goto(w, "returned")
        /\ stack' = [stack EXCEPT ![w][1].wraps = @ - 1]
      BY <1>9 DEF CompletePost, TypeInv, StackInv, Inside
  <2>2. \A u \in Workers : \A k \in DOMAIN stack'[u] :
           k \in DOMAIN stack[u] /\ stack'[u][k].back = stack[u][k].back
      BY <1>1, <2>1, Uncovered DEF Threads
  <2>3. QED
      BY <1>5, <2>1, <2>2 DEF AtEnd
<1>10. CASE SelfTerminates(w)
  <2>1. pc[w] \in {"joinHeld", "joining"} /\ Goto(w, "quiesce") /\ stack' = stack
      BY <1>10 DEF SelfTerminates
  <2>2. ending[w] # "none"
      BY <1>1, <2>1 DEF EndInv, EndersKnown, AtEnd
  <2>3. QED
      BY <1>5, <2>1, <2>2
<1>11. CASE WorkerStarts(w) \/ ReadTimeout(w) \/ SemBlocks(w) \/ SemTakes(w)
            \/ SemTimesOut(w) \/ FetchNothing(w) \/ ItemReturns(w)
            \/ CompleteNested(w) \/ SelfDrainEmpty(w) \/ WorkerLeaves(w)
            \/ WorkerExits(w)
  <2>1. stack' = stack
      BY <1>11 DEF WorkerStarts, ReadTimeout, SemBlocks, SemTakes, SemTimesOut,
                   FetchNothing, ItemReturns, CompleteNested, SelfDrainEmpty,
                   WorkerLeaves, WorkerExits
  <2>2. PICK l \in Places \ AtEnd : Goto(w, l)
      BY <1>11 DEF WorkerStarts, ReadTimeout, SemBlocks, SemTakes, SemTimesOut,
                   FetchNothing, ItemReturns, CompleteNested, SelfDrainEmpty,
                   WorkerLeaves, WorkerExits, Places, AtEnd
  <2>3. QED
      BY <1>5, <2>1, <2>2 DEF AtEnd
<1>12. QED
    BY <1>6, <1>7, <1>8, <1>9, <1>10, <1>11 DEF WorkerActs

\* So does a client whose Drain() wakes up.
LEMMA UnblockEnds ==
    ASSUME TypeInv, EndInv, ~freed, NEW c \in Clients, DrainUnblocks(c)
    PROVE  EndInv'
<1>1. /\ c \in Threads /\ pc[c] = "blocked" /\ Goto(c, "drained")
      /\ freed' = freed /\ destroyed' = destroyed /\ joinOpen' = joinOpen
      /\ joiner' = joiner /\ ending' = ending /\ state' = state
      /\ nestLevel' = nestLevel /\ stack' = stack
    BY DEF DrainUnblocks, Threads, poolVars, joinVars, drainVars
<1>2. ending[c] = "none"
    BY <1>1, ClientAtRest DEF AtEnd
<1>3. joinOpen => nestLevel = 0
    BY DEF EndInv, ClosedAtEnd
<1>4. QED
    BY <1>1, <1>2, <1>3, EndKept DEF AtEnd, ClientPlaces

--------------------------------------------------------------------------------
(* The theorems. *)

\* Nobody drains or ends the group at first.
LEMMA InitialEnd == Init => NestExact /\ EndInv
<1>1. SUFFICES ASSUME Init
               PROVE  NestExact /\ EndInv
    OBVIOUS
<1>2. /\ pc = [t \in Threads |-> IF t \in Workers THEN "start" ELSE "idle"]
      /\ selfDrains = [w \in Workers |-> 0] /\ nestLevel = 0
      /\ stack = [t \in Threads |-> <<>>]
      /\ ending = [t \in Threads |-> "none"]
      /\ ~joinOpen /\ ~destroyed /\ ~freed
    BY <1>1 DEF Init
<1>3. \A c \in Clients : pc[c] = "idle"
    BY <1>2, ThreadGroupAssumption DEF Threads
<1>4. NestExact
  <2>1. Callers = {}
      BY <1>3 DEF Callers, Calling
  <2>2. Holds = {}
      BY <1>2 DEF Holds
  <2>3. QED
      BY <1>2, <2>1, <2>2, FS_EmptySet DEF NestExact
<1>5. EndersKnown
  <2>1. \A t \in Threads : pc[t] \in {"start", "idle"} /\ ending[t] = "none"
      BY <1>2
  <2>2. \A w \in Workers : stack[w] = <<>>
      BY <1>2 DEF Threads
  <2>3. QED
      BY <1>3, <2>1, <2>2, EmptyDomain
         DEF EndersKnown, AtEnd, ClientPlaces, Threads
<1>6. OneJoiner /\ OneDestroyer /\ ClosedAtEnd /\ FreedIsQuiet
    BY <1>2 DEF OneJoiner, OneDestroyer, ClosedAtEnd, FreedIsQuiet
<1>7. QED
    BY <1>4, <1>5, <1>6 DEF EndInv

\* Every step keeps the count of the drains.
LEMMA NestStep == TypeInv /\ Leaving /\ NestExact /\ [Next]_vars => NestExact'
<1>1. SUFFICES ASSUME TypeInv, Leaving, NestExact, [Next]_vars
               PROVE  NestExact'
    OBVIOUS
<1>2. CASE UNCHANGED vars
    BY <1>1, <1>2 DEF vars, drainVars, NestExact, Callers, Holds
<1>3. ASSUME NEW c \in Clients, DrainUnblocks(c)
      PROVE  NestExact'
  <2>1. /\ c \in Threads /\ pc[c] = "blocked" /\ Goto(c, "drained")
        /\ selfDrains' = selfDrains /\ nestLevel' = nestLevel
      BY <1>3 DEF DrainUnblocks, Threads, drainVars
  <2>2. QED
      BY <1>1, <2>1, NestKept DEF Calling
<1>4. QED
    BY <1>1, <1>2, <1>3, Steps, CallNests, WorkerNests

\* Every step keeps what is known of the end; none follows when the state is freed.
LEMMA EndStep ==
    TypeInv /\ Leaving /\ NestExact /\ EndInv /\ [Next]_vars => EndInv'
<1>1. SUFFICES ASSUME TypeInv, Leaving, NestExact, EndInv, [Next]_vars
               PROVE  EndInv'
    OBVIOUS
<1>2. CASE UNCHANGED vars
    BY <1>1, <1>2 DEF vars, poolVars, joinVars, drainVars, EndInv, EndersKnown,
                      OneJoiner, OneDestroyer, ClosedAtEnd, FreedIsQuiet
<1>3. CASE Next /\ freed
    BY <1>1, <1>3, FreedIsOver, Steps
<1>4. CASE Next /\ ~freed
    BY <1>1, <1>4, Steps, CallEnds, WorkerEnds, UnblockEnds
<1>5. QED
    BY <1>1, <1>2, <1>3, <1>4

\* m_DrainNestLevel is exact: it counts the clients inside Drain() and the drains
\* of the workers, no more and no less, whatever drains overlap and whichever
\* workers end themselves inside one.  Quiesce() relies on it.
THEOREM DrainsAreCounted == Spec => []NestExact
BY InitialTypes, TypeKept, InitialLeaving, LeavingKept, InitialEnd, NestStep, PTL
   DEF Spec

\* Destroy() deletes the ThrGrpState only when no thread is inside a call on it:
\* every worker is gone, no client waits in Drain() or is in Add(), and who joined
\* the group beside the destroyer has returned.
THEOREM DestroyedWhenQuiet == Spec => []FreedIsQuiet
<1>1. EndInv => FreedIsQuiet
    BY DEF EndInv
<1>2. QED
    BY InitialTypes, TypeKept, InitialLeaving, LeavingKept, InitialEnd, NestStep,
       EndStep, <1>1, PTL DEF Spec

--------------------------------------------------------------------------------
(* What the destructors of ThrGrpState and DrainManager assert. *)

\* A worker that will not look at the queue again.
Departing == {"leaving", "posting", "gone", "quiesce", "releasing"}

\* Workers depart from a group that is joined only.
DepartingJoined == (\E w \in Workers : pc[w] \in Departing) => state = "Joining"

\* What the joiner collected stays collected.
CollectedClean ==
    (joinOpen \/ \E t \in Threads : pc[t] = "releasing") => exited = {} /\ nested = {}

FreedIsOpen == freed => joinOpen

CleanInv == DepartingJoined /\ CollectedClean /\ FreedIsOpen

\* What holds of a deleted group, whoever joined and destroyed it: all that the
\* destructors assert but the empty queue.
NobodyLeft ==
    freed => /\ state = "Joining"
             /\ running = {} /\ exited = {}
             /\ nestLevel = 0
             /\ \A w \in Workers : selfDrains[w] = 0
             /\ nested = {}

\* A joined group stays joined, and Join() and Destroy() alone make it one.
LEMMA JoiningStays ==
    ASSUME TypeInv, NEW t \in Threads, CallActs(t)
    PROVE  /\ state = "Joining" => state' = "Joining"
           /\ state' = "Joining" => state = "Joining" \/ Join(t) \/ Destroy(t)
<1>1. state \in {"Running", "Stopped", "Draining", "Joining"}
    BY DEF TypeInv, TypeOK
<1>2. CASE Join(t) \/ Destroy(t)
    BY <1>2 DEF Join, Destroy, BeginJoining
<1>3. CASE Stop(t) \/ Start(t) \/ DrainBegins(t) \/ DrainEnds(t)
    BY <1>1, <1>3 DEF Stop, Start, DrainBegins, DrainEnds, StateAtLevel, Transition
<1>4. CASE \/ \E i \in Items : Add(t, i)
           \/ AddPost(t) \/ AddRefused(t) \/ DrainReturns(t) \/ JoinRefused(t)
           \/ DestroyAgain(t) \/ CollectWorkers(t) \/ JoinerDone(t)
           \/ FollowerDone(t)
    BY <1>4 DEF Add, AddPost, AddRefused, DrainReturns, JoinRefused, DestroyAgain,
                CollectWorkers, JoinerDone, FollowerDone, EndCall, poolVars
<1>5. QED
    BY <1>2, <1>3, <1>4 DEF CallActs

\* Where a call leads: no worker departs by one, at the end it has left already.
CallPlaces == {"adding", "run", "idle", "drainHeld", "blocked", "joinHeld", "quiesce",
               "releasing", "gone"}

LEMMA CallMoves ==
    ASSUME TypeInv, Leaving, NEW t \in Threads, CallActs(t)
    PROVE  \E l \in CallPlaces :
              /\ Goto(t, l)
              /\ t \in Workers /\ l \in Departing => Left(t)
              /\ l = "releasing" => CollectWorkers(t)
              /\ l = "blocked" => DrainBegins(t)
<1>1. CASE \/ \E i \in Items : Add(t, i)
           \/ AddPost(t) \/ AddRefused(t) \/ Stop(t) \/ Start(t)
           \/ DrainReturns(t) \/ DrainBegins(t) \/ DrainEnds(t)
           \/ JoinRefused(t) \/ DestroyAgain(t)
  <2>1. \/ Return(t) \/ Goto(t, "adding")
        \/ DrainBegins(t) /\ (Goto(t, "drainHeld") \/ Goto(t, "blocked"))
      BY <1>1 DEF Add, AddPost, AddRefused, Stop, Start, DrainReturns, DrainBegins,
                  DrainEnds, JoinRefused, DestroyAgain
  <2>2. PICK l \in {"adding", "run", "idle", "drainHeld", "blocked"} :
           Goto(t, l) /\ (l = "blocked" => DrainBegins(t))
      BY <2>1 DEF Return
  <2>3. QED
      BY <2>2 DEF CallPlaces, Departing
<1>2. CASE Join(t) \/ Destroy(t)
  <2>1. /\ Goto(t, IF t \in running THEN "joinHeld" ELSE "quiesce")
        /\ \E call : MayCall(t, call)
      BY <1>2 DEF Join, Destroy, BeginJoining
  <2>2. t \in Workers => t \in running
      BY <2>1, Caller DEF Leaving, RunningAtWork, Left
  <2>3. QED
      BY <2>1, <2>2 DEF CallPlaces, Departing
<1>3. CASE CollectWorkers(t)
    BY <1>3 DEF CollectWorkers, CallPlaces, Left
<1>4. CASE JoinerDone(t) \/ FollowerDone(t)
  <2>1. /\ Left(t)
        /\ Goto(t, IF t \in Workers THEN "gone" ELSE "idle")
      BY <1>4 DEF JoinerDone, FollowerDone, EndCall, Left
  <2>2. QED
      BY <2>1 DEF CallPlaces
<1>5. QED
    BY <1>1, <1>2, <1>3, <1>4 DEF CallActs

\* A worker departs in a joined group, when it finds the queue empty.
LEMMA WorkerMoves ==
    ASSUME TypeInv, EndInv, NEW w \in Workers, WorkerActs(w)
    PROVE  /\ state' = state
           /\ \E l \in Places :
                /\ Goto(w, l)
                /\ l # "releasing"
                /\ l \in Departing =>
                      \/ pc[w] \in Departing
                      \/ state = "Joining" /\ queue = <<>> /\ queue' = <<>>
<1> USE DEF poolVars
<1>1. CASE WorkerStarts(w) \/ ReadTimeout(w) \/ SemBlocks(w) \/ SemTakes(w)
           \/ SemTimesOut(w) \/ FetchItem(w) \/ ItemReturns(w) \/ CompleteNested(w)
           \/ CompletePost(w) \/ SelfDrainDispatches(w) \/ SelfDrainEmpty(w)
           \/ SelfJoinDispatches(w)
  <2>1. PICK l \in {"loop", "wait", "asleep", "fetch", "run", "returned",
                    "completing", "drained"} : Goto(w, l)
      BY <1>1 DEF WorkerStarts, ReadTimeout, SemBlocks, SemTakes, SemTimesOut,
                  FetchItem, ItemReturns, CompleteNested, CompletePost,
                  SelfDrainDispatches, SelfDrainEmpty, SelfJoinDispatches, Dispatch
  <2>2. state' = state
      BY <1>1 DEF WorkerStarts, ReadTimeout, SemBlocks, SemTakes, SemTimesOut,
                  FetchItem, ItemReturns, CompleteNested, CompletePost,
                  SelfDrainDispatches, SelfDrainEmpty, SelfJoinDispatches
  <2>3. QED
      BY <2>1, <2>2 DEF Places, Departing
<1>2. CASE FetchNothing(w)
  <2>1. /\ Goto(w, IF state = "Joining" THEN "leaving" ELSE "loop")
        /\ state' = state /\ queue' = queue
        /\ state = "Joining" => queue = <<>>
      BY <1>2 DEF FetchNothing, NothingToDo
  <2>2. QED
      BY <2>1 DEF Places, Departing
<1>3. CASE Unwrapped(w)
  <2>1. /\ stack[w] # <<>> /\ stack \in Stacks /\ Goto(w, Head(stack[w]).back)
        /\ state' = state
      BY <1>3 DEF Unwrapped, TypeInv, TypeOK, StackInv, Inside, Stacks
  <2>2. Head(stack[w]).back \in {"loop", "draining", "joining"}
      BY <2>1, Top DEF Frames
  <2>3. QED
      BY <2>1, <2>2 DEF Places, Departing
<1>4. CASE SelfTerminates(w)
  <2>1. /\ pc[w] \in {"joinHeld", "joining"} /\ Goto(w, "quiesce")
        /\ state' = state /\ queue = <<>> /\ queue' = queue
      BY <1>4 DEF SelfTerminates
  <2>2. state = "Joining"
      BY <2>1 DEF EndInv, EndersKnown, ClosedAtEnd, AtEnd, Threads
  <2>3. QED
      BY <2>1, <2>2 DEF Places
<1>5. CASE WorkerLeaves(w) \/ WorkerExits(w)
    BY <1>5 DEF WorkerLeaves, WorkerExits, Places, Departing
<1>6. QED
    BY <1>1, <1>2, <1>3, <1>4, <1>5 DEF WorkerActs

\* What a call may do to the join barrier, to the flag of the deletion and to the
\* two lists: Quiesce() of the joiner clears these, and it alone opens the barrier.
LEMMA CallGates ==
    ASSUME NEW t \in Threads, CallActs(t)
    PROVE  /\ joinOpen => joinOpen'
           /\ joinOpen' => joinOpen \/ pc[t] = "releasing"
           /\ freed' => freed \/ joinOpen'
           /\ \/ CollectWorkers(t) /\ exited' = {} /\ nested' = {}
              \/ DrainBegins(t) /\ exited' = exited
              \/ exited' = exited /\ nested' = nested
<1>1. CASE \/ \E i \in Items : Add(t, i)
           \/ AddPost(t) \/ AddRefused(t) \/ Stop(t) \/ Start(t)
           \/ DrainReturns(t) \/ JoinRefused(t) \/ DestroyAgain(t)
  <2>1. UNCHANGED <<joinVars, drainVars>>
      BY <1>1 DEF Add, AddPost, AddRefused, Stop, Start, DrainReturns, JoinRefused,
                  DestroyAgain
  <2>2. QED
      BY <2>1 DEF joinVars, drainVars
<1>2. CASE DrainBegins(t)
    BY <1>2 DEF DrainBegins, joinVars
<1>3. CASE DrainEnds(t)
    BY <1>3 DEF DrainEnds, joinVars
<1>4. CASE Join(t) \/ Destroy(t)
    BY <1>4 DEF Join, Destroy, BeginJoining, drainVars
<1>5. CASE CollectWorkers(t)
    BY <1>5 DEF CollectWorkers
<1>6. CASE JoinerDone(t)
    BY <1>6 DEF JoinerDone, EndCall, drainVars
<1>7. CASE FollowerDone(t)
    BY <1>7 DEF FollowerDone, EndCall, drainVars
<1>8. QED
    BY <1>1, <1>2, <1>3, <1>4, <1>5, <1>6, <1>7 DEF CallActs

\* A worker that has left does nothing more of its own.
LEMMA LeftIsStill ==
    ASSUME NEW w \in Workers, WorkerActs(w)
    PROVE  ~Left(w) /\ joinOpen' = joinOpen /\ freed' = freed
<1> USE DEF joinVars, Left
<1>1. CASE WorkerStarts(w) \/ ReadTimeout(w) \/ SemBlocks(w) \/ SemTakes(w)
           \/ SemTimesOut(w) \/ FetchItem(w) \/ FetchNothing(w) \/ ItemReturns(w)
    BY <1>1 DEF WorkerStarts, ReadTimeout, SemBlocks, SemTakes, SemTimesOut,
                FetchItem, FetchNothing, ItemReturns
<1>2. CASE Unwrapped(w) \/ CompleteNested(w) \/ CompletePost(w)
           \/ SelfDrainDispatches(w) \/ SelfDrainEmpty(w) \/ SelfJoinDispatches(w)
           \/ SelfTerminates(w) \/ WorkerLeaves(w) \/ WorkerExits(w)
    BY <1>2 DEF Unwrapped, CompleteNested, CompletePost, SelfDrainDispatches,
                SelfDrainEmpty, SelfJoinDispatches, SelfTerminates, WorkerLeaves,
                WorkerExits
<1>3. QED
    BY <1>1, <1>2 DEF WorkerActs

\* When the joiner has collected the workers, all have left, and the group is joined.
LEMMA CollectedJoined ==
    ASSUME TypeInv, Leaving, EndInv,
           joinOpen \/ \E t \in Threads : pc[t] = "releasing"
    PROVE  /\ state = "Joining"
           /\ \A w \in Workers : Left(w)
<1>1. exits = N
    BY DEF Leaving, OpenAtEnd
<1>2. LeftWorkers = Workers
    BY <1>1, LeftFinite DEF Leaving, ExitsCounted
<1>3. state = "Joining"
  <2>1. CASE joinOpen
      BY <2>1 DEF EndInv, ClosedAtEnd
  <2>2. ASSUME NEW t \in Threads, pc[t] = "releasing"
        PROVE  state = "Joining"
      BY <2>2 DEF EndInv, ClosedAtEnd, EndersKnown, AtEnd
  <2>3. QED
      BY <2>1, <2>2
<1>4. QED
    BY <1>2, <1>3 DEF LeftWorkers

\* A joined group begins no drain.
LEMMA NoDrainWhenJoined ==
    ASSUME NEW t \in Threads, DrainBegins(t)
    PROVE  state # "Joining"
BY DEF DrainBegins, Transition

\* A call keeps what holds at the end.
LEMMA CallCleans ==
    ASSUME TypeInv, Leaving, EndInv, CleanInv, NEW t \in Threads, CallActs(t)
    PROVE  CleanInv'
<1>1. PICK l \in CallPlaces :
          /\ Goto(t, l)
          /\ t \in Workers /\ l \in Departing => pc[t] \in Departing
          /\ l = "releasing" => CollectWorkers(t)
    BY CallMoves DEF Left, Departing
<1>2. pc' = [pc EXCEPT ![t] = l] /\ pc \in [Threads -> Places]
    BY <1>1 DEF Goto, TypeInv, TypeOK
<1>3. DepartingJoined'
  <2>1. ASSUME NEW w \in Workers, pc'[w] \in Departing
        PROVE  pc[w] \in Departing
      BY <1>1, <1>2, <2>1 DEF Threads
  <2>2. QED
      BY <2>1, JoiningStays DEF CleanInv, DepartingJoined
<1>4. CollectedClean'
  <2>1. SUFFICES ASSUME joinOpen' \/ \E u \in Threads : pc'[u] = "releasing"
                 PROVE  exited' = {} /\ nested' = {}
      BY DEF CollectedClean
  <2>2. CASE CollectWorkers(t)
      BY <2>2 DEF CollectWorkers
  <2>3. CASE ~CollectWorkers(t)
    <3>1. joinOpen \/ \E u \in Threads : pc[u] = "releasing"
        BY <1>1, <1>2, <2>1, <2>3, CallGates
    <3>2. ~DrainBegins(t)
        BY <3>1, CollectedJoined, NoDrainWhenJoined
    <3>3. QED
        BY <2>3, <3>1, <3>2, CallGates DEF CleanInv, CollectedClean
  <2>4. QED
      BY <2>2, <2>3
<1>5. FreedIsOpen'
    BY CallGates DEF CleanInv, FreedIsOpen
<1>6. QED
    BY <1>3, <1>4, <1>5 DEF CleanInv

\* So does a step of a worker: there is none when all have left.
LEMMA WorkerCleans ==
    ASSUME TypeInv, Leaving, EndInv, CleanInv, NEW w \in Workers, WorkerActs(w)
    PROVE  CleanInv'
<1>1. PICK l \in Places :
          /\ Goto(w, l)
          /\ l # "releasing"
          /\ l \in Departing => pc[w] \in Departing \/ state = "Joining"
    BY WorkerMoves
<1>2. pc' = [pc EXCEPT ![w] = l] /\ pc \in [Threads -> Places] /\ w \in Threads
    BY <1>1 DEF Goto, TypeInv, TypeOK, Threads
<1>3. state' = state /\ joinOpen' = joinOpen /\ freed' = freed /\ ~Left(w)
    BY WorkerMoves, LeftIsStill
<1>4. ~(joinOpen \/ \E u \in Threads : pc[u] = "releasing")
    BY <1>3, CollectedJoined
<1>5. DepartingJoined'
  <2>1. ASSUME NEW v \in Workers, pc'[v] \in Departing
        PROVE  pc[v] \in Departing \/ state = "Joining"
      BY <1>1, <1>2, <2>1 DEF Threads
  <2>2. QED
      BY <1>3, <2>1 DEF CleanInv, DepartingJoined
<1>6. CollectedClean'
    BY <1>1, <1>2, <1>3, <1>4 DEF CollectedClean
<1>7. FreedIsOpen'
    BY <1>3 DEF CleanInv, FreedIsOpen
<1>8. QED
    BY <1>5, <1>6, <1>7 DEF CleanInv

\* Nobody has departed at first.
LEMMA InitialClean == Init => CleanInv
<1>1. SUFFICES ASSUME Init
               PROVE  CleanInv
    OBVIOUS
<1>2. /\ \A t \in Threads : pc[t] \in {"start", "idle"}
      /\ ~joinOpen /\ ~freed
    BY <1>1 DEF Init
<1>3. DepartingJoined
    BY <1>2 DEF DepartingJoined, Departing, Threads
<1>4. QED
    BY <1>2, <1>3 DEF CleanInv, CollectedClean, FreedIsOpen

\* Every step keeps what holds at the end.
LEMMA CleanStep ==
    TypeInv /\ Leaving /\ EndInv /\ CleanInv /\ [Next]_vars => CleanInv'
<1>1. SUFFICES ASSUME TypeInv, Leaving, EndInv, CleanInv, [Next]_vars
               PROVE  CleanInv'
    OBVIOUS
<1>2. CASE UNCHANGED vars
    BY <1>1, <1>2 DEF vars, poolVars, joinVars, drainVars, CleanInv,
                      DepartingJoined, CollectedClean, FreedIsOpen
<1>3. ASSUME NEW c \in Clients, DrainUnblocks(c)
      PROVE  CleanInv'
  <2>1. /\ pc' = [pc EXCEPT ![c] = "drained"] /\ pc \in [Threads -> Places]
        /\ c \in Threads /\ c \notin Workers
      BY <1>1, <1>3, ThreadGroupAssumption
         DEF DrainUnblocks, Goto, TypeInv, TypeOK, Threads
  <2>2. /\ state' = state /\ joinOpen' = joinOpen /\ freed' = freed
        /\ exited' = exited /\ nested' = nested
      BY <1>3 DEF DrainUnblocks, poolVars, joinVars, drainVars
  <2>3. /\ \A w \in Workers : pc'[w] = pc[w]
        /\ \A t \in Threads : pc'[t] = "releasing" => pc[t] = "releasing"
      BY <2>1 DEF Threads
  <2>4. QED
      BY <1>1, <2>2, <2>3
         DEF CleanInv, DepartingJoined, CollectedClean, FreedIsOpen
<1>4. QED
    BY <1>1, <1>2, <1>3, Steps, CallCleans, WorkerCleans

\* What the state of the group is when it is deleted.
LEMMA CleanIsLeft ==
    ASSUME TypeInv, Leaving, NestExact, EndInv, CleanInv, freed
    PROVE  NobodyLeft /\ \A w \in Workers : Left(w)
<1>1. joinOpen
    BY DEF CleanInv, FreedIsOpen
<1>2. \A w \in Workers : Left(w)
    BY <1>1, CollectedJoined
<1>3. state = "Joining" /\ nestLevel = 0
    BY <1>1 DEF EndInv, ClosedAtEnd
<1>4. running = {}
    BY <1>2 DEF Leaving, RunningAtWork, TypeInv, TypeOK
<1>5. exited = {} /\ nested = {}
    BY <1>1 DEF CleanInv, CollectedClean
<1>6. \A w \in Workers : selfDrains[w] = 0
  <2>1. Cardinality(Holds) = 0
      BY <1>3, CallersFinite, FS_CardinalityType DEF NestExact
  <2>2. Holds = {}
      BY <2>1, FS_EmptySet DEF NestExact
  <2>3. ASSUME NEW w \in Workers
        PROVE  <<w, selfDrains[w]>> \in Workers \X Nat /\ selfDrains[w] \in Nat
      BY DEF TypeInv, TypeOK
  <2>4. ASSUME NEW w \in Workers, selfDrains[w] # 0
        PROVE  <<w, selfDrains[w]>> \in Holds
      BY <2>3, <2>4 DEF Holds
  <2>5. QED
      BY <2>2, <2>4
<1>7. QED
    BY <1>2, <1>3, <1>4, <1>5, <1>6 DEF NobodyLeft

\* A deleted group is joined, none of its threads is listed, no drain is counted
\* and no wrapper is left: ~ThrGrpState() and ~DrainManager() find all that they
\* assert, whoever joined and destroyed the group, the queue apart.
THEOREM FreedIsEmptied == Spec => []NobodyLeft
<1>1. TypeInv /\ Leaving /\ NestExact /\ EndInv /\ CleanInv => NobodyLeft
    BY CleanIsLeft DEF NobodyLeft
<1>2. QED
    BY InitialTypes, TypeKept, InitialLeaving, LeavingKept, InitialEnd, NestStep,
       EndStep, InitialClean, CleanStep, <1>1, PTL DEF Spec

--------------------------------------------------------------------------------
(* The queue of a group that is destroyed, and not joined before.           *)
(*                                                                         *)
(* Join() does not take a group out of service: work may be added while it  *)
(* waits, and after it, when there is nobody left to run it (the run         *)
(* ThreadGroupAddAfterJoin shows this).  A group that Destroy() alone ends   *)
(* is left with an empty queue.                                             *)

\* The program leaves Join() to Destroy().
NobodyJoins ==
    /\ \A c \in Clients : "join" \notin ClientCalls[c]
    /\ \A i \in Items : \A k \in DOMAIN Script[i] : Script[i][k] # "join"

\* The group is joined by its destroyer; while there is work for it, there is a
\* worker that will look at the queue again.
DestroyerJoins == state = "Joining" => destroyed
WorkersForQueue ==
    state = "Joining" /\ queue # <<>> => \E w \in Workers : pc[w] \notin Departing
ServedInv == DestroyerJoins /\ WorkersForQueue

\* Nobody makes a call that is in no script and is allowed to no client.
LEMMA NobodyCallsJoin ==
    ASSUME NobodyJoins, TypeInv, NEW t \in Threads
    PROVE  ~MayCall(t, "join")
<1>1. ASSUME t \in Clients
      PROVE  ~MayCall(t, "join")
    BY <1>1, ThreadGroupAssumption DEF MayCall, NobodyJoins
<1>2. ASSUME t \in Workers, MayCall(t, "join")
      PROVE  FALSE
  <2> DEFINE top == Head(stack[t])
  <2>1. stack[t] # <<>> /\ stack \in Stacks
      BY <1>2, Caller DEF TypeInv, TypeOK, Stacks, Threads
  <2>2. top \in Frames
      BY <1>2, <2>1, Top
  <2>3. Script[top.item] \in Seq(Calls) /\ top.item \in Items
      BY <2>2, ThreadGroupAssumption DEF Frames
  <2>4. top.next <= Len(Script[top.item]) /\ "join" = Script[top.item][top.next]
      BY <1>2, ThreadGroupAssumption DEF MayCall
  <2>5. top.next \in DOMAIN Script[top.item]
      BY <2>2, <2>3, <2>4 DEF Frames
  <2>6. QED
      BY <2>3, <2>4, <2>5 DEF NobodyJoins
<1>3. QED
    BY <1>1, <1>2 DEF Threads

\* Add() alone puts work into an empty queue.
LEMMA EmptyStays ==
    ASSUME TypeInv, NEW t \in Threads, CallActs(t), queue = <<>>
    PROVE  queue' = <<>> \/ \E i \in Items : Add(t, i)
<1> USE DEF poolVars
<1>1. CASE AddPost(t) \/ AddRefused(t) \/ Start(t) \/ DrainReturns(t)
           \/ DrainEnds(t) \/ JoinRefused(t) \/ DestroyAgain(t)
    BY <1>1 DEF AddPost, AddRefused, Start, DrainReturns, DrainEnds, JoinRefused,
                DestroyAgain
<1>2. CASE Stop(t)
    BY <1>2 DEF Stop, Discard
<1>3. CASE DrainBegins(t)
    BY <1>3 DEF DrainBegins
<1>4. CASE Join(t) \/ Destroy(t)
    BY <1>4 DEF Join, Destroy, BeginJoining
<1>5. CASE CollectWorkers(t) \/ JoinerDone(t) \/ FollowerDone(t)
    BY <1>5 DEF CollectWorkers, JoinerDone, FollowerDone, EndCall
<1>6. QED
    BY <1>1, <1>2, <1>3, <1>4, <1>5 DEF CallActs

\* A worker puts nothing into the queue.
LEMMA WorkersOnlyTake ==
    ASSUME NEW w \in Workers, WorkerActs(w), queue = <<>>
    PROVE  queue' = <<>>
<1> USE DEF poolVars
<1>1. CASE WorkerStarts(w) \/ ReadTimeout(w) \/ SemBlocks(w) \/ SemTakes(w)
           \/ SemTimesOut(w) \/ FetchNothing(w) \/ ItemReturns(w) \/ Unwrapped(w)
    BY <1>1 DEF WorkerStarts, ReadTimeout, SemBlocks, SemTakes, SemTimesOut,
                FetchNothing, ItemReturns, Unwrapped
<1>2. CASE CompleteNested(w) \/ CompletePost(w) \/ SelfDrainEmpty(w)
           \/ SelfTerminates(w) \/ WorkerLeaves(w) \/ WorkerExits(w)
    BY <1>2 DEF CompleteNested, CompletePost, SelfDrainEmpty, SelfTerminates,
                WorkerLeaves, WorkerExits
<1>3. CASE FetchItem(w) \/ SelfDrainDispatches(w) \/ SelfJoinDispatches(w)
    BY <1>3 DEF FetchItem, SelfDrainDispatches, SelfJoinDispatches, Dispatch
<1>4. QED
    BY <1>1, <1>2, <1>3 DEF WorkerActs

\* Destroy() finds a group that nobody has joined, so that every worker is at work.
LEMMA CallServes ==
    ASSUME NobodyJoins, TypeInv, Leaving, EndInv, CleanInv, ServedInv,
           NEW t \in Threads, CallActs(t)
    PROVE  ServedInv'
<1>1. PICK l \in CallPlaces :
          /\ Goto(t, l)
          /\ t \in Workers /\ l \in Departing => pc[t] \in Departing
    BY CallMoves DEF Left, Departing
<1>2. pc' = [pc EXCEPT ![t] = l] /\ pc \in [Threads -> Places]
    BY <1>1 DEF Goto, TypeInv, TypeOK
<1>3. \A w \in Workers : pc[w] \notin Departing => pc'[w] \notin Departing
    BY <1>1, <1>2 DEF Threads
<1>4. ~Join(t)
    BY NobodyCallsJoin DEF Join
<1>5. CASE Destroy(t)
  <2>1. ~destroyed /\ destroyed'
      BY <1>5 DEF Destroy
  <2>2. \A w \in Workers : pc[w] \notin Departing
      BY <2>1 DEF ServedInv, DestroyerJoins, CleanInv, DepartingJoined
  <2>3. \E w \in Workers : pc'[w] \notin Departing
      BY <1>3, <2>2, ThreadGroupAssumption
  <2>4. QED
      BY <2>1, <2>3 DEF ServedInv, DestroyerJoins, WorkersForQueue
<1>6. CASE ~Destroy(t)
  <2>1. state' = "Joining" => state = "Joining"
      BY <1>4, <1>6, JoiningStays
  <2>2. destroyed' = destroyed
    <3>1. CASE JoinerDone(t) \/ FollowerDone(t)
        BY <3>1 DEF JoinerDone, FollowerDone, EndCall
    <3>2. CASE CollectWorkers(t)
        BY <3>2 DEF CollectWorkers
    <3>3. CASE \/ \E i \in Items : Add(t, i)
               \/ AddPost(t) \/ AddRefused(t) \/ Stop(t) \/ Start(t)
        BY <3>3 DEF Add, AddPost, AddRefused, Stop, Start, joinVars
    <3>4. CASE DrainReturns(t) \/ DrainBegins(t) \/ DrainEnds(t)
               \/ JoinRefused(t) \/ DestroyAgain(t)
        BY <3>4 DEF DrainReturns, DrainBegins, DrainEnds, JoinRefused, DestroyAgain,
                    joinVars
    <3>5. QED
        BY <1>4, <1>6, <3>1, <3>2, <3>3, <3>4 DEF CallActs
  <2>3. DestroyerJoins'
      BY <2>1, <2>2 DEF ServedInv, DestroyerJoins
  <2>4. ASSUME state = "Joining", queue' # <<>>
        PROVE  \E w \in Workers : pc'[w] \notin Departing
    <3>1. CASE queue # <<>>
        BY <1>3, <2>4, <3>1 DEF ServedInv, WorkersForQueue
    <3>2. CASE queue = <<>>
      <4>1. PICK i \in Items : Add(t, i)
          BY <2>4, <3>2, EmptyStays
      <4>2. destroyed /\ MayCall(t, "add") /\ Goto(t, "adding")
          BY <2>4, <4>1 DEF Add, ServedInv, DestroyerJoins
      <4>3. t \in Workers
          BY <4>2 DEF MayCall
      <4>4. pc'[t] = "adding"
          BY <4>2, <1>2 DEF Goto
      <4>5. QED
          BY <4>3, <4>4 DEF Departing
    <3>3. QED
        BY <3>1, <3>2
  <2>5. WorkersForQueue'
      BY <2>1, <2>4 DEF WorkersForQueue
  <2>6. QED
      BY <2>3, <2>5 DEF ServedInv
<1>7. QED
    BY <1>5, <1>6

\* A worker departs when it finds nothing.
LEMMA WorkerServes ==
    ASSUME TypeInv, EndInv, ServedInv, NEW w \in Workers, WorkerActs(w)
    PROVE  ServedInv'
<1>1. PICK l \in Places :
          /\ Goto(w, l)
          /\ l \in Departing => pc[w] \in Departing \/ queue' = <<>>
    BY WorkerMoves
<1>2. pc' = [pc EXCEPT ![w] = l] /\ pc \in [Threads -> Places]
    BY <1>1 DEF Goto, TypeInv, TypeOK
<1>3. state' = state
    BY WorkerMoves
<1>4. destroyed' = destroyed
  <2>1. CASE WorkerStarts(w) \/ WorkerLeaves(w) \/ WorkerExits(w) \/ SelfTerminates(w)
      BY <2>1 DEF WorkerStarts, WorkerLeaves, WorkerExits, SelfTerminates
  <2>2. CASE ~(WorkerStarts(w) \/ WorkerLeaves(w) \/ WorkerExits(w) \/ SelfTerminates(w))
    <3>1. UNCHANGED joinVars
        BY <2>2 DEF WorkerActs, ReadTimeout, SemBlocks, SemTakes, SemTimesOut,
                    FetchItem, FetchNothing, ItemReturns, Unwrapped, CompleteNested,
                    CompletePost, SelfDrainDispatches, SelfDrainEmpty,
                    SelfJoinDispatches
    <3>2. QED
        BY <3>1 DEF joinVars
  <2>3. QED
      BY <2>1, <2>2
<1>5. ASSUME state = "Joining", queue' # <<>>
      PROVE  \E v \in Workers : pc'[v] \notin Departing
  <2>1. PICK v \in Workers : pc[v] \notin Departing
      BY <1>5, WorkersOnlyTake DEF ServedInv, WorkersForQueue
  <2>2. pc'[v] \notin Departing
      BY <1>1, <1>2, <1>5, <2>1 DEF Threads
  <2>3. QED
      BY <2>2
<1>6. QED
    BY <1>3, <1>4, <1>5 DEF ServedInv, DestroyerJoins, WorkersForQueue

\* Every step keeps the queue served.
LEMMA ServedStep ==
    ASSUME NobodyJoins
    PROVE  /\ Init => ServedInv
           /\ TypeInv /\ Leaving /\ EndInv /\ CleanInv /\ ServedInv /\ [Next]_vars
                 => ServedInv'
<1>1. Init => ServedInv
    BY DEF Init, ServedInv, DestroyerJoins, WorkersForQueue
<1>2. SUFFICES ASSUME TypeInv, Leaving, EndInv, CleanInv, ServedInv, [Next]_vars
               PROVE  ServedInv'
    BY <1>1
<1>3. CASE UNCHANGED vars
    BY <1>2, <1>3 DEF vars, poolVars, joinVars, ServedInv, DestroyerJoins,
                      WorkersForQueue
<1>4. ASSUME NEW c \in Clients, DrainUnblocks(c)
      PROVE  ServedInv'
  <2>1. /\ pc' = [pc EXCEPT ![c] = "drained"] /\ pc \in [Threads -> Places]
        /\ c \notin Workers
      BY <1>2, <1>4, ThreadGroupAssumption DEF DrainUnblocks, Goto, TypeInv, TypeOK
  <2>2. state' = state /\ queue' = queue /\ destroyed' = destroyed
      BY <1>4 DEF DrainUnblocks, poolVars, joinVars
  <2>3. \A w \in Workers : pc'[w] = pc[w]
      BY <2>1 DEF Threads
  <2>4. QED
      BY <1>2, <2>2, <2>3 DEF ServedInv, DestroyerJoins, WorkersForQueue
<1>5. QED
    BY <1>2, <1>3, <1>4, Steps, CallServes, WorkerServes

\* ~ThrGrpState() and ~DrainManager() find all that they assert, the empty queue
\* included, in a group that nobody joins before it is destroyed; items may add
\* work to it to the last, and drain and destroy it themselves.
THEOREM DestructorsAreRight ==
    ASSUME NobodyJoins
    PROVE  Spec => []DestructorAsserts
<1>1. TypeInv /\ Leaving /\ NestExact /\ EndInv /\ CleanInv /\ ServedInv
         => DestructorAsserts
  <2>1. SUFFICES ASSUME TypeInv, Leaving, NestExact, EndInv, CleanInv, ServedInv,
                        freed
                 PROVE  queue = <<>> /\ NobodyLeft
      BY DEF DestructorAsserts, NobodyLeft
  <2>2. NobodyLeft /\ \A w \in Workers : Left(w)
      BY <2>1, CleanIsLeft
  <2>3. QED
      BY <2>1, <2>2 DEF NobodyLeft, ServedInv, WorkersForQueue, Left, Departing
<1>2. QED
    BY InitialTypes, TypeKept, InitialLeaving, LeavingKept, InitialEnd, NestStep,
       EndStep, InitialClean, CleanStep, ServedStep, <1>1, PTL DEF Spec

================================================================================
