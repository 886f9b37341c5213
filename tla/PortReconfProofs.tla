--------------------------- MODULE PortReconfProofs ----------------------------
(***************************************************************************)
(* Proofs about PortReconf, for any requests, sessions, orders and times.   *)
(*                                                                         *)
(* Whatever a request does, the count of m_pr_sem and the number of those   *)
(* that hold it never add up to less than before.  So the lock is not lost; *)
(* and a step that ends without a surplus began without one, so that the    *)
(* request that took it was alone: what the others rely on cannot change    *)
(* under them.                                                              *)
(***************************************************************************)
EXTENDS PortReconf, FiniteSetTheorems, TLAPS

\* The delays of the timer, and what they have come to when it is over.
TimerRuns ==
    \A r \in Requests :
        /\ pc[r] = "grace" =>
              /\ elapsed[r] <= waited[r]
              /\ waited[r] <= order[r].timeout
        /\ pc[r] = "expired" => waited[r] = order[r].timeout

\* Before its grace has begun a request has revoked nobody, and no deactivation
\* revokes before a callback does.
RevokesLate ==
    \A r \in Requests :
        /\ pc[r] \in {"idle", "lock", "sigtap", "hbusy", "wbusy"} => revoked[r] = {}
        /\ pc[r] = "grace" => "callback" \notin revoked[r]
        /\ pc[r] = "grace" /\ order[r].cmd = "deactivate" => revoked[r] = {}

\* Only a request that has ended has an outcome.
AnswerLast == \A r \in Requests : answer[r] # "none" => pc[r] = "done"

\* The client that sent a request owns the PR device or has let go of it.
SenderKnown ==
    \A r \in Requests :
        pc[r] # "idle" => sess[r] # NoSession /\ sess[r] \in closed \cup {prOwner}

IInv ==
    /\ TypeOK
    /\ LockNeverLost
    /\ AfuPointerLive
    /\ ProgramsOnlyDeactivated
    /\ FullGrace
    /\ DroppedOnlyIfGone
    /\ TimerRuns
    /\ RevokesLate
    /\ AnswerLast
    /\ SenderKnown

--------------------------------------------------------------------------------
(* How a step of a request moves it and the lock. *)

\* It takes the lock and gives it back, perhaps twice; takes it; goes on with it;
\* or gives it back, perhaps twice.
LockStep(r) ==
    \/ /\ pc[r] = "lock" /\ prSem > 0
       /\ Goto(r, "done") /\ prSem' \in {prSem, prSem + 1}
    \/ /\ pc[r] = "lock" /\ prSem > 0
       /\ \E p \in Working : Goto(r, p)
       /\ prSem' = prSem - 1
    \/ /\ pc[r] \in Working
       /\ \E p \in Working : Goto(r, p)
       /\ prSem' = prSem
    \/ /\ pc[r] \in Working
       /\ Goto(r, "done") /\ prSem' \in {prSem + 1, prSem + 2}

LEMMA HandlerLockStep ==
    ASSUME TypeOK, NEW r \in Requests, Handler(r)
    PROVE  LockStep(r)
<1> USE DEF LockStep, Enters, Admits, Takes, Finish, Goto, Working, Aimed
<1>1. CASE DeactivateRefused(r) \/ ActivateRefused(r) \/ ConfigureRefused(r)
    BY <1>1 DEF DeactivateRefused, ActivateRefused, ConfigureRefused
<1>2. CASE Activate(r)
    BY <1>2 DEF Activate
<1>3. CASE SigtapFirst(r) \/ ProgramAtOnce(r) \/ HandlerFindsFree(r) \/ HandlerFindsBusy(r)
    BY <1>3 DEF SigtapFirst, ProgramAtOnce, HandlerFindsFree, HandlerFindsBusy
<1>4. CASE HandlerRefusesBusy(r) \/ HandlerStartsGrace(r) \/ HandlerRefusesOdd(r)
    BY <1>4 DEF HandlerRefusesBusy, HandlerStartsGrace, HandlerRefusesOdd,
                HandlerStillBusy, HandlerAnswers
<1>5. CASE HandlerDeactivates(r)
    BY <1>5 DEF HandlerDeactivates, HandlerAnswers
<1>6. QED
    BY <1>1, <1>2, <1>3, <1>4, <1>5 DEF Handler

LEMMA CallbackLockStep ==
    ASSUME TypeOK, NEW r \in Requests, Callback(r)
    PROVE  LockStep(r)
<1> USE DEF LockStep, Requeue, ReleaseSend, Finish, Goto, Working, Aimed, Called
<1>1. CASE Abandon(r)
    BY <1>1 DEF Abandon, Abandons, ContextFree
<1>2. CASE SigtapAgain(r) \/ GraceGoesOn(r) \/ RevokeAgain(r)
    BY <1>2 DEF SigtapAgain, GraceGoesOn, RevokeAgain, StillOwned, TypeOK
<1>3. CASE SigtapGivesUp(r) \/ RevokeGivesUp(r)
    BY <1>3 DEF SigtapGivesUp, RevokeGivesUp, StillOwned
<1>4. CASE BitstreamProgram(r) \/ BitstreamFindsFree(r) \/ BitstreamFindsBusy(r)
    BY <1>4 DEF BitstreamProgram, BitstreamFindsFree, BitstreamFindsBusy, SigtapReleased
<1>5. CASE BitstreamRefusesBusy(r) \/ BitstreamStartsGrace(r) \/ BitstreamRefusesOdd(r)
    BY <1>5 DEF BitstreamRefusesBusy, BitstreamStartsGrace, BitstreamRefusesOdd,
                BitstreamStillBusy
<1>6. CASE GraceEnds(r) \/ OwnerHonored(r) \/ OwnerRevoked(r)
    BY <1>6 DEF GraceEnds, OwnerHonored, OwnerRevoked, StillOwned
<1>7. CASE AFUReleased(r)
    BY <1>7 DEF AFUReleased
<1>8. CASE CallbackDeactivates(r)
    BY <1>8 DEF CallbackDeactivates
<1>9. CASE ProgramEnds(r)
    BY <1>9 DEF ProgramEnds
<1>10. CASE Oops(r)
    BY <1>10 DEF Oops, BadPointer
<1>11. QED
    BY <1>1, <1>2, <1>3, <1>4, <1>5, <1>6, <1>7, <1>8, <1>9, <1>10 DEF Callback

LEMMA FiniteHolders == IsFiniteSet(Holders) /\ Cardinality(Holders) \in Nat
BY PortReconfAssumption, FS_Subset, FS_CardinalityType DEF Holders

\* How many hold the lock after one request has moved.
LEMMA HoldersAfter ==
    ASSUME TypeOK, NEW r \in Requests, NEW p \in Places, Goto(r, p)
    PROVE  /\ pc' \in [Requests -> Places]
           /\ pc'[r] = p
           /\ \A q \in Requests \ {r} : pc'[q] = pc[q]
           /\ Cardinality(Holders') \in Nat
           /\ r \in Holders <=> pc[r] \in Working
           /\ (r \in Holders <=> p \in Working) =>
                 Cardinality(Holders') = Cardinality(Holders)
           /\ r \notin Holders /\ p \in Working =>
                 Cardinality(Holders') = Cardinality(Holders) + 1
           /\ r \in Holders /\ p \notin Working =>
                 Cardinality(Holders') = Cardinality(Holders) - 1
<1>1. /\ pc' \in [Requests -> Places]
      /\ pc'[r] = p
      /\ \A q \in Requests \ {r} : pc'[q] = pc[q]
    BY DEF TypeOK, Goto
<1>2. Holders' = IF p \in Working THEN Holders \cup {r} ELSE Holders \ {r}
    BY <1>1 DEF Holders, Working, Aimed
<1>3. r \in Holders <=> pc[r] \in Working
    BY DEF Holders
<1>4. /\ Cardinality(Holders \cup {r}) =
             IF r \in Holders THEN Cardinality(Holders) ELSE Cardinality(Holders) + 1
      /\ Cardinality(Holders \ {r}) =
             IF r \in Holders THEN Cardinality(Holders) - 1 ELSE Cardinality(Holders)
    BY FiniteHolders, FS_AddElement, FS_RemoveElement
<1>5. /\ r \in Holders => Holders \cup {r} = Holders
      /\ r \notin Holders => Holders \ {r} = Holders
    OBVIOUS
<1>6. IsFiniteSet(Holders \cup {r}) /\ IsFiniteSet(Holders \ {r})
    BY FiniteHolders, FS_AddElement, FS_RemoveElement
<1>7. Cardinality(Holders') \in Nat
    BY <1>2, <1>6, FS_CardinalityType
<1>8. QED
    BY <1>1, <1>2, <1>3, <1>4, <1>5, <1>7, FiniteHolders

\* The count and the holders never add up to less; and a step that leaves no
\* surplus is taken by the only request at work.
LEMMA LockStepKeeps ==
    ASSUME TypeOK, NEW r \in Requests, LockStep(r)
    PROVE  /\ prSem' \in Nat
           /\ prSem' + Cardinality(Holders') >= prSem + Cardinality(Holders)
           /\ ~OverReleased' =>
                 /\ ~OverReleased
                 /\ \A q \in Requests \ {r} : pc[q] \notin Working
<1>1. PICK p \in Working \cup {"done"} : Goto(r, p)
    BY DEF LockStep
<1>2. p \in Places /\ "done" \notin Working
    BY <1>1 DEF Places, Working, Aimed
<1>3. prSem \in Nat /\ Cardinality(Holders) \in Nat
    BY FiniteHolders DEF TypeOK
<1>4. \/ pc[r] = "lock" /\ p = "done" /\ prSem > 0 /\ prSem' \in {prSem, prSem + 1}
      \/ pc[r] = "lock" /\ p \in Working /\ prSem > 0 /\ prSem' = prSem - 1
      \/ pc[r] \in Working /\ p \in Working /\ prSem' = prSem
      \/ pc[r] \in Working /\ p = "done" /\ prSem' \in {prSem + 1, prSem + 2}
    BY <1>1 DEF LockStep, Goto, TypeOK
<1>5. prSem' \in Nat /\ prSem' + Cardinality(Holders') >= prSem + Cardinality(Holders)
  <2>1. /\ Cardinality(Holders') \in Nat
        /\ pc[r] \in Working /\ p \in Working =>
              Cardinality(Holders') = Cardinality(Holders)
        /\ pc[r] = "lock" /\ p = "done" =>
              Cardinality(Holders') = Cardinality(Holders)
        /\ pc[r] = "lock" /\ p \in Working =>
              Cardinality(Holders') = Cardinality(Holders) + 1
        /\ pc[r] \in Working /\ p = "done" =>
              Cardinality(Holders') = Cardinality(Holders) - 1
    <3>1. pc[r] = "lock" => pc[r] \notin Working
        BY DEF Working, Aimed
    <3>2. QED
        BY <1>1, <1>2, <3>1, HoldersAfter
  <2>2. QED
      BY <1>3, <1>4, <2>1
<1>6. ASSUME ~OverReleased'
      PROVE  ~OverReleased /\ \A q \in Requests \ {r} : pc[q] \notin Working
  <2>1. prSem + Cardinality(Holders) <= 1 /\ ~OverReleased
    <3>1. Cardinality(Holders') \in Nat
        BY <1>1, <1>2, HoldersAfter
    <3>2. QED
        BY <1>3, <1>5, <1>6, <3>1 DEF OverReleased
  <2>2. SUFFICES ASSUME NEW q \in Requests \ {r}, pc[q] \in Working PROVE FALSE
      BY <2>1
  <2>3. {q} \subseteq Holders /\ Cardinality({q}) = 1
      BY <2>2, FS_Singleton DEF Holders
  <2>4. CASE pc[r] = "lock"
    <3>1. prSem >= 1
        BY <2>4, <1>3 DEF LockStep, Working, Aimed
    <3>2. Cardinality(Holders) >= 1
        BY <2>3, FiniteHolders, FS_Subset
    <3>3. QED
        BY <3>1, <3>2, <2>1, <1>3, FiniteHolders
  <2>5. CASE pc[r] \in Working
    <3>1. {q} \cup {r} \subseteq Holders
        BY <2>2, <2>5 DEF Holders
    <3>2. Cardinality({q} \cup {r}) = 2
      <4>1. IsFiniteSet({q}) /\ r \notin {q}
          BY FS_Singleton
      <4>2. Cardinality({q} \cup {r}) = Cardinality({q}) + 1
          BY <4>1, FS_AddElement
      <4>3. QED
          BY <4>2, <2>3
    <3>3. Cardinality(Holders) >= 2
        BY <3>1, <3>2, FiniteHolders, FS_Subset
    <3>4. QED
        BY <3>3, <2>1, <1>3, FiniteHolders
  <2>6. QED
      BY <2>4, <2>5 DEF LockStep
<1>7. QED
    BY <1>5, <1>6

--------------------------------------------------------------------------------
(* Type correctness. *)

LEMMA InitTypeOK == Init => TypeOK
<1> SUFFICES ASSUME Init PROVE TypeOK
    OBVIOUS
<1>1. (CHOOSE o \in Orders : TRUE) \in Orders
    BY PortReconfAssumption
<1>2. order \in [Requests -> Orders]
    BY <1>1 DEF Init
<1>3. /\ prSem = 1 /\ made = 1 /\ uafu = 1
      /\ afuOwner \in BOOLEAN /\ stapOwner \in BOOLEAN
      /\ prOwner \in Sessions \cup {NoSession} /\ closed \subseteq Sessions
      /\ pc \in [Requests -> Places] /\ answer \in [Requests -> Outcomes]
      /\ sess \in [Requests -> Sessions \cup {NoSession}]
    BY DEF Init, Places, Working, Aimed, Outcomes
<1>4. /\ afu \in [Requests -> {0}]
      /\ elapsed \in [Requests -> {0}] /\ waited \in [Requests -> {0}]
      /\ tapRevokes \in [Requests -> {0}] /\ afuRevokes \in [Requests -> {0}]
      /\ revoked \in [Requests -> {{}}]
    BY DEF Init
<1>5. QED
    BY <1>2, <1>3, <1>4, PortReconfAssumption DEF TypeOK

LEMMA ClientTypeOK == TypeOK /\ Client => TypeOK'
<1> SUFFICES ASSUME TypeOK, Client PROVE TypeOK'
    OBVIOUS
<1> USE DEF TypeOK, device, clients, context, timer, tries
<1>1. CASE PRUnbind \/ \E s \in Sessions : PRBind(s)
    BY <1>1 DEF PRBind, PRUnbind
<1>2. CASE AFUBind \/ AFUUnbind \/ StapBind \/ StapUnbind
    BY <1>2 DEF AFUBind, AFUUnbind, StapBind, StapUnbind
<1>3. ASSUME NEW r \in Requests, NEW o \in Orders, Send(r, o)
      PROVE  TypeOK'
    BY <1>3 DEF Send, Goto, Places, Working, Aimed
<1>4. ASSUME NEW r \in Requests, Interrupted(r)
      PROVE  TypeOK'
    BY <1>4 DEF Interrupted, Finish, Goto, Places, Working, Aimed, Outcomes
<1>5. QED
    BY <1>1, <1>2, <1>3, <1>4 DEF Client

\* The numbers of the timer stay numbers.
LEMMA TimerTypes ==
    ASSUME TypeOK, NEW r \in Requests
    PROVE  /\ order[r].timeout \in Nat
           /\ FirstDelay(r) \in Nat /\ FirstDelay(r) <= order[r].timeout
           /\ elapsed[r] < order[r].timeout => NextDelay(r) \in Nat
BY PortReconfAssumption DEF TypeOK, FirstDelay, NextDelay, Smaller

\* The counts of revocations stay within their bound.
LEMMA TriesTypes ==
    ASSUME NEW tried, tried \in [Requests -> 0..MaxTry], NEW r \in Requests,
           tried[r] < MaxTry
    PROVE  [tried EXCEPT ![r] = @ + 1] \in [Requests -> 0..MaxTry]
<1>1. tried[r] + 1 \in 0..MaxTry
    BY PortReconfAssumption
<1>2. QED
    BY <1>1

\* The device of the port after the steps that make and destroy one.
LEMMA DeviceTypes ==
    ASSUME TypeOK, CreateAFU \/ DestroyAFU \/ UNCHANGED device
    PROVE  /\ made' \in Nat \ {0} /\ made' >= made
           /\ uafu' \in 0..made'
           /\ afuOwner' \in BOOLEAN
           /\ afu \in [Requests -> 0..made']
<1>1. made' \in Nat \ {0} /\ made' >= made
    BY DEF TypeOK, CreateAFU, DestroyAFU, device
<1>2. uafu' \in 0..made' /\ afuOwner' \in BOOLEAN
  <2>1. CASE CreateAFU \/ DestroyAFU
    <3>1. uafu' = made' \/ uafu' = 0
        BY <2>1 DEF CreateAFU, DestroyAFU
    <3>2. uafu' \in 0..made'
        BY <1>1, <3>1
    <3>3. afuOwner' \in BOOLEAN
        BY <2>1, Zenon DEF CreateAFU, DestroyAFU
    <3>4. QED
        BY <3>2, <3>3
  <2>2. CASE UNCHANGED device
      BY <2>2 DEF TypeOK, device
  <2>3. QED
      BY <2>1, <2>2
<1>3. 0..made \subseteq 0..made'
    BY <1>1 DEF TypeOK
<1>4. afu \in [Requests -> 0..made']
    BY <1>3 DEF TypeOK
<1>5. QED
    BY <1>1, <1>2, <1>4

LEMMA HandlerTypeOK ==
    ASSUME TypeOK, NEW r \in Requests, Handler(r)
    PROVE  TypeOK'
<1> USE DEF TypeOK, clients, context, timer, tries, Enters, Admits, Takes, Finish, Goto,
            Places, Working, Aimed, Outcomes, Errors
<1>1. prSem' \in Nat
    BY HandlerLockStep, LockStepKeeps
<1>2. CASE DeactivateRefused(r) \/ ActivateRefused(r) \/ ConfigureRefused(r)
    BY <1>2 DEF DeactivateRefused, ActivateRefused, ConfigureRefused, device
<1>3. CASE Activate(r)
    BY <1>3, DeviceTypes DEF Activate, ActivateAFU
<1>4. CASE SigtapFirst(r)
    BY <1>1, <1>4 DEF SigtapFirst, device
<1>5. CASE ProgramAtOnce(r) \/ HandlerFindsFree(r) \/ HandlerFindsBusy(r)
    BY <1>1, <1>5 DEF ProgramAtOnce, HandlerFindsFree, HandlerFindsBusy, Aims, device
<1>6. CASE HandlerRefusesBusy(r) \/ HandlerRefusesOdd(r)
    BY <1>1, <1>6 DEF HandlerRefusesBusy, HandlerRefusesOdd, HandlerTells, SendsRevoke,
                      HandlerAnswers, device
<1>7. CASE HandlerStartsGrace(r)
    BY <1>1, <1>7, TimerTypes DEF HandlerStartsGrace, HandlerTells, SendsRevoke,
                                  StartTimer, device
<1>8. CASE HandlerDeactivates(r)
    BY <1>1, <1>8, DeviceTypes DEF HandlerDeactivates, HandlerAnswers
<1>9. QED
    BY <1>2, <1>3, <1>4, <1>5, <1>6, <1>7, <1>8 DEF Handler

LEMMA CallbackTypeOK ==
    ASSUME TypeOK, NEW r \in Requests, Callback(r)
    PROVE  TypeOK'
<1> USE DEF TypeOK, clients, context, timer, tries, Requeue, ReleaseSend, Finish, Goto,
            Places, Working, Aimed, Outcomes, Errors
<1>1. prSem' \in Nat
    BY CallbackLockStep, LockStepKeeps
<1>2. CASE Abandon(r)
    BY <1>1, <1>2 DEF Abandon, ContextFree, device
<1>3. CASE SigtapAgain(r) \/ RevokeAgain(r)
    BY <1>3, TriesTypes DEF SigtapAgain, RevokeAgain, device
<1>4. CASE SigtapGivesUp(r) \/ OwnerHonored(r) \/ RevokeGivesUp(r)
    BY <1>1, <1>4 DEF SigtapGivesUp, OwnerHonored, RevokeGivesUp, device
<1>5. CASE BitstreamProgram(r) \/ BitstreamFindsFree(r) \/ BitstreamFindsBusy(r)
    BY <1>5 DEF BitstreamProgram, BitstreamFindsFree, BitstreamFindsBusy, Aims, device
<1>6. CASE BitstreamRefusesBusy(r) \/ BitstreamRefusesOdd(r)
    BY <1>1, <1>6 DEF BitstreamRefusesBusy, BitstreamRefusesOdd, device
<1>7. CASE BitstreamStartsGrace(r)
    BY <1>7, TimerTypes DEF BitstreamStartsGrace, StartTimer, device
<1>8. CASE GraceGoesOn(r)
  <2>1. elapsed' \in [Requests -> Nat]
      BY <1>8, PortReconfAssumption DEF GraceGoesOn, CountDelay
  <2>2. waited' \in [Requests -> Nat]
      BY <1>8, TimerTypes DEF GraceGoesOn, Smaller
  <2>3. QED
      BY <1>8, <2>1, <2>2 DEF GraceGoesOn, device
<1>9. CASE OwnerRevoked(r)
    BY <1>9 DEF OwnerRevoked, SendsRevoke, device
<1>10. CASE GraceEnds(r) \/ AFUReleased(r) \/ Oops(r)
    BY <1>10 DEF GraceEnds, AFUReleased, Oops, device
<1>11. CASE CallbackDeactivates(r)
    BY <1>1, <1>11, DeviceTypes DEF CallbackDeactivates
<1>12. CASE ProgramEnds(r)
    BY <1>1, <1>12, DeviceTypes DEF ProgramEnds, ActivateAFU
<1>13. QED
    BY <1>2, <1>3, <1>4, <1>5, <1>6, <1>7, <1>8, <1>9, <1>10, <1>11, <1>12 DEF Callback

LEMMA NextTypeOK == TypeOK /\ [Next]_vars => TypeOK'
<1>1. ASSUME TypeOK, UNCHANGED vars PROVE TypeOK'
    BY <1>1 DEF TypeOK, vars, device, clients, context, timer, tries
<1>2. QED
    BY <1>1, ClientTypeOK, HandlerTypeOK, CallbackTypeOK DEF Next

\* No step of a request or a client makes a variable of the driver leave its type.
THEOREM TypeCorrect == Spec => []TypeOK
BY InitTypeOK, NextTypeOK, PTL DEF Spec

--------------------------------------------------------------------------------
(* The inductive invariant: the clients. *)

LEMMA InitIInv == Init => IInv
<1> SUFFICES ASSUME Init PROVE IInv
    OBVIOUS
<1>1. /\ Holders = {}
      /\ \A r \in Requests : pc[r] = "idle" /\ answer[r] = "none" /\ revoked[r] = {}
    BY DEF Init, Holders, Working, Aimed
<1>2. LockNeverLost
  <2>1. Cardinality(Holders) = 0 /\ prSem = 1
      BY <1>1, FS_EmptySet DEF Init
  <2>2. QED
      BY <2>1 DEF LockNeverLost
<1>3. AfuPointerLive /\ ProgramsOnlyDeactivated
    BY <1>1 DEF AfuPointerLive, ProgramsOnlyDeactivated, Aimed
<1>4. FullGrace /\ DroppedOnlyIfGone /\ TimerRuns /\ RevokesLate /\ AnswerLast
      /\ SenderKnown
    BY <1>1 DEF FullGrace, DroppedOnlyIfGone, TimerRuns, RevokesLate, AnswerLast,
                SenderKnown
<1>5. QED
    BY <1>2, <1>3, <1>4, InitTypeOK DEF IInv

\* What a client does concerns no request at work, and no device but its own.
LEMMA ClientKeeps ==
    ASSUME IInv, Client
    PROVE  IInv'
<1> USE DEF device, clients, context, timer, tries
<1>1. TypeOK /\ TypeOK'
    BY ClientTypeOK DEF IInv
<1>2. /\ prSem' = prSem /\ uafu' = uafu /\ afu' = afu
      /\ waited' = waited /\ elapsed' = elapsed /\ revoked' = revoked
    BY DEF tries, Client, PRBind, PRUnbind, AFUBind, AFUUnbind, StapBind, StapUnbind, Send,
           Interrupted
<1> DEFINE
      Sent(q) ==
          /\ pc'[q] # pc[q] => pc'[q] \in {"lock", "done"} /\ pc[q] \in {"idle", "lock"}
          /\ pc[q] # "idle" => order'[q] = order[q] /\ sess'[q] = sess[q]
          /\ answer'[q] # answer[q] => pc'[q] = "done" /\ answer'[q] = "EINVAL"
<1>3. \A q \in Requests : Sent(q)
  <2>1. CASE UNCHANGED <<pc, order, sess, answer>>
      BY <2>1
  <2>2. ASSUME NEW r \in Requests, NEW o \in Orders, Send(r, o)
        PROVE  \A q \in Requests : Sent(q)
      BY <1>1, <2>2 DEF Send, Goto, TypeOK
  <2>3. ASSUME NEW r \in Requests, Interrupted(r)
        PROVE  \A q \in Requests : Sent(q)
      BY <1>1, <2>3 DEF Interrupted, Finish, Goto, TypeOK
  <2>4. QED
      BY <2>1, <2>2, <2>3 DEF Client, PRBind, PRUnbind, AFUBind, AFUUnbind, StapBind,
                              StapUnbind
<1>4. Holders' = Holders
    BY <1>3 DEF Holders, Working, Aimed
<1>5. LockNeverLost' /\ (OverReleased' <=> OverReleased)
    BY <1>2, <1>4 DEF IInv, LockNeverLost, OverReleased
<1>6. AfuPointerLive' /\ ProgramsOnlyDeactivated'
    BY <1>2, <1>3, <1>5 DEF IInv, AfuPointerLive, ProgramsOnlyDeactivated, Aimed
<1>7. FullGrace' /\ TimerRuns' /\ RevokesLate' /\ AnswerLast'
  <2>1. TimerRuns' /\ AnswerLast'
      BY <1>2, <1>3 DEF IInv, TimerRuns, AnswerLast
  <2>2. ASSUME NEW q \in Requests
        PROVE  \/ order'[q] = order[q] /\ (pc'[q] = pc[q] \/ pc'[q] \in {"lock", "done"})
               \/ pc[q] = "idle" /\ pc'[q] \in {"idle", "lock", "done"}
      BY <1>3
  <2>3. RevokesLate'
      BY <1>2, <1>3, <2>2 DEF IInv, RevokesLate
  <2>4. FullGrace'
    <3>1. SUFFICES ASSUME NEW q \in Requests,
                          \/ pc'[q] = "revoke"
                          \/ answer'[q] = "DeviceBusy"
                          \/ "callback" \in revoked'[q]
                          \/ order'[q].cmd = "deactivate" /\ revoked'[q] # {}
                   PROVE  waited'[q] = order'[q].timeout
        BY DEF FullGrace
    <3>2. CASE pc[q] = "idle"
      <4>1. revoked[q] = {} /\ answer[q] = "none"
          BY <3>2 DEF IInv, RevokesLate, AnswerLast
      <4>2. pc'[q] # "revoke" /\ answer'[q] # "DeviceBusy"
          BY <1>3, <3>2, <4>1
      <4>3. QED
          BY <1>2, <3>1, <4>1, <4>2
    <3>3. CASE pc[q] # "idle"
        BY <1>2, <1>3, <3>1, <3>3 DEF IInv, FullGrace
    <3>4. QED
        BY <3>2, <3>3
  <2>5. QED
      BY <2>1, <2>3, <2>4
<1>8. closed \subseteq closed' /\ (prOwner' # prOwner => prOwner \in closed' \cup {NoSession})
    BY <1>1 DEF Client, PRBind, PRUnbind, AFUBind, AFUUnbind, StapBind, StapUnbind, Send,
           Interrupted
<1>9. SenderKnown'
  <2>1. ASSUME NEW r \in Requests, NEW o \in Orders, Send(r, o)
        PROVE  SenderKnown'
      BY <1>1, <2>1 DEF IInv, SenderKnown, Send, Goto, TypeOK
  <2>2. CASE \A q \in Requests : pc'[q] # "idle" => pc[q] # "idle"
      BY <1>3, <1>8, <2>2 DEF IInv, SenderKnown
  <2>3. QED
      BY <2>1, <2>2, <1>1 DEF Client, PRBind, PRUnbind, AFUBind, AFUUnbind, StapBind,
                         StapUnbind, Interrupted, Finish, Goto, TypeOK
<1>10. DroppedOnlyIfGone'
    BY <1>3, <1>8 DEF IInv, DroppedOnlyIfGone, AnswerLast
<1>11. QED
    BY <1>1, <1>5, <1>6, <1>7, <1>9, <1>10 DEF IInv

--------------------------------------------------------------------------------
(* The inductive invariant: the request that moves, and the others. *)

\* A step of one request leaves the contexts of the others alone, and the clients.
LEMMA OthersKeep ==
    ASSUME TypeOK, NEW r \in Requests, Handler(r) \/ Callback(r)
    PROVE  /\ UNCHANGED <<order, sess, clients>>
           /\ \A q \in Requests \ {r} :
                 /\ pc'[q] = pc[q] /\ answer'[q] = answer[q] /\ afu'[q] = afu[q]
                 /\ elapsed'[q] = elapsed[q] /\ waited'[q] = waited[q]
                 /\ revoked'[q] = revoked[q]
<1> USE DEF TypeOK, context, timer, tries, Goto, Finish
<1>1. CASE DeactivateRefused(r) \/ ActivateRefused(r) \/ ConfigureRefused(r) \/ Activate(r)
    BY <1>1 DEF DeactivateRefused, ActivateRefused, ConfigureRefused, Activate
<1>2. CASE SigtapFirst(r) \/ ProgramAtOnce(r) \/ HandlerFindsFree(r)
           \/ HandlerFindsBusy(r)
    BY <1>2 DEF SigtapFirst, ProgramAtOnce, HandlerFindsFree, HandlerFindsBusy, Takes, Aims
<1>3. CASE HandlerRefusesBusy(r) \/ HandlerRefusesOdd(r) \/ HandlerStartsGrace(r)
           \/ HandlerDeactivates(r)
    BY <1>3 DEF HandlerRefusesBusy, HandlerRefusesOdd, HandlerStartsGrace,
                HandlerDeactivates, HandlerTells, SendsRevoke, HandlerAnswers, StartTimer
<1>4. CASE Abandon(r) \/ SigtapAgain(r) \/ SigtapGivesUp(r) \/ OwnerHonored(r)
           \/ RevokeAgain(r) \/ RevokeGivesUp(r) \/ AFUReleased(r) \/ Oops(r)
    BY <1>4 DEF Abandon, ContextFree, SigtapAgain, SigtapGivesUp, OwnerHonored,
                RevokeAgain, RevokeGivesUp, AFUReleased, Oops, ReleaseSend, Requeue
<1>5. CASE BitstreamProgram(r) \/ BitstreamFindsFree(r) \/ BitstreamFindsBusy(r)
           \/ BitstreamRefusesBusy(r) \/ BitstreamStartsGrace(r) \/ BitstreamRefusesOdd(r)
    BY <1>5 DEF BitstreamProgram, BitstreamFindsFree, BitstreamFindsBusy,
                BitstreamRefusesBusy, BitstreamStartsGrace, BitstreamRefusesOdd,
                ReleaseSend, Requeue, Aims, StartTimer
<1>6. CASE GraceGoesOn(r) \/ GraceEnds(r) \/ OwnerRevoked(r)
    BY <1>6 DEF GraceGoesOn, GraceEnds, OwnerRevoked, CountDelay, SendsRevoke, Requeue
<1>7. CASE CallbackDeactivates(r) \/ ProgramEnds(r)
    BY <1>7 DEF CallbackDeactivates, ProgramEnds, ReleaseSend, Requeue
<1>8. QED
    BY <1>1, <1>2, <1>3, <1>4, <1>5, <1>6, <1>7 DEF Handler, Callback

\* What a request at work relies on.
DeviceFits(r) ==
    /\ pc[r] \in Aimed => afu[r] = uafu /\ uafu # 0
    /\ pc[r] = "program" => uafu = 0

\* A request that relied on the device of the port before its step does after it.
LEMMA DeviceStillFits ==
    ASSUME TypeOK, NEW r \in Requests, DeviceFits(r), Handler(r) \/ Callback(r)
    PROVE  DeviceFits(r)'
<1> USE DEF TypeOK, Goto, Finish, DeviceFits, Aimed, device
<1>1. CASE DeactivateRefused(r) \/ ActivateRefused(r) \/ ConfigureRefused(r) \/ Activate(r)
    BY <1>1 DEF DeactivateRefused, ActivateRefused, ConfigureRefused, Activate
<1>2. CASE SigtapFirst(r) \/ ProgramAtOnce(r) \/ HandlerFindsFree(r) \/ HandlerFindsBusy(r)
    BY <1>2 DEF SigtapFirst, ProgramAtOnce, HandlerFindsFree, HandlerFindsBusy, Takes, Aims
<1>3. CASE HandlerRefusesBusy(r) \/ HandlerRefusesOdd(r) \/ HandlerStartsGrace(r)
    BY <1>3 DEF HandlerRefusesBusy, HandlerRefusesOdd, HandlerStartsGrace,
                HandlerStillBusy, HandlerAnswers
<1>4. CASE HandlerDeactivates(r)
    BY <1>4 DEF HandlerDeactivates, HandlerAnswers, DestroyAFU
<1>5. CASE Abandon(r) \/ SigtapGivesUp(r) \/ OwnerHonored(r) \/ RevokeGivesUp(r)
    BY <1>5 DEF Abandon, ContextFree, SigtapGivesUp, OwnerHonored, RevokeGivesUp,
                ReleaseSend
<1>6. CASE SigtapAgain(r) \/ GraceGoesOn(r) \/ RevokeAgain(r)
    BY <1>6 DEF SigtapAgain, GraceGoesOn, RevokeAgain
<1>7. CASE BitstreamProgram(r) \/ BitstreamFindsFree(r) \/ BitstreamFindsBusy(r)
           \/ BitstreamRefusesBusy(r) \/ BitstreamStartsGrace(r) \/ BitstreamRefusesOdd(r)
    BY <1>7 DEF BitstreamProgram, BitstreamFindsFree, BitstreamFindsBusy,
                BitstreamRefusesBusy, BitstreamStartsGrace, BitstreamRefusesOdd,
                BitstreamStillBusy, ReleaseSend, Requeue, Aims
<1>8. CASE AFUReleased(r) \/ GraceEnds(r) \/ OwnerRevoked(r)
    BY <1>8 DEF AFUReleased, GraceEnds, OwnerRevoked, StillOwned, Called, Requeue
<1>9. CASE CallbackDeactivates(r)
    BY <1>9 DEF CallbackDeactivates, DestroyAFU, ReleaseSend, Requeue
<1>10. CASE ProgramEnds(r) \/ Oops(r)
    BY <1>10 DEF ProgramEnds, Oops, ReleaseSend, Requeue
<1>11. QED
    BY <1>1, <1>2, <1>3, <1>4, <1>5, <1>6, <1>7, <1>8, <1>9, <1>10 DEF Handler, Callback

\* The timer of a request, what has been waited at its end, and whom it has revoked
\* by then.
TimerFits(r) ==
    /\ pc[r] = "grace" => elapsed[r] <= waited[r] /\ waited[r] <= order[r].timeout
    /\ pc[r] \in {"expired", "revoke"} => waited[r] = order[r].timeout
    /\ answer[r] = "DeviceBusy" => waited[r] = order[r].timeout
    /\ answer[r] # "none" => pc[r] = "done"

RevokeFits(r) ==
    /\ "callback" \in revoked[r] => waited[r] = order[r].timeout
    /\ order[r].cmd = "deactivate" /\ revoked[r] # {} => waited[r] = order[r].timeout
    /\ pc[r] \in {"idle", "lock", "sigtap", "hbusy", "wbusy"} => revoked[r] = {}
    /\ pc[r] = "grace" => "callback" \notin revoked[r]
    /\ pc[r] = "grace" /\ order[r].cmd = "deactivate" => revoked[r] = {}

\* Another delay: what has elapsed stays behind what was waited, within the timeout.
LEMMA DelayFits ==
    ASSUME TypeOK, NEW r \in Requests, TimerFits(r), GraceGoesOn(r)
    PROVE  TimerFits(r)'
<1> DEFINE t == order[r].timeout
           e == elapsed[r]
           w == waited[r]
<1>1. /\ t \in Nat /\ e \in Nat /\ w \in Nat /\ Slice \in Nat
      /\ e < t /\ e <= w /\ w <= t
    BY TimerTypes, PortReconfAssumption
       DEF TypeOK, TimerFits, GraceGoesOn, StillOwned, Called
<1>2. elapsed'[r] = IF e + Slice <= t THEN e + Slice ELSE e
    BY DEF TypeOK, GraceGoesOn, CountDelay
<1>3. waited'[r] = Smaller(w + NextDelay(r), t)
    BY DEF TypeOK, GraceGoesOn
<1>4. NextDelay(r) = IF t - e < Slice THEN t - e ELSE Slice
    BY DEF NextDelay, Smaller
<1>5. UNCHANGED <<pc, order, answer>>
    BY DEF GraceGoesOn, context
<1>6. pc[r] = "grace"
    BY DEF GraceGoesOn, StillOwned, Called
<1> HIDE DEF t, e, w
<1>7. elapsed'[r] <= waited'[r] /\ waited'[r] <= t
    BY <1>1, <1>2, <1>3, <1>4 DEF Smaller
<1>8. QED
    BY <1>5, <1>6, <1>7 DEF TimerFits, t

LEMMA TimerStillFits ==
    ASSUME TypeOK, NEW r \in Requests, TimerFits(r), Handler(r) \/ Callback(r)
    PROVE  TimerFits(r)'
<1> USE DEF TypeOK, Goto, Finish, TimerFits, context, timer
<1>1. CASE DeactivateRefused(r) \/ ActivateRefused(r) \/ ConfigureRefused(r) \/ Activate(r)
    BY <1>1 DEF DeactivateRefused, ActivateRefused, ConfigureRefused, Activate, Enters
<1>2. CASE SigtapFirst(r) \/ ProgramAtOnce(r) \/ HandlerFindsFree(r) \/ HandlerFindsBusy(r)
    BY <1>2 DEF SigtapFirst, ProgramAtOnce, HandlerFindsFree, HandlerFindsBusy, Takes,
                Admits, Enters
<1>3. CASE HandlerRefusesBusy(r) \/ HandlerRefusesOdd(r)
    BY <1>3 DEF HandlerRefusesBusy, HandlerRefusesOdd, HandlerAnswers
<1>4. CASE HandlerStartsGrace(r)
    BY <1>4, TimerTypes DEF HandlerStartsGrace, HandlerStillBusy, StartTimer
<1>5. CASE HandlerDeactivates(r)
    BY <1>5 DEF HandlerDeactivates, HandlerAnswers
<1>6. CASE Abandon(r) \/ SigtapGivesUp(r) \/ RevokeGivesUp(r)
    BY <1>6 DEF Abandon, ContextFree, SigtapGivesUp, RevokeGivesUp, ReleaseSend
<1>7. CASE SigtapAgain(r) \/ RevokeAgain(r)
    BY <1>7 DEF SigtapAgain, RevokeAgain
<1>8. CASE BitstreamProgram(r) \/ BitstreamFindsFree(r) \/ BitstreamFindsBusy(r)
           \/ BitstreamRefusesBusy(r) \/ BitstreamRefusesOdd(r)
    BY <1>8 DEF BitstreamProgram, BitstreamFindsFree, BitstreamFindsBusy,
                BitstreamRefusesBusy, BitstreamRefusesOdd, BitstreamStillBusy,
                SigtapReleased, Called, ReleaseSend, Requeue
<1>9. CASE BitstreamStartsGrace(r)
    BY <1>9, TimerTypes DEF BitstreamStartsGrace, BitstreamStillBusy, StartTimer, Requeue
<1>10. CASE GraceGoesOn(r)
    BY <1>10, DelayFits
<1>11. CASE GraceEnds(r)
  <2>1. waited[r] = order[r].timeout
    <3>1. elapsed[r] >= order[r].timeout /\ pc[r] = "grace"
        BY <1>11 DEF GraceEnds, StillOwned, Called
    <3>2. elapsed[r] \in Nat /\ waited[r] \in Nat /\ order[r].timeout \in Nat
        BY TimerTypes
    <3>3. QED
        BY <3>1, <3>2
  <2>2. QED
      BY <1>11, <2>1 DEF GraceEnds, StillOwned, Called, Requeue
<1>12. CASE OwnerHonored(r) \/ OwnerRevoked(r)
    BY <1>12 DEF OwnerHonored, OwnerRevoked, ReleaseSend, Requeue
<1>13. CASE AFUReleased(r) \/ Oops(r)
    BY <1>13 DEF AFUReleased, Oops, BadPointer, Called, Requeue
<1>14. CASE CallbackDeactivates(r) \/ ProgramEnds(r)
    BY <1>14 DEF CallbackDeactivates, ProgramEnds, ReleaseSend, Requeue
<1>15. QED
    BY <1>1, <1>2, <1>3, <1>4, <1>5, <1>6, <1>7, <1>8, <1>9, <1>10, <1>11, <1>12, <1>13,
       <1>14 DEF Handler, Callback

\* Only these steps revoke an AFU or wait.
LEMMA RevokeStillFits ==
    ASSUME TypeOK, NEW r \in Requests, TimerFits(r), RevokeFits(r),
           Handler(r) \/ Callback(r)
    PROVE  RevokeFits(r)'
<1> USE DEF TypeOK, Goto, RevokeFits, context
<1>1. CASE HandlerRefusesBusy(r)
    BY <1>1 DEF HandlerRefusesBusy, HandlerStillBusy, HandlerTells, SendsRevoke,
                HandlerAnswers, Finish, timer
<1>2. CASE HandlerStartsGrace(r)
    BY <1>2 DEF HandlerStartsGrace, HandlerStillBusy, HandlerTells, SendsRevoke
<1>3. CASE BitstreamStartsGrace(r)
    BY <1>3 DEF BitstreamStartsGrace, BitstreamStillBusy, Requeue, tries
<1>4. CASE GraceGoesOn(r)
    BY <1>4 DEF GraceGoesOn, StillOwned, Called, tries
<1>5. CASE OwnerRevoked(r)
    BY <1>5 DEF OwnerRevoked, SendsRevoke, Requeue, TimerFits, timer
<1>6. ASSUME UNCHANGED <<revoked, waited, order>>,
             pc'[r] \in {"idle", "lock", "sigtap", "hbusy", "wbusy", "grace"} =>
                pc'[r] = pc[r] \/ pc[r] \in {"lock", "sigtap"}
      PROVE  RevokeFits(r)'
    BY <1>6
<1>7. CASE Handler(r) /\ ~HandlerRefusesBusy(r) /\ ~HandlerStartsGrace(r)
  <2>1. UNCHANGED <<revoked, waited, order>>
      BY <1>7 DEF Handler, DeactivateRefused, ActivateRefused, ConfigureRefused, Activate,
                  SigtapFirst, ProgramAtOnce, HandlerFindsFree, HandlerFindsBusy,
                  HandlerRefusesOdd, HandlerDeactivates, timer, tries
  <2>2. pc'[r] \in {"done", "program"} \/ pc[r] = "lock"
      BY <1>7 DEF Handler, DeactivateRefused, ActivateRefused, ConfigureRefused, Activate,
                  SigtapFirst, ProgramAtOnce, HandlerFindsFree, HandlerFindsBusy,
                  HandlerRefusesOdd, HandlerDeactivates, HandlerAnswers, Takes, Finish,
                  Admits, Enters
  <2>3. QED
      BY <1>6, <2>1, <2>2
<1>8. CASE Callback(r) /\ ~BitstreamStartsGrace(r) /\ ~GraceGoesOn(r) /\ ~OwnerRevoked(r)
  <2>1. UNCHANGED <<revoked, waited, order>>
      BY <1>8 DEF Callback, Abandon, SigtapAgain, SigtapGivesUp, BitstreamProgram,
                  BitstreamFindsFree, BitstreamFindsBusy, BitstreamRefusesBusy,
                  BitstreamRefusesOdd, GraceEnds, OwnerHonored, RevokeAgain, RevokeGivesUp,
                  AFUReleased, CallbackDeactivates, ProgramEnds, Oops, timer, tries
  <2>2. \/ pc'[r] \in {"done", "program", "wfree", "expired", "oops"}
        \/ pc'[r] = pc[r] \/ pc[r] = "sigtap"
      BY <1>8 DEF Callback, Abandon, ContextFree, SigtapAgain, SigtapGivesUp,
                  BitstreamProgram, BitstreamFindsFree, BitstreamFindsBusy,
                  BitstreamRefusesBusy, BitstreamRefusesOdd, GraceEnds, OwnerHonored,
                  RevokeAgain, RevokeGivesUp, AFUReleased, CallbackDeactivates,
                  ProgramEnds, Oops, SigtapReleased, Called, ReleaseSend, Requeue, Finish
  <2>3. QED
      BY <1>6, <2>1, <2>2
<1>9. QED
    BY <1>1, <1>2, <1>3, <1>4, <1>5, <1>7, <1>8

\* A request ends without an answer only when nobody owns the PR device.
LEMMA DroppedWhenUnowned ==
    ASSUME TypeOK, NEW r \in Requests, Handler(r) \/ Callback(r),
           answer'[r] = "dropped", answer[r] # "dropped"
    PROVE  prOwner = NoSession /\ pc[r] # "idle"
<1> USE DEF TypeOK, Finish
<1>1. CASE Handler(r)
    BY <1>1 DEF Handler, DeactivateRefused, ActivateRefused, ConfigureRefused, Activate,
                SigtapFirst, ProgramAtOnce, HandlerFindsFree, HandlerFindsBusy,
                HandlerRefusesBusy, HandlerStartsGrace, HandlerRefusesOdd,
                HandlerDeactivates, HandlerAnswers, Takes
<1>2. CASE Abandon(r)
    BY <1>2 DEF Abandon, Abandons
<1>3. CASE Callback(r) /\ ~Abandon(r)
    BY <1>3 DEF Callback, SigtapAgain, SigtapGivesUp, OwnerHonored, OwnerRevoked,
                RevokeAgain, RevokeGivesUp, AFUReleased, Oops, BitstreamProgram,
                BitstreamFindsFree, BitstreamFindsBusy, BitstreamRefusesBusy,
                BitstreamStartsGrace, BitstreamRefusesOdd, GraceGoesOn, GraceEnds,
                CallbackDeactivates, ProgramEnds, ReleaseSend, Requeue
<1>4. QED
    BY <1>1, <1>2, <1>3

LEMMA RequestKeeps ==
    ASSUME IInv, NEW r \in Requests, Handler(r) \/ Callback(r)
    PROVE  IInv'
<1>1. TypeOK /\ TypeOK' /\ LockStep(r)
    BY HandlerTypeOK, CallbackTypeOK, HandlerLockStep, CallbackLockStep DEF IInv
<1>2. LockNeverLost'
  <2>1. prSem \in Nat /\ prSem' \in Nat
      BY <1>1 DEF TypeOK
  <2>2. Cardinality(Holders) \in Nat /\ Cardinality(Holders') \in Nat
    <3>1. PICK p \in Places : Goto(r, p)
        BY <1>1 DEF LockStep, Working, Aimed, Places
    <3>2. QED
        BY <1>1, <3>1, HoldersAfter, FiniteHolders
  <2>3. QED
      BY <1>1, <2>1, <2>2, LockStepKeeps DEF IInv, LockNeverLost
<1>3. AfuPointerLive' /\ ProgramsOnlyDeactivated'
  <2>1. SUFFICES ASSUME ~OverReleased' PROVE \A q \in Requests : DeviceFits(q)'
      BY DEF AfuPointerLive, ProgramsOnlyDeactivated, DeviceFits
  <2>2. ~OverReleased /\ \A q \in Requests \ {r} : pc[q] \notin Working
      BY <1>1, <2>1, LockStepKeeps
  <2>3. DeviceFits(r)
      BY <2>2 DEF IInv, AfuPointerLive, ProgramsOnlyDeactivated, DeviceFits
  <2>4. DeviceFits(r)'
      BY <1>1, <2>3, DeviceStillFits
  <2>5. \A q \in Requests \ {r} : pc'[q] \notin Working
      BY <1>1, <2>2, OthersKeep
  <2>6. \A q \in Requests \ {r} : DeviceFits(q)'
      BY <2>5 DEF DeviceFits, Working, Aimed
  <2>7. QED
      BY <2>4, <2>6
<1>4. FullGrace' /\ TimerRuns' /\ RevokesLate' /\ AnswerLast'
  <2>1. \A q \in Requests : TimerFits(q) /\ RevokeFits(q)
      BY DEF IInv, FullGrace, TimerRuns, RevokesLate, AnswerLast, TimerFits, RevokeFits
  <2>2. TimerFits(r)' /\ RevokeFits(r)'
      BY <1>1, <2>1, TimerStillFits, RevokeStillFits
  <2>3. ASSUME NEW q \in Requests \ {r} PROVE TimerFits(q)' /\ RevokeFits(q)'
      BY <1>1, <2>1, OthersKeep DEF TimerFits, RevokeFits
  <2>4. QED
      BY <2>2, <2>3
         DEF FullGrace, TimerRuns, RevokesLate, AnswerLast, TimerFits, RevokeFits
<1>5. prOwner' = prOwner /\ closed' = closed /\ sess' = sess
    BY <1>1, OthersKeep DEF clients
<1>6. \A q \in Requests : pc'[q] # "idle" => pc[q] # "idle"
    BY <1>1, OthersKeep DEF LockStep, Working, Aimed
<1>7. SenderKnown'
    BY <1>5, <1>6 DEF IInv, SenderKnown
<1>8. DroppedOnlyIfGone'
  <2>1. SUFFICES ASSUME NEW q \in Requests, answer'[q] = "dropped", answer[q] # "dropped"
                 PROVE  sess[q] \in closed
      BY <1>5 DEF IInv, DroppedOnlyIfGone
  <2>2. q = r
      BY <1>1, <2>1, OthersKeep
  <2>3. prOwner = NoSession /\ pc[r] # "idle"
      BY <1>1, <2>1, <2>2, DroppedWhenUnowned
  <2>4. QED
      BY <2>2, <2>3 DEF IInv, SenderKnown
<1>9. QED
    BY <1>1, <1>2, <1>3, <1>4, <1>7, <1>8 DEF IInv

LEMMA StutterKeeps ==
    ASSUME IInv, UNCHANGED vars
    PROVE  IInv'
<1> USE DEF vars, device, clients, context, timer, tries
<1>1. TypeOK'
    BY NextTypeOK DEF IInv
<1>2. Holders' = Holders
    BY DEF Holders
<1>3. LockNeverLost' /\ AfuPointerLive' /\ ProgramsOnlyDeactivated'
    BY <1>2 DEF IInv, LockNeverLost, AfuPointerLive, ProgramsOnlyDeactivated, OverReleased
<1>4. FullGrace' /\ DroppedOnlyIfGone' /\ TimerRuns' /\ RevokesLate' /\ AnswerLast'
      /\ SenderKnown'
    BY DEF IInv, FullGrace, DroppedOnlyIfGone, TimerRuns, RevokesLate, AnswerLast,
           SenderKnown
<1>5. QED
    BY <1>1, <1>3, <1>4 DEF IInv

LEMMA NextIInv == IInv /\ [Next]_vars => IInv'
BY ClientKeeps, RequestKeeps, StutterKeeps DEF Next

LEMMA Inductive == Spec => []IInv
BY InitIInv, NextIInv, PTL DEF Spec

--------------------------------------------------------------------------------

\* However a request ends, m_pr_sem has been given back at least once.
THEOREM LockKept == Spec => []LockNeverLost
<1>1. IInv => LockNeverLost
    BY DEF IInv
<1>2. QED
    BY <1>1, Inductive, PTL

\* Without a surplus of m_pr_sem no callback follows a pointer to a dead AFU device.
THEOREM PointersLive == Spec => []AfuPointerLive
<1>1. IInv => AfuPointerLive
    BY DEF IInv
<1>2. QED
    BY <1>1, Inductive, PTL

\* Without a surplus of m_pr_sem nothing is programmed under an active AFU.
THEOREM ProgramsDeactivated == Spec => []ProgramsOnlyDeactivated
<1>1. IInv => ProgramsOnlyDeactivated
    BY DEF IInv
<1>2. QED
    BY <1>1, Inductive, PTL

\* A callback gives up on an owner only when its grace is over, for every timeout and
\* every slice, and an owner asked to make way for a deactivation is not revoked before.
THEOREM GraceIsFull == Spec => []FullGrace
<1>1. IInv => FullGrace
    BY DEF IInv
<1>2. QED
    BY <1>1, Inductive, PTL

\* Only a request whose client has gone ends without an answer.
THEOREM DroppedIfGone == Spec => []DroppedOnlyIfGone
<1>1. IInv => DroppedOnlyIfGone
    BY DEF IInv
<1>2. QED
    BY <1>1, Inductive, PTL

================================================================================
