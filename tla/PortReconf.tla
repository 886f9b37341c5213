------------------------------ MODULE PortReconf ------------------------------
(***************************************************************************)
(* Partial reconfiguration of the AFU behind a port, as the PR device of    *)
(* the CCI-P driver does it (cci_PCIe_driver/ccip_pr.c): CommandHandler()   *)
(* takes the request of the client that owns the PR device, and callbacks   *)
(* on a work queue get the AFU from its owner, take the device down and     *)
(* program the hardware.  A request keeps m_pr_sem from its first step to   *)
(* its answer.  It is                                                       *)
(*    "lock"     in CommandHandler(), waiting for m_pr_sem;                 *)
(*    "sigtap"   queued with sigtap_revoke_callback;                        *)
(*    "grace"    queued with afu_release_timeout_callback;                  *)
(*    "expired"  in that callback, past the test of the time;               *)
(*    "revoke"   queued with, or about to call, afu_revoke_callback;        *)
(*    "hfree"    in CommandHandler(), past a test of m_numowners that found *)
(*               none, about to take the AFU down;                          *)
(*    "hbusy"    the same, having found an owner;                           *)
(*    "wfree", "wbusy"  the same in a callback;                             *)
(*    "program"  queued with, or in, program_afu_callback;                  *)
(*    "done"     answered, or dropped;                                      *)
(*    "oops"     lost in a kernel fault: it keeps m_pr_sem.                 *)
(* Two reads of an owner count, and a test and the removal of the device,   *)
(* are steps apart, because the count is read without the device's lock.    *)
(* An owner may let go of its device at any time, or never.  Of the events  *)
(* that it is sent only the revoke events are in the state (revoked): they  *)
(* make the AAL service release the AFU, whatever its client wants; a       *)
(* release event only asks.  The power manager (PWRMGR) is compiled out.    *)
(***************************************************************************)
EXTENDS Naturals, FiniteSets

CONSTANTS
    Requests,       \* calls of CommandHandler()
    Sessions,       \* bindings of the PR device, each by some client
    NoSession,
    Orders,         \* what a request may ask for
    Slice,          \* AFU_RES_RELEASE_TIMEOUT
    MaxTry          \* bound: PR_AFU_REVOKE_MAX_TRY

Commands == {"deactivate", "activate", "configure"}

ASSUME PortReconfAssumption ==
    /\ IsFiniteSet(Requests)
    /\ NoSession \notin Sessions
    /\ Orders \subseteq [cmd : Commands, timeout : Nat,
                         honorOwner : BOOLEAN, leave : BOOLEAN]
    /\ Orders # {}
    /\ Slice \in Nat \ {0}
    /\ MaxTry \in Nat

VARIABLES
    prSem,          \* m_pr_sem of the PR device
    uafu,           \* m_uafu of the port: the AFU device, 0 for NULL
    made,           \* number of AFU devices created so far
    afuOwner,       \* m_numowners of that device is 1
    stapOwner,      \* m_numowners of the signal tap device is 1
    prOwner,        \* the session that owns the PR device
    closed,         \* sessions that have unbound from it
    pc,             \* where each request stands
    order,          \* m_cmd, m_reconfTimeout, m_reconfAction, m_leaveDeactivated
    sess,           \* m_pownerSess
    afu,            \* m_pAFU_dev
    elapsed,        \* m_timeElapsed
    waited,         \* history: delays "grace" has waited, up to the timeout
    tapRevokes,     \* m_sigtapRevokeCount
    afuRevokes,     \* m_afuRevokeCount
    revoked,        \* history: who has sent a revoke event to the AFU's owner
    answer          \* the error number sent to the client

device == <<uafu, made, afuOwner>>
clients == <<stapOwner, prOwner, closed>>
context == <<order, sess>>
timer == <<elapsed, waited>>
tries == <<tapRevokes, afuRevokes, revoked>>
vars == <<prSem, device, clients, pc, context, afu, timer, tries, answer>>

Errors == {"OK", "NoAFU", "NoMem", "BadParameter", "AFUNotActivated",
           "DeActiveTimeout", "SigtapRevokeTimeout", "DeviceBusy", "PRError"}

\* What a request ends with: an event, an error return, or nothing at all.
Outcomes == Errors \cup {"none", "EINVAL", "dropped"}

\* Where a request has the device of the port in m_pAFU_dev and will use it.
Aimed == {"grace", "expired", "revoke", "hfree", "hbusy", "wfree", "wbusy"}

Working == Aimed \cup {"sigtap", "program", "oops"}

Places == Working \cup {"idle", "lock", "done"}

Holders == {r \in Requests : pc[r] \in Working}

Smaller(m, n) == IF m < n THEN m ELSE n

Init ==
    /\ prSem = 1
    /\ uafu = 1
    /\ made = 1
    /\ afuOwner = FALSE
    /\ stapOwner = FALSE
    /\ prOwner = NoSession
    /\ closed = {}
    /\ pc = [r \in Requests |-> "idle"]
    /\ order = [r \in Requests |-> CHOOSE o \in Orders : TRUE]
    /\ sess = [r \in Requests |-> NoSession]
    /\ afu = [r \in Requests |-> 0]
    /\ elapsed = [r \in Requests |-> 0]
    /\ waited = [r \in Requests |-> 0]
    /\ tapRevokes = [r \in Requests |-> 0]
    /\ afuRevokes = [r \in Requests |-> 0]
    /\ revoked = [r \in Requests |-> {}]
    /\ answer = [r \in Requests |-> "none"]

--------------------------------------------------------------------------------
(* Steps that several handlers share *)

Goto(r, place) == pc' = [pc EXCEPT ![r] = place]

Finish(r, outcome) ==
    /\ Goto(r, "done")
    /\ answer' = [answer EXCEPT ![r] = outcome]

\* A slip: the result of the interruptible wait for m_pr_sem is ignored.
EntersAnyhow(r, cmd) == pc[r] = "lock" /\ order[r].cmd = cmd

\* CommandHandler() has m_pr_sem and finds the command.
Enters(r, cmd) ==
    /\ pc[r] = "lock"
    /\ prSem > 0
    /\ order[r].cmd = cmd

\* ... and the order goes on: the semaphore stays taken.
Takes(r, place) ==
    /\ Goto(r, place)
    /\ prSem' = prSem - 1
    /\ UNCHANGED answer

\* A slip: the order does not say which device it is about.
AimsNowhere(r) == afu' = [afu EXCEPT ![r] = 0]

\* m_pAFU_dev is the device of the port.
Aims(r) == afu' = [afu EXCEPT ![r] = uafu]

\* A slip: the first delay is a whole slice, however short the timeout.
FirstDelayWhole(r) == Slice

FirstDelay(r) == Smaller(order[r].timeout, Slice)

StartTimer(r) ==
    /\ elapsed' = [elapsed EXCEPT ![r] = FirstDelay(r)]
    /\ waited' = [waited EXCEPT ![r] = FirstDelay(r)]

\* afu_request_release_revoke_sendevent(.., false).  The revoke event reaches the
\* AFU's owner if there is one when the list of owners is walked, and if the wait
\* for the device's semaphore is not interrupted.
SendsRevoke(r, who) == revoked' = [revoked EXCEPT ![r] = @ \cup {who}]

\* A new AFU device is created and published; nobody owns it yet.
CreateAFU ==
    /\ made' = made + 1
    /\ uafu' = made'
    /\ afuOwner' = FALSE

\* reconfigure_activateAFU() succeeds: without an AFU header behind the port it
\* creates nothing and that counts as success.
ActivateAFU == CreateAFU \/ UNCHANGED device

--------------------------------------------------------------------------------
(* The clients of the three devices *)

PRBind(s) ==
    /\ prOwner = NoSession
    /\ s \notin closed
    /\ prOwner' = s
    /\ UNCHANGED <<prSem, device, stapOwner, closed, pc, context, afu, timer,
                   tries, answer>>

\* The driver does not ask whether a call of the client is under way.
PRUnbind ==
    /\ prOwner # NoSession
    /\ closed' = closed \cup {prOwner}
    /\ prOwner' = NoSession
    /\ UNCHANGED <<prSem, device, stapOwner, pc, context, afu, timer, tries,
                   answer>>

AFUBind ==
    /\ uafu # 0
    /\ ~afuOwner
    /\ afuOwner' = TRUE
    /\ UNCHANGED <<prSem, uafu, made, clients, pc, context, afu, timer,
                   tries, answer>>

AFUUnbind ==
    /\ afuOwner
    /\ afuOwner' = FALSE
    /\ UNCHANGED <<prSem, uafu, made, clients, pc, context, afu, timer, tries,
                   answer>>

StapBind ==
    /\ ~stapOwner
    /\ stapOwner' = TRUE
    /\ UNCHANGED <<prSem, device, prOwner, closed, pc, context, afu, timer,
                   tries, answer>>

StapUnbind ==
    /\ stapOwner
    /\ stapOwner' = FALSE
    /\ UNCHANGED <<prSem, device, prOwner, closed, pc, context, afu, timer,
                   tries, answer>>

Send(r, o) ==
    /\ pc[r] = "idle"
    /\ prOwner # NoSession
    /\ Goto(r, "lock")
    /\ order' = [order EXCEPT ![r] = o]
    /\ sess' = [sess EXCEPT ![r] = prOwner]
    /\ UNCHANGED <<prSem, device, clients, afu, timer, tries, answer>>

\* A signal ends the wait for m_pr_sem.
Interrupted(r) ==
    /\ pc[r] = "lock"
    /\ Finish(r, "EINVAL")
    /\ UNCHANGED <<prSem, device, clients, context, afu, timer, tries>>

--------------------------------------------------------------------------------
(* CommandHandler() *)

\* Answered on the spot: m_pr_sem is taken and given back.
DeactivateRefused(r) ==
    /\ Enters(r, "deactivate")
    /\ Finish(r, IF uafu = 0 THEN "NoAFU" ELSE "NoMem")
    /\ UNCHANGED <<prSem, device, clients, context, afu, timer, tries>>

ActivateRefused(r) ==
    /\ Enters(r, "activate")
    /\ Finish(r, "AFUNotActivated")
    /\ UNCHANGED <<prSem, device, clients, context, afu, timer, tries>>

ConfigureRefused(r) ==
    /\ Enters(r, "configure")
    /\ \E e \in {"BadParameter", "NoMem"} : Finish(r, e)
    /\ UNCHANGED <<prSem, device, clients, context, afu, timer, tries>>

Activate(r) ==
    /\ Enters(r, "activate")
    /\ uafu = 0
    /\ ActivateAFU
    /\ Finish(r, "OK")
    /\ UNCHANGED <<prSem, clients, context, afu, timer, tries>>

\* The handler has a context for the order; a deactivation needs a device, and
\* m_pAFU_dev is set at once only for it.
Admits(r) ==
    \/ Enters(r, "deactivate") /\ uafu # 0
    \/ Enters(r, "configure")

SigtapFirst(r) ==
    /\ Admits(r)
    /\ stapOwner
    /\ afu' = [afu EXCEPT ![r] = IF order[r].cmd = "deactivate" THEN uafu ELSE 0]
    /\ Takes(r, "sigtap")
    /\ UNCHANGED <<device, clients, context, timer, tries>>

ProgramAtOnce(r) ==
    /\ Enters(r, "configure")
    /\ ~stapOwner
    /\ uafu = 0
    /\ Takes(r, "program")
    /\ UNCHANGED <<device, clients, context, afu, timer, tries>>

HandlerFindsFree(r) ==
    /\ Admits(r)
    /\ ~stapOwner
    /\ uafu # 0
    /\ ~afuOwner
    /\ Aims(r)
    /\ Takes(r, "hfree")
    /\ UNCHANGED <<device, clients, context, timer, tries>>

\* A deactivation reads the count this once; a configuration reads it again.
HandlerFindsBusy(r) ==
    /\ Admits(r)
    /\ ~stapOwner
    /\ uafu # 0
    /\ afuOwner
    /\ Aims(r)
    /\ Takes(r, "hbusy")
    /\ UNCHANGED <<device, clients, context, timer, tries>>

HandlerStillBusy(r) ==
    /\ pc[r] = "hbusy"
    /\ afu[r] = uafu
    /\ order[r].cmd = "configure" => afuOwner

\* The owner of the AFU is asked to release it, for a deactivation; for a
\* configuration it is revoked, although the comments say "release event".
HandlerTells(r) ==
    /\ \/ order[r].cmd = "deactivate" /\ UNCHANGED revoked
       \/ order[r].cmd = "configure" /\ SendsRevoke(r, "handler")
    /\ UNCHANGED <<tapRevokes, afuRevokes>>

\* Answered, and m_pr_sem is given back by the sender of the answer and again by
\* the handler.
HandlerAnswers(r, e) ==
    /\ Finish(r, e)
    /\ prSem' = prSem + 2

HandlerRefusesBusy(r) ==
    /\ HandlerStillBusy(r)
    /\ order[r].timeout = 0
    /\ HandlerTells(r)
    /\ HandlerAnswers(r, "DeActiveTimeout")
    /\ UNCHANGED <<device, clients, context, afu, timer>>

HandlerStartsGrace(r) ==
    /\ HandlerStillBusy(r)
    /\ order[r].timeout > 0
    /\ HandlerTells(r)
    /\ StartTimer(r)
    /\ Goto(r, "grace")
    /\ UNCHANGED <<prSem, device, clients, context, afu, answer>>

\* The owner that the first test of a configuration saw has gone.
HandlerRefusesOdd(r) ==
    /\ pc[r] = "hbusy"
    /\ afu[r] = uafu
    /\ order[r].cmd = "configure"
    /\ ~afuOwner
    /\ HandlerAnswers(r, "BadParameter")
    /\ UNCHANGED <<device, clients, context, afu, timer, tries>>

\* A slip: the port goes on pointing to the device.
DestroyLeavesPointer == afuOwner' = FALSE /\ UNCHANGED <<uafu, made>>

\* deactiavted_afu_device(): the device goes, whoever may own it by now.
DestroyAFU ==
    /\ uafu' = 0
    /\ afuOwner' = FALSE
    /\ UNCHANGED made

\* ... in CommandHandler(): a deactivation is answered.
HandlerDeactivates(r) ==
    /\ pc[r] = "hfree"
    /\ uafu # 0
    /\ DestroyAFU
    /\ \/ /\ order[r].cmd = "deactivate"
          /\ HandlerAnswers(r, "OK")
       \/ /\ order[r].cmd = "configure"
          /\ Goto(r, "program")
          /\ UNCHANGED <<prSem, answer>>
    /\ UNCHANGED <<clients, context, afu, timer, tries>>

--------------------------------------------------------------------------------
(* The callbacks of the work queue *)

\* ccipdrv_event_afu_aysnc_pr_release_send(): answer and give m_pr_sem back.
ReleaseSend(r, e) ==
    /\ Finish(r, e)
    /\ prSem' = prSem + 1

Requeue(r, place) ==
    /\ Goto(r, place)
    /\ UNCHANGED <<prSem, answer>>

\* A slip: the callbacks look at the owners of the AFU.
AbandonsIfUnused(r) == pc[r] \in {"sigtap", "grace", "revoke"} /\ ~afuOwner

\* The owner of the PR device has gone.
Abandons(r) == pc[r] \in {"sigtap", "grace", "revoke"} /\ prOwner = NoSession

\* A slip: the semaphore is not given back.
ContextDropped(r) == Finish(r, "dropped") /\ UNCHANGED prSem

\* prprogram_ctx_free()
ContextFree(r) == Finish(r, "dropped") /\ prSem' = prSem + 1

Abandon(r) ==
    /\ Abandons(r)
    /\ ContextFree(r)
    /\ UNCHANGED <<device, clients, context, afu, timer, tries>>

\* The callback at this place runs for a client that is still there.
Called(r, place) == pc[r] = place /\ ~Abandons(r)

SigtapAgain(r) ==
    /\ Called(r, "sigtap")
    /\ stapOwner
    /\ tapRevokes[r] < MaxTry
    /\ tapRevokes' = [tapRevokes EXCEPT ![r] = @ + 1]
    /\ UNCHANGED <<prSem, device, clients, pc, context, afu, timer, afuRevokes,
                   revoked, answer>>

SigtapGivesUp(r) ==
    /\ Called(r, "sigtap")
    /\ stapOwner
    /\ tapRevokes[r] >= MaxTry
    /\ ReleaseSend(r, "DeActiveTimeout")
    /\ UNCHANGED <<device, clients, context, afu, timer, tries>>

\* reconfigure_bitstream() follows when the signal tap is free.  It reads
\* m_pSigtap_dev, which only a configuration has set.
SigtapReleased(r) ==
    /\ Called(r, "sigtap")
    /\ ~stapOwner
    /\ order[r].cmd = "configure"

BitstreamProgram(r) ==
    /\ SigtapReleased(r)
    /\ uafu = 0
    /\ Requeue(r, "program")
    /\ UNCHANGED <<device, clients, context, afu, timer, tries>>

BitstreamFindsFree(r) ==
    /\ SigtapReleased(r)
    /\ uafu # 0
    /\ ~afuOwner
    /\ Aims(r)
    /\ Requeue(r, "wfree")
    /\ UNCHANGED <<device, clients, context, timer, tries>>

BitstreamFindsBusy(r) ==
    /\ SigtapReleased(r)
    /\ uafu # 0
    /\ afuOwner
    /\ Aims(r)
    /\ Requeue(r, "wbusy")
    /\ UNCHANGED <<device, clients, context, timer, tries>>

\* The count is read again.
BitstreamStillBusy(r) == pc[r] = "wbusy" /\ afu[r] = uafu

BitstreamRefusesBusy(r) ==
    /\ BitstreamStillBusy(r)
    /\ order[r].timeout = 0
    /\ afuOwner
    /\ ReleaseSend(r, "DeActiveTimeout")
    /\ UNCHANGED <<device, clients, context, afu, timer, tries>>

\* This test reads the owners of the PR device.
BitstreamStartsGrace(r) ==
    /\ BitstreamStillBusy(r)
    /\ order[r].timeout > 0
    /\ prOwner # NoSession
    /\ StartTimer(r)
    /\ Requeue(r, "grace")
    /\ UNCHANGED <<device, clients, context, afu, tries>>

BitstreamRefusesOdd(r) ==
    /\ BitstreamStillBusy(r)
    /\ \/ order[r].timeout = 0 /\ ~afuOwner
       \/ order[r].timeout > 0 /\ prOwner = NoSession
    /\ ReleaseSend(r, "BadParameter")
    /\ UNCHANGED <<device, clients, context, afu, timer, tries>>

\* The callbacks read the owner count of m_pAFU_dev.
AFUReleased(r) ==
    /\ Called(r, "grace") \/ Called(r, "revoke")
    /\ afu[r] = uafu
    /\ ~afuOwner
    /\ Requeue(r, "wfree")
    /\ UNCHANGED <<device, clients, context, afu, timer, tries>>

StillOwned(r, place) ==
    /\ Called(r, place)
    /\ afu[r] = uafu
    /\ afuOwner

\* A slip: the rest of the timeout is not added to what has elapsed, nor a slice.
DelayOnly(r) == elapsed' = elapsed

\* Another slice, or the rest of the timeout, which is not added to m_timeElapsed.
NextDelay(r) == Smaller(order[r].timeout - elapsed[r], Slice)

CountDelay(r) ==
    elapsed' = [elapsed EXCEPT
                  ![r] = IF @ + Slice <= order[r].timeout THEN @ + Slice ELSE @]

GraceGoesOn(r) ==
    /\ StillOwned(r, "grace")
    /\ elapsed[r] < order[r].timeout
    /\ CountDelay(r)
    /\ waited' = [waited EXCEPT
                    ![r] = Smaller(@ + NextDelay(r), order[r].timeout)]
    /\ UNCHANGED <<prSem, device, clients, pc, context, afu, tries, answer>>

GraceEnds(r) ==
    /\ StillOwned(r, "grace")
    /\ elapsed[r] >= order[r].timeout
    /\ Requeue(r, "expired")
    /\ UNCHANGED <<device, clients, context, afu, timer, tries>>

\* The owner count is read again for an owner to be honored.
Honored(r) == order[r].honorOwner /\ afuOwner

OwnerHonored(r) ==
    /\ pc[r] = "expired"
    /\ afu[r] = uafu
    /\ Honored(r)
    /\ ReleaseSend(r, "DeviceBusy")
    /\ UNCHANGED <<device, clients, context, afu, timer, tries>>

\* The revoke event, and afu_revoke_callback() at once.
OwnerRevoked(r) ==
    /\ pc[r] = "expired"
    /\ afu[r] = uafu
    /\ ~Honored(r)
    /\ SendsRevoke(r, "callback")
    /\ Requeue(r, "revoke")
    /\ UNCHANGED <<device, clients, context, afu, timer, tapRevokes, afuRevokes>>

RevokeAgain(r) ==
    /\ StillOwned(r, "revoke")
    /\ afuRevokes[r] < MaxTry
    /\ afuRevokes' = [afuRevokes EXCEPT ![r] = @ + 1]
    /\ UNCHANGED <<prSem, device, clients, pc, context, afu, timer, tapRevokes,
                   revoked, answer>>

RevokeGivesUp(r) ==
    /\ StillOwned(r, "revoke")
    /\ afuRevokes[r] >= MaxTry
    /\ ReleaseSend(r, "SigtapRevokeTimeout")
    /\ UNCHANGED <<device, clients, context, afu, timer, tries>>

CallbackDeactivates(r) ==
    /\ pc[r] = "wfree"
    /\ uafu # 0
    /\ DestroyAFU
    /\ \/ order[r].cmd = "deactivate" /\ ReleaseSend(r, "OK")
       \/ order[r].cmd = "configure" /\ Requeue(r, "program")
    /\ UNCHANGED <<clients, context, afu, timer, tries>>

\* program_afu_callback(): the hardware takes the bitstream or fails, and the
\* AFU behind it is activated unless the order says to leave it.
ProgramEnds(r) ==
    /\ pc[r] = "program"
    /\ \/ order[r].leave /\ ReleaseSend(r, "OK") /\ UNCHANGED device
       \/ ~order[r].leave /\ ReleaseSend(r, "OK") /\ ActivateAFU
       \/ ReleaseSend(r, "PRError") /\ UNCHANGED device
    /\ UNCHANGED <<clients, context, afu, timer, tries>>

\* The pointers a callback or deactiavted_afu_device() follows without a test.
BadPointer(r) ==
    \/ Called(r, "sigtap") /\ ~stapOwner /\ order[r].cmd = "deactivate"
    \/ (Called(r, "grace") \/ Called(r, "revoke")) /\ afu[r] # uafu
    \/ pc[r] \in {"hbusy", "wbusy", "expired"} /\ afu[r] # uafu
    \/ pc[r] \in {"hfree", "wfree"} /\ uafu = 0

Oops(r) ==
    /\ BadPointer(r)
    /\ Requeue(r, "oops")
    /\ UNCHANGED <<device, clients, context, afu, timer, tries>>

--------------------------------------------------------------------------------

Handler(r) ==
    \/ DeactivateRefused(r) \/ ActivateRefused(r) \/ ConfigureRefused(r)
    \/ Activate(r)
    \/ SigtapFirst(r) \/ ProgramAtOnce(r)
    \/ HandlerFindsFree(r) \/ HandlerDeactivates(r)
    \/ HandlerFindsBusy(r) \/ HandlerRefusesBusy(r)
    \/ HandlerStartsGrace(r) \/ HandlerRefusesOdd(r)

Callback(r) ==
    \/ Abandon(r)
    \/ SigtapAgain(r) \/ SigtapGivesUp(r)
    \/ BitstreamProgram(r) \/ BitstreamFindsFree(r)
    \/ BitstreamFindsBusy(r) \/ BitstreamRefusesBusy(r)
    \/ BitstreamStartsGrace(r) \/ BitstreamRefusesOdd(r)
    \/ GraceGoesOn(r) \/ GraceEnds(r)
    \/ OwnerHonored(r) \/ OwnerRevoked(r)
    \/ RevokeAgain(r) \/ RevokeGivesUp(r)
    \/ AFUReleased(r) \/ CallbackDeactivates(r) \/ ProgramEnds(r)
    \/ Oops(r)

Client ==
    \/ \E s \in Sessions : PRBind(s)
    \/ PRUnbind
    \/ AFUBind \/ AFUUnbind
    \/ StapBind \/ StapUnbind
    \/ \E r \in Requests, o \in Orders : Send(r, o)
    \/ \E r \in Requests : Interrupted(r)

Next == Client \/ \E r \in Requests : Handler(r) \/ Callback(r)

Spec == Init /\ [][Next]_vars

\* The threads in CommandHandler() and the work queue run on; nothing is asked
\* of the clients.
FairSpec == Spec /\ \A r \in Requests : WF_vars(Handler(r)) /\ WF_vars(Callback(r))

--------------------------------------------------------------------------------
(* What the lock of the PR device is worth *)

TypeOK ==
    /\ prSem \in Nat
    /\ made \in Nat \ {0}
    /\ uafu \in 0..made
    /\ afuOwner \in BOOLEAN
    /\ stapOwner \in BOOLEAN
    /\ prOwner \in Sessions \cup {NoSession}
    /\ closed \subseteq Sessions
    /\ pc \in [Requests -> Places]
    /\ order \in [Requests -> Orders]
    /\ sess \in [Requests -> Sessions \cup {NoSession}]
    /\ afu \in [Requests -> 0..made]
    /\ elapsed \in [Requests -> Nat]
    /\ waited \in [Requests -> Nat]
    /\ tapRevokes \in [Requests -> 0..MaxTry]
    /\ afuRevokes \in [Requests -> 0..MaxTry]
    /\ revoked \in [Requests -> SUBSET {"handler", "callback"}]
    /\ answer \in [Requests -> Outcomes]

\* A request that was refused or finished in CommandHandler() has given m_pr_sem
\* back twice, so that two requests may work on the port at once.
OverReleased == prSem + Cardinality(Holders) > 1

\* m_pr_sem is never lost on the many ways out of a request (answer, refusal,
\* prprogram_ctx_free() when the client has gone, giving up): a device that no
\* request works on can be reconfigured again.
LockNeverLost == prSem + Cardinality(Holders) >= 1

\* m_pr_sem is a mutex (kosal_mutex_init() in cci_create_aal_device()): between
\* LOCK RECONF and UN-LOCK RECONF a request is alone.
ReconfIsExclusive == Cardinality(Holders) <= 1

\* As long as m_pr_sem works as a mutex, the device a queued callback will read
\* through m_pAFU_dev, or has decided to take down, exists and is the port's.
AfuPointerLive ==
    ~OverReleased =>
        \A r \in Requests :
            pc[r] \in Aimed => afu[r] = uafu /\ uafu # 0

\* ... and the bitstream is written only to a port whose AFU has been taken down,
\* however long ago the decision to program it was made.
ProgramsOnlyDeactivated ==
    ~OverReleased =>
        \A r \in Requests : pc[r] = "program" => uafu = 0

\* A request that lets its owner have a grace lets it have all of it, and no more:
\* afu_release_timeout_callback() revokes the AFU, or refuses the request because
\* the owner is to be honored, after exactly the m_reconfTimeout the client gave,
\* not after the first slice of it nor after a whole slice when it is shorter; and
\* nobody revokes the AFU of an owner that was asked to release it any sooner.
FullGrace ==
    \A r \in Requests :
        \/ pc[r] = "revoke"
        \/ answer[r] = "DeviceBusy"
        \/ "callback" \in revoked[r]
        \/ order[r].cmd = "deactivate" /\ revoked[r] # {}
        => waited[r] = order[r].timeout

\* Not true of the code: no owner is revoked before the timeout is over, nor for a
\* request that honors it or is refused on the spot (IALIAFU.h, "should release the
\* AFU", and yanked if it "does not Release within a particular time").
\* CommandHandler() sends the owner a revoke event as soon as it finds one in the
\* way of a configuration (HandlerTells).
RevokedAfterGrace ==
    \A r \in Requests :
        revoked[r] # {} => waited[r] = order[r].timeout /\ order[r].timeout > 0

\* A request ends without an answer only if the client that sent it has unbound
\* from the PR device; that the AFU or the signal tap lost its owner, or that
\* another client has come since, is no reason.
DroppedOnlyIfGone ==
    \A r \in Requests : answer[r] = "dropped" => sess[r] \in closed

Faulted == \E r \in Requests : pc[r] = "oops"

\* Who asks for a reconfiguration hears of its result: IALIAFU.h, "Calls a
\* Callback in IALIReconfigureClient to notify the caller of the result of the
\* call".  A kernel fault keeps m_pr_sem for ever.
RequestAnswered ==
    \A r \in Requests : pc[r] = "lock" ~> (pc[r] = "done" \/ Faulted)

================================================================================
