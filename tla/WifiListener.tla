---------------------------- MODULE WifiListener ----------------------------
(***************************************************************************)
(* The life of the phone's discovery listener, PhonectNetworkService.kt:   *)
(* the service's START, STOP and destruction (main thread), the callback   *)
(* for the default network (connectivity thread), the coroutines that      *)
(* restart the listener on another network, and the listeners themselves,  *)
(* coroutines that bind the discovery port and receive until cancelled.    *)
(*                                                                         *)
(* An action is one block synchronized on listenerLock, or one call made   *)
(* outside of it.  startWifiListener and cancelTransport are several       *)
(* actions each, of whichever thread is in them.                           *)
(*                                                                         *)
(* The connection attempts that a listener claims and that cancelTransport *)
(* cancels are in AttemptRegistry; neither affects the state kept here.    *)
(*                                                                         *)
(* Definitions marked "Fault:" are faulty variants, as in AuthWindow.      *)
(***************************************************************************)
CONSTANTS
    Listeners,  \* listener coroutines that can exist at once (a bound)
    Restarts,   \* restart coroutines that can exist at once (a bound)
    Networks,
    Main, Conn, \* the main thread and the connectivity thread
    NoListener,
    NoNetwork

ASSUME ListenerAssumption ==
    /\ NoListener \notin Listeners
    /\ NoNetwork \notin Networks
    /\ Main # Conn
    /\ Main \notin Restarts
    /\ Conn \notin Restarts

Threads == {Main, Conn} \cup Restarts

VARIABLES
    \* fields guarded by listenerLock
    desired,         \* listenerDesired
    network,         \* currentDefaultNetwork
    listenJob,
    discoverySocket, \* the listener whose socket it is
    \* the service
    scopeActive,     \* serviceScope is active: onDestroy has not finished
    stopping,        \* stopSelf was called
    \* listeners
    step,            \* where the coroutine is
    cancelled,       \* owner.isCancelled
    sock,            \* its socket is open, and so holds the port
    \* threads
    pc,              \* where the thread is
    own,             \* the job it started, captured or joins
    taken,           \* the socket it captured
    purpose,         \* why it is in cancelTransport
    target           \* the network it restarts the listener for

lockVars == <<desired, network, listenJob, discoverySocket>>
serviceVars == <<scopeActive, stopping>>
listenerVars == <<step, cancelled, sock>>
threadVars == <<pc, own, taken, purpose, target>>
vars == <<lockVars, serviceVars, listenerVars, threadVars>>

\* "none": no coroutine.  "lazy": created, not started.  "clear": in finally.
\* "ended": complete, the completion handler has not run.
Unpublished == {"bind", "check"}
Serving == {"publish", "receive"}
Started == Unpublished \cup Serving \cup {"close", "clear"}
Steps == Started \cup {"none", "lazy", "ended"}

Transport == {"capture", "cancel", "closeSocket", "after"}
Pcs == Transport \cup {"idle", "available", "install", "start", "join", "mayRestart"}
Purposes == {"none", "stop", "destroy", "lost", "replace"}

TypeOK ==
    /\ desired \in BOOLEAN
    /\ network \in Networks \cup {NoNetwork}
    /\ listenJob \in Listeners \cup {NoListener}
    /\ discoverySocket \in Listeners \cup {NoListener}
    /\ scopeActive \in BOOLEAN
    /\ stopping \in BOOLEAN
    /\ step \in [Listeners -> Steps]
    /\ cancelled \in [Listeners -> BOOLEAN]
    /\ sock \in [Listeners -> BOOLEAN]
    /\ pc \in [Threads -> Pcs]
    /\ own \in [Threads -> Listeners \cup {NoListener}]
    /\ taken \in [Threads -> Listeners \cup {NoListener}]
    /\ purpose \in [Threads -> Purposes]
    /\ target \in [Threads -> Networks \cup {NoNetwork}]

Init ==
    /\ desired = FALSE
    /\ network = NoNetwork
    /\ listenJob = NoListener
    /\ discoverySocket = NoListener
    /\ scopeActive = TRUE
    /\ stopping = FALSE
    /\ step = [l \in Listeners |-> "none"]
    /\ cancelled = [l \in Listeners |-> FALSE]
    /\ sock = [l \in Listeners |-> FALSE]
    /\ pc = [t \in Threads |-> "idle"]
    /\ own = [t \in Threads |-> NoListener]
    /\ taken = [t \in Threads |-> NoListener]
    /\ purpose = [t \in Threads |-> "none"]
    /\ target = [t \in Threads |-> NoNetwork]

\* Job.isActive: started, not complete and not cancelled.  A lazy job that has
\* not been started is not active.
IsActive(l) == l \in Listeners /\ step[l] \in Started /\ ~cancelled[l]

\* The listener receives, or is about to.
Works(l) == step[l] \in Serving /\ ~cancelled[l]

Goto(t, label) == pc' = [pc EXCEPT ![t] = label]

(***************************************************************************)
(* The main thread: onCreate, onStartCommand and onDestroy                 *)
(***************************************************************************)
\* A new service instance.  In the model it waits until the coroutines of the
\* previous one, which has its own fields, have ended.
Create ==
    /\ ~scopeActive
    /\ \A t \in Threads : pc[t] = "idle"
    /\ \A l \in Listeners : step[l] = "none"
    /\ scopeActive' = TRUE
    /\ stopping' = FALSE
    /\ network' = NoNetwork
    /\ UNCHANGED <<desired, listenJob, discoverySocket, listenerVars, threadVars>>

StartCommand ==
    /\ pc[Main] = "idle"
    /\ scopeActive
    /\ desired' = TRUE
    /\ Goto(Main, "install")
    /\ UNCHANGED <<network, listenJob, discoverySocket, serviceVars, listenerVars,
                   own, taken, purpose, target>>

EnterTransport(t, why) ==
    /\ Goto(t, "capture")
    /\ purpose' = [purpose EXCEPT ![t] = why]

StopCommand ==
    /\ pc[Main] = "idle"
    /\ scopeActive
    /\ desired' = FALSE
    /\ EnterTransport(Main, "stop")
    /\ UNCHANGED <<network, listenJob, discoverySocket, serviceVars, listenerVars,
                   own, taken, target>>

\* onDestroy, which the system calls after stopSelf.
Destroy ==
    /\ pc[Main] = "idle"
    /\ scopeActive
    /\ stopping
    /\ desired' = FALSE
    /\ EnterTransport(Main, "destroy")
    /\ UNCHANGED <<network, listenJob, discoverySocket, serviceVars, listenerVars,
                   own, taken, target>>

(***************************************************************************)
(* The connectivity thread: the default network's callback                 *)
(***************************************************************************)
\* While onDestroy has not unregistered it; that it does is part of
\* AfterDestroy.
Replaces(n) == desired /\ network \notin {NoNetwork, n}

OnAvailable(n) ==
    /\ pc[Conn] = "idle"
    /\ scopeActive
    /\ network' = n
    /\ IF Replaces(n)
       THEN /\ EnterTransport(Conn, "replace")
            /\ target' = [target EXCEPT ![Conn] = n]
       ELSE /\ Goto(Conn, "available")
            /\ UNCHANGED <<purpose, target>>
    /\ UNCHANGED <<desired, listenJob, discoverySocket, serviceVars, listenerVars,
                   own, taken>>

\* "else if (synchronized(listenerLock) { listenerDesired })"
StartIfDesired ==
    /\ pc[Conn] = "available"
    /\ Goto(Conn, IF desired THEN "install" ELSE "idle")
    /\ UNCHANGED <<lockVars, serviceVars, listenerVars, own, taken, purpose, target>>

\* Losing another network than the current default has no effect.
OnLost(n) ==
    /\ pc[Conn] = "idle"
    /\ scopeActive
    /\ network = n
    /\ network' = NoNetwork
    /\ EnterTransport(Conn, "lost")
    /\ UNCHANGED <<desired, listenJob, discoverySocket, serviceVars, listenerVars,
                   own, taken, target>>

(***************************************************************************)
(* startWifiListener                                                       *)
(***************************************************************************)
\* Fault: a listener that is already active is not looked at.
InstallIfDesired == desired

MayInstall == desired /\ ~IsActive(listenJob)

\* No thread will touch l again, so that it can stand for a new coroutine.
Unused(l) ==
    step[l] = "none" /\ \A t \in Threads : own[t] # l /\ taken[t] # l

\* The coroutine is created lazy and becomes listenJob.  In a cancelled scope
\* it would be complete at once.
Install(t, l) ==
    /\ pc[t] = "install"
    /\ MayInstall
    /\ Unused(l)
    /\ step' = [step EXCEPT ![l] = IF scopeActive THEN "lazy" ELSE "ended"]
    /\ cancelled' = [cancelled EXCEPT ![l] = ~scopeActive]
    /\ listenJob' = l
    /\ own' = [own EXCEPT ![t] = l]
    /\ Goto(t, "start")
    /\ UNCHANGED <<desired, network, discoverySocket, serviceVars, sock,
                   taken, purpose, target>>

\* The new coroutine is cancelled before it was started: it leaves no trace.
SkipInstall(t) ==
    /\ pc[t] = "install"
    /\ ~MayInstall
    /\ Goto(t, "idle")
    /\ UNCHANGED <<lockVars, serviceVars, listenerVars, own, taken, purpose, target>>

\* owner.start(), which does nothing if the job was cancelled meanwhile.
StartOwner(t) ==
    /\ pc[t] = "start"
    /\ step' = [step EXCEPT ![own[t]] = IF @ = "lazy" THEN "bind" ELSE @]
    /\ own' = [own EXCEPT ![t] = NoListener]
    /\ Goto(t, "idle")
    /\ UNCHANGED <<lockVars, serviceVars, cancelled, sock, taken, purpose, target>>

(***************************************************************************)
(* cancelTransport                                                         *)
(***************************************************************************)
Capture(t) ==
    /\ pc[t] = "capture"
    /\ own' = [own EXCEPT ![t] = listenJob]
    /\ taken' = [taken EXCEPT ![t] = discoverySocket]
    /\ listenJob' = NoListener
    /\ discoverySocket' = NoListener
    /\ Goto(t, "cancel")
    /\ UNCHANGED <<desired, network, serviceVars, listenerVars, purpose, target>>

\* The jobs that cancel() changes.
Cancellable(ls) == ls \cap {l \in Listeners : step[l] \in Started \cup {"lazy"}}

CancelJobs(ls) ==
    /\ step' = [l \in Listeners |->
                  IF l \in Cancellable(ls) /\ step[l] = "lazy" THEN "ended" ELSE step[l]]
    /\ cancelled' = [l \in Listeners |-> cancelled[l] \/ l \in Cancellable(ls)]

CancelCaptured(t) ==
    /\ pc[t] = "cancel"
    /\ CancelJobs({own[t]})
    /\ Goto(t, "closeSocket")
    /\ UNCHANGED <<lockVars, serviceVars, sock, own, taken, purpose, target>>

\* After attempts.cancelAll().
CloseCaptured(t) ==
    /\ pc[t] = "closeSocket"
    /\ sock' = [l \in Listeners |-> sock[l] /\ l # taken[t]]
    /\ taken' = [taken EXCEPT ![t] = NoListener]
    /\ Goto(t, "after")
    /\ UNCHANGED <<lockVars, serviceVars, step, cancelled, own, purpose, target>>

Return(t) ==
    /\ own' = [own EXCEPT ![t] = NoListener]
    /\ purpose' = [purpose EXCEPT ![t] = "none"]

\* onLost ends; stopWifiListener goes on to stopSelf.
AfterStopOrLost(t) ==
    /\ pc[t] = "after"
    /\ purpose[t] \in {"stop", "lost"}
    /\ stopping' = (stopping \/ purpose[t] = "stop")
    /\ Return(t)
    /\ Goto(t, "idle")
    /\ UNCHANGED <<lockVars, scopeActive, listenerVars, taken, target>>

\* onAvailable launches a coroutine that waits for the captured listener; a
\* cancelled scope runs none.
AfterReplace(r) ==
    /\ pc[Conn] = "after"
    /\ purpose[Conn] = "replace"
    /\ IF scopeActive
       THEN /\ pc[r] = "idle"
            /\ pc' = [pc EXCEPT ![Conn] = "idle", ![r] = "join"]
            /\ own' = [own EXCEPT ![Conn] = NoListener, ![r] = own[Conn]]
            /\ target' = [target EXCEPT ![Conn] = NoNetwork, ![r] = target[Conn]]
       ELSE /\ Goto(Conn, "idle")
            /\ own' = [own EXCEPT ![Conn] = NoListener]
            /\ target' = [target EXCEPT ![Conn] = NoNetwork]
    /\ purpose' = [purpose EXCEPT ![Conn] = "none"]
    /\ UNCHANGED <<lockVars, serviceVars, listenerVars, taken>>

\* The callback is unregistered and the scope cancelled with every coroutine
\* in it; a restart that has passed its join does not suspend any more and
\* goes on.
AfterDestroy ==
    /\ pc[Main] = "after"
    /\ purpose[Main] = "destroy"
    /\ scopeActive' = FALSE
    /\ CancelJobs(Listeners)
    /\ pc' = [t \in Threads |->
                IF t = Main \/ (t \in Restarts /\ pc[t] = "join") THEN "idle" ELSE pc[t]]
    /\ own' = [t \in Threads |->
                 IF t = Main \/ (t \in Restarts /\ pc[t] = "join") THEN NoListener ELSE own[t]]
    /\ purpose' = [purpose EXCEPT ![Main] = "none"]
    /\ UNCHANGED <<lockVars, stopping, sock, taken, target>>

(***************************************************************************)
(* A restart coroutine                                                     *)
(***************************************************************************)
\* previousListener?.join()
Joined(r) == \A l \in Listeners : own[r] = l => step[l] = "none"

Join(r) ==
    /\ pc[r] = "join"
    /\ Joined(r)
    /\ own' = [own EXCEPT ![r] = NoListener]
    /\ Goto(r, "mayRestart")
    /\ UNCHANGED <<lockVars, serviceVars, listenerVars, taken, purpose, target>>

MayRestart(r) ==
    /\ pc[r] = "mayRestart"
    /\ Goto(r, IF desired /\ network = target[r] THEN "install" ELSE "idle")
    /\ target' = [target EXCEPT ![r] = NoNetwork]
    /\ UNCHANGED <<lockVars, serviceVars, listenerVars, own, taken, purpose>>

(***************************************************************************)
(* A listener                                                              *)
(***************************************************************************)
Advance(l, to) == step' = [step EXCEPT ![l] = to]

\* Cancelled after start() and before a thread picked the coroutine up.
NeverRuns(l) ==
    /\ step[l] = "bind"
    /\ cancelled[l]
    /\ Advance(l, "ended")
    /\ UNCHANGED <<lockVars, serviceVars, cancelled, sock, threadVars>>

PortIsFree == \A l \in Listeners : ~sock[l]

Bind(l) ==
    /\ step[l] = "bind"
    /\ PortIsFree
    /\ sock' = [sock EXCEPT ![l] = TRUE]
    /\ Advance(l, "check")
    /\ UNCHANGED <<lockVars, serviceVars, cancelled, threadVars>>

\* BindException: logged; the listener ends and nothing tries again.
BindFails(l) ==
    /\ step[l] = "bind"
    /\ ~PortIsFree
    /\ Advance(l, "close")
    /\ UNCHANGED <<lockVars, serviceVars, cancelled, sock, threadVars>>

\* Fault: whether l is still the listener is not looked at.
PublishIfDesired(l) == desired

\* "listenJob === owner && listenerDesired && owner.isActive"
IsCurrent(l) == listenJob = l /\ desired /\ IsActive(l)

Check(l) ==
    /\ step[l] = "check"
    /\ Advance(l, IF IsCurrent(l) THEN "publish" ELSE "close")
    /\ UNCHANGED <<lockVars, serviceVars, cancelled, sock, threadVars>>

\* The check and the assignment are two synchronized blocks.
Publish(l) ==
    /\ step[l] = "publish"
    /\ discoverySocket' = l
    /\ Advance(l, "receive")
    /\ UNCHANGED <<desired, network, listenJob, serviceVars, cancelled, sock, threadVars>>

\* "while (isActive)": receive returns at least every second.
LeaveLoop(l) ==
    /\ step[l] = "receive"
    /\ cancelled[l]
    /\ Advance(l, "close")
    /\ UNCHANGED <<lockVars, serviceVars, cancelled, sock, threadVars>>

CloseOwn(l) ==
    /\ step[l] = "close"
    /\ sock' = [sock EXCEPT ![l] = FALSE]
    /\ Advance(l, "clear")
    /\ UNCHANGED <<lockVars, serviceVars, cancelled, threadVars>>

\* Fault: the socket stays published after it is closed.
KeepPublished(l) == discoverySocket

\* "if (discoverySocket === localSocket) discoverySocket = null"
SocketAfter(l) == IF discoverySocket = l THEN NoListener ELSE discoverySocket

Unpublish(l) ==
    /\ step[l] = "clear"
    /\ discoverySocket' = SocketAfter(l)
    /\ Advance(l, "ended")
    /\ UNCHANGED <<desired, network, listenJob, serviceVars, cancelled, sock, threadVars>>

\* Fault: the completion handler forgets another listener.
ForgetAny(l) == NoListener

\* "if (listenJob === owner) listenJob = null"
JobAfter(l) == IF listenJob = l THEN NoListener ELSE listenJob

\* The completion handler.  l can stand for another coroutine afterwards.
Complete(l) ==
    /\ step[l] = "ended"
    /\ listenJob' = JobAfter(l)
    /\ Advance(l, "none")
    /\ cancelled' = [cancelled EXCEPT ![l] = FALSE]
    /\ UNCHANGED <<desired, network, discoverySocket, serviceVars, sock, threadVars>>

-----------------------------------------------------------------------------
ThreadStep(t) ==
    \/ \E l \in Listeners : Install(t, l)
    \/ SkipInstall(t)
    \/ StartOwner(t)
    \/ Capture(t)
    \/ CancelCaptured(t)
    \/ CloseCaptured(t)
    \/ AfterStopOrLost(t)

RestartStep(r) == Join(r) \/ MayRestart(r)

ListenerStep(l) ==
    \/ NeverRuns(l)
    \/ Bind(l)
    \/ BindFails(l)
    \/ Check(l)
    \/ Publish(l)
    \/ LeaveLoop(l)
    \/ CloseOwn(l)
    \/ Unpublish(l)
    \/ Complete(l)

\* What the user, the system and the network decide.
Event ==
    \/ Create
    \/ StartCommand
    \/ StopCommand
    \/ Destroy
    \/ \E n \in Networks : OnAvailable(n) \/ OnLost(n)

Next ==
    \/ Event
    \/ \E t \in Threads : ThreadStep(t)
    \/ StartIfDesired
    \/ \E r \in Restarts : AfterReplace(r) \/ RestartStep(r)
    \/ AfterDestroy
    \/ \E l \in Listeners : ListenerStep(l)

Spec == Init /\ [][Next]_vars

\* Threads and coroutines run.  No event has to happen.
Fairness ==
    /\ \A t \in Threads : WF_vars(ThreadStep(t))
    /\ WF_vars(StartIfDesired)
    /\ WF_vars(\E r \in Restarts : AfterReplace(r))
    /\ \A r \in Restarts : WF_vars(RestartStep(r))
    /\ WF_vars(AfterDestroy)
    /\ \A l \in Listeners : WF_vars(ListenerStep(l))

FairSpec == Spec /\ Fairness

(***************************************************************************)
(* Safety                                                                  *)
(***************************************************************************)
\* A cancelTransport has captured l and is about to cancel it.
AboutToCancel(l) == \E t \in Threads : pc[t] = "cancel" /\ own[t] = l

\* A listener that works is the one cancelTransport would cancel, or a
\* cancelTransport that has captured it is about to: none is ever lost from
\* sight while it receives, whatever starts overlap (kt 208-215, 276-289).
WorkingListenerIsReachable ==
    \A l \in Listeners : Works(l) => listenJob = l \/ AboutToCancel(l)

\* A listener that works has an open socket, or is about to be cancelled: if
\* not, its loop would spin on the exception of receive for ever.  The second
\* case is real: the socket is published late, and a second cancelTransport
\* closes it before the first cancels the job (kt 215, 220-263, 298-308).
WorkingSocketIsOpen ==
    \A l \in Listeners : Works(l) => sock[l] \/ AboutToCancel(l)

\* The published socket belongs to a listener that still has to close it
\* itself; no field keeps a socket of a coroutine that is gone, even when
\* publication came after the transport was cancelled (kt 215, 269-270).
PublishedSocketIsOwned ==
    discoverySocket # NoListener =>
        step[discoverySocket] \in {"receive", "close", "clear"}

\* From the moment a STOP or the destruction has captured the transport, every
\* listener that works is about to be cancelled, even if a start was under way
\* on another thread (kt 145, 155, 277, 300-306).
StopIsComplete ==
    ~desired /\ pc[Main] # "capture" =>
        \A l \in Listeners : Works(l) => AboutToCancel(l)

\* Once captured, the listener is not put back while it is not desired.
NothingIsInstalled ==
    ~desired /\ pc[Main] # "capture" => listenJob = NoListener

\* What holds of a socket before its listener works, and once it is captured.
SocketFollowsStep ==
    /\ \A l \in Listeners : step[l] = "check" => sock[l]
    /\ \A t \in Threads : taken[t] # NoListener =>
          /\ step[taken[t]] \notin {"lazy", "bind", "check", "publish"}
          /\ Works(taken[t]) => AboutToCancel(taken[t])

\* The strengthening by which the invariants above are inductive.
Inv ==
    /\ TypeOK
    /\ WorkingListenerIsReachable
    /\ WorkingSocketIsOpen
    /\ PublishedSocketIsOwned
    /\ NothingIsInstalled
    /\ SocketFollowsStep

(***************************************************************************)
(* Liveness, under FairSpec                                                *)
(***************************************************************************)
Listening == \E l \in Listeners : step[l] = "receive" /\ ~cancelled[l]

\* Nothing more happens to a service that is to listen on its network.
Undisturbed ==
    /\ desired
    /\ network # NoNetwork
    /\ \A t \in Threads : pc[t] = "idle"

\* "Foreground Service that listens for Wi-Fi UDP discovery from the PC"
\* (kt 30), "Listening for PC via Wi-Fi" (kt 140): a service that was started,
\* has a network and is left alone listens in the end.
DesiredListens == <>[]Undisturbed => []<>Listening
=============================================================================
