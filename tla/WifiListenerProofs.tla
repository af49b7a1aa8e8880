------------------------- MODULE WifiListenerProofs -------------------------
(***************************************************************************)
(* Proofs about WifiListener, for any number of listeners, restart         *)
(* coroutines and networks: whatever starts, stops and network changes     *)
(* overlap, no working listener is out of cancelTransport's reach.         *)
(***************************************************************************)
EXTENDS WifiListener, TLAPS

LEMMA TypeInit == Init => TypeOK
<1> SUFFICES ASSUME Init
             PROVE  TypeOK
  OBVIOUS
<1>1. /\ cancelled \in [Listeners -> BOOLEAN]
      /\ sock \in [Listeners -> BOOLEAN]
  BY DEF Init
<1>2. step \in [Listeners -> Steps]
  BY DEF Init, Steps
<1>3. /\ pc \in [Threads -> Pcs]
      /\ own \in [Threads -> Listeners \cup {NoListener}]
      /\ taken \in [Threads -> Listeners \cup {NoListener}]
      /\ purpose \in [Threads -> Purposes]
      /\ target \in [Threads -> Networks \cup {NoNetwork}]
  BY DEF Init, Pcs, Purposes
<1> QED
  BY <1>1, <1>2, <1>3 DEF Init, TypeOK

LEMMA StepKeepsTypes ==
  ASSUME TypeOK, [Next]_vars
  PROVE  TypeOK'
<1> USE DEF TypeOK, lockVars, serviceVars, listenerVars, threadVars, Goto, Advance,
        Steps, Started, Unpublished, Serving, Pcs, Transport, Purposes
<1>1. CASE Create \/ StartCommand \/ StopCommand \/ Destroy
  BY <1>1, ListenerAssumption DEF Create, StartCommand, StopCommand, Destroy, EnterTransport, Threads
<1>2. ASSUME NEW n \in Networks, OnAvailable(n) \/ OnLost(n)
      PROVE  TypeOK'
  BY <1>2, ListenerAssumption DEF OnAvailable, OnLost, EnterTransport, Threads
<1>3. ASSUME NEW t \in Threads, NEW l \in Listeners, Install(t, l)
      PROVE  TypeOK'
  BY <1>3 DEF Install
<1>4. ASSUME NEW t \in Threads, SkipInstall(t) \/ StartOwner(t) \/ Capture(t)
      PROVE  TypeOK'
  BY <1>4 DEF SkipInstall, StartOwner, Capture
<1>5. ASSUME NEW t \in Threads, CancelCaptured(t) \/ CloseCaptured(t) \/ AfterStopOrLost(t)
      PROVE  TypeOK'
  <2>1. CASE CancelCaptured(t)
    BY <2>1 DEF CancelCaptured, CancelJobs
  <2>2. CASE CloseCaptured(t)
    BY <2>2 DEF CloseCaptured
  <2>3. CASE AfterStopOrLost(t)
    BY <2>3 DEF AfterStopOrLost, Return
  <2> QED
    BY <1>5, <2>1, <2>2, <2>3
<1>6. CASE StartIfDesired
  BY <1>6 DEF StartIfDesired, Threads
<1>7. ASSUME NEW r \in Restarts, AfterReplace(r)
      PROVE  TypeOK'
  BY <1>7 DEF AfterReplace, Threads
<1>8. ASSUME NEW r \in Restarts, RestartStep(r)
      PROVE  TypeOK'
  BY <1>8 DEF RestartStep, Join, MayRestart, Threads
<1>9. CASE AfterDestroy
  BY <1>9 DEF AfterDestroy, CancelJobs, Threads
<1>10. ASSUME NEW l \in Listeners, ListenerStep(l)
       PROVE  TypeOK'
  <2>1. CASE NeverRuns(l) \/ Bind(l) \/ BindFails(l) \/ Check(l) \/ Publish(l)
    BY <2>1 DEF NeverRuns, Bind, BindFails, Check, Publish
  <2>2. CASE LeaveLoop(l) \/ CloseOwn(l) \/ Unpublish(l) \/ Complete(l)
    BY <2>2 DEF LeaveLoop, CloseOwn, Unpublish, SocketAfter, Complete, JobAfter
  <2> QED
    BY <1>10, <2>1, <2>2 DEF ListenerStep
<1>11. CASE UNCHANGED vars
  BY <1>11 DEF vars
<1> QED
  BY <1>1, <1>2, <1>3, <1>4, <1>5, <1>6, <1>7, <1>8, <1>9, <1>10, <1>11
     DEF Next, Event, ThreadStep

\* What Inv says besides the types.
Reach == /\ WorkingListenerIsReachable
         /\ WorkingSocketIsOpen
         /\ PublishedSocketIsOwned
         /\ NothingIsInstalled
         /\ SocketFollowsStep

\* A step after which the same listeners work, with the same sockets, and the
\* same cancellations are pending keeps Reach.
LEMMA EventKeepsReach ==
  ASSUME Inv, TypeOK', Create \/ StartCommand \/ StopCommand \/ Destroy
  PROVE  Reach'
<1> USE DEF Inv, TypeOK, Reach, Works, AboutToCancel, Goto, listenerVars, threadVars, serviceVars
<1>1. /\ UNCHANGED <<listenJob, discoverySocket, step, cancelled, sock, own, taken>>
      /\ \A t \in Threads : pc[t] = "cancel" <=> pc'[t] = "cancel"
      /\ ~desired' /\ pc'[Main] # "capture" => ~desired /\ pc[Main] # "capture"
  BY ListenerAssumption DEF Create, StartCommand, StopCommand, Destroy, EnterTransport, Threads
<1> QED
  BY <1>1 DEF WorkingListenerIsReachable, WorkingSocketIsOpen, PublishedSocketIsOwned,
     NothingIsInstalled, SocketFollowsStep

LEMMA CallbackKeepsReach ==
  ASSUME Inv, TypeOK',
         \/ \E n \in Networks : OnAvailable(n) \/ OnLost(n)
         \/ StartIfDesired
         \/ \E r \in Restarts : MayRestart(r)
         \/ \E t \in Threads : SkipInstall(t)
  PROVE  Reach'
<1> USE DEF Inv, TypeOK, Reach, Works, AboutToCancel, Goto, lockVars, listenerVars, serviceVars
<1>1. /\ UNCHANGED <<desired, listenJob, discoverySocket, step, cancelled, sock, own, taken>>
      /\ \A t \in Threads : pc[t] = "cancel" <=> pc'[t] = "cancel"
      /\ pc[Main] = "capture" <=> pc'[Main] = "capture"
  BY ListenerAssumption DEF OnAvailable, OnLost, EnterTransport, StartIfDesired, MayRestart,
     SkipInstall, Threads
<1> QED
  BY <1>1 DEF WorkingListenerIsReachable, WorkingSocketIsOpen, PublishedSocketIsOwned,
     NothingIsInstalled, SocketFollowsStep

\* Installing a listener overwrites none that works: that one is active.
LEMMA InstallKeepsReach ==
  ASSUME Inv, TypeOK', NEW t \in Threads, NEW l \in Listeners, Install(t, l)
  PROVE  Reach'
<1> USE DEF Inv, TypeOK, Reach, Install, Goto, serviceVars
<1>1. \A m \in Listeners : Works(m)' => Works(m) /\ m # l
  BY DEF Works, Serving
<1>2. \A m \in Listeners : Works(m) => listenJob # m
  BY DEF MayInstall, IsActive, Works, Started
<1>3. \A m \in Listeners : AboutToCancel(m) => AboutToCancel(m)'
  BY DEF AboutToCancel
<1>4. \A s \in Threads : taken[s] # l
  BY DEF Unused
<1>5. discoverySocket # l
  BY ListenerAssumption DEF PublishedSocketIsOwned, Unused
<1>6. WorkingListenerIsReachable' /\ WorkingSocketIsOpen'
  BY <1>1, <1>2, <1>3 DEF WorkingListenerIsReachable, WorkingSocketIsOpen
<1>7. PublishedSocketIsOwned'
  BY <1>5, ListenerAssumption DEF PublishedSocketIsOwned
<1>8. NothingIsInstalled'
  BY DEF NothingIsInstalled, MayInstall
<1>9. SocketFollowsStep'
  BY <1>1, <1>3, <1>4, ListenerAssumption DEF SocketFollowsStep
<1> QED
  BY <1>6, <1>7, <1>8, <1>9

LEMMA StartOwnerKeepsReach ==
  ASSUME Inv, TypeOK', NEW t \in Threads, StartOwner(t)
  PROVE  Reach'
<1> USE DEF Inv, TypeOK, Reach, StartOwner, Goto, lockVars, serviceVars
<1>1. /\ UNCHANGED <<desired, listenJob, discoverySocket, cancelled, sock, taken>>
      /\ \A l \in Listeners : step'[l] = step[l] \/ (step[l] = "lazy" /\ step'[l] = "bind")
  OBVIOUS
<1>2. \A l \in Listeners : /\ Works(l)' <=> Works(l)
                           /\ AboutToCancel(l) => AboutToCancel(l)'
  BY <1>1 DEF Works, Serving, AboutToCancel
<1>3. pc'[Main] # "capture" => pc[Main] # "capture"
  BY DEF Threads
<1>4. WorkingListenerIsReachable' /\ WorkingSocketIsOpen'
  BY <1>1, <1>2 DEF WorkingListenerIsReachable, WorkingSocketIsOpen
<1>5. PublishedSocketIsOwned' /\ NothingIsInstalled'
  BY <1>1, <1>3 DEF PublishedSocketIsOwned, NothingIsInstalled
<1>6. SocketFollowsStep'
  BY <1>1, <1>2 DEF SocketFollowsStep
<1> QED
  BY <1>4, <1>5, <1>6

\* Capturing takes the listener out of listenJob and announces that it will be
\* cancelled, in one block.
LEMMA CaptureKeepsReach ==
  ASSUME Inv, TypeOK', NEW t \in Threads, Capture(t)
  PROVE  Reach'
<1> USE DEF Inv, TypeOK, Reach, Capture, Goto, listenerVars, serviceVars
<1>1. \A l \in Listeners : Works(l)' <=> Works(l)
  BY DEF Works
<1>2. \A l \in Listeners : AboutToCancel(l) \/ listenJob = l => AboutToCancel(l)'
  BY DEF AboutToCancel
<1>3. \A l \in Listeners : Works(l)' => AboutToCancel(l)'
  BY <1>1, <1>2 DEF WorkingListenerIsReachable
<1>4. WorkingListenerIsReachable' /\ WorkingSocketIsOpen'
  BY <1>3 DEF WorkingListenerIsReachable, WorkingSocketIsOpen
<1>5. PublishedSocketIsOwned' /\ NothingIsInstalled'
  BY DEF PublishedSocketIsOwned, NothingIsInstalled
<1>6. SocketFollowsStep'
  BY <1>3 DEF SocketFollowsStep, PublishedSocketIsOwned
<1> QED
  BY <1>4, <1>5, <1>6

\* What a cancellation leaves: less work.
LEMMA CancelJobsEffect ==
  ASSUME TypeOK, NEW ls, CancelJobs(ls)
  PROVE  \A l \in Listeners :
           /\ Works(l)' => Works(l) /\ l \notin ls
           /\ step'[l] = step[l] \/ (step[l] = "lazy" /\ step'[l] = "ended")
BY DEF TypeOK, CancelJobs, Cancellable, Works, Serving, Started

LEMMA CancelKeepsReach ==
  ASSUME Inv, TypeOK', NEW t \in Threads, CancelCaptured(t)
  PROVE  Reach'
<1> USE DEF Inv, TypeOK, Reach, CancelCaptured, Goto, lockVars, serviceVars
<1>1. \A l \in Listeners :
        /\ Works(l)' => Works(l) /\ l # own[t]
        /\ step'[l] = step[l] \/ (step[l] = "lazy" /\ step'[l] = "ended")
  BY CancelJobsEffect
<1>2. \A l \in Listeners : l # own[t] /\ AboutToCancel(l) => AboutToCancel(l)'
  BY DEF AboutToCancel
<1>3. UNCHANGED <<desired, listenJob, discoverySocket, sock, taken>>
  OBVIOUS
<1>4. pc'[Main] # "capture" => pc[Main] # "capture"
  BY DEF Threads
<1>5. WorkingListenerIsReachable' /\ WorkingSocketIsOpen'
  BY <1>1, <1>2, <1>3 DEF WorkingListenerIsReachable, WorkingSocketIsOpen
<1>6. PublishedSocketIsOwned' /\ NothingIsInstalled'
  BY <1>1, <1>3, <1>4 DEF PublishedSocketIsOwned, NothingIsInstalled
<1>7. SocketFollowsStep'
  BY <1>1, <1>2, <1>3 DEF SocketFollowsStep
<1> QED
  BY <1>5, <1>6, <1>7

LEMMA CloseCapturedKeepsReach ==
  ASSUME Inv, TypeOK', NEW t \in Threads, CloseCaptured(t)
  PROVE  Reach'
<1> USE DEF Inv, TypeOK, Reach, CloseCaptured, Goto, lockVars, serviceVars
<1>1. \A l \in Listeners : /\ Works(l)' <=> Works(l)
                           /\ AboutToCancel(l)' <=> AboutToCancel(l)
                           /\ sock[l] /\ ~sock'[l] => taken[t] = l
  BY DEF Works, AboutToCancel
<1>2. pc'[Main] # "capture" => pc[Main] # "capture"
  BY DEF Threads
<1>3. WorkingListenerIsReachable' /\ PublishedSocketIsOwned' /\ NothingIsInstalled'
  BY <1>1, <1>2 DEF WorkingListenerIsReachable, PublishedSocketIsOwned, NothingIsInstalled
<1>4. WorkingSocketIsOpen'
  BY <1>1, ListenerAssumption DEF WorkingSocketIsOpen, SocketFollowsStep
<1>5. SocketFollowsStep'
  BY <1>1, ListenerAssumption DEF SocketFollowsStep
<1> QED
  BY <1>3, <1>4, <1>5

\* cancelTransport returns, a restart is launched, joins, or is cancelled with
\* the scope: none of them was about to cancel anything.
LEMMA ReturnKeepsReach ==
  ASSUME Inv, TypeOK',
         \/ \E t \in Threads : AfterStopOrLost(t)
         \/ \E r \in Restarts : AfterReplace(r) \/ Join(r)
         \/ AfterDestroy
  PROVE  Reach'
<1> USE DEF Inv, TypeOK, Reach
<1>1. UNCHANGED <<desired, listenJob, discoverySocket, sock, taken>>
  BY DEF AfterStopOrLost, AfterReplace, Join, AfterDestroy, lockVars, listenerVars
<1>2. \A l \in Listeners :
        /\ Works(l)' => Works(l)
        /\ step'[l] = step[l] \/ (step[l] = "lazy" /\ step'[l] = "ended")
  <2>1. CASE AfterDestroy
    BY <2>1, CancelJobsEffect DEF AfterDestroy
  <2>2. CASE ~AfterDestroy
    BY <2>2 DEF AfterStopOrLost, AfterReplace, Join, listenerVars, Works
  <2> QED
    BY <2>1, <2>2
<1>3. \A t \in Threads : pc[t] = "cancel" => pc'[t] = "cancel" /\ own'[t] = own[t]
  BY ListenerAssumption DEF AfterStopOrLost, Return, AfterReplace, Join, AfterDestroy, Goto, Threads
<1>4. pc'[Main] # "capture" => pc[Main] # "capture"
  BY ListenerAssumption DEF AfterStopOrLost, AfterReplace, Join, AfterDestroy, Goto, Threads
<1>5. \A l \in Listeners : AboutToCancel(l) => AboutToCancel(l)'
  BY <1>3 DEF AboutToCancel
<1>6. WorkingListenerIsReachable' /\ WorkingSocketIsOpen'
  BY <1>1, <1>2, <1>5 DEF WorkingListenerIsReachable, WorkingSocketIsOpen
<1>7. PublishedSocketIsOwned' /\ NothingIsInstalled'
  BY <1>1, <1>2, <1>4 DEF PublishedSocketIsOwned, NothingIsInstalled
<1>8. SocketFollowsStep'
  BY <1>1, <1>2, <1>5 DEF SocketFollowsStep
<1> QED
  BY <1>6, <1>7, <1>8

\* A listener starts to work only if it is listenJob and its socket is open.
LEMMA CheckKeepsReach ==
  ASSUME Inv, TypeOK', NEW l \in Listeners, Check(l)
  PROVE  Reach'
<1> USE DEF Inv, TypeOK, Reach, Check, Advance, lockVars, threadVars, serviceVars
<1>1. \A m \in Listeners : /\ AboutToCancel(m)' <=> AboutToCancel(m)
                           /\ m # l => (Works(m)' <=> Works(m))
  BY DEF AboutToCancel, Works
<1>2. Works(l)' => listenJob = l /\ sock[l]
  BY DEF Works, Serving, IsCurrent, SocketFollowsStep
<1>3. \A t \in Threads : taken[t] # l
  BY ListenerAssumption DEF SocketFollowsStep
<1>4. WorkingListenerIsReachable' /\ WorkingSocketIsOpen'
  BY <1>1, <1>2 DEF WorkingListenerIsReachable, WorkingSocketIsOpen
<1>5. PublishedSocketIsOwned' /\ NothingIsInstalled'
  BY DEF PublishedSocketIsOwned, NothingIsInstalled
<1>6. SocketFollowsStep'
  BY <1>1, <1>3 DEF SocketFollowsStep
<1> QED
  BY <1>4, <1>5, <1>6

\* The other steps of a listener never make it work.
LEMMA ListenerKeepsReach ==
  ASSUME Inv, TypeOK', NEW l \in Listeners, ListenerStep(l), ~Check(l)
  PROVE  Reach'
<1> USE DEF Inv, TypeOK, Reach, Advance, threadVars
<1>1. \A m \in Listeners : m # l => /\ step'[m] = step[m]
                                    /\ cancelled'[m] = cancelled[m]
                                    /\ sock'[m] = sock[m]
  BY DEF ListenerStep, NeverRuns, Bind, BindFails, Publish, LeaveLoop, CloseOwn,
     Unpublish, Complete
<1>2. Works(l)' => Works(l) /\ sock'[l] = sock[l]
  BY DEF ListenerStep, NeverRuns, Bind, BindFails, Publish, LeaveLoop, CloseOwn,
     Unpublish, Complete, Works, Serving
<1>3. \A m \in Listeners : /\ AboutToCancel(m)' <=> AboutToCancel(m)
                           /\ Works(m)' => Works(m) /\ sock'[m] = sock[m]
  BY <1>1, <1>2 DEF AboutToCancel, ListenerStep, NeverRuns, Bind, BindFails, Publish,
     LeaveLoop, CloseOwn, Unpublish, Complete, Works
<1>4. /\ UNCHANGED <<pc, own, taken, desired>>
      /\ listenJob' = listenJob \/ (listenJob' = NoListener /\ ~Works(listenJob))
  BY DEF ListenerStep, NeverRuns, Bind, BindFails, Publish, LeaveLoop, CloseOwn,
     Unpublish, Complete, JobAfter, Works, Serving, lockVars
<1>5. WorkingListenerIsReachable' /\ WorkingSocketIsOpen' /\ NothingIsInstalled'
  BY <1>3, <1>4 DEF WorkingListenerIsReachable, WorkingSocketIsOpen, NothingIsInstalled
<1>6. PublishedSocketIsOwned'
  BY ListenerAssumption DEF ListenerStep, NeverRuns, Bind, BindFails, Publish, LeaveLoop, CloseOwn,
     Unpublish, Complete, SocketAfter, PublishedSocketIsOwned, lockVars
<1>7. step'[l] = "check" => sock'[l]
  BY DEF ListenerStep, NeverRuns, Bind, BindFails, Publish, LeaveLoop, CloseOwn,
     Unpublish, Complete
<1>8. step[l] \notin {"lazy", "bind", "check", "publish"} =>
        step'[l] \notin {"lazy", "bind", "check", "publish"}
  BY DEF ListenerStep, NeverRuns, Bind, BindFails, Publish, LeaveLoop, CloseOwn,
     Unpublish, Complete
<1>9. SocketFollowsStep'
  BY <1>1, <1>3, <1>4, <1>7, <1>8, ListenerAssumption DEF SocketFollowsStep
<1> QED
  BY <1>5, <1>6, <1>9

LEMMA StepKeepsInv == Inv /\ [Next]_vars => Inv'
<1> SUFFICES ASSUME Inv, [Next]_vars
             PROVE  Inv'
  OBVIOUS
<1>1. TypeOK'
  BY StepKeepsTypes DEF Inv
<1>2. CASE Next
  <2>1. CASE Event
    BY <1>1, <2>1, EventKeepsReach, CallbackKeepsReach DEF Event, Inv, Reach
  <2>2. ASSUME NEW t \in Threads, ThreadStep(t)
        PROVE  Inv'
    BY <1>1, <2>2, InstallKeepsReach, CallbackKeepsReach, StartOwnerKeepsReach,
       CaptureKeepsReach, CancelKeepsReach, CloseCapturedKeepsReach, ReturnKeepsReach
       DEF ThreadStep, Inv, Reach
  <2>3. CASE StartIfDesired \/ AfterDestroy
    BY <1>1, <2>3, CallbackKeepsReach, ReturnKeepsReach DEF Inv, Reach
  <2>4. ASSUME NEW r \in Restarts, AfterReplace(r) \/ RestartStep(r)
        PROVE  Inv'
    BY <1>1, <2>4, CallbackKeepsReach, ReturnKeepsReach DEF RestartStep, Inv, Reach
  <2>5. ASSUME NEW l \in Listeners, ListenerStep(l)
        PROVE  Inv'
    BY <1>1, <2>5, CheckKeepsReach, ListenerKeepsReach DEF Inv, Reach
  <2> QED
    BY <1>2, <2>1, <2>2, <2>3, <2>4, <2>5 DEF Next
<1>3. CASE UNCHANGED vars
  BY <1>1, <1>3 DEF vars, lockVars, listenerVars, threadVars, Inv, Works, AboutToCancel,
     WorkingListenerIsReachable, WorkingSocketIsOpen, PublishedSocketIsOwned,
     NothingIsInstalled, SocketFollowsStep
<1> QED
  BY <1>2, <1>3

\* The inductive invariant.
THEOREM Invariance == Spec => []Inv
<1>1. Init => Inv
  <2> SUFFICES ASSUME Init
               PROVE  Inv
    OBVIOUS
  <2>1. TypeOK
    BY TypeInit
  <2>2. \A l \in Listeners : step[l] = "none"
    BY DEF Init
  <2> QED
    BY <2>1, <2>2 DEF Init, Inv, WorkingListenerIsReachable, WorkingSocketIsOpen,
       PublishedSocketIsOwned, NothingIsInstalled, SocketFollowsStep, Works, Serving
<1> QED
  BY <1>1, StepKeepsInv, PTL DEF Spec

\* A listener that works is listenJob or about to be cancelled
\* (kt 208-215, 276-289, 298-310).
THEOREM NoListenerIsLost == Spec => []WorkingListenerIsReachable
BY Invariance, PTL DEF Inv

\* A listener that works has its socket, or is about to be cancelled
\* (kt 215, 220-263, 298-308).
THEOREM NoListenerSpins == Spec => []WorkingSocketIsOpen
BY Invariance, PTL DEF Inv

\* No field keeps the socket of a coroutine that is gone (kt 215, 269-270).
THEOREM PublishedSocketHasOwner == Spec => []PublishedSocketIsOwned
BY Invariance, PTL DEF Inv

\* After a STOP or the destruction has captured the transport, whatever still
\* works is about to be cancelled (kt 145, 155, 277, 300-306).
THEOREM StopReachesEveryListener == Spec => []StopIsComplete
<1>1. Inv => StopIsComplete
  BY ListenerAssumption
     DEF Inv, StopIsComplete, NothingIsInstalled, WorkingListenerIsReachable
<1> QED
  BY <1>1, Invariance, PTL
=============================================================================
