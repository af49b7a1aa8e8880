----------------------- MODULE AttemptRegistryProofs -----------------------
(***************************************************************************)
(* Proofs about the phone's registry of attempts, for every set of keys,   *)
(* attempts and cancelling threads.                                        *)
(***************************************************************************)
EXTENDS AttemptRegistry, FiniteSetTheorems, Integers, TLAPS

LEMMA TypeInit == Init => TypeOK
  BY RegistryAssumption DEF Init, TypeOK, Jobs, Bodies, Sockets

LEMMA StepKeepsTypes ==
  ASSUME TypeOK, [Next]_vars
  PROVE  TypeOK'
<1> USE DEF claimVars, jobVars, sockVars, cancelVars
<1>1. ASSUME NEW k \in Keys, NEW a \in Attempts,
             Claim(k, a) \/ ClaimInCancelledScope(k, a)
      PROVE  TypeOK'
  <2>1. CASE Claim(k, a)
    BY <2>1 DEF Claim, TypeOK, Jobs
  <2>2. CASE ClaimInCancelledScope(k, a)
    BY <2>2 DEF ClaimInCancelledScope, TypeOK, Jobs
  <2> QED
    BY <1>1, <2>1, <2>2
<1>2. ASSUME NEW a \in Attempts, Start(a) \/ UseSocket(a) \/ LeaveEarly(a)
      PROVE  TypeOK'
  <2>1. CASE Start(a)
    BY <2>1 DEF Start, TypeOK, Jobs
  <2>2. CASE UseSocket(a)
    BY <2>2 DEF UseSocket, TypeOK, Bodies
  <2>3. CASE LeaveEarly(a)
    BY <2>3 DEF LeaveEarly, TypeOK, Jobs, Bodies
  <2> QED
    BY <1>2, <2>1, <2>2, <2>3
<1>3. ASSUME NEW a \in Attempts, AttachSocket(a) PROVE TypeOK'
  BY <1>3 DEF AttachSocket, RejectSocket, TypeOK, Bodies, Sockets
<1>4. ASSUME NEW a \in Attempts, FinishWork(a) PROVE TypeOK'
  BY <1>4 DEF FinishWork, TypeOK, Jobs, Bodies, Sockets
<1>5. ASSUME NEW a \in Attempts, Complete(a) PROVE TypeOK'
  BY <1>5 DEF Complete, IsCurrent, Registered, SocketAfterComplete, TypeOK, Jobs, Sockets
<1>6. ASSUME NEW a \in Attempts, CancelChild(a) PROVE TypeOK'
  BY <1>6 DEF CancelChild, CancelJob, JobAfterCancel, TypeOK, Jobs
<1>7. CASE CancelScope
  BY <1>7 DEF CancelScope, TypeOK
<1>8. ASSUME NEW t \in Cancellers, CancelAllMark(t) PROVE TypeOK'
  BY <1>8 DEF CancelAllMark, TypeOK
<1>9. ASSUME NEW t \in Cancellers, NEW a \in Attempts, CancelOwner(t, a) PROVE TypeOK'
  BY <1>9 DEF CancelOwner, CancelJob, JobAfterCancel, TypeOK, Jobs
<1>10. ASSUME NEW t \in Cancellers, NEW a \in Attempts, CloseTaken(t, a) PROVE TypeOK'
  BY <1>10 DEF CloseTaken, TypeOK, Sockets
<1>11. ASSUME NEW t \in Cancellers, CancelAllRemove(t) PROVE TypeOK'
  BY <1>11 DEF CancelAllRemove, TypeOK
<1>12. CASE UNCHANGED vars
  BY <1>12 DEF vars, TypeOK
<1> QED
  BY <1>1, <1>2, <1>3, <1>4, <1>5, <1>6, <1>7, <1>8, <1>9, <1>10, <1>11, <1>12
     DEF Next, BodyStep, CancelStep

-----------------------------------------------------------------------------
\* One lemma per group of actions: the step keeps the invariant.  In each, the
\* conjuncts the action can disturb come one by one.

LEMMA ClaimKeepsInv ==
  ASSUME Inv, TypeOK', NEW k \in Keys, NEW a \in Attempts, Claim(k, a)
  PROVE  Inv'
<1> USE RegistryAssumption DEF Inv, TypeOK, claimVars, jobVars, sockVars, cancelVars
<1>1. /\ key[a] = NoKey /\ ~cancelling[a] /\ ~isCancelled[a]
      /\ body[a] = "connecting" /\ socket[a] = "none" /\ ~attached[a]
      /\ \A t \in Cancellers : a \notin batch[t]
  BY DEF Claim, UnclaimedIsFresh, BodyFollowsJob
<1>2. /\ attempts[k] = NoAttempt
      /\ attempts' = [attempts EXCEPT ![k] = a]
      /\ key' = [key EXCEPT ![a] = k]
      /\ job' = [job EXCEPT ![a] = "lazy"]
      /\ UNCHANGED <<isCancelled, body, cancelling, socket, attached, batch,
                     toCancel, toClose>>
  BY DEF Claim, MayClaim
<1>3. LiveIsRegistered'
  BY <1>1, <1>2 DEF LiveIsRegistered, Live, Registered
<1>4. OpenSocketHasCloser' /\ MarkedSocketIsBeingClosed' /\ BodyFollowsJob'
  BY <1>1, <1>2 DEF OpenSocketHasCloser, MarkedSocketIsBeingClosed, BodyFollowsJob
<1>5. UnclaimedIsFresh' /\ FiledUnderItsKey'
  BY <1>1, <1>2 DEF UnclaimedIsFresh, FiledUnderItsKey
<1>6. BatchIsMarked'
  BY <1>1, <1>2 DEF BatchIsMarked, Live
<1>7. KeyHasReleaser'
  BY <1>1, <1>2 DEF KeyHasReleaser, Registered
<1> QED
  BY <1>3, <1>4, <1>5, <1>6, <1>7

LEMMA ClaimInCancelledScopeKeepsInv ==
  ASSUME Inv, TypeOK', NEW k \in Keys, NEW a \in Attempts, ClaimInCancelledScope(k, a)
  PROVE  Inv'
<1> USE RegistryAssumption DEF Inv, TypeOK, claimVars, jobVars, sockVars, cancelVars
<1>1. /\ key[a] = NoKey /\ ~cancelling[a]
      /\ body[a] = "connecting" /\ socket[a] = "none"
      /\ \A t \in Cancellers : a \notin batch[t]
  BY DEF ClaimInCancelledScope, UnclaimedIsFresh, BodyFollowsJob
<1>2. /\ key' = [key EXCEPT ![a] = k]
      /\ job' = [job EXCEPT ![a] = "done"]
      /\ isCancelled' = [isCancelled EXCEPT ![a] = TRUE]
      /\ UNCHANGED <<attempts, body, cancelling, socket, attached, batch,
                     toCancel, toClose>>
      /\ \A l \in Keys : attempts[l] # a
  BY DEF ClaimInCancelledScope, FiledUnderItsKey
<1>3. LiveIsRegistered'
  BY <1>1, <1>2 DEF LiveIsRegistered, Live, Registered
<1>4. OpenSocketHasCloser' /\ MarkedSocketIsBeingClosed' /\ BodyFollowsJob'
  BY <1>1, <1>2 DEF OpenSocketHasCloser, MarkedSocketIsBeingClosed, BodyFollowsJob
<1>5. UnclaimedIsFresh' /\ FiledUnderItsKey'
  BY <1>1, <1>2 DEF UnclaimedIsFresh, FiledUnderItsKey
<1>6. BatchIsMarked'
  BY <1>1, <1>2 DEF BatchIsMarked, Live
<1>7. KeyHasReleaser'
  BY <1>1, <1>2 DEF KeyHasReleaser, Registered
<1> QED
  BY <1>3, <1>4, <1>5, <1>6, <1>7

LEMMA BodyKeepsInv ==
  ASSUME Inv, TypeOK', NEW a \in Attempts,
         Start(a) \/ AttachSocket(a) \/ UseSocket(a) \/ FinishWork(a) \/ LeaveEarly(a)
  PROVE  Inv'
<1> USE DEF Inv, TypeOK, claimVars, jobVars, sockVars, cancelVars
<1>1. UNCHANGED <<attempts, key, isCancelled, cancelling, batch, toCancel, toClose>>
  BY DEF Start, AttachSocket, UseSocket, FinishWork, LeaveEarly
<1>2. /\ job[a] \in {"lazy", "running"} /\ job'[a] \in {"running", "ended"}
      /\ \A b \in Attempts \ {a} : job'[b] = job[b]
  BY DEF Start, AttachSocket, UseSocket, FinishWork, LeaveEarly
<1>3. \A b \in Attempts \ {a} : /\ body'[b] = body[b]
                                /\ socket'[b] = socket[b]
                                /\ attached'[b] = attached[b]
  BY DEF Start, AttachSocket, UseSocket, FinishWork, LeaveEarly
<1>4. LiveIsRegistered' /\ BatchIsMarked'
  <2>1. \A b \in Attempts : Live(b)' => Live(b)
    BY <1>1, <1>2 DEF Live
  <2> QED
    BY <1>1, <2>1 DEF LiveIsRegistered, Registered, BatchIsMarked
<1>5. UnclaimedIsFresh' /\ FiledUnderItsKey' /\ KeyHasReleaser'
  BY <1>1, <1>2, <1>3 DEF UnclaimedIsFresh, FiledUnderItsKey, KeyHasReleaser, Registered
<1>6. /\ body'[a] = "connecting" => /\ socket'[a] = "none"
                                     /\ ~attached'[a]
                                     /\ body[a] = "connecting"
      /\ body'[a] = "using" => job'[a] = "running"
      /\ socket'[a] = "open" /\ ~cancelling[a] => attached'[a]
      /\ socket'[a] = "open" => \/ body'[a] = "using"
                                \/ attached'[a]
                                \/ \E t \in Cancellers : a \in toClose[t]
      /\ cancelling[a] /\ socket'[a] = "open" =>
            \E t \in Cancellers : a \in toClose[t]
  <2>1. CASE Start(a)
    BY <2>1 DEF Start, BodyFollowsJob, OpenSocketHasCloser, MarkedSocketIsBeingClosed
  <2>2. CASE AttachSocket(a)
    BY <2>2 DEF AttachSocket, RejectSocket, BodyFollowsJob
  <2>3. CASE UseSocket(a)
    BY <2>3 DEF UseSocket, BodyFollowsJob, MarkedSocketIsBeingClosed
  <2>4. CASE FinishWork(a)
    BY <2>4 DEF FinishWork
  <2>5. CASE LeaveEarly(a)
    BY <2>5 DEF LeaveEarly, BodyFollowsJob, OpenSocketHasCloser, MarkedSocketIsBeingClosed
  <2> QED
    BY <2>1, <2>2, <2>3, <2>4, <2>5
<1>7. BodyFollowsJob' /\ OpenSocketHasCloser' /\ MarkedSocketIsBeingClosed'
  BY <1>1, <1>2, <1>3, <1>6
     DEF BodyFollowsJob, OpenSocketHasCloser, MarkedSocketIsBeingClosed
<1> QED
  BY <1>4, <1>5, <1>7

LEMMA CompleteKeepsInv ==
  ASSUME Inv, TypeOK', NEW a \in Attempts, Complete(a)
  PROVE  Inv'
<1> USE RegistryAssumption DEF Inv, TypeOK
<1>1. /\ UNCHANGED <<key, isCancelled, body, cancelling, batch, toCancel, toClose>>
      /\ job[a] = "ended"
      /\ job' = [job EXCEPT ![a] = "done"]
      /\ socket' = [socket EXCEPT ![a] = IF attached[a] THEN "closed" ELSE socket[a]]
      /\ attached' = [attached EXCEPT ![a] = FALSE]
  BY DEF Complete, SocketAfterComplete, cancelVars
<1>2. \A k \in Keys : attempts'[k] = attempts[k]
                      \/ (attempts[k] = a /\ attempts'[k] = NoAttempt)
  BY DEF Complete, IsCurrent, Registered
<1>3. \A b \in Attempts : Live(b)' => Live(b) /\ b # a
  BY <1>1 DEF Live
<1>4. LiveIsRegistered'
  BY <1>1, <1>2, <1>3 DEF LiveIsRegistered, Registered
<1>5. BatchIsMarked'
  BY <1>1, <1>3 DEF BatchIsMarked
<1>6. UnclaimedIsFresh' /\ FiledUnderItsKey'
  BY <1>1, <1>2 DEF UnclaimedIsFresh, FiledUnderItsKey
<1>7. BodyFollowsJob' /\ OpenSocketHasCloser' /\ MarkedSocketIsBeingClosed'
  BY <1>1 DEF BodyFollowsJob, OpenSocketHasCloser, MarkedSocketIsBeingClosed
<1>8. KeyHasReleaser'
  <2>1. Registered(a)' => cancelling[a]
    BY <1>1 DEF Complete, IsCurrent, Registered
  <2> QED
    BY <1>1, <1>2, <2>1 DEF KeyHasReleaser, Registered
<1> QED
  BY <1>4, <1>5, <1>6, <1>7, <1>8

\* Cancelling one job disturbs only what mentions job and isCancelled.
LEMMA CancelJobKeepsInv ==
  ASSUME Inv, TypeOK', NEW a \in Attempts, CancelJob(a), job[a] # "none",
         UNCHANGED <<attempts, key, body, cancelling, socket, attached, batch, toClose>>,
         \A t \in Cancellers : \/ toCancel'[t] = toCancel[t]
                               \/ toCancel'[t] = toCancel[t] \ {a}
  PROVE  Inv'
<1> USE DEF Inv, TypeOK
<1>1. /\ isCancelled' = [isCancelled EXCEPT ![a] = @ \/ job[a] \in {"lazy", "running"}]
      /\ job' = [job EXCEPT ![a] = IF job[a] = "lazy" THEN "ended" ELSE job[a]]
  BY DEF CancelJob, JobAfterCancel
<1>2. /\ ~Live(a)'
      /\ \A b \in Attempts : Live(b)' => Live(b)
  BY <1>1 DEF Live
<1>3. \A b \in Attempts : /\ job'[b] = "none" <=> job[b] = "none"
                          /\ job'[b] = "done" <=> job[b] = "done"
                          /\ job'[b] = "running" <=> job[b] = "running"
                          /\ job'[b] = "lazy" => job[b] = "lazy"
                          /\ job'[b] = "none" => (isCancelled'[b] <=> isCancelled[b])
  BY <1>1
<1>4. LiveIsRegistered' /\ BatchIsMarked'
  BY <1>2 DEF LiveIsRegistered, Registered, BatchIsMarked
<1>5. UnclaimedIsFresh' /\ FiledUnderItsKey'
  BY <1>3 DEF UnclaimedIsFresh, FiledUnderItsKey
<1>6. BodyFollowsJob' /\ OpenSocketHasCloser' /\ MarkedSocketIsBeingClosed'
  BY <1>3 DEF BodyFollowsJob, OpenSocketHasCloser, MarkedSocketIsBeingClosed
<1>7. KeyHasReleaser'
  BY <1>3 DEF KeyHasReleaser, Registered
<1> QED
  BY <1>4, <1>5, <1>6, <1>7

LEMMA MarkKeepsInv ==
  ASSUME Inv, TypeOK', NEW t \in Cancellers, CancelAllMark(t)
  PROVE  Inv'
<1> USE DEF Inv, TypeOK, claimVars, jobVars
<1> DEFINE owners == {a \in Attempts : Registered(a)}
<1>1. /\ UNCHANGED <<attempts, key, job, isCancelled, body, socket>>
      /\ batch' = [batch EXCEPT ![t] = owners]
      /\ toCancel' = [toCancel EXCEPT ![t] = owners]
      /\ toClose' = [toClose EXCEPT ![t] = {a \in owners : attached[a]}]
      /\ \A a \in Attempts : /\ cancelling'[a] <=> cancelling[a] \/ a \in owners
                             /\ attached'[a] <=> attached[a] /\ a \notin owners
      /\ batch[t] = {}
  BY DEF CancelAllMark, Idle
<1>2. toClose[t] = {}
  BY <1>1 DEF BatchIsMarked
<1>3. \A a \in Attempts : Live(a)' <=> Live(a)
  BY <1>1 DEF Live
<1>4. \A a \in owners : job[a] # "none"
  BY RegistryAssumption DEF Registered, UnclaimedIsFresh
<1>5. LiveIsRegistered'
  BY <1>1, <1>3 DEF LiveIsRegistered, Registered
<1>6. \A a \in Attempts, u \in Cancellers : a \in toClose[u] => a \in toClose'[u]
  BY <1>1, <1>2
<1>7. OpenSocketHasCloser' /\ MarkedSocketIsBeingClosed'
  <2> SUFFICES ASSUME NEW a \in Attempts, socket'[a] = "open"
               PROVE  /\ \/ body'[a] = "using"
                         \/ attached'[a] /\ job'[a] # "done"
                         \/ \E u \in Cancellers : a \in toClose'[u]
                      /\ cancelling'[a] => \E u \in Cancellers : a \in toClose'[u]
    BY DEF OpenSocketHasCloser, MarkedSocketIsBeingClosed
  <2>1. CASE cancelling[a]
    BY <1>1, <1>6, <2>1 DEF MarkedSocketIsBeingClosed
  <2>2. CASE ~cancelling[a] /\ a \in owners
    BY <1>1, <2>2 DEF BodyFollowsJob
  <2>3. CASE ~cancelling[a] /\ a \notin owners
    BY <1>1, <1>6, <2>3 DEF OpenSocketHasCloser
  <2> QED
    BY <2>1, <2>2, <2>3
<1>8. UnclaimedIsFresh' /\ FiledUnderItsKey'
  BY <1>1, <1>4 DEF UnclaimedIsFresh, FiledUnderItsKey
<1>9. BatchIsMarked'
  BY <1>1, <1>3 DEF BatchIsMarked
<1>10. BodyFollowsJob'
  BY <1>1 DEF BodyFollowsJob
<1>11. KeyHasReleaser'
  BY <1>1 DEF KeyHasReleaser, Registered
<1> QED
  BY <1>5, <1>7, <1>8, <1>9, <1>10, <1>11

LEMMA CloseTakenKeepsInv ==
  ASSUME Inv, TypeOK', NEW t \in Cancellers, NEW a \in Attempts, CloseTaken(t, a)
  PROVE  Inv'
<1> USE DEF Inv, TypeOK, claimVars, jobVars
<1>1. /\ UNCHANGED <<attempts, key, job, isCancelled, body, cancelling, attached,
                     batch, toCancel>>
      /\ toClose' = [toClose EXCEPT ![t] = toClose[t] \ {a}]
      /\ socket' = [socket EXCEPT ![a] = "closed"]
      /\ a \in toClose[t]
  BY DEF CloseTaken
<1>2. body[a] # "connecting"
  BY <1>1 DEF BodyFollowsJob
<1>3. /\ LiveIsRegistered' /\ UnclaimedIsFresh' /\ FiledUnderItsKey'
      /\ BatchIsMarked' /\ KeyHasReleaser'
  BY <1>1 DEF LiveIsRegistered, Live, Registered, UnclaimedIsFresh, FiledUnderItsKey,
     BatchIsMarked, KeyHasReleaser
<1>4. OpenSocketHasCloser' /\ MarkedSocketIsBeingClosed'
  BY <1>1 DEF OpenSocketHasCloser, MarkedSocketIsBeingClosed
<1>5. BodyFollowsJob'
  BY <1>1, <1>2 DEF BodyFollowsJob
<1> QED
  BY <1>3, <1>4, <1>5

LEMMA RemoveKeepsInv ==
  ASSUME Inv, TypeOK', NEW t \in Cancellers, CancelAllRemove(t)
  PROVE  Inv'
<1> USE RegistryAssumption DEF Inv, TypeOK, jobVars, sockVars
<1>1. /\ UNCHANGED <<key, job, isCancelled, body, cancelling, socket, attached, toClose>>
      /\ attempts' = [k \in Keys |-> IF attempts[k] \in batch[t] THEN NoAttempt
                                                                 ELSE attempts[k]]
      /\ batch' = [batch EXCEPT ![t] = {}]
      /\ toCancel' = [toCancel EXCEPT ![t] = {}]
      /\ toCancel[t] = {} /\ toClose[t] = {}
  BY DEF CancelAllRemove, OwnersCancelled, RemovedBy
<1>2. \A a \in batch[t] : ~Live(a)
  BY <1>1 DEF BatchIsMarked
<1>3. LiveIsRegistered'
  BY <1>1, <1>2 DEF LiveIsRegistered, Live, Registered
<1>4. UnclaimedIsFresh' /\ FiledUnderItsKey'
  BY <1>1 DEF UnclaimedIsFresh, FiledUnderItsKey
<1>5. BatchIsMarked'
  BY <1>1 DEF BatchIsMarked, Live
<1>6. OpenSocketHasCloser' /\ MarkedSocketIsBeingClosed' /\ BodyFollowsJob'
  BY <1>1 DEF OpenSocketHasCloser, MarkedSocketIsBeingClosed, BodyFollowsJob
<1>7. KeyHasReleaser'
  <2>1. ASSUME NEW a \in Attempts, Registered(a)'
        PROVE  Registered(a) /\ a \notin batch[t]
    BY <1>1, <2>1 DEF Registered
  <2> QED
    BY <1>1, <2>1 DEF KeyHasReleaser
<1> QED
  BY <1>3, <1>4, <1>5, <1>6, <1>7

LEMMA StepKeepsInv == Inv /\ [Next]_vars => Inv'
<1> SUFFICES ASSUME Inv, [Next]_vars PROVE Inv'
  OBVIOUS
<1>0. TypeOK'
  BY StepKeepsTypes DEF Inv
<1>1. ASSUME NEW k \in Keys, NEW a \in Attempts,
             Claim(k, a) \/ ClaimInCancelledScope(k, a)
      PROVE  Inv'
  BY <1>0, <1>1, ClaimKeepsInv, ClaimInCancelledScopeKeepsInv
<1>2. ASSUME NEW a \in Attempts, BodyStep(a) PROVE Inv'
  BY <1>0, <1>2, BodyKeepsInv, CompleteKeepsInv DEF BodyStep
<1>3. ASSUME NEW a \in Attempts, CancelChild(a) PROVE Inv'
  BY <1>0, <1>3, CancelJobKeepsInv
     DEF CancelChild, Live, claimVars, sockVars, cancelVars
<1>4. CASE CancelScope
  BY <1>0, <1>4 DEF CancelScope, Inv, LiveIsRegistered, Live, Registered,
     OpenSocketHasCloser, MarkedSocketIsBeingClosed, UnclaimedIsFresh,
     FiledUnderItsKey, BatchIsMarked, BodyFollowsJob, KeyHasReleaser,
     claimVars, jobVars, sockVars, cancelVars
<1>5. ASSUME NEW t \in Cancellers, CancelAllMark(t) PROVE Inv'
  BY <1>0, <1>5, MarkKeepsInv
<1>6. ASSUME NEW t \in Cancellers, NEW a \in Attempts, CancelOwner(t, a) PROVE Inv'
  <2>1. job[a] # "none"
    BY <1>6 DEF CancelOwner, Inv, BatchIsMarked, UnclaimedIsFresh
  <2>2. \A u \in Cancellers : \/ toCancel'[u] = toCancel[u]
                              \/ toCancel'[u] = toCancel[u] \ {a}
    BY <1>6 DEF CancelOwner, Inv, TypeOK
  <2> QED
    BY <1>0, <1>6, <2>1, <2>2, CancelJobKeepsInv DEF CancelOwner, claimVars, sockVars
<1>7. ASSUME NEW t \in Cancellers, NEW a \in Attempts, CloseTaken(t, a) PROVE Inv'
  BY <1>0, <1>7, CloseTakenKeepsInv
<1>8. ASSUME NEW t \in Cancellers, CancelAllRemove(t) PROVE Inv'
  BY <1>0, <1>8, RemoveKeepsInv
<1>9. CASE UNCHANGED vars
  BY <1>0, <1>9 DEF vars, Inv, LiveIsRegistered, Live, Registered,
     OpenSocketHasCloser, MarkedSocketIsBeingClosed, UnclaimedIsFresh,
     FiledUnderItsKey, BatchIsMarked, BodyFollowsJob, KeyHasReleaser,
     claimVars, jobVars, sockVars, cancelVars
<1> QED
  BY <1>1, <1>2, <1>3, <1>4, <1>5, <1>6, <1>7, <1>8, <1>9 DEF Next, CancelStep

\* The inductive invariant of the registry.
THEOREM Invariance == Spec => []Inv
<1>1. Init => Inv
  BY TypeInit, RegistryAssumption
     DEF Init, Inv, LiveIsRegistered, Live, OpenSocketHasCloser,
         MarkedSocketIsBeingClosed, UnclaimedIsFresh, FiledUnderItsKey,
         BatchIsMarked, BodyFollowsJob, KeyHasReleaser, Registered
<1> QED
  BY <1>1, StepKeepsInv, PTL DEF Spec

\* Every variable keeps its type.
THEOREM TypeCorrect == Spec => []TypeOK
  BY Invariance, PTL DEF Inv

\* A live attempt is in the map, whatever completes late or is in the third
\* phase of a cancelAll (InFlightAttemptRegistry.kt:45-77).
THEOREM LiveAttemptsAreReachable == Spec => []LiveIsRegistered
  BY Invariance, PTL DEF Inv

\* A live attempt is the one the map has for its key, so there is only one
\* (InFlightAttemptRegistry.kt:21-55).
THEOREM KeyHasOneLiveAttempt == Spec => []OneLiveAttemptPerKey
<1>1. Inv => OneLiveAttemptPerKey
  BY DEF Inv, LiveIsRegistered, OneLiveAttemptPerKey, Registered
<1> QED
  BY <1>1, Invariance, PTL

\* No socket is left open with nobody to close it
\* (InFlightAttemptRegistry.kt:35-77).
THEOREM NoSocketIsForgotten == Spec => []OpenSocketHasCloser
  BY Invariance, PTL DEF Inv

\* An open socket whose attempt was marked by a cancelAll is about to be closed
\* by a cancelAll (InFlightAttemptRegistry.kt:37, 57-67).
THEOREM MarkedSocketsAreClosed == Spec => []MarkedSocketIsBeingClosed
  BY Invariance, PTL DEF Inv

\* No key is kept with nobody to give it back: what complete leaves in the map,
\* a cancelAll removes (InFlightAttemptRegistry.kt:45-77).
THEOREM NoKeyIsForgotten == Spec => []KeyHasReleaser
  BY Invariance, PTL DEF Inv

\* When a cancelAll returns, what it marked is out of the map and cannot work.
THEOREM CancelAllLeavesNothing == Spec => CancelAllIsComplete
<1>1. Inv /\ [Next]_vars =>
        [\A t \in Cancellers : ~Idle(t) /\ (batch'[t] = {}) =>
            \A a \in batch[t] : ~Live(a) /\ attempts'[key[a]] # a]_vars
  <2> SUFFICES ASSUME Inv, Next, NEW t \in Cancellers, batch[t] # {}, batch'[t] = {},
                      NEW a \in batch[t]
               PROVE  ~Live(a) /\ attempts'[key[a]] # a
    BY DEF Idle, vars
  <2>1. CancelAllRemove(t)
    <3>1. CASE \E u \in Cancellers : CancelAllMark(u)
      BY <3>1 DEF CancelAllMark, Idle, Inv, TypeOK
    <3>2. CASE \E u \in Cancellers : CancelAllRemove(u)
      <4>1. PICK u \in Cancellers : CancelAllRemove(u)
        BY <3>2
      <4>2. u = t
        BY <4>1 DEF CancelAllRemove, Inv, TypeOK
      <4> QED
        BY <4>1, <4>2
    <3>3. CASE UNCHANGED batch
      BY <3>3
    <3>4. CASE \E u \in Cancellers, b \in Attempts : CancelOwner(u, b) \/ CloseTaken(u, b)
      BY <3>4, <3>3 DEF CancelOwner, CloseTaken
    <3>5. CASE \/ \E k \in Keys, b \in Attempts : Claim(k, b) \/ ClaimInCancelledScope(k, b)
               \/ \E b \in Attempts : BodyStep(b) \/ CancelChild(b)
               \/ CancelScope
      BY <3>5, <3>3 DEF Claim, ClaimInCancelledScope, BodyStep, Start, AttachSocket,
         UseSocket, FinishWork, LeaveEarly, Complete, CancelChild, CancelScope, cancelVars
    <3> QED
      BY <3>1, <3>2, <3>4, <3>5 DEF Next, CancelStep
  <2>2. a \in Attempts /\ key[a] \in Keys /\ a # NoAttempt
    BY RegistryAssumption DEF Inv, TypeOK, UnclaimedIsFresh
  <2>3. ~Live(a)
    BY <2>1 DEF CancelAllRemove, OwnersCancelled, Inv, BatchIsMarked
  <2>4. attempts'[key[a]] # a
    BY <2>1, <2>2 DEF CancelAllRemove, RemovedBy
  <2> QED
    BY <2>3, <2>4
<1> QED
  BY <1>1, Invariance, PTL DEF Spec, CancelAllIsComplete

-----------------------------------------------------------------------------
\* The registry implements KeyLease.

\* The step changes nothing that KeyLease sees.
Quiet == \A a \in Attempts : /\ key'[a] = key[a]
                             /\ Live(a)' <=> Live(a)
                             /\ job'[a] = "none" <=> job[a] = "none"

LEMMA QuietStutters ==
  ASSUME Quiet
  PROVE  UNCHANGED Lease!leaseVars
  BY DEF Quiet, Holders, Made, Lease!leaseVars

\* A live attempt is alone with its key.
LEMMA HolderIsAlone ==
  ASSUME Inv, NEW a \in Attempts, Live(a)
  PROVE  key[a] \in Keys /\ Holders[key[a]] = {a}
  BY DEF Inv, LiveIsRegistered, Registered, Holders

\* The step may take life from a and changes nothing else that KeyLease sees.
LEMMA EndReturnsTheKey ==
  ASSUME Inv, NEW a \in Attempts,
         key' = key, Live(a)' => Live(a), job'[a] = "none" <=> job[a] = "none",
         \A b \in Attempts \ {a} : /\ Live(b)' <=> Live(b)
                                   /\ job'[b] = "none" <=> job[b] = "none"
  PROVE  Lease!LeaseNext \/ UNCHANGED Lease!leaseVars
<1>1. CASE Live(a)' <=> Live(a)
  <2>1. Quiet
    BY <1>1 DEF Quiet
  <2> QED
    BY <2>1, QuietStutters
<1>2. CASE Live(a) /\ ~Live(a)'
  <2>1. key[a] \in Keys /\ Holders[key[a]] = {a}
    BY <1>2, HolderIsAlone
  <2>2. Made' = Made
    BY DEF Made
  <2>3. Holders' = [Holders EXCEPT ![key[a]] = {}]
    <3>1. ASSUME NEW k \in Keys
          PROVE  Holders'[k] = IF k = key[a] THEN {} ELSE Holders[k]
      <4>1. \A b \in Attempts : (key'[b] = k /\ Live(b)')
                                  <=> (key[b] = k /\ Live(b) /\ b # a)
        BY <1>2
      <4>2. CASE k = key[a]
        <5>1. \A b \in Attempts : key[b] = k /\ Live(b) => b = a
          BY <2>1, <4>2 DEF Holders
        <5> QED
          BY <4>1, <4>2, <5>1 DEF Holders
      <4>3. CASE k # key[a]
        BY <4>1, <4>3 DEF Holders
      <4> QED
        BY <4>2, <4>3
    <3> QED
      BY <2>1, <3>1 DEF Holders
  <2>4. Lease!Return(key[a])
    BY <2>1, <2>2, <2>3 DEF Lease!Return
  <2> QED
    BY <2>1, <2>4 DEF Lease!LeaseNext
<1> QED
  BY <1>1, <1>2

\* A claim lends the key; in a cancelled scope it is refused.
LEMMA ClaimLends ==
  ASSUME Inv, NEW k \in Keys, NEW a \in Attempts, Claim(k, a)
  PROVE  Lease!Lend(k, a)
<1> USE RegistryAssumption DEF claimVars, jobVars
<1>1. /\ job[a] = "none" /\ attempts[k] = NoAttempt /\ ~isCancelled[a]
      /\ key' = [key EXCEPT ![a] = k]
      /\ job' = [job EXCEPT ![a] = "lazy"]
      /\ isCancelled' = isCancelled
      /\ key[a] = NoKey
  BY DEF Claim, MayClaim, Inv, UnclaimedIsFresh
<1>2. \A b \in Attempts : Live(b) => key[b] # k
  BY <1>1 DEF Inv, LiveIsRegistered, Registered
<1>3. /\ Live(a)' /\ ~Live(a) /\ key'[a] = k
      /\ \A b \in Attempts \ {a} : (Live(b)' <=> Live(b)) /\ key'[b] = key[b]
  BY <1>1 DEF Live, Inv, TypeOK
<1>4. Holders[k] = {}
  BY <1>2 DEF Holders
<1>5. Holders' = [Holders EXCEPT ![k] = {a}]
  <2>1. Holders'[k] = {a}
    BY <1>2, <1>3 DEF Holders
  <2>2. \A l \in Keys \ {k} : Holders'[l] = Holders[l]
    BY <1>3 DEF Holders
  <2> QED
    BY <2>1, <2>2 DEF Holders
<1>6. a \notin Made /\ Made' = Made \cup {a}
  BY <1>1 DEF Made, Inv, TypeOK
<1> QED
  BY <1>4, <1>5, <1>6 DEF Lease!Lend

LEMMA CancelledScopeRefuses ==
  ASSUME Inv, NEW k \in Keys, NEW a \in Attempts, ClaimInCancelledScope(k, a)
  PROVE  Lease!Refuse(a)
<1>1. /\ job[a] = "none"
      /\ key' = [key EXCEPT ![a] = k]
      /\ job' = [job EXCEPT ![a] = "done"]
      /\ isCancelled' = [isCancelled EXCEPT ![a] = TRUE]
  BY DEF ClaimInCancelledScope
<1>2. /\ ~Live(a)' /\ ~Live(a)
      /\ \A b \in Attempts \ {a} : (Live(b)' <=> Live(b)) /\ key'[b] = key[b]
  BY <1>1 DEF Live, Inv, TypeOK
<1>3. Holders' = Holders
  BY <1>2 DEF Holders
<1>4. a \notin Made /\ Made' = Made \cup {a}
  BY <1>1 DEF Made, Inv, TypeOK
<1> QED
  BY <1>3, <1>4 DEF Lease!Refuse

LEMMA StepsAreLeaseSteps ==
  ASSUME Inv, [Next]_vars
  PROVE  Lease!LeaseNext \/ UNCHANGED Lease!leaseVars
<1> USE DEF claimVars, jobVars
<1>1. ASSUME NEW k \in Keys, NEW a \in Attempts,
             Claim(k, a) \/ ClaimInCancelledScope(k, a)
      PROVE  Lease!LeaseNext
  BY <1>1, ClaimLends, CancelledScopeRefuses DEF Lease!LeaseNext
<1>2. ASSUME NEW a \in Attempts, BodyStep(a)
      PROVE  Lease!LeaseNext \/ UNCHANGED Lease!leaseVars
  <2>1. /\ key' = key
        /\ Live(a)' => Live(a)
        /\ job'[a] = "none" <=> job[a] = "none"
        /\ \A b \in Attempts \ {a} : (Live(b)' <=> Live(b)) /\ job'[b] = job[b]
    BY <1>2 DEF BodyStep, Start, AttachSocket, UseSocket, FinishWork, LeaveEarly,
                Complete, Live, Inv, TypeOK
  <2> QED
    BY <2>1, EndReturnsTheKey
<1>3. ASSUME NEW a \in Attempts, CancelJob(a), key' = key
      PROVE  Lease!LeaseNext \/ UNCHANGED Lease!leaseVars
  <2>1. /\ Live(a)' => Live(a)
        /\ job'[a] = "none" <=> job[a] = "none"
        /\ \A b \in Attempts \ {a} : (Live(b)' <=> Live(b)) /\ job'[b] = job[b]
    BY <1>3 DEF CancelJob, JobAfterCancel, Live, Inv, TypeOK
  <2> QED
    BY <1>3, <2>1, EndReturnsTheKey
<1>4. CASE \/ \E a \in Attempts : CancelChild(a)
           \/ \E t \in Cancellers, a \in Attempts : CancelOwner(t, a)
  <2>1. \E a \in Attempts : CancelJob(a) /\ key' = key
    BY <1>4 DEF CancelChild, CancelOwner
  <2> QED
    BY <1>3, <2>1
<1>5. CASE \/ CancelScope
           \/ \E t \in Cancellers : CancelAllMark(t) \/ CancelAllRemove(t)
           \/ \E t \in Cancellers, a \in Attempts : CloseTaken(t, a)
           \/ UNCHANGED vars
  <2>1. UNCHANGED <<key, job, isCancelled>>
    BY <1>5 DEF CancelScope, CancelAllMark, CancelAllRemove, CloseTaken, vars
  <2>2. Quiet
    BY <2>1 DEF Quiet, Live
  <2> QED
    BY <2>2, QuietStutters
<1> QED
  BY <1>1, <1>2, <1>4, <1>5 DEF Next, CancelStep

\* Whatever blocks of the registry interleave, each of them lends a key that
\* nobody holds, ends one attempt's hold of its key, or changes nothing
\* (InFlightAttemptRegistry.kt:21-77).
THEOREM RegistryImplementsLease == Spec => ImplementsLease
<1>1. Init => Lease!LeaseInit
  BY DEF Init, Lease!LeaseInit, Holders, Made, Live
<1>2. Inv /\ [Next]_vars => [Lease!LeaseNext]_(Lease!leaseVars)
  BY StepsAreLeaseSteps
<1> QED
  BY <1>1, <1>2, Invariance, PTL DEF Spec, ImplementsLease, Lease!LeaseSpec
-----------------------------------------------------------------------------
\* Progress.  ENABLED is an unknown predicate to the prover, so NeverStuck,
\* which TLC checks, is a hypothesis here.

\* How many steps an attempt takes at most until it is complete.
Left(a) ==
    CASE job[a] = "lazy" -> 5
      [] job[a] = "running" /\ body[a] = "connecting" -> 4
      [] job[a] = "running" /\ body[a] = "attached" -> 3
      [] job[a] = "running" /\ body[a] \in {"using", "left"} -> 2
      [] job[a] = "ended" -> 1
      [] OTHER -> 0

Claimed(a) == job[a] # "none"

LEMMA LeftValues ==
  ASSUME TypeOK, NEW a \in Attempts
  PROVE  /\ Left(a) \in 0..5
         /\ Left(a) = 0 <=> job[a] \in {"none", "done"}
  BY DEF TypeOK, Jobs, Bodies, Left

\* An attempt does not go back, whoever takes a step.
LEMMA AttemptsGoOn ==
  ASSUME TypeOK, TypeOK', NEW a \in Attempts, Claimed(a), [Next]_vars
  PROVE  /\ Claimed(a)'
         /\ Left(a)' <= Left(a)
<1> USE DEF claimVars, jobVars, sockVars, cancelVars
<1>1. CASE job'[a] = job[a] /\ body'[a] = body[a]
  BY <1>1, LeftValues DEF Left, Claimed
<1>2. CASE \E k \in Keys, b \in Attempts : Claim(k, b) \/ ClaimInCancelledScope(k, b)
  BY <1>1, <1>2 DEF Claim, ClaimInCancelledScope, TypeOK, Claimed
<1>3. CASE BodyStep(a)
  BY <1>3 DEF BodyStep, Start, AttachSocket, UseSocket, FinishWork, LeaveEarly,
              Complete, TypeOK, Jobs, Bodies, Left, Claimed
<1>4. CASE \E b \in Attempts \ {a} : BodyStep(b)
  BY <1>1, <1>4 DEF BodyStep, Start, AttachSocket, UseSocket, FinishWork, LeaveEarly,
              Complete, TypeOK
<1>5. CASE \/ \E b \in Attempts : CancelChild(b)
           \/ \E t \in Cancellers, b \in Attempts : CancelOwner(t, b)
  <2>1. PICK b \in Attempts : CancelJob(b) /\ body' = body
    BY <1>5 DEF CancelChild, CancelOwner
  <2>2. CASE b # a
    BY <1>1, <2>1, <2>2 DEF CancelJob, TypeOK
  <2>3. CASE b = a
    BY <2>1, <2>3 DEF CancelJob, JobAfterCancel, TypeOK, Jobs, Bodies, Left, Claimed
  <2> QED
    BY <2>2, <2>3
<1>6. CASE \/ CancelScope
           \/ \E t \in Cancellers : CancelAllMark(t) \/ CancelAllRemove(t)
           \/ \E t \in Cancellers, b \in Attempts : CloseTaken(t, b)
           \/ UNCHANGED vars
  BY <1>1, <1>6 DEF CancelScope, CancelAllMark, CancelAllRemove, CloseTaken, vars
<1> QED
  BY <1>2, <1>3, <1>4, <1>5, <1>6 DEF Next, CancelStep

\* Its own step takes it on.
LEMMA BodyGoesOn ==
  ASSUME TypeOK, NEW a \in Attempts, BodyStep(a)
  PROVE  Left(a)' < Left(a)
<1> USE DEF TypeOK, Jobs, Bodies, Left
<1>1. CASE Start(a)
  BY <1>1 DEF Start, jobVars
<1>2. CASE AttachSocket(a)
  BY <1>2 DEF AttachSocket
<1>3. CASE UseSocket(a)
  BY <1>3 DEF UseSocket
<1>4. CASE FinishWork(a)
  BY <1>4 DEF FinishWork
<1>5. CASE LeaveEarly(a)
  BY <1>5 DEF LeaveEarly
<1>6. CASE Complete(a)
  BY <1>6 DEF Complete
<1> QED
  BY <1>1, <1>2, <1>3, <1>4, <1>5, <1>6 DEF BodyStep

\* What a fair execution has at every moment, for the attempt a.
Always(a) == []Inv /\ [][Next]_vars /\ BodyFairness(a) /\ []NeverStuck

LEMMA AlwaysFair ==
  ASSUME NEW a \in Attempts
  PROVE  FairSpec /\ []NeverStuck => []Always(a)
<1>1. Fairness => BodyFairness(a)
  BY DEF Fairness
<1>2. BodyFairness(a) => []BodyFairness(a)
  BY PTL DEF BodyFairness
<1> QED
  BY <1>1, <1>2, Invariance, PTL DEF FairSpec, Spec, Always

\* An attempt with n steps to go comes to have fewer.
Advances(a, n) == [](Claimed(a) /\ Left(a) = n => <>(Claimed(a) /\ Left(a) < n))

LEMMA AttemptsAdvance ==
  ASSUME NEW a \in Attempts, NEW n \in 1..5
  PROVE  []Always(a) => Advances(a, n)
<1> DEFINE At == Claimed(a) /\ Left(a) = n
           Later == Claimed(a) /\ Left(a) < n
<1>1. Inv /\ Inv' /\ At /\ [Next]_vars => At' \/ Later'
  <2> SUFFICES ASSUME Inv, Inv', At, [Next]_vars PROVE At' \/ Later'
    OBVIOUS
  <2>1. TypeOK /\ TypeOK'
    BY DEF Inv
  <2>2. Claimed(a)' /\ Left(a)' <= n
    BY <2>1, AttemptsGoOn
  <2>3. Left(a)' \in 0..5
    BY <2>1 DEF TypeOK, Jobs, Bodies, Left
  <2> QED
    BY <2>2, <2>3
<1>2. Inv /\ Inv' /\ At /\ <<Next /\ BodyStep(a)>>_vars => Later'
  <2> SUFFICES ASSUME Inv, Inv', At, Next, BodyStep(a) PROVE Later'
    OBVIOUS
  <2>1. TypeOK /\ TypeOK'
    BY DEF Inv
  <2> QED
    BY <2>1, AttemptsGoOn, BodyGoesOn
<1>3. Inv /\ NeverStuck /\ At => ENABLED <<BodyStep(a)>>_vars
  <2> SUFFICES ASSUME Inv, NeverStuck, At PROVE ENABLED <<BodyStep(a)>>_vars
    OBVIOUS
  <2>1. job[a] \notin {"none", "done"}
    BY LeftValues DEF Inv
  <2> QED
    BY <2>1 DEF NeverStuck
<1> QED
  BY <1>1, <1>2, <1>3, PTL DEF Advances, BodyFairness, Always

\* Every attempt that is claimed comes to its completion.
LEMMA AttemptsComplete ==
  ASSUME NEW a \in Attempts
  PROVE  []Always(a) => [](Claimed(a) => <>(job[a] = "done"))
<1>1. []Always(a) => /\ Advances(a, 1) /\ Advances(a, 2) /\ Advances(a, 3)
                     /\ Advances(a, 4) /\ Advances(a, 5)
  BY AttemptsAdvance
<1> DEFINE L(n) == Claimed(a) /\ Left(a) = n
           Below(n) == Claimed(a) /\ Left(a) < n
<1>2. Inv => /\ Below(1) => job[a] = "done"
             /\ Below(2) => L(1) \/ Below(1)
             /\ Below(3) => L(2) \/ Below(2)
             /\ Below(4) => L(3) \/ Below(3)
             /\ Below(5) => L(4) \/ Below(4)
             /\ Claimed(a) => L(5) \/ Below(5)
  <2>1. Inv => Left(a) \in 0..5 /\ (Left(a) = 0 <=> job[a] \in {"none", "done"})
    BY LeftValues DEF Inv
  <2> QED
    BY <2>1 DEF Claimed
<1> QED
  BY <1>1, <1>2, PTL DEF Advances, Always

\* What a cancelAll holds, it removes from the map before it returns, unless
\* somebody else has.
LEMMA HeldUntilRemoved ==
  ASSUME Inv, NEW a \in Attempts, NEW t \in Cancellers, a \in batch[t],
         Registered(a), [Next]_vars
  PROVE  (a \in batch[t])' \/ ~Registered(a)'
<1> USE DEF claimVars, jobVars, sockVars, cancelVars
<1>1. CASE \E u \in Cancellers : CancelAllMark(u)
  BY <1>1 DEF CancelAllMark, Idle, Inv, TypeOK
<1>2. CASE \E u \in Cancellers : CancelAllRemove(u)
  <2>1. PICK u \in Cancellers : CancelAllRemove(u)
    BY <1>2
  <2>2. CASE u = t
    <3>1. a # NoAttempt /\ key[a] \in Keys /\ attempts[key[a]] = a
      BY RegistryAssumption DEF Registered
    <3> QED
      BY <2>1, <2>2, <3>1 DEF CancelAllRemove, RemovedBy, Registered
  <2>3. CASE u # t
    BY <2>1, <2>3 DEF CancelAllRemove, Inv, TypeOK
  <2> QED
    BY <2>2, <2>3
<1>3. CASE UNCHANGED batch
  BY <1>3
<1>4. CASE \/ \E u \in Cancellers, b \in Attempts : CancelOwner(u, b) \/ CloseTaken(u, b)
           \/ \E k \in Keys, b \in Attempts : Claim(k, b) \/ ClaimInCancelledScope(k, b)
           \/ \E b \in Attempts : BodyStep(b) \/ CancelChild(b)
           \/ CancelScope
           \/ UNCHANGED vars
  BY <1>3, <1>4 DEF CancelOwner, CloseTaken, Claim, ClaimInCancelledScope, BodyStep,
     Start, AttachSocket, UseSocket, FinishWork, LeaveEarly, Complete, CancelChild,
     CancelScope, vars
<1> QED
  BY <1>1, <1>2, <1>4 DEF Next, CancelStep

\* A socket that a cancelAll has taken stays with it until it is closed.
LEMMA TakenUntilClosed ==
  ASSUME Inv, NEW a \in Attempts, NEW t \in Cancellers, a \in toClose[t], [Next]_vars
  PROVE  (a \in toClose[t])' \/ socket'[a] = "closed"
<1> USE DEF claimVars, jobVars, sockVars, cancelVars
<1>1. CASE \E u \in Cancellers : CancelAllMark(u)
  BY <1>1 DEF CancelAllMark, Idle, Inv, TypeOK, BatchIsMarked
<1>2. CASE \E u \in Cancellers, b \in Attempts : CloseTaken(u, b)
  <2>1. PICK u \in Cancellers, b \in Attempts : CloseTaken(u, b)
    BY <1>2
  <2>2. CASE u = t /\ b = a
    BY <2>1, <2>2 DEF CloseTaken, Inv, TypeOK
  <2>3. CASE ~(u = t /\ b = a)
    BY <2>1, <2>3 DEF CloseTaken, Inv, TypeOK
  <2> QED
    BY <2>2, <2>3
<1>3. CASE UNCHANGED toClose
  BY <1>3
<1>4. CASE \/ \E u \in Cancellers, b \in Attempts : CancelOwner(u, b)
           \/ \E u \in Cancellers : CancelAllRemove(u)
           \/ \E k \in Keys, b \in Attempts : Claim(k, b) \/ ClaimInCancelledScope(k, b)
           \/ \E b \in Attempts : BodyStep(b) \/ CancelChild(b)
           \/ CancelScope
           \/ UNCHANGED vars
  BY <1>3, <1>4 DEF CancelOwner, CancelAllRemove, Claim, ClaimInCancelledScope, BodyStep,
     Start, AttachSocket, UseSocket, FinishWork, LeaveEarly, Complete, CancelChild,
     CancelScope, vars
<1> QED
  BY <1>1, <1>2, <1>4 DEF Next, CancelStep

-----------------------------------------------------------------------------
\* What a cancelAll has yet to cancel and to close.
ToDo(t) == Cardinality(toCancel[t]) + Cardinality(toClose[t])

\* A step makes at most one attempt.
LEMMA OneIsMade ==
  ASSUME TypeOK, [Next]_vars
  PROVE  \E b : Made' \subseteq Made \cup {b}
<1> USE DEF Made, claimVars, jobVars, sockVars, cancelVars
<1>1. CASE \E k \in Keys, b \in Attempts : Claim(k, b) \/ ClaimInCancelledScope(k, b)
  BY <1>1 DEF Claim, ClaimInCancelledScope, TypeOK
<1>2. ASSUME \A a \in Attempts : job[a] = "none" => job'[a] = "none"
      PROVE  Made' \subseteq Made \cup {NoAttempt}
  BY <1>2
<1>3. CASE \E b \in Attempts : BodyStep(b)
  BY <1>2, <1>3 DEF BodyStep, Start, AttachSocket, UseSocket, FinishWork, LeaveEarly,
     Complete, TypeOK
<1>4. CASE \/ \E b \in Attempts : CancelChild(b)
           \/ \E t \in Cancellers, b \in Attempts : CancelOwner(t, b)
  <2>1. PICK b \in Attempts : CancelJob(b)
    BY <1>4 DEF CancelChild, CancelOwner
  <2> QED
    BY <1>2, <2>1 DEF CancelJob, JobAfterCancel, TypeOK
<1>5. CASE \/ CancelScope
           \/ \E t \in Cancellers : CancelAllMark(t) \/ CancelAllRemove(t)
           \/ \E t \in Cancellers, b \in Attempts : CloseTaken(t, b)
           \/ UNCHANGED vars
  BY <1>2, <1>5 DEF CancelScope, CancelAllMark, CancelAllRemove, CloseTaken, vars
<1> QED
  BY <1>1, <1>3, <1>4, <1>5 DEF Next, CancelStep

\* So only finitely many exist at any moment.
LEMMA FinitelyManyMade == Spec => []IsFiniteSet(Made)
<1>1. Init => IsFiniteSet(Made)
  <2> SUFFICES ASSUME Init PROVE IsFiniteSet(Made)
    OBVIOUS
  <2>1. Made = {}
    BY DEF Init, Made
  <2> QED
    BY <2>1, FS_EmptySet
<1>2. Inv /\ IsFiniteSet(Made) /\ [Next]_vars => IsFiniteSet(Made)'
  <2> SUFFICES ASSUME Inv, IsFiniteSet(Made), [Next]_vars
               PROVE  IsFiniteSet(Made')
    OBVIOUS
  <2>1. PICK b : Made' \subseteq Made \cup {b}
    BY OneIsMade DEF Inv
  <2>2. IsFiniteSet(Made \cup {b})
    BY FS_AddElement
  <2> QED
    BY <2>1, <2>2, FS_Subset
<1> QED
  BY <1>1, <1>2, Invariance, PTL DEF Spec

\* What a cancelAll has to do is finite.
LEMMA ToDoIsFinite ==
  ASSUME Inv, IsFiniteSet(Made), NEW t \in Cancellers
  PROVE  /\ IsFiniteSet(toCancel[t]) /\ Cardinality(toCancel[t]) \in Nat
         /\ IsFiniteSet(toClose[t]) /\ Cardinality(toClose[t]) \in Nat
<1>1. batch[t] \subseteq Made
  BY DEF Inv, TypeOK, UnclaimedIsFresh, Made
<1>2. toCancel[t] \subseteq Made /\ toClose[t] \subseteq Made
  BY <1>1 DEF Inv, BatchIsMarked
<1>3. IsFiniteSet(toCancel[t]) /\ IsFiniteSet(toClose[t])
  BY <1>2, FS_Subset
<1> QED
  BY <1>3, FS_CardinalityType

LEMMA RemovingShrinks ==
  ASSUME NEW S, IsFiniteSet(S), NEW x \in S
  PROVE  Cardinality(S \ {x}) \in 0..(Cardinality(S) - 1)
<1>1. IsFiniteSet(S \ {x}) /\ Cardinality(S \ {x}) = Cardinality(S) - 1
  BY FS_RemoveElement
<1>2. Cardinality(S) \in Nat /\ Cardinality(S \ {x}) \in Nat
  BY <1>1, FS_CardinalityType
<1> QED
  BY <1>1, <1>2

\* A step of the thread that runs a cancelAll leaves it less to do, or is its
\* last.
LEMMA CancelStepsGoOn ==
  ASSUME Inv, IsFiniteSet(Made), NEW t \in Cancellers, CancelStep(t)
  PROVE  Idle(t)' \/ ToDo(t)' \in 0..(ToDo(t) - 1)
<1> USE ToDoIsFinite DEF ToDo
<1>1. ASSUME NEW a \in Attempts, CancelOwner(t, a)
      PROVE  ToDo(t)' \in 0..(ToDo(t) - 1)
  <2>1. a \in toCancel[t] /\ toCancel'[t] = toCancel[t] \ {a} /\ toClose' = toClose
    BY <1>1 DEF CancelOwner, Inv, TypeOK
  <2>2. Cardinality(toCancel'[t]) \in 0..(Cardinality(toCancel[t]) - 1)
    BY <2>1, RemovingShrinks
  <2> QED
    BY <2>1, <2>2
<1>2. ASSUME NEW a \in Attempts, CloseTaken(t, a)
      PROVE  ToDo(t)' \in 0..(ToDo(t) - 1)
  <2>1. a \in toClose[t] /\ toClose'[t] = toClose[t] \ {a} /\ toCancel' = toCancel
    BY <1>2 DEF CloseTaken, Inv, TypeOK
  <2>2. Cardinality(toClose'[t]) \in 0..(Cardinality(toClose[t]) - 1)
    BY <2>1, RemovingShrinks
  <2> QED
    BY <2>1, <2>2
<1>3. CASE CancelAllRemove(t)
  BY <1>3 DEF CancelAllRemove, Idle, Inv, TypeOK
<1> QED
  BY <1>1, <1>2, <1>3 DEF CancelStep

\* Nobody else touches what a cancelAll has to do.
LEMMA CancelAllIsItsOwn ==
  ASSUME Inv, NEW t \in Cancellers, ~Idle(t), [Next]_vars, ~CancelStep(t)
  PROVE  /\ batch'[t] = batch[t]
         /\ toCancel'[t] = toCancel[t]
         /\ toClose'[t] = toClose[t]
<1> USE DEF claimVars, jobVars, sockVars, cancelVars
<1>1. CASE \E u \in Cancellers : CancelAllMark(u)
  BY <1>1 DEF CancelAllMark, Idle, Inv, TypeOK
<1>2. ASSUME NEW u \in Cancellers, CancelStep(u)
      PROVE  /\ batch'[t] = batch[t]
             /\ toCancel'[t] = toCancel[t]
             /\ toClose'[t] = toClose[t]
  <2>1. u # t
    BY <1>2
  <2> QED
    BY <1>2, <2>1 DEF CancelStep, CancelOwner, CloseTaken, CancelAllRemove, Inv, TypeOK
<1>3. CASE \/ \E k \in Keys, b \in Attempts : Claim(k, b) \/ ClaimInCancelledScope(k, b)
           \/ \E b \in Attempts : BodyStep(b) \/ CancelChild(b)
           \/ CancelScope
           \/ UNCHANGED vars
  BY <1>3 DEF Claim, ClaimInCancelledScope, BodyStep, Start, AttachSocket, UseSocket,
     FinishWork, LeaveEarly, Complete, CancelChild, CancelScope, vars
<1> QED
  BY <1>1, <1>2, <1>3 DEF Next

\* A cancelAll that has n things to do comes to have fewer, or is over.
CountsDown(t, n) == [](ToDo(t) = n => <>(Idle(t) \/ ToDo(t) \in 0..(n - 1)))

\* Lamport's rule LATTICE for the number ToDo(t): what always comes to be
\* smaller, or the end, comes to the end.  It holds of every behaviour, because
\* the natural numbers are well-founded, but takes an induction over a temporal
\* formula, which the prover does not have.
LatticeRule(t) ==
    (\A n \in Nat : CountsDown(t, n)) => [](ToDo(t) \in Nat => <>Idle(t))

LatticeRules == \A t \in Cancellers : LatticeRule(t)

\* What a fair execution has at every moment, for the thread t.
Cancelling(t) ==
    []Inv /\ []IsFiniteSet(Made) /\ [][Next]_vars /\ CancelFairness(t) /\ []NeverStuck

LEMMA AlwaysCancelling ==
  ASSUME NEW t \in Cancellers
  PROVE  FairSpec /\ []NeverStuck => []Cancelling(t)
<1>1. Fairness => CancelFairness(t)
  BY DEF Fairness
<1>2. CancelFairness(t) => []CancelFairness(t)
  BY PTL DEF CancelFairness
<1> QED
  BY <1>1, <1>2, Invariance, FinitelyManyMade, PTL DEF FairSpec, Spec, Cancelling

LEMMA CancelAllsCountDown ==
  ASSUME NEW t \in Cancellers, NEW n \in Nat
  PROVE  []Cancelling(t) => CountsDown(t, n)
<1> DEFINE Finite == Inv /\ IsFiniteSet(Made)
           At == ~Idle(t) /\ ToDo(t) = n
           Later == Idle(t) \/ ToDo(t) \in 0..(n - 1)
<1>1. Finite /\ At /\ [Next]_vars => At' \/ Later'
  <2> SUFFICES ASSUME Finite, At, [Next]_vars PROVE At' \/ Later'
    OBVIOUS
  <2>1. CASE CancelStep(t)
    BY <2>1, CancelStepsGoOn
  <2>2. CASE ~CancelStep(t)
    <3>1. /\ batch'[t] = batch[t]
          /\ toCancel'[t] = toCancel[t]
          /\ toClose'[t] = toClose[t]
      BY <2>2, CancelAllIsItsOwn
    <3> QED
      BY <3>1 DEF ToDo, Idle
  <2> QED
    BY <2>1, <2>2
<1>2. Finite /\ At /\ <<CancelStep(t)>>_vars => Later'
  BY CancelStepsGoOn
<1>3. NeverStuck /\ At => ENABLED <<CancelStep(t)>>_vars
  BY DEF NeverStuck
<1>4. ToDo(t) = n => At \/ Later
  OBVIOUS
<1> QED
  BY <1>1, <1>2, <1>3, <1>4, PTL DEF CountsDown, CancelFairness, Cancelling

\* Every cancelAll returns (InFlightAttemptRegistry.kt:57-77), however many
\* attempts it finds and whatever the other threads do meanwhile.
THEOREM CancelAllsReturn ==
  FairSpec /\ []NeverStuck /\ LatticeRules => CancelAllsEnd
<1>1. ASSUME NEW t \in Cancellers
      PROVE  FairSpec /\ []NeverStuck /\ LatticeRules => CancelAllReturns(t)
  <2>1. []Cancelling(t) => \A n \in Nat : CountsDown(t, n)
    BY CancelAllsCountDown
  <2>2. []Cancelling(t) /\ LatticeRule(t) => [](ToDo(t) \in Nat => <>Idle(t))
    BY <2>1 DEF LatticeRule
  <2>3. LatticeRules => LatticeRule(t)
    BY DEF LatticeRules
  <2>4. Inv /\ IsFiniteSet(Made) => ToDo(t) \in Nat
    BY ToDoIsFinite DEF ToDo
  <2> QED
    BY <2>2, <2>3, <2>4, AlwaysCancelling, PTL DEF CancelAllReturns, Cancelling
<1> QED
  BY <1>1 DEF CancelAllsEnd

\* The same of an execution in which every cancelAll returns.
Returning == []Inv /\ [][Next]_vars /\ CancelAllsEnd

LEMMA AlwaysReturning ==
  FairSpec /\ []NeverStuck /\ LatticeRules => []Returning
<1>1. ASSUME NEW t \in Cancellers
      PROVE  CancelAllReturns(t) => []CancelAllReturns(t)
  BY PTL DEF CancelAllReturns
<1>2. (\A t \in Cancellers : CancelAllReturns(t))
        => \A t \in Cancellers : []CancelAllReturns(t)
  BY <1>1
<1>3. (\A t \in Cancellers : []CancelAllReturns(t))
        => [](\A t \in Cancellers : CancelAllReturns(t))
  OBVIOUS
<1> QED
  BY <1>2, <1>3, CancelAllsReturn, Invariance, PTL
     DEF FairSpec, Spec, Returning, CancelAllsEnd

\* No attempt keeps its key for ever, if every cancelAll returns: either its
\* completion gives the key back, or the cancelAll that has marked it does
\* (InFlightAttemptRegistry.kt:45-77).
THEOREM KeysAreReleased ==
  FairSpec /\ []NeverStuck /\ LatticeRules => KeyIsReleased
<1> SUFFICES ASSUME NEW a \in Attempts
             PROVE  FairSpec /\ []NeverStuck /\ LatticeRules
                      => (Registered(a) ~> ~Registered(a))
  BY DEF KeyIsReleased
<1>1. ASSUME NEW t \in Cancellers
      PROVE  Returning => (a \in batch[t] => <>~Registered(a))
  <2>1. Inv /\ a \in batch[t] /\ Registered(a) /\ [Next]_vars
          => (a \in batch[t])' \/ ~Registered(a)'
    BY HeldUntilRemoved
  <2>2. a \in batch[t] => ~Idle(t)
    BY DEF Idle
  <2>3. CancelAllsEnd => CancelAllReturns(t)
    BY DEF CancelAllsEnd
  <2> QED
    BY <2>1, <2>2, <2>3, PTL DEF CancelAllReturns, Returning
<1>2. Returning => ((\E t \in Cancellers : a \in batch[t]) => <>~Registered(a))
  BY <1>1
<1>3. Inv => /\ Registered(a) => Claimed(a)
             /\ Registered(a) /\ job[a] = "done" => \E t \in Cancellers : a \in batch[t]
  BY RegistryAssumption
     DEF Inv, UnclaimedIsFresh, KeyHasReleaser, Registered, Claimed
<1> QED
  BY <1>2, <1>3, AlwaysFair, AttemptsComplete, AlwaysReturning, PTL DEF Returning

\* Every socket is closed in the end: by the body, by the completion, or by the
\* cancelAll that has taken it away (InFlightAttemptRegistry.kt:35-71,
\* PhonectNetworkService.kt:326-343).
THEOREM SocketsAreClosed ==
  FairSpec /\ []NeverStuck /\ LatticeRules => SocketIsClosed
<1> SUFFICES ASSUME NEW a \in Attempts
             PROVE  FairSpec /\ []NeverStuck /\ LatticeRules
                      => (socket[a] = "open" ~> socket[a] = "closed")
  BY DEF SocketIsClosed
<1>1. ASSUME NEW t \in Cancellers
      PROVE  Returning => (a \in toClose[t] => <>(socket[a] = "closed"))
  <2>1. Inv /\ a \in toClose[t] /\ [Next]_vars
          => (a \in toClose[t])' \/ (socket[a] = "closed")'
    BY TakenUntilClosed
  <2>2. Inv /\ a \in toClose[t] => ~Idle(t)
    BY DEF Idle, Inv, BatchIsMarked
  <2>3. CancelAllsEnd => CancelAllReturns(t)
    BY DEF CancelAllsEnd
  <2> QED
    BY <2>1, <2>2, <2>3, PTL DEF CancelAllReturns, Returning
<1>2. Returning => ((\E t \in Cancellers : a \in toClose[t]) => <>(socket[a] = "closed"))
  BY <1>1
<1>3. Inv => /\ socket[a] = "open" => Claimed(a)
             /\ socket[a] = "open" /\ job[a] = "done"
                  => \E t \in Cancellers : a \in toClose[t]
  BY DEF Inv, UnclaimedIsFresh, BodyFollowsJob, OpenSocketHasCloser, Claimed
<1>4. Inv /\ socket[a] = "open" /\ [Next]_vars
        => (socket[a] = "open")' \/ (socket[a] = "closed")'
  <2> SUFFICES ASSUME Inv, socket[a] = "open", [Next]_vars
               PROVE  socket'[a] \in {"open", "closed"}
    OBVIOUS
  <2> USE DEF claimVars, jobVars, sockVars, cancelVars
  <2>1. CASE socket' = socket
    BY <2>1
  <2>2. CASE \E b \in Attempts : AttachSocket(b) \/ FinishWork(b) \/ Complete(b)
    BY <2>2 DEF AttachSocket, FinishWork, Complete, SocketAfterComplete, Inv, TypeOK
  <2>3. CASE \E t \in Cancellers, b \in Attempts : CloseTaken(t, b)
    BY <2>3 DEF CloseTaken, Inv, TypeOK
  <2>4. CASE \/ \E t \in Cancellers, b \in Attempts : CancelOwner(t, b)
             \/ \E t \in Cancellers : CancelAllMark(t) \/ CancelAllRemove(t)
             \/ \E k \in Keys, b \in Attempts : Claim(k, b) \/ ClaimInCancelledScope(k, b)
             \/ \E b \in Attempts : Start(b) \/ UseSocket(b) \/ LeaveEarly(b) \/ CancelChild(b)
             \/ CancelScope
             \/ UNCHANGED vars
    BY <2>1, <2>4 DEF CancelOwner, CancelAllMark, CancelAllRemove, Claim,
       ClaimInCancelledScope, Start, UseSocket, LeaveEarly, CancelChild, CancelScope, vars
  <2> QED
    BY <2>2, <2>3, <2>4 DEF Next, BodyStep, CancelStep
<1> QED
  BY <1>2, <1>3, <1>4, AlwaysFair, AttemptsComplete, AlwaysReturning, PTL DEF Returning
=============================================================================
