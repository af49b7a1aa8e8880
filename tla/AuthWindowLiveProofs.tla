------------------------ MODULE AuthWindowLiveProofs ------------------------
(***************************************************************************)
(* Progress of the daemon, for every set of connections and of phones.     *)
(*                                                                         *)
(* ENABLED is an unknown predicate to the prover.  What weak fairness      *)
(* gives therefore depends on NeverStuck, which is an invariant that TLC   *)
(* checks and a hypothesis here.  Proved is the rest: that each step of a  *)
(* task takes it nearer to its goal, that no step of another task takes it *)
(* away from there, and that this ends.                                    *)
(***************************************************************************)
EXTENDS AuthWindowProofs, FiniteSetTheorems, Integers

-----------------------------------------------------------------------------
\* What a fair execution has at every moment.
Always == []Inv /\ [][Next]_vars /\ []Fairness /\ []NeverStuck

\* Fairness that holds, holds from then on.
LEMMA FairnessLasts == FairSpec /\ []NeverStuck => []Always
<1>1. ASSUME NEW c \in Conns
      PROVE  HandlerFairness(c) => []HandlerFairness(c)
  BY PTL DEF HandlerFairness
<1>2. MainFairness => []MainFairness
  BY PTL DEF MainFairness
<1>3. (\A c \in Conns : HandlerFairness(c)) => \A c \in Conns : []HandlerFairness(c)
  BY <1>1
<1>4. (\A c \in Conns : []HandlerFairness(c)) => [](\A c \in Conns : HandlerFairness(c))
  OBVIOUS
<1> QED
  BY <1>2, <1>3, <1>4, Invariance, PTL DEF FairSpec, Spec, Fairness, Always

LEMMA AlwaysFair ==
  ASSUME NEW c \in Conns
  PROVE  Always => HandlerFairness(c) /\ MainFairness
<1>1. Fairness => HandlerFairness(c) /\ MainFairness
  BY DEF Fairness
<1> QED
  BY <1>1, PTL DEF Always

-----------------------------------------------------------------------------
\* How many steps a handler in this stage has at most before it.
Left == [none |-> 0, closing |-> 1, verifying |-> 2, challenged |-> 3,
         accepted |-> 4, hello |-> 5, queued |-> 6]

LEMMA LeftValues ==
  /\ Left["none"] = 0
  /\ Left["closing"] = 1
  /\ Left["verifying"] = 2
  /\ Left["challenged"] = 3
  /\ Left["accepted"] = 4
  /\ Left["hello"] = 5
  /\ Left["queued"] = 6
  BY DEF Left

\* A connection that exists never goes back to an earlier stage.
LEMMA HandlersGoOn ==
  ASSUME TypeOK, NEW c \in Conns, stage[c] # "none", [Next]_vars
  PROVE  stage'[c] = stage[c] \/ Left[stage'[c]] < Left[stage[c]]
<1> USE DEF mainVars, flagVars, keyVars, connVars, localVars
<1> USE LeftValues
<1>1. CASE \/ Boot
           \/ \E b \in BOOLEAN : StartServer(b)
           \/ Wake \/ Stop \/ NoticeStop \/ OpenWindow \/ AfterWindow
           \/ WindowCompleted \/ WindowExpired
           \/ DiscoveryEnds \/ DiscoveryFails
           \/ UNCHANGED vars
  BY <1>1 DEF Boot, StartServer, Wake, Stop, NoticeStop, OpenWindow, AfterWindow,
              WindowCompleted, WindowExpired, CloseWindow, DiscoveryEnds,
              DiscoveryFails, vars
<1>2. CASE \/ StartFails \/ Crash \/ Exit
           \/ \E d \in Conns : CrashInSave(d)
  <2>1. stage'[c] = "none"
    BY <1>2 DEF StartFails, Crash, Exit, CrashInSave, LoseMemory
  <2> QED
    BY <2>1 DEF TypeOK, Stages, HandshakeStages
<1>3. CASE \E d \in Conns : Connect(d)
  BY <1>3 DEF Connect, TypeOK
<1>4. CASE \E d \in Conns : HandlerStep(d)
  <2> PICK d \in Conns : HandlerStep(d)
    BY <1>4
  <2>1. CASE \/ AdmitWithoutPcKey(d) \/ Reject(d) \/ FailHandshake(d)
             \/ RefuseResponse(d) \/ PairPhone(d) \/ SaveFails(d) \/ UnlockSessions(d)
             \/ \E k, fingerprint \in Phones : RefuseHello(d, k, fingerprint)
    <3>1. /\ stage[d] \notin {"none", "closing"}
          /\ stage' = [stage EXCEPT ![d] = "closing"]
      BY <2>1 DEF AdmitWithoutPcKey, Reject, FailHandshake, RefuseResponse, PairPhone,
                  SaveFails, UnlockSessions, RefuseHello, Finish, Leave, Valid,
                  Interruptible
    <3> QED
      BY <3>1 DEF TypeOK, Stages, HandshakeStages
  <2>2. CASE Admit(d) \/ SendChallenge(d) \/ CloseConn(d)
    BY <2>2 DEF Admit, SendChallenge, CloseConn, TypeOK
  <2>3. CASE \E k, fingerprint \in Phones : AcceptHello(d, k, fingerprint)
    BY <2>3 DEF AcceptHello, TypeOK
  <2>4. CASE \E s \in Keys : ReceiveResponse(d, s)
    BY <2>4 DEF ReceiveResponse, TypeOK
  <2> QED
    BY <2>1, <2>2, <2>3, <2>4 DEF HandlerStep, MessageStep, OwnStep
<1> QED
  BY <1>1, <1>2, <1>3, <1>4 DEF Next, MainStep

\* A step of its own takes a handler to a later stage.
LEMMA OwnStepsGoOn ==
  ASSUME TypeOK, NEW c \in Conns, stage[c] # "none", OwnStep(c)
  PROVE  Left[stage'[c]] < Left[stage[c]]
<1> USE LeftValues
<1>1. CASE \/ AdmitWithoutPcKey(c) \/ Reject(c) \/ FailHandshake(c)
           \/ RefuseResponse(c) \/ PairPhone(c) \/ SaveFails(c) \/ UnlockSessions(c)
  <2>1. /\ stage[c] \notin {"none", "closing"}
        /\ stage' = [stage EXCEPT ![c] = "closing"]
    BY <1>1 DEF AdmitWithoutPcKey, Reject, FailHandshake, RefuseResponse, PairPhone,
                SaveFails, UnlockSessions, Finish, Leave, Valid, Interruptible
  <2> QED
    BY <2>1 DEF TypeOK, Stages, HandshakeStages
<1>2. CASE Admit(c) \/ SendChallenge(c) \/ CloseConn(c)
  BY <1>2 DEF Admit, SendChallenge, CloseConn, TypeOK
<1> QED
  BY <1>1, <1>2 DEF OwnStep

\* Handlers open no connection, and each of their steps takes their own on.
LEMMA HandlerStepsGoOn ==
  ASSUME TypeOK, NEW c \in Conns, HandlerStep(c) \/ CrashInSave(c)
  PROVE  /\ Left[stage'[c]] < Left[stage[c]]
         /\ \A d \in Conns : stage[d] = "none" => stage'[d] = "none"
<1> USE LeftValues DEF TypeOK, connVars
<1>1. CASE \/ AdmitWithoutPcKey(c) \/ Reject(c) \/ FailHandshake(c)
           \/ RefuseResponse(c) \/ PairPhone(c) \/ SaveFails(c) \/ UnlockSessions(c)
           \/ \E k, fingerprint \in Phones : RefuseHello(c, k, fingerprint)
  <2>1. /\ stage[c] \notin {"none", "closing"}
        /\ stage' = [stage EXCEPT ![c] = "closing"]
    BY <1>1 DEF AdmitWithoutPcKey, Reject, FailHandshake, RefuseResponse, PairPhone,
                SaveFails, UnlockSessions, RefuseHello, Finish, Leave, Valid, Interruptible
  <2> QED
    BY <2>1 DEF Stages, HandshakeStages
<1>2. CASE Admit(c) \/ SendChallenge(c) \/ CloseConn(c)
  BY <1>2 DEF Admit, SendChallenge, CloseConn
<1>3. CASE \/ \E k, fingerprint \in Phones : AcceptHello(c, k, fingerprint)
           \/ \E s \in Keys : ReceiveResponse(c, s)
  BY <1>3 DEF AcceptHello, ReceiveResponse
<1>4. CASE CrashInSave(c)
  BY <1>4 DEF CrashInSave, LoseMemory, Valid
<1> QED
  BY <1>1, <1>2, <1>3, <1>4 DEF HandlerStep, MessageStep, OwnStep

-----------------------------------------------------------------------------
\* A handler with n steps to go comes to have fewer.
Advances(c, n) == [](Left[stage[c]] = n => <>(Left[stage[c]] < n))

LEMMA HandlersAdvance ==
  ASSUME NEW c \in Conns, NEW n \in 1..6
  PROVE  Always => Advances(c, n)
<1> DEFINE At == Left[stage[c]] = n
           Later == Left[stage[c]] < n
<1>1. Inv /\ At /\ [Next]_vars => At' \/ Later'
  <2> SUFFICES ASSUME Inv, At, [Next]_vars PROVE At' \/ Later'
    OBVIOUS
  <2>1. stage[c] # "none"
    BY LeftValues
  <2> QED
    BY <2>1, HandlersGoOn DEF Inv
<1>2. Inv /\ At /\ <<OwnStep(c)>>_vars => Later'
  <2> SUFFICES ASSUME Inv, At, OwnStep(c) PROVE Later'
    OBVIOUS
  <2>1. stage[c] # "none"
    BY LeftValues
  <2> QED
    BY <2>1, OwnStepsGoOn DEF Inv
<1>3. NeverStuck /\ At => ENABLED <<OwnStep(c)>>_vars
  BY LeftValues DEF NeverStuck
<1> QED
  BY <1>1, <1>2, <1>3, AlwaysFair, PTL DEF Advances, HandlerFairness, Always

\* The last of these steps is the end of the handler, and the one before it
\* the end of its handshake.
LEMMA HandlersEnd ==
  ASSUME NEW c \in Conns
  PROVE  Always => /\ stage[c] # "none" => <>(stage[c] = "none")
                   /\ Busy(c) => <>~Busy(c)
<1>1. Always => /\ Advances(c, 1) /\ Advances(c, 2) /\ Advances(c, 3)
                /\ Advances(c, 4) /\ Advances(c, 5) /\ Advances(c, 6)
  BY HandlersAdvance
<1> DEFINE L(n) == Left[stage[c]] = n
           Below(n) == Left[stage[c]] < n
<1>2. Inv => /\ Below(1) => stage[c] = "none"
             /\ Below(2) => L(1) \/ Below(1)
             /\ Below(3) => L(2) \/ Below(2)
             /\ Below(4) => L(3) \/ Below(3)
             /\ Below(5) => L(4) \/ Below(4)
             /\ Below(6) => L(5) \/ Below(5)
  BY LeftValues DEF Inv, TypeOK, Stages, HandshakeStages
<1>3. Inv => (stage[c] # "none" => L(1) \/ L(2) \/ L(3) \/ L(4) \/ L(5) \/ L(6))
  BY LeftValues DEF Inv, TypeOK, Stages, HandshakeStages
<1>4. Inv => (Busy(c) => L(2) \/ L(3) \/ L(4) \/ L(5)) /\ (Below(2) => ~Busy(c))
  BY LeftValues DEF Inv, TypeOK, Busy, Stages, HandshakeStages
<1> QED
  BY <1>1, <1>2, <1>3, <1>4, PTL DEF Advances, Always

\* Every connection is answered and closed in the end (daemon.py:247-281),
\* whatever the peers do and however many there are.
THEOREM ConnectionsEnd == FairSpec /\ []NeverStuck => ConnectionEnds
<1> SUFFICES ASSUME NEW c \in Conns
             PROVE  FairSpec /\ []NeverStuck =>
                      (stage[c] = "queued" ~> stage[c] = "none")
  BY DEF ConnectionEnds
<1>1. stage[c] = "queued" => stage[c] # "none"
  OBVIOUS
<1> QED
  BY <1>1, HandlersEnd, FairnessLasts, PTL

-----------------------------------------------------------------------------
\* The step that ends the handshake of c frees the slot.
LEMMA EndFreesTheSlot ==
  ASSUME Inv, NEW c \in Conns, Busy(c), [Next]_vars, ~Busy(c)'
  PROVE  ~authInProgress'
<1> USE DEF mainVars, flagVars, keyVars, connVars, localVars
<1>1. CASE \/ StartFails \/ Crash \/ Exit
           \/ \E d \in Conns : CrashInSave(d)
  BY <1>1 DEF StartFails, Crash, Exit, CrashInSave, LoseMemory
<1>2. CASE \E d \in Conns : HandlerStep(d)
  <2> PICK d \in Conns : HandlerStep(d)
    BY <1>2
  <2>1. CASE \/ AdmitWithoutPcKey(d) \/ FailHandshake(d)
             \/ RefuseResponse(d) \/ PairPhone(d) \/ SaveFails(d) \/ UnlockSessions(d)
             \/ \E k, fingerprint \in Phones : RefuseHello(d, k, fingerprint)
    BY <2>1 DEF AdmitWithoutPcKey, FailHandshake, RefuseResponse, PairPhone,
                SaveFails, UnlockSessions, RefuseHello, Finish
  <2>2. CASE Admit(d) \/ SendChallenge(d) \/ CloseConn(d) \/ Reject(d)
    BY <2>2 DEF Admit, SendChallenge, CloseConn, Reject, Leave, Inv, TypeOK, Busy,
                HandshakeStages
  <2>3. CASE \E k, fingerprint \in Phones : AcceptHello(d, k, fingerprint)
    BY <2>3 DEF AcceptHello, Inv, TypeOK, Busy, HandshakeStages
  <2>4. CASE \E s \in Keys : ReceiveResponse(d, s)
    BY <2>4 DEF ReceiveResponse, Inv, TypeOK, Busy, HandshakeStages
  <2> QED
    BY <2>1, <2>2, <2>3, <2>4 DEF HandlerStep, MessageStep, OwnStep
<1>3. CASE \E d \in Conns : Connect(d)
  BY <1>3 DEF Connect, Inv, TypeOK, Busy, HandshakeStages
<1>4. CASE \/ Boot
           \/ \E b \in BOOLEAN : StartServer(b)
           \/ Wake \/ Stop \/ NoticeStop \/ OpenWindow \/ AfterWindow
           \/ WindowCompleted \/ WindowExpired
           \/ DiscoveryEnds \/ DiscoveryFails
           \/ UNCHANGED vars
  BY <1>4 DEF Boot, StartServer, Wake, Stop, NoticeStop, OpenWindow, AfterWindow,
              WindowCompleted, WindowExpired, CloseWindow, DiscoveryEnds,
              DiscoveryFails, vars, Busy
<1> QED
  BY <1>1, <1>2, <1>3, <1>4 DEF Next, MainStep

\* The slot is not held for ever (daemon.py:276-281): whoever holds it comes to
\* the end of its handshake, and that step frees it.
THEOREM HandshakesEnd == FairSpec /\ []NeverStuck => HandshakeEnds
<1>1. ASSUME NEW c \in Conns
      PROVE  Always => (Busy(c) => <>~authInProgress)
  <2>1. Inv /\ Busy(c) /\ [Next]_vars => Busy(c)' \/ ~authInProgress'
    BY EndFreesTheSlot
  <2> QED
    BY <2>1, HandlersEnd, PTL DEF Always
<1>2. Always => ((\E c \in Conns : Busy(c)) => <>~authInProgress)
  BY <1>1
<1>3. Inv => (authInProgress => \E c \in Conns : Busy(c))
  BY DEF Inv, OneHandshake
<1> QED
  BY <1>2, <1>3, FairnessLasts, PTL DEF HandshakeEnds, Always

-----------------------------------------------------------------------------
\* How far the main task is from its end, if it opens no other window.
MainLeft == [window |-> 4, closing |-> 3, starting |-> 3, idle |-> 2,
             cleanup |-> 1, down |-> 0]

LEMMA MainLeftValues ==
  /\ MainLeft["window"] = 4
  /\ MainLeft["closing"] = 3
  /\ MainLeft["starting"] = 3
  /\ MainLeft["idle"] = 2
  /\ MainLeft["cleanup"] = 1
  /\ MainLeft["down"] = 0
  BY DEF MainLeft

\* The main task is told to stop for good, and keeps a wake-up that it has not
\* answered as long as it serves.
Remembers ==
    /\ running' => running
    /\ wakeupEvent => wakeupEvent' \/ mainPc' \in {"cleanup", "down"}

\* It goes on towards its end, or opens the window it was woken for.
MainGoesOn ==
    \/ MainLeft[mainPc'] < MainLeft[mainPc] /\ Remembers
    \/ mainPc = "idle" /\ running /\ mainPc' = "window" /\ ~wakeupEvent'

LEMMA MainStepsGoOn ==
  ASSUME MainStep
  PROVE  MainGoesOn
<1> USE MainLeftValues DEF MainGoesOn, Remembers
<1>1. CASE \E b \in BOOLEAN : StartServer(b)
  <2>1. /\ mainPc = "starting"
        /\ mainPc' \in {"idle", "cleanup"}
        /\ running' = running
    BY <1>1 DEF StartServer
  <2>2. wakeupEvent => wakeupEvent'
    BY <1>1, Zenon DEF StartServer
  <2> QED
    BY <2>1, <2>2
<1>2. CASE StartFails \/ Exit
  BY <1>2 DEF StartFails, Exit, LoseMemory
<1>3. CASE NoticeStop
  BY <1>3 DEF NoticeStop
<1>4. CASE OpenWindow
  BY <1>4 DEF OpenWindow
<1>5. CASE WindowCompleted \/ WindowExpired
  BY <1>5 DEF WindowCompleted, WindowExpired, CloseWindow
<1>6. CASE AfterWindow
  BY <1>6 DEF AfterWindow
<1> QED
  BY <1>1, <1>2, <1>3, <1>4, <1>5, <1>6 DEF MainStep

LEMMA MainGoesOnOrStays ==
  ASSUME TypeOK, mainPc # "down", [Next]_vars
  PROVE  MainGoesOn \/ (mainPc' = mainPc /\ Remembers)
<1> USE DEF mainVars, Remembers
<1>1. CASE MainStep
  BY <1>1, MainStepsGoOn
<1>2. CASE Crash \/ \E c \in Conns : CrashInSave(c)
  <2>1. mainPc' = "down" /\ running' = FALSE
    BY <1>2 DEF Crash, CrashInSave, LoseMemory
  <2> QED
    BY <2>1, MainLeftValues DEF TypeOK, MainPcs, MainGoesOn
<1>3. CASE Boot \/ Wake \/ Stop \/ DiscoveryEnds \/ DiscoveryFails \/ UNCHANGED vars
  BY <1>3 DEF Boot, Wake, Stop, WakeupAfterStop, DiscoveryEnds, DiscoveryFails, vars
<1>4. CASE \E c \in Conns : Connect(c) \/ HandlerStep(c)
  <2>1. UNCHANGED mainVars
    BY <1>4 DEF Connect, HandlerStep, MessageStep, OwnStep, AcceptHello, RefuseHello,
                ReceiveResponse, Admit, AdmitWithoutPcKey, Reject, SendChallenge,
                FailHandshake, RefuseResponse, PairPhone, SaveFails, UnlockSessions,
                CloseConn, Finish
  <2> QED
    BY <2>1
<1> QED
  BY <1>1, <1>2, <1>3, <1>4 DEF Next

\* What WakeOpensWindow promises.
Answered == (mainPc = "window" /\ ~wakeupEvent) \/ mainPc \in {"cleanup", "down"}

\* A main task with n steps to go and a wake-up to answer answers it or has
\* fewer to go.
WakeAdvances(n) ==
    [](wakeupEvent /\ MainLeft[mainPc] = n =>
         <>(Answered \/ (wakeupEvent /\ MainLeft[mainPc] < n)))

LEMMA WokenGoesOn ==
  ASSUME NEW n \in 2..4
  PROVE  Always => WakeAdvances(n)
<1> DEFINE At == wakeupEvent /\ MainLeft[mainPc] = n
           Later == Answered \/ (wakeupEvent /\ MainLeft[mainPc] < n)
<1>1. Inv /\ At /\ [Next]_vars => At' \/ Later'
  <2> SUFFICES ASSUME Inv, At, [Next]_vars PROVE At' \/ Later'
    OBVIOUS
  <2>1. mainPc # "down"
    BY MainLeftValues
  <2>2. MainGoesOn \/ (mainPc' = mainPc /\ Remembers)
    BY <2>1, MainGoesOnOrStays DEF Inv
  <2> QED
    BY <2>2 DEF MainGoesOn, Remembers, Answered
<1>2. At /\ <<MainStep>>_vars => Later'
  BY MainStepsGoOn DEF MainGoesOn, Remembers, Answered
<1>3. Inv /\ NeverStuck /\ At => ENABLED <<MainStep>>_vars
  BY MainLeftValues DEF Inv, TypeOK, MainPcs, NeverStuck, MainMayMove
<1>4. Fairness => MainFairness
  BY DEF Fairness
<1> QED
  BY <1>1, <1>2, <1>3, <1>4, PTL DEF MainFairness, Always, WakeAdvances

\* A wake-up is answered by a window that opens after it (daemon.py:162-170,
\* 183-186), whatever the connections do meanwhile.
THEOREM WakeUpsAreAnswered == FairSpec /\ []NeverStuck => WakeOpensWindow
<1>1. Always => WakeAdvances(2) /\ WakeAdvances(3) /\ WakeAdvances(4)
  BY WokenGoesOn
<1> DEFINE At(n) == wakeupEvent /\ MainLeft[mainPc] = n
           Below(n) == wakeupEvent /\ MainLeft[mainPc] < n
<1>2. Inv => /\ wakeupEvent => Answered \/ At(2) \/ At(3) \/ At(4)
             /\ Below(4) => Answered \/ At(2) \/ At(3)
             /\ Below(3) => Answered \/ At(2)
             /\ Below(2) => Answered
  BY MainLeftValues DEF Inv, TypeOK, MainPcs, Answered
<1> QED
  BY <1>1, <1>2, FairnessLasts, PTL DEF WakeOpensWindow, WakeAdvances, Always, Answered

-----------------------------------------------------------------------------
\* stop() has woken the main task, so an idle daemon told to stop has its
\* event set; an error of the broadcaster is not forgotten before its window
\* has closed.
StopIsSeen ==
    /\ mainPc = "idle" /\ ~running => wakeupEvent
    /\ discovery = "failed" => mainPc \in {"window", "closing"}

LEMMA StopIsAlwaysSeen == Spec => []StopIsSeen
<1>1. Init => StopIsSeen
  BY DEF Init, StopIsSeen
<1>2. Inv /\ StopIsSeen /\ [Next]_vars => StopIsSeen'
  <2> SUFFICES ASSUME Inv, StopIsSeen, [Next]_vars PROVE StopIsSeen'
    OBVIOUS
  <2> USE DEF StopIsSeen, mainVars
  <2>1. CASE Boot \/ Crash \/ \E c \in Conns : CrashInSave(c)
    BY <2>1 DEF Boot, Crash, CrashInSave, LoseMemory
  <2>2. CASE \E b \in BOOLEAN : StartServer(b)
    BY <2>2 DEF StartServer
  <2>3. CASE StartFails \/ NoticeStop \/ OpenWindow \/ Exit
    BY <2>3 DEF StartFails, NoticeStop, OpenWindow, Exit, LoseMemory
  <2>4. CASE WindowCompleted \/ WindowExpired \/ AfterWindow
    BY <2>4 DEF WindowCompleted, WindowExpired, CloseWindow, AfterWindow
  <2>5. CASE Wake \/ Stop
    BY <2>5 DEF Wake, Stop, WakeupAfterStop
  <2>6. CASE DiscoveryEnds \/ DiscoveryFails \/ UNCHANGED vars
    BY <2>6 DEF DiscoveryEnds, DiscoveryFails, vars
  <2>7. CASE \E c \in Conns : Connect(c) \/ HandlerStep(c)
    BY <2>7 DEF Connect, HandlerStep, MessageStep, OwnStep, AcceptHello, RefuseHello,
                ReceiveResponse, Admit, AdmitWithoutPcKey, Reject, SendChallenge,
                FailHandshake, RefuseResponse, PairPhone, SaveFails, UnlockSessions,
                CloseConn, Finish
  <2> QED
    BY <2>1, <2>2, <2>3, <2>4, <2>5, <2>6, <2>7 DEF Next, MainStep
<1> QED
  BY <1>1, <1>2, Invariance, PTL DEF Spec

\* On its way down.
Leaving == MustEnd \/ mainPc \in {"cleanup", "down"}

LEMMA LeavingLasts ==
  ASSUME Inv, Inv', StopIsSeen, Leaving, mainPc # "down", [Next]_vars
  PROVE  Leaving'
<1> USE DEF Leaving, MustEnd
<1>1. MainGoesOn \/ (mainPc' = mainPc /\ Remembers)
  BY MainGoesOnOrStays DEF Inv
<1>2. CASE ~running
  BY <1>1, <1>2 DEF MainGoesOn, Remembers
<1>3. CASE mainPc \in {"cleanup", "down"}
  BY <1>1, <1>3, MainLeftValues DEF MainGoesOn, TypeOK, MainPcs, Inv
<1>4. CASE discovery = "failed"
  <2> USE DEF mainVars
  <2>0. mainPc \in {"window", "closing"}
    BY <1>4 DEF StopIsSeen
  <2>1. CASE Boot \/ Crash \/ \E c \in Conns : CrashInSave(c)
    BY <1>4, <2>0, <2>1 DEF Boot, Crash, CrashInSave, LoseMemory
  <2>2. CASE (\E b \in BOOLEAN : StartServer(b)) \/ StartFails
             \/ NoticeStop \/ OpenWindow \/ Exit
    BY <2>0, <2>2 DEF StartServer, StartFails, NoticeStop, OpenWindow, Exit
  <2>3. CASE WindowCompleted \/ WindowExpired
    BY <1>4, <2>3 DEF WindowCompleted, WindowExpired, CloseWindow
  <2>4. CASE AfterWindow
    BY <1>4, <2>4 DEF AfterWindow
  <2>5. CASE Wake \/ Stop
    BY <1>4, <2>5 DEF Wake, Stop
  <2>6. CASE DiscoveryEnds \/ DiscoveryFails \/ UNCHANGED vars
    BY <1>4, <2>6 DEF DiscoveryEnds, DiscoveryFails, vars
  <2>7. CASE \E c \in Conns : Connect(c) \/ HandlerStep(c)
    BY <1>4, <2>7 DEF Connect, HandlerStep, MessageStep, OwnStep, AcceptHello,
                RefuseHello, ReceiveResponse, Admit, AdmitWithoutPcKey, Reject,
                SendChallenge, FailHandshake, RefuseResponse, PairPhone, SaveFails,
                UnlockSessions, CloseConn, Finish
  <2> QED
    BY <2>1, <2>2, <2>3, <2>4, <2>5, <2>6, <2>7 DEF Next, MainStep
<1> QED
  BY <1>2, <1>3, <1>4

\* A main task with n steps to go that is on its way down has fewer to go later.
StopAdvances(n) ==
    [](Leaving /\ MainLeft[mainPc] = n => <>(Leaving /\ MainLeft[mainPc] < n))

LEMMA StoppedGoesOn ==
  ASSUME NEW n \in 1..4, n = 1 => ~WaitClosedWaits
  PROVE  Always /\ []StopIsSeen => StopAdvances(n)
<1> DEFINE At == Leaving /\ MainLeft[mainPc] = n
           Later == Leaving /\ MainLeft[mainPc] < n
<1>0. ASSUME Inv, StopIsSeen, At, MainGoesOn
      PROVE  MainLeft[mainPc'] < n
  <2>1. mainPc = "idle" => ~running
    BY <1>0 DEF Leaving, MustEnd, StopIsSeen
  <2> QED
    BY <1>0, <2>1 DEF MainGoesOn
<1>1. Inv /\ Inv' /\ StopIsSeen /\ At /\ [Next]_vars => At' \/ Later'
  <2> SUFFICES ASSUME Inv, Inv', StopIsSeen, At, [Next]_vars PROVE At' \/ Later'
    OBVIOUS
  <2>1. mainPc # "down"
    BY MainLeftValues
  <2>2. MainGoesOn \/ (mainPc' = mainPc /\ Remembers)
    BY <2>1, MainGoesOnOrStays DEF Inv
  <2>3. Leaving'
    BY <2>1, LeavingLasts
  <2> QED
    BY <1>0, <2>2, <2>3
<1>2. Inv /\ Inv' /\ StopIsSeen /\ At /\ [Next]_vars /\ <<MainStep>>_vars => Later'
  <2> SUFFICES ASSUME Inv, Inv', StopIsSeen, At, [Next]_vars, MainStep PROVE Later'
    OBVIOUS
  <2>1. mainPc # "down"
    BY MainLeftValues
  <2> QED
    BY <1>0, <2>1, MainStepsGoOn, LeavingLasts
<1>3. Inv /\ StopIsSeen /\ NeverStuck /\ At => ENABLED <<MainStep>>_vars
  BY MainLeftValues
     DEF Inv, TypeOK, MainPcs, NeverStuck, MainMayMove, StopIsSeen, Leaving, MustEnd
<1>4. Fairness => MainFairness
  BY DEF Fairness
<1> QED
  BY <1>1, <1>2, <1>3, <1>4, PTL DEF MainFairness, Always, StopAdvances

LEMMA StopSteps ==
  Inv => /\ (mainPc # "down" /\ MustEnd) =>
               Leaving /\ MainLeft[mainPc] \in 1..4
         /\ MainLeft[mainPc] < 2 => mainPc \in {"cleanup", "down"}
         /\ MainLeft[mainPc] < 1 => mainPc = "down"
         /\ MainLeft[mainPc] \in 0..4
  BY MainLeftValues DEF Inv, TypeOK, MainPcs, Leaving

\* A daemon that is told to stop, in whatever state, or whose broadcaster has
\* died, comes to close its server (daemon.py:177-181, 214-222, 291-298, 328).
THEOREM StopReachesCleanup ==
  FairSpec /\ []NeverStuck =>
    ((mainPc # "down" /\ MustEnd) ~> mainPc \in {"cleanup", "down"})
<1>1. Always /\ []StopIsSeen => StopAdvances(2) /\ StopAdvances(3) /\ StopAdvances(4)
  BY StoppedGoesOn
<1> DEFINE At(n) == Leaving /\ MainLeft[mainPc] = n
           Below(n) == Leaving /\ MainLeft[mainPc] < n
<1>2. Inv => /\ mainPc # "down" /\ MustEnd => Below(2) \/ At(2) \/ At(3) \/ At(4)
             /\ Below(4) => Below(2) \/ At(2) \/ At(3)
             /\ Below(3) => Below(2) \/ At(2)
             /\ Below(2) => mainPc \in {"cleanup", "down"}
  BY StopSteps
<1> QED
  BY <1>1, <1>2, FairnessLasts, StopIsAlwaysSeen, PTL
     DEF StopAdvances, Always, FairSpec

\* If closing the server does not wait for open connections, the daemon goes
\* down (daemon.py:214-222).
THEOREM StopsEnd ==
  ASSUME ~WaitClosedWaits
  PROVE  FairSpec /\ []NeverStuck => StopEnds
<1>1. Always /\ []StopIsSeen => StopAdvances(1)
  BY StoppedGoesOn
<1>2. Inv => /\ mainPc \in {"cleanup", "down"} =>
                  mainPc = "down" \/ (Leaving /\ MainLeft[mainPc] = 1)
             /\ MainLeft[mainPc] < 1 => mainPc = "down"
  BY MainLeftValues DEF Inv, TypeOK, MainPcs, Leaving
<1> QED
  BY <1>1, <1>2, StopReachesCleanup, FairnessLasts, StopIsAlwaysSeen, PTL
     DEF StopAdvances, Always, FairSpec, StopEnds

-----------------------------------------------------------------------------
\* The connections that Server.wait_closed waits for.
Open == {c \in Conns : stage[c] # "none"}

\* Only Connect opens a connection.
LEMMA OnlyConnectOpens ==
  ASSUME TypeOK, [Next]_vars
  PROVE  Open' \subseteq Open \/ \E c \in Conns : Connect(c)
<1> USE DEF Open
<1>1. CASE \E c \in Conns : HandlerStep(c) \/ CrashInSave(c)
  BY <1>1, HandlerStepsGoOn
<1>2. CASE Boot \/ Crash \/ StartFails \/ Exit
  BY <1>2 DEF Boot, Crash, StartFails, Exit, LoseMemory, connVars
<1>3. CASE \/ \E b \in BOOLEAN : StartServer(b)
           \/ NoticeStop \/ OpenWindow \/ WindowCompleted \/ WindowExpired \/ AfterWindow
           \/ Wake \/ Stop \/ DiscoveryEnds \/ DiscoveryFails \/ UNCHANGED vars
  BY <1>3 DEF StartServer, NoticeStop, OpenWindow, WindowCompleted, WindowExpired,
     CloseWindow, AfterWindow, Wake, Stop, DiscoveryEnds, DiscoveryFails, connVars, vars
<1> QED
  BY <1>1, <1>2, <1>3 DEF Next, MainStep

LEMMA FinitelyManyOpen == Spec => []IsFiniteSet(Open)
<1>1. Init => IsFiniteSet(Open)
  <2> SUFFICES ASSUME Init PROVE IsFiniteSet(Open)
    OBVIOUS
  <2>1. Open = {}
    BY DEF Init, Open
  <2> QED
    BY <2>1, FS_EmptySet
<1>2. Inv /\ IsFiniteSet(Open) /\ [Next]_vars => IsFiniteSet(Open)'
  <2> SUFFICES ASSUME Inv, IsFiniteSet(Open), [Next]_vars
               PROVE  IsFiniteSet(Open')
    OBVIOUS
  <2>1. CASE Open' \subseteq Open
    BY <2>1, FS_Subset
  <2>2. ASSUME NEW c \in Conns, Connect(c)
        PROVE  IsFiniteSet(Open')
    <3>1. Open' \subseteq Open \cup {c}
      BY <2>2 DEF Connect, Open, Inv, TypeOK
    <3>2. IsFiniteSet(Open \cup {c})
      BY FS_AddElement
    <3> QED
      BY <3>1, <3>2, FS_Subset
  <2> QED
    BY <2>1, <2>2, OnlyConnectOpens DEF Inv
<1> QED
  BY <1>1, <1>2, Invariance, PTL DEF Spec

\* A daemon that closes its server opens no connection, and goes down next.
LEMMA CleanupGoesOn ==
  ASSUME Inv, Inv', mainPc = "cleanup", [Next]_vars
  PROVE  /\ Open' \subseteq Open
         /\ mainPc' \in {"cleanup", "down"}
<1>1. ~(\E c \in Conns : Connect(c))
  BY DEF Connect, Serving
<1>2. MainGoesOn \/ mainPc' = mainPc
  BY MainGoesOnOrStays DEF Inv
<1>3. MainLeft[mainPc'] < MainLeft[mainPc] => mainPc' = "down"
  BY MainLeftValues DEF Inv, TypeOK, MainPcs
<1> QED
  BY <1>1, <1>2, <1>3, OnlyConnectOpens DEF MainGoesOn, Inv

\* While n connections are open, the daemon in _cleanup comes to have fewer, or
\* goes down.
CleanupAdvances(n) ==
    [](mainPc = "cleanup" /\ Cardinality(Open) = n =>
         <>(mainPc = "down" \/ (mainPc = "cleanup" /\ Cardinality(Open) \in 0..(n - 1))))

LEMMA CleanupsAdvance ==
  ASSUME NEW n \in Nat
  PROVE  []Always /\ []IsFiniteSet(Open) => CleanupAdvances(n)
<1> DEFINE At == mainPc = "cleanup" /\ Cardinality(Open) = n
           Later == \/ mainPc = "down"
                    \/ mainPc = "cleanup" /\ Cardinality(Open) \in 0..(n - 1)
<1>1. ASSUME NEW c \in Conns
      PROVE  []Always /\ []IsFiniteSet(Open) => (At /\ stage[c] # "none" => <>Later)
  <2>1. Inv /\ Inv' /\ IsFiniteSet(Open) /\ At /\ stage[c] # "none" /\ [Next]_vars
          => Later' \/ (At /\ stage[c] # "none")'
    <3> SUFFICES ASSUME Inv, Inv', IsFiniteSet(Open), At, stage[c] # "none", [Next]_vars,
                        mainPc' # "down"
                 PROVE  Later' \/ (At /\ stage[c] # "none")'
      OBVIOUS
    <3>1. Open' \subseteq Open /\ mainPc' = "cleanup"
      BY CleanupGoesOn
    <3>2. /\ IsFiniteSet(Open')
          /\ Cardinality(Open') \in Nat
          /\ Cardinality(Open') <= n
          /\ Cardinality(Open') = n => Open' = Open
      BY <3>1, FS_Subset, FS_CardinalityType
    <3>3. c \in Open
      BY DEF Open
    <3>4. Cardinality(Open') = n => stage'[c] # "none"
      BY <3>2, <3>3 DEF Open
    <3> QED
      BY <3>1, <3>2, <3>4
  <2>2. stage[c] = "none" => ~(stage[c] # "none")
    OBVIOUS
  <2> QED
    BY <2>1, <2>2, HandlersEnd, PTL DEF Always
<1>2. []Always /\ []IsFiniteSet(Open) =>
        ((\E c \in Conns : At /\ stage[c] # "none") => <>Later)
  BY <1>1
<1>3. CASE n # 0
  <2>1. IsFiniteSet(Open) /\ At => \E c \in Conns : At /\ stage[c] # "none"
    <3> SUFFICES ASSUME IsFiniteSet(Open), At PROVE \E c \in Conns : stage[c] # "none"
      OBVIOUS
    <3>1. Open # {}
      BY <1>3, FS_EmptySet
    <3> QED
      BY <3>1 DEF Open
  <2> QED
    BY <1>2, <2>1, PTL DEF CleanupAdvances
<1>4. CASE n = 0
  <2>1. Inv /\ Inv' /\ IsFiniteSet(Open) /\ At /\ [Next]_vars => Later' \/ At'
    <3> SUFFICES ASSUME Inv, Inv', IsFiniteSet(Open), At, [Next]_vars, mainPc' # "down"
                 PROVE  At'
      OBVIOUS
    <3>1. Open' \subseteq Open /\ mainPc' = "cleanup"
      BY CleanupGoesOn
    <3>2. Open = {}
      BY <1>4, FS_EmptySet
    <3>3. Open' = {}
      BY <3>1, <3>2
    <3> QED
      BY <1>4, <3>1, <3>3, FS_EmptySet
  <2>2. Inv' /\ At /\ <<MainStep>>_vars => Later'
    BY MainStepsGoOn, MainLeftValues DEF MainGoesOn, Inv, TypeOK, MainPcs
  <2>3. IsFiniteSet(Open) /\ NeverStuck /\ At => ENABLED <<MainStep>>_vars
    <3> SUFFICES ASSUME IsFiniteSet(Open), NeverStuck, At
                 PROVE  ENABLED <<MainStep>>_vars
      OBVIOUS
    <3>1. Open = {}
      BY <1>4, FS_EmptySet
    <3>2. MainMayMove
      BY <3>1 DEF MainMayMove, Open
    <3> QED
      BY <3>2 DEF NeverStuck
  <2>4. Fairness => MainFairness
    BY DEF Fairness
  <2> QED
    BY <2>1, <2>2, <2>3, <2>4, PTL DEF MainFairness, Always, CleanupAdvances
<1> QED
  BY <1>3, <1>4

\* Lamport's rule LATTICE for the number of open connections: what always comes
\* to be smaller, or the end, comes to the end.  It holds of every behaviour,
\* because the natural numbers are well-founded, but takes an induction over a
\* temporal formula, which the prover does not have.
LatticeRule ==
    (\A n \in Nat : CleanupAdvances(n)) =>
        [](mainPc = "cleanup" /\ Cardinality(Open) \in Nat => <>(mainPc = "down"))

\* A daemon that is told to stop, or whose broadcaster has died, goes down, also
\* if it has to wait for its open connections (daemon.py:177-181, 214-222,
\* 291-298, 328): no peer can keep it from that.
THEOREM StopsEndWaiting ==
  FairSpec /\ []NeverStuck /\ LatticeRule => StopEnds
<1>1. []Always /\ []IsFiniteSet(Open) => \A n \in Nat : CleanupAdvances(n)
  BY CleanupsAdvance
<1>2. []Always /\ []IsFiniteSet(Open) /\ LatticeRule =>
        [](mainPc = "cleanup" /\ Cardinality(Open) \in Nat => <>(mainPc = "down"))
  BY <1>1 DEF LatticeRule
<1>3. IsFiniteSet(Open) => Cardinality(Open) \in Nat
  BY FS_CardinalityType
<1>4. mainPc \in {"cleanup", "down"} => mainPc = "cleanup" \/ mainPc = "down"
  OBVIOUS
<1> QED
  BY <1>2, <1>3, <1>4, StopReachesCleanup, FairnessLasts, FinitelyManyOpen, PTL
     DEF FairSpec, StopEnds
=============================================================================
