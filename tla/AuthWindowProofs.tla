-------------------------- MODULE AuthWindowProofs --------------------------
(***************************************************************************)
(* Proofs about the daemon, for every set of connections and of phones.    *)
(***************************************************************************)
EXTENDS AuthWindow, TLAPS

\* The end of a handshake keeps the types, whatever it did to the keys.
LEMMA FinishKeepsTypes ==
  ASSUME TypeOK, NEW c \in Conns, NEW ok \in BOOLEAN, Finish(c, ok),
         trustedKey' \in Keys, keyFile' \in Files, unlockedBy' \in Keys
  PROVE  TypeOK'
<1>1. /\ stage' \in [Conns -> Stages]
      /\ isNew' \in [Conns -> BOOLEAN]
      /\ verificationKey' \in [Conns -> Keys]
      /\ signer' \in [Conns -> Keys]
      /\ inWindow' \subseteq Conns
  BY DEF TypeOK, Finish, Leave, Stages, Keys
<1>2. /\ authCompleted' \in BOOLEAN
      /\ waiterDone' \in BOOLEAN
      /\ authInProgress' \in BOOLEAN
      /\ lastAuthOk' \in BOOLEAN
  BY DEF TypeOK, Finish
<1>3. UNCHANGED <<mainPc, running, wakeupEvent, authPending, discovery, pcKey>>
  BY DEF Finish, mainVars
<1> QED
  BY <1>1, <1>2, <1>3 DEF TypeOK

\* So does the end of the process.
LEMMA LoseMemoryKeepsTypes ==
  ASSUME TypeOK, LoseMemory, keyFile' \in Files
  PROVE  TypeOK'
  BY DEF TypeOK, LoseMemory, MainPcs, Discoveries, Keys, Stages

\* Every step keeps the types.  PairPhone and CrashInSave write the captured
\* key to the file, so that it must be a phone key: DecisionStillHolds.
LEMMA StepKeepsTypes ==
  ASSUME TypeOK, DecisionStillHolds, [Next]_vars
  PROVE  TypeOK'
<1> USE DEF mainVars, flagVars, keyVars, connVars, localVars
<1>1. CASE Boot
  BY <1>1 DEF Boot, LoadedKey, TypeOK, MainPcs, Keys
<1>2. CASE StartFails \/ Crash \/ Exit
  BY <1>2, LoseMemoryKeepsTypes DEF StartFails, Crash, Exit, TypeOK
<1>3. CASE \E b \in BOOLEAN : StartServer(b)
  BY <1>3 DEF StartServer, TypeOK, MainPcs
<1>4. CASE Wake
  BY <1>4 DEF Wake, TypeOK
<1>5. CASE Stop
  BY <1>5 DEF Stop, WakeupAfterStop, TypeOK
<1>6. CASE NoticeStop
  BY <1>6 DEF NoticeStop, TypeOK, MainPcs
<1>7. CASE OpenWindow
  BY <1>7 DEF OpenWindow, TypeOK, MainPcs, Discoveries, Keys
<1>8. CASE WindowCompleted \/ WindowExpired
  BY <1>8 DEF WindowCompleted, WindowExpired, CloseWindow, TypeOK, MainPcs,
              Discoveries
<1>9. CASE AfterWindow
  BY <1>9 DEF AfterWindow, TypeOK, MainPcs, Discoveries
<1>10. CASE DiscoveryEnds \/ DiscoveryFails
  BY <1>10 DEF DiscoveryEnds, DiscoveryFails, TypeOK, Discoveries
<1>11. ASSUME NEW c \in Conns, Connect(c) \/ HandlerStep(c) \/ CrashInSave(c)
       PROVE  TypeOK'
  <2>1. CASE Connect(c)
    BY <2>1 DEF Connect, TypeOK, Stages
  <2>2. CASE Admit(c)
    BY <2>2 DEF Admit, TypeOK, Stages, HandshakeStages
  <2>3. CASE Reject(c)
    BY <2>3 DEF Reject, Leave, TypeOK, Stages, Keys
  <2>4. CASE \E k, fingerprint \in Phones : AcceptHello(c, k, fingerprint)
    BY <2>4 DEF AcceptHello, IsCandidate, TypeOK, Stages, HandshakeStages, Keys
  <2>5. CASE SendChallenge(c)
    BY <2>5 DEF SendChallenge, TypeOK, Stages, HandshakeStages
  <2>6. CASE \E s \in Keys : ReceiveResponse(c, s)
    BY <2>6 DEF ReceiveResponse, TypeOK, Stages, HandshakeStages
  <2>7. CASE \/ AdmitWithoutPcKey(c) \/ FailHandshake(c) \/ RefuseResponse(c)
             \/ \E k, fingerprint \in Phones : RefuseHello(c, k, fingerprint)
    BY <2>7, FinishKeepsTypes
       DEF AdmitWithoutPcKey, FailHandshake, RefuseResponse, RefuseHello, TypeOK
  <2>8. CASE PairPhone(c)
    BY <2>8, FinishKeepsTypes
       DEF PairPhone, UnlockIfAllowed, Valid, DecisionStillHolds,
             HandshakeStages, TypeOK, Keys, Files
  <2>9. CASE SaveFails(c)
    BY <2>9, FinishKeepsTypes DEF SaveFails, TrustAfterFailedSave, TypeOK, Files
  <2>10. CASE UnlockSessions(c)
    BY <2>10, FinishKeepsTypes DEF UnlockSessions, UnlockIfAllowed, TypeOK
  <2>11. CASE CloseConn(c)
    BY <2>11 DEF CloseConn, TypeOK, Stages
  <2>12. CASE CrashInSave(c)
    BY <2>12, LoseMemoryKeepsTypes
       DEF CrashInSave, PartialWrites, Valid, DecisionStillHolds, HandshakeStages, Files
  <2> QED
    BY <1>11, <2>1, <2>2, <2>3, <2>4, <2>5, <2>6, <2>7, <2>8, <2>9, <2>10,
       <2>11, <2>12 DEF HandlerStep, MessageStep, OwnStep
<1>12. CASE UNCHANGED vars
  BY <1>12 DEF vars, TypeOK
<1> QED
  BY <1>1, <1>2, <1>3, <1>4, <1>5, <1>6, <1>7, <1>8, <1>9, <1>10, <1>11,
     <1>12 DEF Next, MainStep

\* When a handshake ends no other is running, so nobody is.
LEMMA FinishFreesTheSlot ==
  ASSUME TypeOK, OneHandshake, NEW c \in Conns, NEW ok \in BOOLEAN,
         Busy(c) \/ ~authInProgress, Finish(c, ok)
  PROVE  /\ OneHandshake'
         /\ DecisionStillHolds'
         /\ OutcomeIsNotStale'
<1>1. \A d \in Conns : ~Busy(d)'
  BY DEF TypeOK, OneHandshake, Busy, Finish, Leave, HandshakeStages
<1>2. ~authInProgress'
  BY DEF Finish
<1> QED
  BY <1>1, <1>2 DEF OneHandshake, DecisionStillHolds, OutcomeIsNotStale, Busy

\* A process that is gone has nothing left to be wrong about.
LEMMA LoseMemoryResets ==
  ASSUME LoseMemory
  PROVE  /\ OneHandshake'
         /\ DecisionStillHolds'
         /\ OutcomeIsNotStale'
         /\ TrustIsOnDisk'
         /\ DiskIsTrusted'
         /\ NothingBeforeStart'
<1>1. \A d \in Conns : stage'[d] = "none"
  BY DEF LoseMemory
<1> QED
  BY <1>1 DEF LoseMemory, OneHandshake, DecisionStillHolds, OutcomeIsNotStale,
              TrustIsOnDisk, DiskIsTrusted, NothingBeforeStart, Busy, HandshakeStages

\* Steps of the main task and of the outside world that do not touch the
\* handshakes, the keys or the outcome of the last handshake.
LEMMA OthersKeepInv ==
  ASSUME Inv,
         UNCHANGED <<stage, isNew, verificationKey, authInProgress, trustedKey, keyFile>>,
         \/ UNCHANGED <<authCompleted, lastAuthOk>>
         \/ ~authCompleted' /\ ~lastAuthOk',
         mainPc # "down",
         mainPc' = mainPc \/ mainPc' \notin {"down", "starting"}
  PROVE  /\ OneHandshake'
         /\ DecisionStillHolds'
         /\ OutcomeIsNotStale'
         /\ TrustIsOnDisk'
         /\ DiskIsTrusted'
         /\ NothingBeforeStart'
  BY DEF Inv, OneHandshake, DecisionStillHolds, OutcomeIsNotStale,
         TrustIsOnDisk, DiskIsTrusted, NothingBeforeStart, Busy

\* Every step of a connection keeps the invariant.
LEMMA ConnectionKeepsInv ==
  ASSUME Inv, TypeOK', NEW c \in Conns,
         Connect(c) \/ HandlerStep(c) \/ CrashInSave(c)
  PROVE  Inv'
<1> USE DEF mainVars, flagVars, keyVars, localVars
<1> DEFINE HandshakeInv == OneHandshake /\ DecisionStillHolds /\ OutcomeIsNotStale
           KeyInv == TrustIsOnDisk /\ DiskIsTrusted /\ NothingBeforeStart
<1>1. SUFFICES HandshakeInv' /\ KeyInv'
  BY DEF Inv
<1>2. ASSUME Busy(c) \/ (stage[c] = "queued" /\ MayAdmit),
             \E ok \in BOOLEAN : Finish(c, ok),
             UNCHANGED <<trustedKey, keyFile>>
      PROVE  HandshakeInv' /\ KeyInv'
  <2>1. HandshakeInv'
    BY <1>2, FinishFreesTheSlot DEF Inv, MayAdmit
  <2>2. mainPc' = mainPc /\ mainPc \notin {"down", "starting"}
    BY <1>2 DEF Inv, NothingBeforeStart, Busy, HandshakeStages, Finish
  <2> QED
    BY <1>2, <2>1, <2>2 DEF Inv, TrustIsOnDisk, DiskIsTrusted, NothingBeforeStart
<1>3. CASE Connect(c) \/ CloseConn(c)
  <2>1. /\ mainPc' = mainPc /\ mainPc \notin {"down", "starting"}
        /\ UNCHANGED <<trustedKey, keyFile, isNew, verificationKey,
                       authInProgress, authCompleted, lastAuthOk>>
    BY <1>3 DEF Connect, CloseConn, Serving, Inv, NothingBeforeStart
  <2>2. \A d \in Conns : stage'[d] = stage[d] \/ d = c
    BY <1>3 DEF Connect, CloseConn, Inv, TypeOK
  <2>3. ~Busy(c) /\ ~Busy(c)'
    BY <1>3 DEF Connect, CloseConn, Busy, HandshakeStages, Inv, TypeOK
  <2>4. \A d \in Conns : /\ Busy(d)' <=> Busy(d)
                         /\ Busy(d)' => stage'[d] = stage[d]
    BY <2>2, <2>3 DEF Busy
  <2> QED
    BY <2>1, <2>4 DEF Inv, OneHandshake, DecisionStillHolds, OutcomeIsNotStale,
       TrustIsOnDisk, DiskIsTrusted, NothingBeforeStart, Busy
<1>4. CASE Admit(c)
  <2>1. /\ mainPc' = mainPc /\ mainPc \notin {"down", "starting"}
        /\ UNCHANGED <<trustedKey, keyFile>>
    BY <1>4 DEF Admit, Inv, NothingBeforeStart
  <2>2. \A d \in Conns : ~Busy(d)
    BY <1>4 DEF Admit, MayAdmit, Inv, OneHandshake
  <2>3. \A d \in Conns : stage'[d] = IF d = c THEN "hello" ELSE stage[d]
    BY <1>4 DEF Admit, Inv, TypeOK
  <2>4. HandshakeInv'
    BY <1>4, <2>2, <2>3 DEF Admit, OneHandshake, DecisionStillHolds,
       OutcomeIsNotStale, Busy, HandshakeStages
  <2> QED
    BY <2>1, <2>4 DEF Inv, TrustIsOnDisk, DiskIsTrusted, NothingBeforeStart
<1>5. CASE Reject(c)
  <2>1. /\ mainPc' = mainPc /\ mainPc \notin {"down", "starting"}
        /\ UNCHANGED <<trustedKey, keyFile, authInProgress, authCompleted, lastAuthOk>>
    BY <1>5 DEF Reject, Inv, NothingBeforeStart
  <2>2. ~Busy(c) /\ ~Busy(c)'
    BY <1>5 DEF Reject, Leave, Busy, HandshakeStages, Inv, TypeOK
  <2>3. \A d \in Conns \ {c} : /\ stage'[d] = stage[d]
                               /\ isNew'[d] = isNew[d]
                               /\ verificationKey'[d] = verificationKey[d]
    BY <1>5 DEF Reject, Leave, Inv, TypeOK
  <2> QED
    BY <2>1, <2>2, <2>3 DEF Inv, OneHandshake, DecisionStillHolds, OutcomeIsNotStale,
       TrustIsOnDisk, DiskIsTrusted, NothingBeforeStart, Busy
<1>6. CASE \/ \E k, fingerprint \in Phones : AcceptHello(c, k, fingerprint)
           \/ SendChallenge(c)
           \/ \E s \in Keys : ReceiveResponse(c, s)
  <2>1. Busy(c) /\ Busy(c)' /\ stage'[c] # "hello"
    BY <1>6 DEF AcceptHello, SendChallenge, ReceiveResponse, Busy, HandshakeStages,
       Inv, TypeOK
  <2>2. /\ mainPc' = mainPc /\ mainPc \notin {"down", "starting"}
        /\ UNCHANGED <<trustedKey, keyFile, authInProgress, authCompleted, lastAuthOk>>
    BY <1>6, <2>1 DEF AcceptHello, SendChallenge, ReceiveResponse, Inv,
       NothingBeforeStart, Busy, HandshakeStages
  <2>3. \A d \in Conns \ {c} : stage'[d] = stage[d] /\ ~Busy(d) /\ ~Busy(d)'
    BY <1>6, <2>1 DEF AcceptHello, SendChallenge, ReceiveResponse, Inv, TypeOK,
       OneHandshake, Busy
  <2>4. /\ verificationKey'[c] \in Phones
        /\ isNew'[c] <=> trustedKey' = NoKey
        /\ ~isNew'[c] => verificationKey'[c] = trustedKey'
    <3>1. CASE \E k, fingerprint \in Phones : AcceptHello(c, k, fingerprint)
      BY <3>1, <2>2 DEF AcceptHello, MayAcceptHello, IsCandidate, Inv, TypeOK
    <3>2. CASE SendChallenge(c) \/ \E s \in Keys : ReceiveResponse(c, s)
      BY <3>2, <2>2 DEF SendChallenge, ReceiveResponse, Inv, DecisionStillHolds,
         HandshakeStages
    <3> QED
      BY <1>6, <3>1, <3>2
  <2> QED
    BY <2>1, <2>2, <2>3, <2>4 DEF Inv, OneHandshake, DecisionStillHolds,
       OutcomeIsNotStale, TrustIsOnDisk, DiskIsTrusted, NothingBeforeStart, Busy
<1>7. CASE \/ AdmitWithoutPcKey(c) \/ FailHandshake(c) \/ RefuseResponse(c)
           \/ \E k, fingerprint \in Phones : RefuseHello(c, k, fingerprint)
           \/ UnlockSessions(c)
  <2>1. /\ Busy(c) \/ (stage[c] = "queued" /\ MayAdmit)
        /\ \E ok \in BOOLEAN : Finish(c, ok)
        /\ UNCHANGED <<trustedKey, keyFile>>
    BY <1>7 DEF AdmitWithoutPcKey, FailHandshake, RefuseResponse, RefuseHello,
       UnlockSessions, Interruptible, Valid, Busy, HandshakeStages
  <2> QED
    BY <1>2, <2>1
<1>8. CASE PairPhone(c) \/ SaveFails(c)
  <2>1. Busy(c) /\ Valid(c) /\ isNew[c] /\ \E ok \in BOOLEAN : Finish(c, ok)
    BY <1>8 DEF PairPhone, SaveFails, Valid, Busy, HandshakeStages
  <2>2. HandshakeInv'
    BY <2>1, FinishFreesTheSlot DEF Inv
  <2>3. mainPc' = mainPc /\ mainPc \notin {"down", "starting"}
    BY <2>1 DEF Inv, NothingBeforeStart, Busy, HandshakeStages, Finish
  <2>4. trustedKey = NoKey
    BY <2>1 DEF Inv, DecisionStillHolds, Valid, HandshakeStages
  <2>5. CASE PairPhone(c)
    BY <2>2, <2>3, <2>5 DEF PairPhone, TrustIsOnDisk, DiskIsTrusted, NothingBeforeStart
  <2>6. CASE SaveFails(c)
    BY <2>2, <2>3, <2>4, <2>6, KeyAssumption
       DEF SaveFails, TrustAfterFailedSave, Inv, TrustIsOnDisk, DiskIsTrusted,
           NothingBeforeStart
  <2> QED
    BY <1>8, <2>5, <2>6
<1>9. CASE CrashInSave(c)
  BY <1>9, LoseMemoryResets DEF CrashInSave
<1> QED
  BY <1>3, <1>4, <1>5, <1>6, <1>7, <1>8, <1>9 DEF HandlerStep, MessageStep, OwnStep

\* The inductive invariant.
THEOREM Invariance == Spec => []Inv
<1>1. Init => Inv
  BY KeyAssumption DEF Init, Inv, TypeOK, OneHandshake, DecisionStillHolds,
     TrustIsOnDisk, OutcomeIsNotStale, DiskIsTrusted, NothingBeforeStart, Busy,
     HandshakeStages, MainPcs, Discoveries, Stages, Keys, Files
<1>2. Inv /\ [Next]_vars => Inv'
  <2> SUFFICES ASSUME Inv, [Next]_vars PROVE Inv'
    OBVIOUS
  <2> USE DEF mainVars, flagVars, keyVars, connVars, localVars
  <2>0. TypeOK'
    BY StepKeepsTypes DEF Inv
  <2>1. CASE Boot
    <3>1. \A c \in Conns : ~Busy(c) /\ ~Busy(c)' /\ stage'[c] = "none"
      BY <2>1 DEF Boot, Inv, NothingBeforeStart, Busy, HandshakeStages
    <3>2. trustedKey' \in LoadedKey(keyFile) /\ UNCHANGED <<keyFile, authInProgress>>
      BY <2>1 DEF Boot
    <3>3. TrustIsOnDisk' /\ DiskIsTrusted'
      BY <3>2 DEF LoadedKey, TrustIsOnDisk, DiskIsTrusted
    <3>4. mainPc' = "starting"
      BY <2>1 DEF Boot
    <3> QED
      BY <2>0, <3>1, <3>2, <3>3, <3>4 DEF Inv, OneHandshake, DecisionStillHolds,
         OutcomeIsNotStale, NothingBeforeStart, Busy, HandshakeStages
  <2>2. CASE StartFails \/ Crash \/ Exit
    BY <2>0, <2>2, LoseMemoryResets DEF StartFails, Crash, Exit, Inv
  <2>3. CASE (\E b \in BOOLEAN : StartServer(b)) \/ Wake \/ Stop \/ NoticeStop
    BY <2>0, <2>3, OthersKeepInv DEF StartServer, Wake, Stop, NoticeStop, Inv
  <2>4. CASE OpenWindow \/ WindowCompleted \/ WindowExpired \/ AfterWindow
    BY <2>0, <2>4, OthersKeepInv
       DEF OpenWindow, WindowCompleted, WindowExpired, CloseWindow, AfterWindow, Inv
  <2>5. CASE DiscoveryEnds \/ DiscoveryFails
    BY <2>0, <2>5, OthersKeepInv DEF DiscoveryEnds, DiscoveryFails, Inv
  <2>6. CASE \E c \in Conns : Connect(c) \/ HandlerStep(c) \/ CrashInSave(c)
    BY <2>0, <2>6, ConnectionKeepsInv
  <2>7. CASE UNCHANGED vars
    BY <2>0, <2>7 DEF vars, Inv, OneHandshake, DecisionStillHolds, TrustIsOnDisk,
       OutcomeIsNotStale, DiskIsTrusted, NothingBeforeStart, Busy
  <2> QED
    BY <2>1, <2>2, <2>3, <2>4, <2>5, <2>6, <2>7 DEF Next, MainStep
<1> QED
  BY <1>1, <1>2, PTL DEF Spec

\* Every variable keeps its type.
THEOREM TypeCorrect == Spec => []TypeOK
  BY Invariance, PTL DEF Inv

\* One handshake at a time, and the flag tells (daemon.py:249-281).
THEOREM HandshakesExclude == Spec => []OneHandshake
  BY Invariance, PTL DEF Inv

\* What a handshake decided when it read the hello stays true until it acts on
\* it (daemon.py:371-379 against 437-440).
THEOREM DecisionsStand == Spec => []DecisionStillHolds
  BY Invariance, PTL DEF Inv

\* What the daemon trusts is on disk, through failed writes and crashes.
THEOREM TrustIsPersistent == Spec => []TrustIsOnDisk
  BY Invariance, PTL DEF Inv

\* A running handshake never shows the outcome of an earlier one.
THEOREM OutcomeBelongsToLast == Spec => []OutcomeIsNotStale
  BY Invariance, PTL DEF Inv

(***************************************************************************)
(* The daemon implements TofuPolicy, provided that a good key file can     *)
(* always be read at start.                                                *)
(***************************************************************************)
\* A step never rewrites a key file that holds a phone key: whoever writes it
\* is a candidate, so nothing is trusted, so the file held no phone key.
LEMMA StepKeepsPin ==
  ASSUME ~ReadFaults, Inv, [Next]_vars, keyFile \in Phones
  PROVE  keyFile' = keyFile
<1> USE DEF keyVars
<1>1. ASSUME NEW c \in Conns, Valid(c), isNew[c] PROVE FALSE
  BY <1>1, KeyAssumption DEF Inv, DecisionStillHolds, DiskIsTrusted,
     NothingBeforeStart, Valid, HandshakeStages
<1>2. CASE Boot \/ MainStep \/ Wake \/ Stop \/ DiscoveryEnds \/ DiscoveryFails \/ Crash
  BY <1>2 DEF Boot, MainStep, StartServer, StartFails, NoticeStop, OpenWindow,
     WindowCompleted, WindowExpired, CloseWindow, AfterWindow, Exit, Wake, Stop,
     DiscoveryEnds, DiscoveryFails, Crash
<1>3. ASSUME NEW c \in Conns, Connect(c) \/ HandlerStep(c) \/ CrashInSave(c)
      PROVE  keyFile' = keyFile
  BY <1>1, <1>3 DEF HandlerStep, MessageStep, OwnStep, Connect, Admit, AdmitWithoutPcKey, Reject,
     AcceptHello, RefuseHello, SendChallenge, ReceiveResponse, FailHandshake,
     RefuseResponse, PairPhone, SaveFails, UnlockSessions, CloseConn, CrashInSave
<1>4. CASE UNCHANGED vars
  BY <1>4 DEF vars
<1> QED
  BY <1>2, <1>3, <1>4 DEF Next

\* Once a phone is pinned on disk it stays pinned, through every interleaving
\* of handshakes, failed write, crash and restart.
THEOREM PinIsKept ==
  ASSUME ~ReadFaults
  PROVE  Spec => PinIsNeverReplaced
<1>1. Inv /\ [Next]_vars => [(keyFile \in Phones) => keyFile' = keyFile]_vars
  BY StepKeepsPin
<1> QED
  BY <1>1, Invariance, PTL DEF Spec, PinIsNeverReplaced

-----------------------------------------------------------------------------
\* proven is the key of the one handshake whose response is valid, in this
\* state and in the next.
LEMMA ProvenIsValidKey ==
  ASSUME OneHandshake, NEW c \in Conns, Valid(c)
  PROVE  proven = verificationKey[c]
<1>1. \A d \in Conns : Valid(d) => d = c
  BY DEF OneHandshake, Valid, Busy, HandshakeStages
<1>2. (CHOOSE d \in Conns : Valid(d)) = c
  BY <1>1
<1> QED
  BY <1>2 DEF proven

LEMMA ProvenIsValidKeyNext ==
  ASSUME OneHandshake', NEW c \in Conns, Valid(c)'
  PROVE  proven' = verificationKey'[c]
<1>1. \A d \in Conns : Valid(d)' => d = c
  BY DEF OneHandshake, Valid, Busy, HandshakeStages
<1>2. (CHOOSE d \in Conns : Valid(d)') = c
  BY <1>1
<1> QED
  BY <1>2 DEF proven

\* A step that changes no valid response changes no proof.
LEMMA SameProven ==
  ASSUME OneHandshake, OneHandshake',
         \A d \in Conns : Valid(d)' <=> Valid(d),
         \A d \in Conns : Valid(d) => verificationKey'[d] = verificationKey[d]
  PROVE  proven' = proven
<1>1. CASE \E c \in Conns : Valid(c)
  <2>1. PICK c \in Conns : Valid(c)
    BY <1>1
  <2> QED
    BY <2>1, ProvenIsValidKey, ProvenIsValidKeyNext
<1>2. CASE ~\E c \in Conns : Valid(c)
  BY <1>2 DEF proven
<1> QED
  BY <1>1, <1>2

\* When the handshake of c ends, or the process does, no proof is left.
LEMMA NoProofAfterFinish ==
  ASSUME TypeOK, OneHandshake, NEW c \in Conns, NEW ok \in BOOLEAN,
         Busy(c) \/ ~authInProgress, Finish(c, ok)
  PROVE  proven' = NoKey
<1>1. \A d \in Conns : ~Valid(d)'
  BY DEF TypeOK, OneHandshake, Busy, Valid, Finish, Leave, HandshakeStages
<1> QED
  BY <1>1 DEF proven

LEMMA NoProofAfterLoss ==
  ASSUME LoseMemory
  PROVE  proven' = NoKey /\ unlockedBy' = unlockedBy
<1>1. \A d \in Conns : ~Valid(d)'
  BY DEF Valid, LoseMemory
<1> QED
  BY <1>1 DEF proven, LoseMemory

\* What a valid response means for the key file.
LEMMA ValidResponse ==
  ASSUME ~ReadFaults, Inv, NEW c \in Conns, Valid(c)
  PROVE  /\ proven = verificationKey[c]
         /\ proven \in Phones
         /\ isNew[c] => trustedKey = NoKey /\ keyFile \notin Phones
         /\ ~isNew[c] => keyFile = verificationKey[c]
<1>1. proven = verificationKey[c]
  BY ProvenIsValidKey DEF Inv
<1>2. /\ verificationKey[c] \in Phones
      /\ isNew[c] <=> trustedKey = NoKey
      /\ ~isNew[c] => verificationKey[c] = trustedKey
  BY DEF Inv, DecisionStillHolds, Valid, HandshakeStages
<1>3. mainPc # "down"
  BY DEF Inv, NothingBeforeStart, Valid
<1> QED
  BY <1>1, <1>2, <1>3, KeyAssumption DEF Inv, TrustIsOnDisk, DiskIsTrusted

\* The key the policy sees as pinned.
pinnedKey == IF keyFile \in Phones THEN keyFile ELSE NoKey

\* A step that leaves the proof, the file and the sessions alone stutters.
LEMMA Stutters ==
  ASSUME proven' = proven, keyFile' = keyFile, unlockedBy' = unlockedBy
  PROVE  UNCHANGED <<pinnedKey, proven, unlockedBy>>
  BY DEF pinnedKey

\* Steps of the main task are invisible to the policy, except that a new
\* window stands for sessions that were locked again.
LEMMA MainStepImplements ==
  ASSUME Inv, Inv', Boot \/ Wake \/ Stop \/ DiscoveryEnds \/ DiscoveryFails
                    \/ (\E b \in BOOLEAN : StartServer(b)) \/ NoticeStop \/ OpenWindow
                    \/ WindowCompleted \/ WindowExpired \/ AfterWindow
  PROVE  \/ UNCHANGED <<pinnedKey, proven, unlockedBy>>
         \/ Policy!Lock
<1> USE DEF mainVars, flagVars, keyVars, connVars, localVars
<1>1. UNCHANGED <<stage, signer, verificationKey, keyFile>>
  BY DEF Boot, Wake, Stop, DiscoveryEnds, DiscoveryFails, StartServer, NoticeStop,
     OpenWindow, WindowCompleted, WindowExpired, CloseWindow, AfterWindow
<1>2. unlockedBy' \in {unlockedBy, NoKey}
  BY DEF Boot, Wake, Stop, DiscoveryEnds, DiscoveryFails, StartServer, NoticeStop,
     OpenWindow, WindowCompleted, WindowExpired, CloseWindow, AfterWindow
<1>3. proven' = proven
  BY <1>1, SameProven DEF Inv, Valid
<1> QED
  BY <1>1, <1>2, <1>3, Stutters DEF Policy!Lock, pinnedKey

\* The process may die while a proof is outstanding, and in the middle of
\* writing the key: the proof is lost, or it has pinned its key.
LEMMA LossImplements ==
  ASSUME ~ReadFaults, Inv, LoseMemory,
         \/ keyFile' = keyFile
         \/ \E c \in Conns : CrashInSave(c)
  PROVE  \/ UNCHANGED <<pinnedKey, proven, unlockedBy>>
         \/ Policy!Pin \/ Policy!Abandon
<1>1. proven' = NoKey /\ unlockedBy' = unlockedBy
  BY NoProofAfterLoss
<1>2. CASE keyFile' = keyFile
  <2>1. CASE proven = NoKey
    BY <1>1, <1>2, <2>1, Stutters
  <2>2. CASE proven # NoKey
    BY <1>1, <1>2, <2>2 DEF Policy!Abandon
  <2> QED
    BY <2>1, <2>2
<1>3. ASSUME NEW c \in Conns, CrashInSave(c)
      PROVE  Policy!Pin \/ Policy!Abandon
  <2>1. Valid(c) /\ isNew[c] /\ keyFile' \in {Torn, verificationKey[c]}
    BY <1>3 DEF CrashInSave, PartialWrites
  <2>2. proven = verificationKey[c] /\ proven \in Phones /\ keyFile \notin Phones
    BY <2>1, ValidResponse
  <2>3. CASE keyFile' = Torn
    BY <1>1, <2>2, <2>3, KeyAssumption DEF Policy!Abandon
  <2>4. CASE keyFile' = verificationKey[c]
    BY <1>1, <2>2, <2>4, KeyAssumption DEF Policy!Pin
  <2> QED
    BY <2>1, <2>3, <2>4
<1> QED
  BY <1>2, <1>3

\* A connection proves its key when its response verifies, and uses the proof
\* up when its handshake ends: to pin, to unlock, or for nothing.
LEMMA ConnectionImplements ==
  ASSUME ~ReadFaults, Inv, Inv', NEW c \in Conns, Connect(c) \/ HandlerStep(c)
  PROVE  \/ UNCHANGED <<pinnedKey, proven, unlockedBy>>
         \/ \E k \in Phones : Policy!Prove(k)
         \/ Policy!Pin \/ Policy!Unlock \/ Policy!Abandon
<1> USE DEF mainVars, flagVars, keyVars, localVars
<1>1. CASE Connect(c) \/ Admit(c) \/ SendChallenge(c) \/ CloseConn(c) \/ Reject(c)
           \/ \E k, fingerprint \in Phones : AcceptHello(c, k, fingerprint)
  <2>1. ~Valid(c) /\ ~Valid(c)'
    BY <1>1 DEF Connect, Admit, SendChallenge, CloseConn, Reject, Leave, AcceptHello,
       Valid, Inv, TypeOK
  <2>2. \A d \in Conns \ {c} : /\ stage'[d] = stage[d]
                               /\ signer'[d] = signer[d]
                               /\ verificationKey'[d] = verificationKey[d]
    BY <1>1 DEF Connect, Admit, SendChallenge, CloseConn, Reject, Leave, AcceptHello,
       Inv, TypeOK
  <2>3. proven' = proven
    BY <2>1, <2>2, SameProven DEF Inv, Valid
  <2>4. UNCHANGED <<keyFile, unlockedBy>>
    BY <1>1 DEF Connect, Admit, SendChallenge, CloseConn, Reject, AcceptHello
  <2> QED
    BY <2>3, <2>4, Stutters
<1>2. ASSUME NEW s \in Keys, ReceiveResponse(c, s)
      PROVE  \/ UNCHANGED <<pinnedKey, proven, unlockedBy>>
             \/ \E k \in Phones : Policy!Prove(k)
  <2>1. UNCHANGED <<keyFile, unlockedBy, verificationKey, trustedKey, isNew, mainPc>>
    BY <1>2 DEF ReceiveResponse
  <2>2. \A d \in Conns : ~Valid(d)
    BY <1>2 DEF ReceiveResponse, Inv, OneHandshake, Valid, Busy, HandshakeStages
  <2>3. proven = NoKey
    BY <2>2 DEF proven
  <2>4. CASE Valid(c)'
    <3>1. proven' = verificationKey[c]
      BY <2>1, <2>4, ProvenIsValidKeyNext DEF Inv
    <3>2. verificationKey[c] \in Phones /\ keyFile \in Phones => keyFile = verificationKey[c]
      BY <1>2, KeyAssumption DEF ReceiveResponse, Inv, DecisionStillHolds, TrustIsOnDisk,
         DiskIsTrusted, NothingBeforeStart, HandshakeStages
    <3>3. verificationKey[c] \in Phones
      BY <1>2 DEF ReceiveResponse, Inv, DecisionStillHolds, HandshakeStages
    <3> QED
      BY <2>1, <2>3, <3>1, <3>2, <3>3 DEF Policy!Prove
  <2>5. CASE ~Valid(c)'
    <3>1. \A d \in Conns : ~Valid(d)'
      BY <1>2, <2>2, <2>5 DEF ReceiveResponse, Valid, Inv, TypeOK
    <3> QED
      BY <2>1, <2>3, <3>1, Stutters DEF proven
  <2> QED
    BY <2>4, <2>5
<1>3. CASE \/ AdmitWithoutPcKey(c) \/ FailHandshake(c) \/ RefuseResponse(c)
           \/ \E k, fingerprint \in Phones : RefuseHello(c, k, fingerprint)
  <2>1. /\ Busy(c) \/ ~authInProgress
        /\ ~Valid(c)
        /\ \E ok \in BOOLEAN : Finish(c, ok)
        /\ UNCHANGED <<keyFile, unlockedBy>>
    BY <1>3 DEF AdmitWithoutPcKey, FailHandshake, RefuseResponse, RefuseHello,
       MayAdmit, Interruptible, Valid, Busy, HandshakeStages
  <2>2. \A d \in Conns : ~Valid(d)
    BY <2>1 DEF Inv, OneHandshake, Valid, Busy, HandshakeStages
  <2>3. proven = NoKey /\ proven' = NoKey
    BY <2>1, <2>2, NoProofAfterFinish DEF Inv, proven
  <2> QED
    BY <2>1, <2>3, Stutters
<1>4. CASE PairPhone(c) \/ SaveFails(c) \/ UnlockSessions(c)
  <2>1. Valid(c) /\ Busy(c) /\ \E ok \in BOOLEAN : Finish(c, ok)
    BY <1>4 DEF PairPhone, SaveFails, UnlockSessions, Valid, Busy, HandshakeStages
  <2>2. /\ proven = verificationKey[c]
        /\ proven \in Phones
        /\ isNew[c] => keyFile \notin Phones
        /\ ~isNew[c] => keyFile = verificationKey[c]
    BY <2>1, ValidResponse
  <2>3. proven' = NoKey
    BY <2>1, NoProofAfterFinish DEF Inv
  <2>4. CASE PairPhone(c)
    BY <2>2, <2>3, <2>4, KeyAssumption
       DEF PairPhone, UnlockIfAllowed, MayUnlock, Policy!Pin
  <2>5. CASE SaveFails(c)
    BY <2>2, <2>3, <2>5, KeyAssumption DEF SaveFails, Policy!Abandon
  <2>6. CASE UnlockSessions(c)
    BY <2>2, <2>3, <2>6, KeyAssumption
       DEF UnlockSessions, UnlockIfAllowed, MayUnlock, Policy!Unlock,
           Policy!Abandon
  <2> QED
    BY <1>4, <2>4, <2>5, <2>6
<1> QED
  BY <1>1, <1>2, <1>3, <1>4 DEF HandlerStep, MessageStep, OwnStep

\* Refinement: the daemon's keys and sessions behave as TofuPolicy says.
THEOREM DaemonImplementsPolicy ==
  ASSUME ~ReadFaults
  PROVE  Spec => ImplementsPolicy
<1>1. Init => Policy!PolicyInit
  <2> SUFFICES ASSUME Init PROVE Policy!PolicyInit
    OBVIOUS
  <2>1. proven = NoKey
    BY DEF Init, proven, Valid
  <2> QED
    BY <2>1 DEF Init, Policy!PolicyInit, Files
<1>2. Inv /\ Inv' /\ [Next]_vars => [Policy!PolicyNext]_(Policy!policyVars)
  <2> SUFFICES ASSUME Inv, Inv', [Next]_vars
               PROVE  \/ Policy!PolicyNext
                      \/ UNCHANGED <<pinnedKey, proven, unlockedBy>>
    BY DEF Policy!policyVars, pinnedKey
  <2>1. CASE Boot \/ MainStep \/ Wake \/ Stop \/ DiscoveryEnds \/ DiscoveryFails \/ Crash
    <3>1. CASE StartFails \/ Exit \/ Crash
      <4>1. LoseMemory /\ keyFile' = keyFile
        BY <3>1 DEF StartFails, Exit, Crash
      <4> QED
        BY <4>1, LossImplements DEF Policy!PolicyNext
    <3>2. CASE ~(StartFails \/ Exit \/ Crash)
      BY <2>1, <3>2, MainStepImplements DEF MainStep, Policy!PolicyNext
    <3> QED
      BY <3>1, <3>2
  <2>2. ASSUME NEW c \in Conns, Connect(c) \/ HandlerStep(c) \/ CrashInSave(c)
        PROVE  \/ Policy!PolicyNext
               \/ UNCHANGED <<pinnedKey, proven, unlockedBy>>
    <3>1. CASE CrashInSave(c)
      <4>1. LoseMemory /\ \E d \in Conns : CrashInSave(d)
        BY <3>1 DEF CrashInSave
      <4> QED
        BY <4>1, LossImplements DEF Policy!PolicyNext
    <3>2. CASE Connect(c) \/ HandlerStep(c)
      BY <3>2, ConnectionImplements DEF Policy!PolicyNext
    <3> QED
      BY <2>2, <3>1, <3>2
  <2>3. CASE UNCHANGED vars
    <3>1. UNCHANGED <<stage, signer, verificationKey, keyFile, unlockedBy>>
      BY <2>3 DEF vars, connVars, localVars, keyVars
    <3>2. proven' = proven
      BY <3>1, SameProven DEF Inv, Valid
    <3> QED
      BY <3>1, <3>2, Stutters
  <2> QED
    BY <2>1, <2>2, <2>3 DEF Next
<1> QED
  BY <1>1, <1>2, Invariance, PTL DEF Spec, ImplementsPolicy, Policy!PolicySpec

\* A consequence of the policy, hence of the daemon: whatever the connections
\* do, sessions are unlocked by the pinned phone only.
THEOREM OnlyThePinnedPhoneUnlocks ==
  ASSUME ~ReadFaults
  PROVE  Spec => []UnlockedByPinned
<1>1. Policy!PolicyInit => UnlockedByPinned
  BY DEF Policy!PolicyInit, UnlockedByPinned, Policy!UnlockedByPinned
<1>2. UnlockedByPinned /\ [Policy!PolicyNext]_(Policy!policyVars) => UnlockedByPinned'
  BY DEF UnlockedByPinned, Policy!UnlockedByPinned, Policy!PolicyNext,
         Policy!policyVars, Policy!Prove, Policy!Pin, Policy!Unlock,
         Policy!Abandon, Policy!Lock
<1> QED
  BY <1>1, <1>2, DaemonImplementsPolicy, PTL DEF ImplementsPolicy, Policy!PolicySpec
=============================================================================
