--------------------------- MODULE PairingProofs ---------------------------
(***************************************************************************)
(* Proofs about a phone and a PC together, for every set of connections,   *)
(* of other peers' keys, of sessions and of configuration files.           *)
(***************************************************************************)
EXTENDS Pairing, AuthWindowProofs, FiniteSetTheorems

(***************************************************************************)
(* The daemon does here what AuthWindow says                               *)
(***************************************************************************)
\* A step of the daemon's main task, or something that happens to the process.
LEMMA MainStepsAreSteps ==
  ASSUME PcBoots \/ PcMainStep \/ PcWakes \/ PcDisturbed
  PROVE  Next
<1>1. CASE PcBoots
  BY <1>1 DEF PcBoots, Next
<1>2. CASE PcOpensWindow
  BY <1>2 DEF PcOpensWindow, Next, MainStep
<1>3. CASE PcRuns
  <2>1. UnlockOnStart(file) \in BOOLEAN
    BY DEF UnlockOnStart
  <2> QED
    BY <1>3, <2>1 DEF PcRuns, Next, MainStep
<1>4. CASE PcWakes \/ PcDisturbed
  BY <1>4 DEF PcWakes, PcDisturbed, Next
<1> QED
  BY <1>1, <1>2, <1>3, <1>4 DEF PcMainStep

\* A step of a handler.
LEMMA HandlerStepsAreSteps ==
  ASSUME NEW c \in Conns, PcStep(c)
  PROVE  Next
<1>1. CASE PcReadsHello(c)
  <2>1. \E k, fingerprint \in Phones :
          AcceptHello(c, k, fingerprint) \/ RefuseHello(c, k, fingerprint)
    BY <1>1, PhoneAssumption DEF PcReadsHello
  <2> QED
    BY <2>1 DEF Next, HandlerStep, MessageStep
<1>2. CASE PcReadsResponse(c)
  <2>1. \E s \in Keys : ReceiveResponse(c, s)
    BY <1>2, PhoneAssumption DEF PcReadsResponse, Keys
  <2> QED
    BY <2>1 DEF Next, HandlerStep, MessageStep
<1>3. CASE PcSendsChallenge(c) \/ PcGivesUp(c) \/ PcUnlocks(c) \/ PcHandles(c)
  <2>1. OwnStep(c) \/ CrashInSave(c)
    BY <1>3 DEF PcSendsChallenge, PcGivesUp, PcUnlocks, PcHandles, OwnStep
  <2> QED
    BY <2>1 DEF Next, HandlerStep
<1> QED
  BY <1>1, <1>2, <1>3 DEF PcStep

\* A new connection; every other step of the phone leaves the daemon alone.
LEMMA OutsideStepsAreSteps ==
  ASSUME \/ \E c \in Conns : OtherConnects(c)
         \/ \E a \in Attempts : PhoneConnects(a) \/ PhoneStep(a) \/ PhoneResponds(a)
         \/ PhoneFlushes \/ PhoneDies \/ BecomeCalm
  PROVE  [Next]_vars
<1>1. CASE \E c \in Conns : OtherConnects(c)
  BY <1>1 DEF OtherConnects, Arrives, Next
<1>2. CASE \E a \in Attempts : PhoneConnects(a)
  BY <1>2 DEF PhoneConnects, Arrives, Next
<1>3. CASE \E a \in Attempts : PhoneStep(a) \/ PhoneResponds(a)
  BY <1>3 DEF PhoneStep, PhoneReads, PhoneSaves, PhoneGivesUp, PhoneResponds
<1>4. CASE PhoneFlushes \/ PhoneDies \/ BecomeCalm
  BY <1>4 DEF PhoneFlushes, PhoneDies, BecomeCalm
<1> QED
  BY <1>1, <1>2, <1>3, <1>4

\* So every step of the two together is one of the daemon, or none of its.
LEMMA PairStepsAreSteps == [PairNext]_pairVars => [Next]_vars
<1>1. CASE PairNext
  BY <1>1, MainStepsAreSteps, HandlerStepsAreSteps, OutsideStepsAreSteps DEF PairNext
<1>2. CASE UNCHANGED pairVars
  BY <1>2 DEF pairVars
<1> QED
  BY <1>1, <1>2

\* The daemon that talks to a real phone is the daemon of AuthWindow: what is
\* proved there of its keys, its windows and its handshakes holds here.
THEOREM DaemonIsAuthWindow == PairSpec => Spec
<1>1. PairInit => Init
  BY DEF PairInit
<1> QED
  BY <1>1, PairStepsAreSteps, PTL DEF PairSpec, Spec

\* So the daemon's invariant is one of the two together.
LEMMA DaemonInvariant == PairSpec => []Inv
  BY DaemonIsAuthWindow, Invariance, PTL

\* So does what the daemon promises about keys, against peers that send what
\* the phone's steps and the connections let them send.
THEOREM PairImplementsPolicy ==
  ASSUME ~ReadFaults
  PROVE  PairSpec => ImplementsPolicy /\ PinIsNeverReplaced
  BY DaemonIsAuthWindow, DaemonImplementsPolicy, PinIsKept, PTL

(***************************************************************************)
(* Types                                                                   *)
(***************************************************************************)
\* The types of what Pairing adds to AuthWindow.
OutsideTypes ==
    /\ Phone!TypeOK
    /\ peer \in [Conns -> {"nobody", "phone", "other"}]
    /\ up \in [Conns -> {"nothing", "hello", "response"}]
    /\ written \in [Conns -> 0..2]
    /\ file \in ConfigFiles
    /\ opened \subseteq Sessions
    /\ lost \in BOOLEAN /\ calm \in BOOLEAN

LEMMA PcOfAttempt ==
  ASSUME NEW a \in Attempts
  PROVE  PcOf(a) \in Pcs
  BY DEF PcOf, Pcs

\* What an attempt does keeps the types of the phone.
LEMMA AttemptKeepsTypes ==
  ASSUME Phone!TypeOK, NEW a \in Attempts,
         \/ Phone!SendHello(a) \/ Phone!ReadAccept(a, PcOf(a)) \/ Phone!ReadChallenge(a)
         \/ Phone!ReadStore(a) \/ Phone!WriteStore(a, PcOf(a))
         \/ Phone!Respond(a) \/ Phone!GiveUp(a)
  PROVE  Phone!TypeOK'
<1> USE PcOfAttempt DEF Phone!TypeOK, Phone!Steps
<1>1. CASE Phone!SendHello(a)
  BY <1>1 DEF Phone!SendHello
<1>2. CASE Phone!ReadAccept(a, PcOf(a))
  BY <1>2 DEF Phone!ReadAccept, Phone!Leave
<1>3. CASE Phone!ReadChallenge(a)
  BY <1>3 DEF Phone!ReadChallenge, Phone!AfterChallenge
<1>4. CASE Phone!ReadStore(a)
  BY <1>4 DEF Phone!ReadStore
<1>5. CASE Phone!WriteStore(a, PcOf(a))
  BY <1>5 DEF Phone!WriteStore
<1>6. CASE Phone!Respond(a) \/ Phone!GiveUp(a)
  BY <1>6 DEF Phone!Respond, Phone!GiveUp, Phone!Leave
<1> QED
  BY <1>1, <1>2, <1>3, <1>4, <1>5, <1>6

LEMMA ProcessKeepsTypes ==
  ASSUME Phone!TypeOK, Phone!Flush \/ Phone!Kill
  PROVE  Phone!TypeOK'
<1> USE DEF Phone!TypeOK, Phone!Steps
<1>1. CASE Phone!Flush
  BY <1>1 DEF Phone!Flush, Phone!attemptVars
<1>2. CASE Phone!Kill
  BY <1>2 DEF Phone!Kill
<1> QED
  BY <1>1, <1>2

LEMMA UntouchedPhoneTypes ==
  ASSUME Phone!TypeOK, UNCHANGED phoneVars
  PROVE  Phone!TypeOK'
  BY DEF Phone!TypeOK, phoneVars

\* One call of _unlock_sessions opens sessions of the daemon's user only.
LEMMA OpensMine ==
  ASSUME NEW order \in Orders, NEW result, NEW listing, NEW outcome
  PROVE  Opens(file, listing, order, result, outcome) \subseteq Mine
  BY DEF Opens, CommandOpens, LoginctlOpens, Tried, Orders, ActiveSessions

\* Steps that leave the phone, or all but the connections, alone.
LEMMA StepKeepsOutsideTypes ==
  ASSUME OutsideTypes, [PairNext]_pairVars
  PROVE  OutsideTypes'
<1> USE DEF OutsideTypes, wireVars, sessionVars, phoneVars
<1>1. CASE PcBoots \/ PcRuns \/ PcWakes \/ PcDisturbed
  BY <1>1, UntouchedPhoneTypes DEF PcBoots, PcRuns, PcWakes, PcDisturbed
<1>2. CASE PcOpensWindow
  BY <1>2, UntouchedPhoneTypes DEF PcOpensWindow
<1>3. ASSUME NEW c \in Conns, PcReadsHello(c)
      PROVE  OutsideTypes'
  BY <1>3, UntouchedPhoneTypes DEF PcReadsHello
<1>4. ASSUME NEW c \in Conns, PcSendsChallenge(c)
      PROVE  OutsideTypes'
  BY <1>4, UntouchedPhoneTypes DEF PcSendsChallenge
<1>5. ASSUME NEW c \in Conns, PcReadsResponse(c)
      PROVE  OutsideTypes'
  BY <1>5, UntouchedPhoneTypes DEF PcReadsResponse
<1>6. ASSUME NEW c \in Conns, PcGivesUp(c) \/ PcHandles(c)
      PROVE  OutsideTypes'
  BY <1>6, UntouchedPhoneTypes DEF PcGivesUp, PcHandles
<1>7. ASSUME NEW c \in Conns, PcUnlocks(c)
      PROVE  OutsideTypes'
  <2>1. opened' \subseteq Sessions
    BY <1>7, OpensMine, SessionAssumption DEF PcUnlocks
  <2> QED
    BY <1>7, <2>1, UntouchedPhoneTypes DEF PcUnlocks
<1>8. ASSUME NEW c \in Conns, OtherConnects(c)
      PROVE  OutsideTypes'
  BY <1>8, UntouchedPhoneTypes DEF OtherConnects, Arrives
<1>9. ASSUME NEW a \in Attempts, PhoneConnects(a)
      PROVE  OutsideTypes'
  <2>1. Phone!TypeOK'
    BY <1>9, AttemptKeepsTypes DEF PhoneConnects
  <2>2. /\ peer' \in [Conns -> {"nobody", "phone", "other"}]
        /\ up' \in [Conns -> {"nothing", "hello", "response"}]
        /\ written' \in [Conns -> 0..2]
    BY <1>9 DEF PhoneConnects, Arrives
  <2> QED
    BY <1>9, <2>1, <2>2 DEF PhoneConnects
<1>10. ASSUME NEW a \in Attempts, PhoneStep(a)
       PROVE  OutsideTypes'
  <2>1. /\ UNCHANGED <<wireVars, sessionVars, lost, calm>>
        /\ \/ Phone!ReadAccept(a, PcOf(a)) \/ Phone!ReadChallenge(a)
           \/ Phone!ReadStore(a) \/ Phone!WriteStore(a, PcOf(a)) \/ Phone!GiveUp(a)
    BY <1>10 DEF PhoneStep, PhoneReads, PhoneSaves, PhoneGivesUp
  <2>2. Phone!TypeOK'
    BY <2>1, AttemptKeepsTypes
  <2> QED
    BY <2>1, <2>2
<1>11. ASSUME NEW a \in Attempts, PhoneResponds(a)
       PROVE  OutsideTypes'
  <2>1. Phone!TypeOK'
    BY <1>11, AttemptKeepsTypes DEF PhoneResponds
  <2>2. up' \in [Conns -> {"nothing", "hello", "response"}]
    BY <1>11 DEF PhoneResponds
  <2> QED
    BY <1>11, <2>1, <2>2 DEF PhoneResponds
<1>12. CASE PhoneFlushes
  BY <1>12, ProcessKeepsTypes DEF PhoneFlushes
<1>13. CASE PhoneDies
  BY <1>13, ProcessKeepsTypes DEF PhoneDies
<1>14. CASE BecomeCalm \/ UNCHANGED pairVars
  BY <1>14, UntouchedPhoneTypes DEF BecomeCalm, pairVars
<1> QED
  BY <1>1, <1>2, <1>3, <1>4, <1>5, <1>6, <1>7, <1>8, <1>9, <1>10, <1>11, <1>12,
     <1>13, <1>14 DEF PairNext, PcMainStep, PcStep

LEMMA InitOutsideTypes == PairInit => OutsideTypes
<1> SUFFICES ASSUME PairInit PROVE OutsideTypes
  OBVIOUS
<1>1. Phone!TypeOK
  BY DEF PairInit, Phone!Init, Phone!TypeOK, Phone!Steps
<1>2. /\ peer \in [Conns -> {"nobody", "phone", "other"}]
      /\ up \in [Conns -> {"nothing", "hello", "response"}]
      /\ written \in [Conns -> 0..2]
  BY DEF PairInit
<1>3. file \in ConfigFiles /\ opened \subseteq Sessions /\ lost \in BOOLEAN /\ calm \in BOOLEAN
  BY DEF PairInit
<1> QED
  BY <1>1, <1>2, <1>3 DEF OutsideTypes

\* Every variable of the two sides keeps its type; the sessions that are opened
\* are sessions.
THEOREM PairTypesCorrect == PairSpec => []PairTypeOK
<1>1. PairSpec => []OutsideTypes
  BY InitOutsideTypes, StepKeepsOutsideTypes, PTL DEF PairSpec
<1>2. Inv /\ OutsideTypes => PairTypeOK
  BY DEF Inv, OutsideTypes, PairTypeOK
<1> QED
  BY <1>1, <1>2, DaemonInvariant, PTL

(***************************************************************************)
(* Pinned on both sides                                                    *)
(***************************************************************************)
\* The steps of the daemon add no proof of the phone by themselves: a signer is
\* kept, forgotten, or that of the response that was read ...
LEMMA SignerComesFromResponse ==
  ASSUME TypeOK, [PairNext]_pairVars, NEW d \in Conns, signer'[d] = ThePhone
  PROVE  signer[d] = ThePhone \/ up[d] = "response"
<1> USE PhoneAssumption, KeyAssumption
    DEF TypeOK, mainVars, flagVars, keyVars, connVars, localVars
<1>1. ThePhone # NoKey
  OBVIOUS
<1>2. LoseMemory => signer'[d] = NoKey
  BY DEF LoseMemory
<1>3. \A c \in Conns : Leave(c) => signer'[d] \in {signer[d], NoKey}
  BY DEF Leave
<1>4. CASE PcBoots \/ PcOpensWindow \/ PcWakes
  BY <1>4 DEF PcBoots, PcOpensWindow, PcWakes, Boot, OpenWindow, Wake
<1>5. CASE PcRuns
  BY <1>1, <1>2, <1>5 DEF PcRuns, StartServer, NoticeStop, WindowCompleted,
     WindowExpired, CloseWindow, AfterWindow, Exit, StartFails
<1>6. CASE PcDisturbed
  BY <1>1, <1>2, <1>6 DEF PcDisturbed, Stop, Crash, DiscoveryEnds, DiscoveryFails
<1>7. ASSUME NEW c \in Conns, PcReadsHello(c)
      PROVE  signer[d] = ThePhone
  <2>1. \E k, fingerprint \in Phones :
          AcceptHello(c, k, fingerprint) \/ RefuseHello(c, k, fingerprint)
    BY <1>7 DEF PcReadsHello
  <2> QED
    BY <1>1, <1>3, <2>1 DEF AcceptHello, RefuseHello, Finish
<1>8. ASSUME NEW c \in Conns, PcReadsResponse(c)
      PROVE  signer[d] = ThePhone \/ up[d] = "response"
  BY <1>8 DEF PcReadsResponse, ReceiveResponse
<1>9. ASSUME NEW c \in Conns,
             PcSendsChallenge(c) \/ PcGivesUp(c) \/ PcUnlocks(c) \/ PcHandles(c)
      PROVE  signer[d] = ThePhone
  <2>1. CASE PcSendsChallenge(c)
    BY <2>1 DEF PcSendsChallenge, SendChallenge
  <2>2. CASE PcGivesUp(c)
    BY <1>1, <1>3, <2>2 DEF PcGivesUp, FailHandshake, Finish
  <2>3. CASE PcUnlocks(c)
    BY <1>1, <1>3, <2>3 DEF PcUnlocks, UnlockSessions, Finish
  <2>4. CASE PcHandles(c)
    BY <1>1, <1>2, <1>3, <2>4
       DEF PcHandles, Admit, AdmitWithoutPcKey, Reject, RefuseResponse, PairPhone,
           CloseConn, SaveFails, CrashInSave, Finish
  <2> QED
    BY <1>9, <2>1, <2>2, <2>3, <2>4
<1>10. CASE \/ \E c \in Conns : OtherConnects(c)
            \/ \E a \in Attempts : PhoneConnects(a) \/ PhoneStep(a) \/ PhoneResponds(a)
            \/ PhoneFlushes \/ PhoneDies \/ BecomeCalm
  <2>1. UNCHANGED vars \/ \E c \in Conns : Connect(c)
    BY <1>10 DEF OtherConnects, Arrives, PhoneConnects, PhoneStep, PhoneReads, PhoneSaves,
       PhoneGivesUp, PhoneResponds, PhoneFlushes, PhoneDies, BecomeCalm
  <2> QED
    BY <2>1 DEF vars, Connect
<1>11. CASE UNCHANGED pairVars
  BY <1>11 DEF pairVars, vars
<1> QED
  BY <1>4, <1>5, <1>6, <1>7, <1>8, <1>9, <1>10, <1>11 DEF PairNext, PcMainStep, PcStep

\* ... and the phone's key is written after its proof has been checked.
LEMMA KeyFileComesFromSigner ==
  ASSUME TypeOK, [Next]_vars, keyFile' = ThePhone
  PROVE  keyFile = ThePhone \/ \E c \in Conns : signer[c] = ThePhone
<1> USE PhoneAssumption, KeyAssumption DEF keyVars
<1>1. CASE Boot \/ Wake \/ Stop \/ DiscoveryEnds \/ DiscoveryFails \/ Crash
  BY <1>1 DEF Boot, Wake, Stop, DiscoveryEnds, DiscoveryFails, Crash
<1>2. CASE MainStep
  BY <1>2 DEF MainStep, StartServer, StartFails, NoticeStop, OpenWindow, WindowCompleted,
     WindowExpired, CloseWindow, AfterWindow, Exit
<1>3. ASSUME NEW c \in Conns, Connect(c) \/ MessageStep(c)
      PROVE  keyFile' = keyFile
  BY <1>3 DEF Connect, MessageStep, AcceptHello, RefuseHello, ReceiveResponse
<1>4. ASSUME NEW c \in Conns, PairPhone(c) \/ SaveFails(c) \/ CrashInSave(c)
      PROVE  keyFile = ThePhone \/ signer[c] = ThePhone
  BY <1>4 DEF PairPhone, SaveFails, CrashInSave, PartialWrites, Valid
<1>5. ASSUME NEW c \in Conns, OwnStep(c), ~PairPhone(c), ~SaveFails(c)
      PROVE  keyFile' = keyFile
  BY <1>5 DEF OwnStep, Admit, AdmitWithoutPcKey, Reject, SendChallenge, FailHandshake,
     RefuseResponse, UnlockSessions, CloseConn
<1>6. CASE UNCHANGED vars
  BY <1>6 DEF vars
<1> QED
  BY <1>1, <1>2, <1>3, <1>4, <1>5, <1>6 DEF Next, HandlerStep

\* Of two attempts at different PCs, one writes the list back before the other
\* one reads it.  Nothing in the program sees to that, but a phone that meets
\* one PC at a time satisfies it.
SavesDoNotOverlap ==
    \A a, b \in Attempts :
        step[a] = "write" /\ step[b] = "write" => PcOf(a) = PcOf(b)

\* An attempt that needs no save, or has saved, finds the PC in the list, and
\* what an attempt is about to write back has the PC if the list has it.
PhoneKnows ==
    /\ \A a \in Conns :
        \/ step[a] \in {"challenge", "save", "write"} /\ ~tofu[a]
        \/ step[a] = "prompt"
        => ThisPc \in store
    /\ \A a \in Attempts : step[a] = "write" =>
        /\ ThisPc \in current[a] => ThisPc \in store
        /\ ThisPc \in store => ThisPc \in current[a] \cup {PcOf(a)}

\* A proof of the phone, sent, received or acted on, comes after the save.
ProofAfterSave ==
    ~lost =>
        /\ \A c \in Conns : up[c] = "response" \/ signer[c] = ThePhone => ThisPc \in store
        /\ keyFile = ThePhone => ThisPc \in store

\* What the steps of the phone do to its list.
LEMMA StoreIsKept ==
  ASSUME PhoneKnows, [PairNext]_pairVars
  PROVE  /\ ThisPc \in store /\ ~lost' => ThisPc \in store'
         /\ lost => lost'
<1> USE DEF phoneVars
<1>2. CASE PcBoots \/ PcRuns \/ PcWakes \/ PcDisturbed \/ PcOpensWindow
  BY <1>2 DEF PcBoots, PcRuns, PcWakes, PcDisturbed, PcOpensWindow
<1>3. ASSUME NEW c \in Conns, PcStep(c) \/ OtherConnects(c)
      PROVE  UNCHANGED <<store, lost>>
  BY <1>3 DEF PcStep, PcReadsHello, PcSendsChallenge, PcReadsResponse, PcGivesUp,
     PcUnlocks, PcHandles, OtherConnects
<1>4. ASSUME NEW a \in Attempts, PhoneConnects(a) \/ PhoneStep(a) \/ PhoneResponds(a)
      PROVE  UNCHANGED lost /\ (ThisPc \in store => ThisPc \in store')
  <2>1. CASE PhoneConnects(a) \/ PhoneResponds(a)
    BY <2>1 DEF PhoneConnects, PhoneResponds, Phone!SendHello, Phone!Respond
  <2>2. CASE PhoneReads(a) \/ PhoneGivesUp(a)
    BY <2>2 DEF PhoneReads, PhoneGivesUp, Phone!ReadAccept, Phone!ReadChallenge, Phone!GiveUp
  <2>3. CASE PhoneSaves(a)
    BY <2>3 DEF PhoneSaves, Phone!ReadStore, Phone!WriteStore, PhoneKnows
  <2> QED
    BY <1>4, <2>1, <2>2, <2>3 DEF PhoneStep
<1>5. CASE PhoneFlushes \/ BecomeCalm \/ UNCHANGED pairVars
  BY <1>5 DEF PhoneFlushes, Phone!Flush, BecomeCalm, pairVars
<1>6. CASE PhoneDies
  BY <1>6 DEF PhoneDies, Phone!Kill
<1> QED
  BY <1>2, <1>3, <1>4, <1>5, <1>6 DEF PairNext, PcMainStep

LEMMA StepKeepsPhoneKnows ==
  ASSUME SavesDoNotOverlap, OutsideTypes, PhoneKnows, [PairNext]_pairVars
  PROVE  PhoneKnows'
<1> USE DEF phoneVars, PhoneKnows
<1>0. /\ Conns \subseteq Attempts
      /\ \A a \in Attempts : PcOf(a) = IF a \in Conns THEN ThisPc ELSE OtherPc
      /\ step \in [Attempts -> Phone!Steps] /\ tofu \in [Attempts -> BOOLEAN]
      /\ current \in [Attempts -> SUBSET Pcs]
  BY DEF Attempts, PcOf, OutsideTypes, Phone!TypeOK
<1>1. CASE UNCHANGED <<step, tofu, current, store>>
  BY <1>1
<1>2. ASSUME NEW a \in Attempts, PhoneConnects(a)
      PROVE  PhoneKnows'
  BY <1>0, <1>2 DEF PhoneConnects, Phone!SendHello
<1>3. ASSUME NEW a \in Attempts, Phone!ReadAccept(a, PcOf(a))
      PROVE  PhoneKnows'
  BY <1>0, <1>3 DEF Phone!ReadAccept, Phone!Leave
<1>4. ASSUME NEW a \in Attempts, Phone!ReadChallenge(a)
      PROVE  PhoneKnows'
  BY <1>0, <1>4 DEF Phone!ReadChallenge, Phone!AfterChallenge
<1>5. ASSUME NEW a \in Attempts, Phone!ReadStore(a)
      PROVE  PhoneKnows'
  BY <1>0, <1>5 DEF Phone!ReadStore
<1>6. ASSUME NEW a \in Attempts, Phone!WriteStore(a, PcOf(a))
      PROVE  PhoneKnows'
  <2>0. /\ step' = [step EXCEPT ![a] = "prompt"]
        /\ current' = [current EXCEPT ![a] = {}]
        /\ store' = current[a] \cup {PcOf(a)}
        /\ step[a] = "write" /\ tofu' = tofu
    BY <1>6 DEF Phone!WriteStore
  <2>1. ThisPc \in store => ThisPc \in store'
    BY <2>0
  <2>2. \A b \in Attempts : step'[b] = "write" => b # a /\ step[b] = "write"
    BY <1>0, <2>0
  <2>3. \A b \in Attempts : step'[b] = "write" =>
           /\ current'[b] = current[b]
           /\ PcOf(b) = PcOf(a)
    BY <1>0, <2>0, <2>2 DEF SavesDoNotOverlap
  <2>4. CASE a \in Conns
    <3>1. ThisPc \in store'
      BY <1>0, <2>0, <2>4
    <3>2. \A b \in Attempts : step'[b] = "write" => PcOf(b) = ThisPc
      BY <1>0, <2>3, <2>4
    <3> QED
      BY <3>1, <3>2
  <2>5. CASE a \notin Conns
    <3>1. PcOf(a) # ThisPc
      BY <1>0, <2>5, PcAssumption
    <3>2. ThisPc \in store' <=> ThisPc \in store
      BY <2>0, <3>1
    <3>3. \A b \in Conns : step'[b] = step[b] /\ tofu'[b] = tofu[b]
      BY <1>0, <2>0, <2>5
    <3> QED
      BY <2>2, <2>3, <3>2, <3>3
  <2> QED
    BY <2>4, <2>5
<1>7. ASSUME NEW a \in Attempts, Phone!Respond(a) \/ Phone!GiveUp(a)
      PROVE  PhoneKnows'
  BY <1>0, <1>7 DEF Phone!Respond, Phone!GiveUp, Phone!Leave
<1>8. CASE PhoneDies
  BY <1>0, <1>8 DEF PhoneDies, Phone!Kill
<1>9. CASE PcBoots \/ PcMainStep \/ PcWakes \/ PcDisturbed
           \/ PhoneFlushes \/ BecomeCalm \/ UNCHANGED pairVars
  <2>1. UNCHANGED <<step, tofu, current, store>>
    BY <1>9 DEF PcBoots, PcMainStep, PcRuns, PcWakes, PcDisturbed, PcOpensWindow,
       PhoneFlushes, Phone!Flush, Phone!attemptVars, BecomeCalm, pairVars
  <2> QED
    BY <1>1, <2>1
<1>10. ASSUME NEW c \in Conns, PcStep(c) \/ OtherConnects(c)
       PROVE  PhoneKnows'
  <2>1. UNCHANGED <<step, tofu, current, store>>
    BY <1>10 DEF PcStep, PcReadsHello, PcSendsChallenge, PcReadsResponse, PcGivesUp,
       PcUnlocks, PcHandles, OtherConnects
  <2> QED
    BY <1>1, <2>1
<1>11. ASSUME NEW a \in Attempts, PhoneStep(a) \/ PhoneResponds(a)
       PROVE  PhoneKnows'
  <2>1. \/ Phone!ReadAccept(a, PcOf(a)) \/ Phone!ReadChallenge(a)
        \/ Phone!ReadStore(a) \/ Phone!WriteStore(a, PcOf(a))
        \/ Phone!GiveUp(a) \/ Phone!Respond(a)
    BY <1>11 DEF PhoneStep, PhoneReads, PhoneSaves, PhoneGivesUp, PhoneResponds
  <2> QED
    BY <2>1, <1>3, <1>4, <1>5, <1>6, <1>7
<1> QED
  BY <1>2, <1>8, <1>9, <1>10, <1>11 DEF PairNext

\* The response is on the wire only after the phone has answered the prompt.
LEMMA ResponseComesFromPrompt ==
  ASSUME OutsideTypes, [PairNext]_pairVars,
         NEW d \in Conns, up'[d] = "response"
  PROVE  up[d] = "response" \/ step[d] = "prompt"
<1> USE DEF wireVars
<1>0. up \in [Conns -> {"nothing", "hello", "response"}]
  BY DEF OutsideTypes
<1>1. CASE PcBoots \/ PcMainStep \/ PcWakes \/ PcDisturbed
           \/ PhoneFlushes \/ PhoneDies \/ BecomeCalm \/ UNCHANGED pairVars
  BY <1>1 DEF PcBoots, PcMainStep, PcRuns, PcWakes, PcDisturbed, PcOpensWindow,
     PhoneFlushes, PhoneDies, BecomeCalm, pairVars
<1>2. ASSUME NEW c \in Conns, PcStep(c) \/ OtherConnects(c)
      PROVE  up[d] = "response"
  BY <1>0, <1>2 DEF PcStep, PcReadsHello, PcSendsChallenge, PcReadsResponse, PcGivesUp,
     PcUnlocks, PcHandles, OtherConnects, Arrives
<1>3. ASSUME NEW a \in Attempts, PhoneConnects(a) \/ PhoneStep(a)
      PROVE  up[d] = "response"
  BY <1>0, <1>3 DEF PhoneConnects, Arrives, PhoneStep, PhoneReads, PhoneSaves, PhoneGivesUp
<1>4. ASSUME NEW a \in Attempts, PhoneResponds(a)
      PROVE  up[d] = "response" \/ step[d] = "prompt"
  BY <1>0, <1>4 DEF PhoneResponds, Phone!Respond
<1> QED
  BY <1>1, <1>2, <1>3, <1>4 DEF PairNext

LEMMA StepKeepsProofAfterSave ==
  ASSUME TypeOK, OutsideTypes, PhoneKnows, ProofAfterSave,
         [PairNext]_pairVars, [Next]_vars
  PROVE  ProofAfterSave'
<1> SUFFICES ASSUME ~lost'
             PROVE  /\ \A c \in Conns : up'[c] = "response" \/ signer'[c] = ThePhone
                                          => ThisPc \in store'
                    /\ keyFile' = ThePhone => ThisPc \in store'
  BY DEF ProofAfterSave
<1>1. ~lost /\ (ThisPc \in store => ThisPc \in store')
  BY StoreIsKept
<1>2. ASSUME NEW c \in Conns, up'[c] = "response"
      PROVE  ThisPc \in store
  BY <1>1, <1>2, ResponseComesFromPrompt DEF ProofAfterSave, PhoneKnows
<1>3. ASSUME NEW c \in Conns, signer'[c] = ThePhone
      PROVE  ThisPc \in store
  BY <1>1, <1>3, SignerComesFromResponse DEF ProofAfterSave
<1>4. ASSUME keyFile' = ThePhone
      PROVE  ThisPc \in store
  BY <1>1, <1>4, KeyFileComesFromSigner DEF ProofAfterSave
<1> QED
  BY <1>1, <1>2, <1>3, <1>4

\* A PC that has pinned the phone is in the phone's list, unless the phone was
\* killed before its list was on disk: with any number of connections, retries
\* and other PCs, other peers, crashes of the daemon and failed saves, as long
\* as no two saves for different PCs overlap.  So the unprotected read and write
\* of saveTrustedPc (PhonectNetworkService.kt:514-529) is the only cause of what
\* the run pairing_two_pcs shows.
THEOREM OnlyOverlapLosesAPc == PairSpec /\ []SavesDoNotOverlap => []PinIsMutual
<1> DEFINE MInv == OutsideTypes /\ PhoneKnows /\ ProofAfterSave
<1>1. PairInit => MInv
  <2> SUFFICES ASSUME PairInit PROVE MInv
    OBVIOUS
  <2>1. OutsideTypes
    BY InitOutsideTypes
  <2>2. PhoneKnows
    BY DEF PairInit, Phone!Init, PhoneKnows, Attempts
  <2>3. ProofAfterSave
    BY PhoneAssumption, KeyAssumption DEF PairInit, Init, ProofAfterSave
  <2> QED
    BY <2>1, <2>2, <2>3
<1>2. MInv /\ SavesDoNotOverlap /\ Inv /\ [PairNext]_pairVars /\ [Next]_vars => MInv'
  BY StepKeepsOutsideTypes, StepKeepsPhoneKnows, StepKeepsProofAfterSave DEF Inv
<1>3. MInv => PinIsMutual
  BY DEF ProofAfterSave, PinIsMutual
<1>4. PairSpec => [][Next]_vars
  BY DaemonIsAuthWindow, PTL DEF Spec
<1> HIDE DEF MInv
<1> QED
  BY <1>1, <1>2, <1>3, <1>4, DaemonInvariant, PTL DEF PairSpec

\* A phone that is in no handshake with another PC overlaps no saves.
THEOREM PinsAreMutual ==
  ASSUME OtherAttempts = {}
  PROVE  PairSpec => []PinIsMutual
<1>1. SavesDoNotOverlap
  BY DEF SavesDoNotOverlap, Attempts, PcOf
<1> QED
  BY <1>1, OnlyOverlapLosesAPc, PTL

\* A list on the phone's disk is not empty and never becomes so: Flush writes
\* what is in memory, and memory starts from the disk.
ListOnDisk == flushed # {} => store # {}

LEMMA ListsGrow ==
  ASSUME ListOnDisk, [PairNext]_pairVars
  PROVE  /\ flushed # {} => store' # {} /\ flushed' # {}
         /\ store # {} => store' # {} \/ lost'
         /\ ListOnDisk'
<1> USE DEF phoneVars, ListOnDisk
<1>1. CASE UNCHANGED <<store, flushed>>
  BY <1>1
<1>2. CASE PcBoots \/ PcMainStep \/ PcWakes \/ PcDisturbed \/ BecomeCalm
           \/ UNCHANGED pairVars
  BY <1>1, <1>2 DEF PcBoots, PcMainStep, PcRuns, PcWakes, PcDisturbed, PcOpensWindow,
     BecomeCalm, pairVars
<1>3. ASSUME NEW c \in Conns, PcStep(c) \/ OtherConnects(c)
      PROVE  UNCHANGED <<store, flushed>>
  BY <1>3 DEF PcStep, PcReadsHello, PcSendsChallenge, PcReadsResponse, PcGivesUp,
     PcUnlocks, PcHandles, OtherConnects
<1>4. ASSUME NEW a \in Attempts, PhoneConnects(a) \/ PhoneStep(a) \/ PhoneResponds(a)
      PROVE  flushed' = flushed /\ (store' = store \/ store' # {})
  BY <1>4 DEF PhoneConnects, PhoneStep, PhoneReads, PhoneSaves, PhoneGivesUp,
     PhoneResponds, Phone!SendHello, Phone!ReadAccept, Phone!ReadChallenge,
     Phone!ReadStore, Phone!WriteStore, Phone!Respond, Phone!GiveUp
<1>5. CASE PhoneFlushes
  BY <1>5 DEF PhoneFlushes, Phone!Flush
<1>6. CASE PhoneDies
  BY <1>6 DEF PhoneDies, Phone!Kill
<1> QED
  BY <1>1, <1>2, <1>3, <1>4, <1>5, <1>6 DEF PairNext

\* Trust on first use does not come back on the phone (PhonectNetworkService.kt:
\* 391-406): an empty list, which trusts any PC, never follows one that is not
\* empty unless the process is killed before apply() has reached the disk, and
\* never at all once a list is on disk.  This holds however saves overlap.
TrustStaysClosed ==
    [][/\ store # {} => store' # {} \/ lost'
       /\ flushed # {} => store' # {} /\ flushed' # {}]_pairVars

THEOREM PhoneTrustStaysClosed == PairSpec => TrustStaysClosed
<1>1. PairInit => ListOnDisk
  BY DEF PairInit, Phone!Init, ListOnDisk
<1>2. ListOnDisk /\ [PairNext]_pairVars => ListOnDisk'
  BY ListsGrow
<1>3. ListOnDisk /\ [PairNext]_pairVars =>
        [/\ store # {} => store' # {} \/ lost'
         /\ flushed # {} => store' # {} /\ flushed' # {}]_pairVars
  BY ListsGrow
<1> QED
  BY <1>1, <1>2, <1>3, PTL DEF PairSpec, TrustStaysClosed

(***************************************************************************)
(* What is opened                                                          *)
(***************************************************************************)
\* Who unlocked last changes only when a window opens or sessions are unlocked.
LEMMA UnlockerIsKept ==
  ASSUME [PairNext]_pairVars,
         ~PcOpensWindow, \A c \in Conns : ~PcUnlocks(c)
  PROVE  unlockedBy' = unlockedBy /\ opened' = opened
<1> USE DEF sessionVars
<1>1. CASE PcBoots \/ PcWakes
  BY <1>1 DEF PcBoots, PcWakes, Boot, Wake
<1>2. CASE PcRuns
  BY <1>2 DEF PcRuns, StartServer, NoticeStop, WindowCompleted, WindowExpired,
     CloseWindow, AfterWindow, Exit, StartFails, LoseMemory
<1>3. CASE PcDisturbed
  BY <1>3 DEF PcDisturbed, Stop, Crash, DiscoveryEnds, DiscoveryFails, LoseMemory
<1>4. ASSUME NEW c \in Conns, PcReadsHello(c)
      PROVE  unlockedBy' = unlockedBy /\ opened' = opened
  <2>1. \E k, fingerprint \in Phones :
          AcceptHello(c, k, fingerprint) \/ RefuseHello(c, k, fingerprint)
    BY <1>4, PhoneAssumption DEF PcReadsHello
  <2> QED
    BY <1>4, <2>1 DEF PcReadsHello, AcceptHello, RefuseHello
<1>5. ASSUME NEW c \in Conns, PcReadsResponse(c)
      PROVE  unlockedBy' = unlockedBy /\ opened' = opened
  BY <1>5 DEF PcReadsResponse, ReceiveResponse
<1>6. ASSUME NEW c \in Conns, PcSendsChallenge(c) \/ PcGivesUp(c)
      PROVE  unlockedBy' = unlockedBy /\ opened' = opened
  BY <1>6 DEF PcSendsChallenge, SendChallenge, PcGivesUp, FailHandshake
<1>7. ASSUME NEW c \in Conns, PcHandles(c)
      PROVE  unlockedBy' = unlockedBy /\ opened' = opened
  BY <1>7 DEF PcHandles, Admit, AdmitWithoutPcKey, Reject, RefuseResponse, PairPhone,
     UnlockIfAllowed, MayUnlock, CloseConn, SaveFails, CrashInSave, LoseMemory
<1>8. CASE \/ \E c \in Conns : OtherConnects(c)
           \/ \E a \in Attempts : PhoneConnects(a) \/ PhoneStep(a) \/ PhoneResponds(a)
           \/ PhoneFlushes \/ PhoneDies \/ BecomeCalm
  <2>1. /\ UNCHANGED vars \/ \E c \in Conns : Connect(c)
        /\ UNCHANGED opened
    BY <1>8 DEF OtherConnects, Arrives, PhoneConnects, PhoneStep, PhoneReads, PhoneSaves,
       PhoneGivesUp, PhoneResponds, PhoneFlushes, PhoneDies, BecomeCalm
  <2> QED
    BY <2>1 DEF vars, Connect
<1>9. CASE UNCHANGED pairVars
  BY <1>9 DEF pairVars, vars
<1> QED
  BY <1>1, <1>2, <1>3, <1>4, <1>5, <1>6, <1>7, <1>8, <1>9 DEF PairNext, PcMainStep, PcStep

\* With a key file that is always readable, the sessions that are open were
\* opened for the phone on disk, and are the daemon's user's.
THEOREM OpenedForPinned ==
  ASSUME ~ReadFaults
  PROVE  PairSpec => []OpenedByPinned
<1> DEFINE OInv == opened # {} => /\ opened \subseteq Mine
                                  /\ unlockedBy = keyFile
                                  /\ keyFile \in Phones
<1>1. PairInit => OInv
  BY DEF PairInit
<1>2. OInv /\ Inv /\ [PairNext]_pairVars /\ [Next]_vars => OInv'
  <2> SUFFICES ASSUME OInv, Inv, [PairNext]_pairVars, [Next]_vars PROVE OInv'
    OBVIOUS
  <2>1. CASE PcOpensWindow
    BY <2>1 DEF PcOpensWindow
  <2>2. ASSUME NEW c \in Conns, PcUnlocks(c)
        PROVE  OInv'
    <3>1. Valid(c) /\ ~isNew[c] /\ keyFile' = keyFile
      BY <2>2 DEF PcUnlocks, UnlockSessions
    <3>2. verificationKey[c] = keyFile /\ keyFile \in Phones
      BY <3>1, ValidResponse
    <3>3. opened' \subseteq opened \cup Mine
      BY <2>2, OpensMine DEF PcUnlocks
    <3>4. unlockedBy' = IF opened' = opened THEN unlockedBy ELSE verificationKey[c]
      BY <2>2 DEF PcUnlocks
    <3> QED
      BY <3>1, <3>2, <3>3, <3>4
  <2>3. CASE ~PcOpensWindow /\ \A c \in Conns : ~PcUnlocks(c)
    BY <2>3, UnlockerIsKept, StepKeepsPin
  <2> QED
    BY <2>1, <2>2, <2>3
<1>3. OInv => OpenedByPinned
  BY DEF OpenedByPinned
<1>4. PairSpec => [][Next]_vars
  BY DaemonIsAuthWindow, PTL DEF Spec
<1> HIDE DEF OInv
<1> QED
  BY <1>1, <1>2, <1>3, <1>4, DaemonInvariant, PTL DEF PairSpec

-----------------------------------------------------------------------------
\* list-sessions lists each session of the user once, so every one of them.
LEMMA OrdersListAll ==
  ASSUME NEW order \in Orders, NEW s \in Mine
  PROVE  \E i \in DOMAIN order : order[i] = s
<1> DEFINE n == Cardinality(Mine)
<1>1. IsFiniteSet(Mine)
  BY SessionAssumption, FS_Subset
<1>2. n \in Nat
  BY <1>1, FS_CardinalityType
<1>3. order \in Injection(1..n, Mine)
  BY DEF Orders, ActiveSessions, Injection, IsInjective
<1>4. Cardinality(1..n) = n
  BY <1>2, FS_Interval
<1>5. order \in Surjection(1..n, Mine)
  BY <1>1, <1>3, <1>4, FS_Injection
<1> QED
  BY <1>5 DEF Surjection, Orders, ActiveSessions

\* A command that ends with an error, by its timeout or for want of an
\* executable does not keep the loop of _unlock_loginctl_sessions from the
\* sessions listed after it (daemon.py:613-638): whatever the order, all that
\* can be opened are.
THEOREM LoopTriesAll ==
  ASSUME NEW order \in Orders, NEW result,
         \A s \in Mine : result[s] \notin LeavesLoop
  PROVE  LoginctlOpens("ok", order, result) = {s \in Mine : result[s] = "ok"}
<1>1. DOMAIN order = 1..Cardinality(Mine) /\ \A i \in DOMAIN order : order[i] \in Mine
  BY DEF Orders, ActiveSessions
<1>2. Cardinality(Mine) \in Nat
  BY SessionAssumption, FS_Subset, FS_CardinalityType
<1>3. \A n \in DOMAIN order : \A m \in 1..(n - 1) : result[order[m]] \notin LeavesLoop
  <2> SUFFICES ASSUME NEW n \in DOMAIN order, NEW m \in 1..(n - 1)
               PROVE  result[order[m]] \notin LeavesLoop
    OBVIOUS
  <2>1. m \in DOMAIN order
    BY <1>1, <1>2
  <2> QED
    BY <1>1, <2>1
<1>4. Tried(order, result) = {order[i] : i \in DOMAIN order}
  BY <1>3 DEF Tried
<1>5. Tried(order, result) = Mine
  BY <1>1, <1>4, OrdersListAll
<1> QED
  BY <1>5 DEF LoginctlOpens

\* Sessions that cannot be unlocked take none of the others with them: once
\* nothing else fails, the proof of a pinned phone opens every session of the
\* daemon's user but those, with either backend and in whatever order they are
\* listed (daemon.py:594-604, 613-638).
THEOREM UnlockOpensTheRest ==
  PairSpec => [][\A c \in Conns : calm /\ PcUnlocks(c) =>
                    Mine \ Sick \subseteq opened']_pairVars
<1>1. ASSUME NEW c \in Conns, calm, PcUnlocks(c)
      PROVE  Mine \ Sick \subseteq opened'
  <2>1. PICK order \in Orders, result \in Results :
          /\ opened' = opened \cup Opens(file, "ok", order, result, "ok")
    BY <1>1 DEF PcUnlocks
  <2>2. \A s \in Mine : /\ result[s] \notin LeavesLoop
                        /\ s \notin Sick => result[s] = "ok"
    BY <1>1 DEF Results, ActiveSessions, LeavesLoop
  <2>3. Mine \ Sick \subseteq LoginctlOpens("ok", order, result)
    BY <2>2, LoopTriesAll
  <2> QED
    BY <2>1, <2>3 DEF Opens, CommandOpens
<1>2. [PairNext]_pairVars =>
        [\A c \in Conns : calm /\ PcUnlocks(c) => Mine \ Sick \subseteq opened']_pairVars
  BY <1>1
<1> QED
  BY <1>2, PTL DEF PairSpec
=============================================================================
