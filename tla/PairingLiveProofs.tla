------------------------- MODULE PairingLiveProofs -------------------------
(***************************************************************************)
(* Progress of the phone's attempts, for every set of connections, of      *)
(* other peers' keys and of attempts at another PC.  As in                 *)
(* AuthWindowLiveProofs, that a step is possible is PairNeverStuck, which  *)
(* TLC checks; where steps lead and that they come to an end is proved.    *)
(***************************************************************************)
EXTENDS PairingProofs, AuthWindowLiveProofs

\* How many steps an attempt of the phone in this step has at most before it.
StepsLeft == [idle |-> 0, prompt |-> 1, write |-> 2, save |-> 3,
              challenge |-> 4, accept |-> 5]

LEMMA StepsLeftValues ==
  /\ StepsLeft["idle"] = 0
  /\ StepsLeft["prompt"] = 1
  /\ StepsLeft["write"] = 2
  /\ StepsLeft["save"] = 3
  /\ StepsLeft["challenge"] = 4
  /\ StepsLeft["accept"] = 5
  BY DEF StepsLeft

\* A step of the attempt, its user's answer included, takes it on.
LEMMA PhoneStepsGoOn ==
  ASSUME Phone!TypeOK, NEW a \in Attempts, PhoneStep(a) \/ PhoneResponds(a)
  PROVE  /\ StepsLeft[step'[a]] < StepsLeft[step[a]]
         /\ \A b \in Attempts \ {a} : step'[b] = step[b]
         /\ UNCHANGED <<stage, calm>>
<1> USE StepsLeftValues DEF Phone!TypeOK, Phone!Steps, vars, connVars
<1>1. CASE PhoneReads(a)
  BY <1>1 DEF PhoneReads, Phone!ReadAccept, Phone!ReadChallenge, Phone!Leave,
     Phone!AfterChallenge
<1>2. CASE PhoneSaves(a)
  BY <1>2 DEF PhoneSaves, Phone!ReadStore, Phone!WriteStore
<1>3. CASE PhoneGivesUp(a)
  BY <1>3 DEF PhoneGivesUp, Phone!GiveUp, Phone!MayGiveUp, Phone!Leave
<1>4. CASE PhoneResponds(a)
  BY <1>4 DEF PhoneResponds, Phone!Respond, Phone!Leave
<1> QED
  BY <1>1, <1>2, <1>3, <1>4 DEF PhoneStep

\* A step of the daemon's handler here is one of AuthWindow.
LEMMA HandlerStepsAreHandlers ==
  ASSUME NEW c \in Conns, PcStep(c)
  PROVE  HandlerStep(c) \/ CrashInSave(c)
<1>1. CASE PcReadsHello(c)
  <2>1. \E k, fingerprint \in Phones :
          AcceptHello(c, k, fingerprint) \/ RefuseHello(c, k, fingerprint)
    BY <1>1, PhoneAssumption DEF PcReadsHello
  <2> QED
    BY <2>1 DEF HandlerStep, MessageStep
<1>2. CASE PcReadsResponse(c)
  <2>1. \E s \in Keys : ReceiveResponse(c, s)
    BY <1>2, PhoneAssumption DEF PcReadsResponse, Keys
  <2> QED
    BY <2>1 DEF HandlerStep, MessageStep
<1>3. CASE PcSendsChallenge(c) \/ PcGivesUp(c) \/ PcUnlocks(c) \/ PcHandles(c)
  BY <1>3 DEF PcSendsChallenge, PcGivesUp, PcUnlocks, PcHandles, OwnStep, HandlerStep
<1> QED
  BY <1>1, <1>2, <1>3 DEF PcStep

\* Nobody's step takes an attempt back, calm lasts, and the handler at the
\* other end of its connection does not go back either: a connection is opened
\* again only by an attempt that is idle.
AttemptGoesOn(a) ==
    /\ StepsLeft[step'[a]] <= StepsLeft[step[a]]
    /\ calm => calm'
    /\ a \in Conns => Left[stage'[a]] <= Left[stage[a]]

LEMMA AttemptsGoOn ==
  ASSUME TypeOK, TypeOK', Phone!TypeOK, Phone!TypeOK',
         NEW a \in Attempts, step[a] # "idle", [PairNext]_pairVars, [Next]_vars
  PROVE  AttemptGoesOn(a)
<1> USE DEF AttemptGoesOn
<1>0. /\ StepsLeft[step[a]] \in 0..5 /\ StepsLeft[step'[a]] \in 0..5
      /\ a \in Conns => Left[stage[a]] \in 0..6 /\ Left[stage'[a]] \in 0..6
  BY LeftValues, StepsLeftValues
     DEF TypeOK, Stages, HandshakeStages, Phone!TypeOK, Phone!Steps
<1>1. a \in Conns /\ stage[a] # "none" => Left[stage'[a]] <= Left[stage[a]]
  BY <1>0, HandlersGoOn
<1>2. ASSUME UNCHANGED <<step, calm>>,
             a \in Conns /\ stage[a] = "none" => stage'[a] = "none"
      PROVE  AttemptGoesOn(a)
  BY <1>0, <1>1, <1>2
<1>3. CASE PcBoots \/ PcMainStep \/ PcWakes \/ PcDisturbed
  BY <1>2, <1>3
     DEF PcBoots, PcMainStep, PcRuns, PcWakes, PcDisturbed, PcOpensWindow, phoneVars,
     Boot, StartServer, NoticeStop, OpenWindow, WindowCompleted, WindowExpired, CloseWindow,
     AfterWindow, Exit, StartFails, LoseMemory, Wake, Stop, Crash, DiscoveryEnds,
     DiscoveryFails, connVars
<1>4. ASSUME NEW c \in Conns, PcStep(c)
      PROVE  AttemptGoesOn(a)
  <2>1. UNCHANGED <<step, calm>>
    BY <1>4 DEF PcStep, PcReadsHello, PcSendsChallenge, PcReadsResponse, PcGivesUp,
       PcUnlocks, PcHandles, phoneVars
  <2>2. HandlerStep(c) \/ CrashInSave(c)
    BY <1>4, HandlerStepsAreHandlers
  <2>3. a \in Conns /\ stage[a] = "none" => stage'[a] = "none"
    BY <2>2, HandlerStepsGoOn
  <2> QED
    BY <1>2, <2>1, <2>3
<1>5. ASSUME NEW c \in Conns, OtherConnects(c)
      PROVE  AttemptGoesOn(a)
  BY <1>0, <1>1, <1>5 DEF OtherConnects, Arrives, Connect, phoneVars, TypeOK
<1>6. ASSUME NEW b \in Attempts, PhoneConnects(b)
      PROVE  AttemptGoesOn(a)
  <2>1. b # a /\ step'[a] = step[a]
    BY <1>6 DEF PhoneConnects, Phone!SendHello, Phone!TypeOK
  <2>2. calm' = calm /\ (a \in Conns /\ stage[a] = "none" => stage'[a] = "none")
    BY <1>6, <2>1 DEF PhoneConnects, Arrives, Connect, TypeOK, vars, connVars
  <2> QED
    BY <1>0, <1>1, <2>1, <2>2
<1>7. ASSUME NEW b \in Attempts, PhoneStep(b) \/ PhoneResponds(b)
      PROVE  AttemptGoesOn(a)
  <2>1. StepsLeft[step'[a]] <= StepsLeft[step[a]] /\ UNCHANGED <<stage, calm>>
    BY <1>0, <1>7, PhoneStepsGoOn
  <2> QED
    BY <1>0, <2>1
<1>8. CASE PhoneFlushes
  BY <1>2, <1>8 DEF PhoneFlushes, Phone!Flush, Phone!attemptVars, vars, connVars
<1>9. CASE PhoneDies
  <2>1. step'[a] = "idle" /\ calm' = calm /\ stage' = stage
    BY <1>9 DEF PhoneDies, Phone!Kill, vars, connVars
  <2> QED
    BY <1>0, <2>1, StepsLeftValues
<1>10. CASE BecomeCalm \/ UNCHANGED pairVars
  BY <1>0, <1>10 DEF BecomeCalm, pairVars, phoneVars, vars, connVars
<1> QED
  BY <1>3, <1>4, <1>5, <1>6, <1>7, <1>8, <1>9, <1>10 DEF PairNext

-----------------------------------------------------------------------------
\* What attempt a may rely on at every moment of a fair execution.
AttemptContext(a) ==
    /\ []PairTypeOK /\ [][PairNext]_pairVars /\ []PairNeverStuck
    /\ []PhoneFairness(a) /\ (a \in Conns => []PcFairness(a))

LEMMA AttemptsHaveContext ==
  ASSUME NEW a \in Attempts
  PROVE  PairFairSpec /\ []PairNeverStuck => []AttemptContext(a)
<1>1. PairFairness => PhoneFairness(a)
  BY DEF PairFairness
<1>2. PhoneFairness(a) => []PhoneFairness(a)
  BY PTL DEF PhoneFairness
<1>3. PcFairness(a) => []PcFairness(a)
  BY PTL DEF PcFairness
<1>4. CASE a \in Conns
  <2>1. PairFairness => PcFairness(a)
    BY <1>4 DEF PairFairness
  <2>2. []PcFairness(a) => (a \in Conns => []PcFairness(a))
    OBVIOUS
  <2> QED
    BY <2>1, <2>2, <1>1, <1>2, <1>3, PairTypesCorrect, PTL
       DEF PairFairSpec, PairSpec, AttemptContext
<1>5. CASE a \notin Conns
  <2>1. a \in Conns => []PcFairness(a)
    BY <1>5
  <2> QED
    BY <2>1, <1>1, <1>2, PairTypesCorrect, PTL
       DEF PairFairSpec, PairSpec, AttemptContext
<1> QED
  BY <1>4, <1>5

\* An attempt with n steps to go is still there after a step, or nearer to its
\* end; it does not come to wait for the daemon once it need not.
LEMMA AttemptsStayOrGoOn ==
  ASSUME PairTypeOK, PairTypeOK', NEW a \in Attempts, NEW n \in 1..5,
         StepsLeft[step[a]] = n, [PairNext]_pairVars
  PROVE  \/ StepsLeft[step'[a]] < n
         \/ /\ StepsLeft[step'[a]] = n
            /\ calm => calm'
            /\ calm /\ ~AwaitsPc(a) => ~AwaitsPc(a)'
            /\ a \in Conns => Left[stage'[a]] <= Left[stage[a]]
<1>1. AttemptGoesOn(a)
  BY StepsLeftValues, PairStepsAreSteps, AttemptsGoOn DEF PairTypeOK
<1>2. step[a] \in Phone!Steps /\ step'[a] \in Phone!Steps
  BY DEF PairTypeOK, Phone!TypeOK
<1>3. a \in Conns => stage[a] \in Stages /\ stage'[a] \in Stages
  BY DEF PairTypeOK, TypeOK
<1>4. StepsLeft[step'[a]] = n => step'[a] = step[a]
  BY <1>2, StepsLeftValues DEF Phone!Steps
<1>5. StepsLeft[step'[a]] <= n /\ StepsLeft[step'[a]] \in Nat
  BY <1>1, <1>2, StepsLeftValues DEF AttemptGoesOn, Phone!Steps
<1>6. step'[a] = step[a] /\ calm /\ ~AwaitsPc(a) => ~AwaitsPc(a)'
  BY <1>1, <1>3, LeftValues DEF AttemptGoesOn, AwaitsPc, Stages, HandshakeStages
<1> QED
  BY <1>1, <1>4, <1>5, <1>6 DEF AttemptGoesOn

-----------------------------------------------------------------------------
\* An attempt with n steps to go comes to have fewer.
AttemptAdvances(a, n) == [](StepsLeft[step[a]] = n => <>(StepsLeft[step[a]] < n))

\* In a world that is not calm it does so by its own timeouts, or calm comes.
LEMMA TimeoutsAdvance ==
  ASSUME NEW a \in Attempts, NEW n \in 1..5
  PROVE  AttemptContext(a) =>
           [](StepsLeft[step[a]] = n /\ ~calm =>
                <>(\/ StepsLeft[step[a]] < n
                   \/ StepsLeft[step[a]] = n /\ calm))
<1> DEFINE At == StepsLeft[step[a]] = n
           Later == StepsLeft[step[a]] < n
<1>1. PairTypeOK /\ PairTypeOK' /\ At /\ [PairNext]_pairVars => Later' \/ At'
  BY AttemptsStayOrGoOn
<1>2. PairTypeOK /\ At /\ <<PhoneStep(a)>>_pairVars => Later'
  BY PhoneStepsGoOn DEF PairTypeOK
<1>3. PairNeverStuck /\ At /\ ~calm => ENABLED <<PhoneStep(a)>>_pairVars
  BY StepsLeftValues DEF PairNeverStuck, AwaitsPc
<1> QED
  BY <1>1, <1>2, <1>3, PTL DEF AttemptContext, PhoneFairness

\* In calm, an attempt that need not wait for the daemon goes on by itself, and
\* the prompt with its user's answer.
LEMMA CalmAdvances ==
  ASSUME NEW a \in Attempts, NEW n \in 1..5
  PROVE  AttemptContext(a) =>
           [](StepsLeft[step[a]] = n /\ calm /\ ~AwaitsPc(a) =>
                <>(StepsLeft[step[a]] < n))
<1> DEFINE At == StepsLeft[step[a]] = n
           Free == calm /\ ~AwaitsPc(a)
           Later == StepsLeft[step[a]] < n
<1>1. PairTypeOK /\ PairTypeOK' /\ At /\ Free /\ [PairNext]_pairVars
        => Later' \/ (At /\ Free)'
  BY AttemptsStayOrGoOn
<1>2. PairTypeOK /\ At /\ <<PhoneStep(a)>>_pairVars => Later'
  BY PhoneStepsGoOn DEF PairTypeOK
<1>3. PairTypeOK /\ At /\ <<calm /\ PhoneResponds(a)>>_pairVars => Later'
  BY PhoneStepsGoOn DEF PairTypeOK
<1>4. CASE n = 1
  <2>1. PairTypeOK /\ At => step[a] = "prompt"
    BY <1>4, StepsLeftValues DEF PairTypeOK, Phone!TypeOK, Phone!Steps
  <2>2. PairNeverStuck /\ calm /\ step[a] = "prompt"
          => ENABLED <<calm /\ PhoneResponds(a)>>_pairVars
    BY Zenon DEF PairNeverStuck
  <2> QED
    BY <2>1, <2>2, <1>1, <1>3, PTL DEF AttemptContext, PhoneFairness
<1>5. CASE n # 1
  <2>1. At => step[a] # "prompt" /\ step[a] # "idle"
    BY <1>5, StepsLeftValues
  <2>2. PairNeverStuck /\ (step[a] # "prompt" /\ step[a] # "idle") /\ ~AwaitsPc(a)
          => ENABLED <<PhoneStep(a)>>_pairVars
    BY Zenon DEF PairNeverStuck
  <2> QED
    BY <2>1, <2>2, <1>1, <1>2, PTL DEF AttemptContext, PhoneFairness
<1> QED
  BY <1>4, <1>5

\* An attempt that waits for the daemon has a handler that goes on.
DaemonAdvancesFor(a, n, k) ==
    [](StepsLeft[step[a]] = n /\ AwaitsPc(a) /\ Left[stage[a]] = k =>
         <>(\/ StepsLeft[step[a]] < n
            \/ StepsLeft[step[a]] = n /\ calm /\ ~AwaitsPc(a)
            \/ StepsLeft[step[a]] = n /\ AwaitsPc(a) /\ Left[stage[a]] < k))

LEMMA DaemonAdvances ==
  ASSUME NEW a \in Attempts, NEW n \in 1..5, NEW k \in 4..6
  PROVE  AttemptContext(a) => DaemonAdvancesFor(a, n, k)
<1> DEFINE At == StepsLeft[step[a]] = n
           Waits == AwaitsPc(a) /\ Left[stage[a]] = k
           Later == \/ StepsLeft[step[a]] < n
                    \/ At /\ calm /\ ~AwaitsPc(a)
                    \/ At /\ AwaitsPc(a) /\ Left[stage[a]] < k
<1>1. CASE a \in Conns
  <2>1. PairTypeOK' => Left[stage'[a]] \in 0..6
    BY <1>1, LeftValues DEF PairTypeOK, TypeOK, Stages, HandshakeStages
  <2>2. PairTypeOK /\ PairTypeOK' /\ At /\ Waits /\ [PairNext]_pairVars
          => Later' \/ (At /\ Waits)'
    BY <1>1, <2>1, AttemptsStayOrGoOn DEF AwaitsPc
  <2>3. PairTypeOK /\ PairTypeOK' /\ At /\ Waits /\ <<PcStep(a)>>_pairVars => Later'
    <3> SUFFICES ASSUME PairTypeOK, PairTypeOK', At, Waits, PcStep(a)
                 PROVE  Later'
      OBVIOUS
    <3>1. [PairNext]_pairVars
      BY <1>1 DEF PairNext
    <3>2. Left[stage'[a]] < k
      BY <1>1, HandlerStepsAreHandlers, HandlerStepsGoOn DEF PairTypeOK
    <3> QED
      BY <1>1, <3>1, <3>2, AttemptsStayOrGoOn DEF AwaitsPc
  <2>4. PairNeverStuck /\ Waits => ENABLED <<PcStep(a)>>_pairVars
    BY DEF PairNeverStuck
  <2>5. AttemptContext(a) => []PcFairness(a)
    BY <1>1 DEF AttemptContext
  <2> QED
    BY <2>2, <2>3, <2>4, <2>5, PTL DEF AttemptContext, PcFairness, DaemonAdvancesFor
<1>2. CASE a \notin Conns
  <2>1. ~AwaitsPc(a)
    BY <1>2 DEF AwaitsPc
  <2> QED
    BY <2>1, PTL DEF DaemonAdvancesFor
<1> QED
  BY <1>1, <1>2

LEMMA AttemptsAdvance ==
  ASSUME NEW a \in Attempts, NEW n \in 1..5
  PROVE  AttemptContext(a) => AttemptAdvances(a, n)
<1> DEFINE Handler(k) == Left[stage[a]] = k
           Below(k) == Left[stage[a]] < k
<1>1. PairTypeOK => (AwaitsPc(a) => Handler(6) \/ Handler(5) \/ Handler(4))
  BY LeftValues DEF AwaitsPc
<1>2. PairTypeOK => /\ AwaitsPc(a) /\ Below(6) => Handler(5) \/ Handler(4)
                    /\ AwaitsPc(a) /\ Below(5) => Handler(4)
                    /\ AwaitsPc(a) => ~Below(4)
  BY LeftValues DEF AwaitsPc
<1>3. AttemptContext(a) =>
        /\ DaemonAdvancesFor(a, n, 4) /\ DaemonAdvancesFor(a, n, 5)
        /\ DaemonAdvancesFor(a, n, 6)
  BY DaemonAdvances
<1> QED
  BY <1>1, <1>2, <1>3, TimeoutsAdvance, CalmAdvances, PTL
     DEF AttemptContext, AttemptAdvances, DaemonAdvancesFor

\* Every attempt of the phone ends (PhonectNetworkService.kt:335-336, 459, 489),
\* whatever the daemon, the other peers and the other attempts do.
THEOREM AttemptsEnd == PairFairSpec /\ []PairNeverStuck => AttemptEnds
<1> SUFFICES ASSUME NEW a \in Attempts
             PROVE  PairFairSpec /\ []PairNeverStuck =>
                      (step[a] # "idle" ~> step[a] = "idle")
  BY DEF AttemptEnds
<1> DEFINE At(n) == StepsLeft[step[a]] = n
           Below(n) == StepsLeft[step[a]] < n
<1>1. AttemptContext(a) =>
        /\ AttemptAdvances(a, 1) /\ AttemptAdvances(a, 2) /\ AttemptAdvances(a, 3)
        /\ AttemptAdvances(a, 4) /\ AttemptAdvances(a, 5)
  BY AttemptsAdvance
<1>2. PairTypeOK =>
        /\ step[a] # "idle" => At(1) \/ At(2) \/ At(3) \/ At(4) \/ At(5)
        /\ Below(5) => At(4) \/ Below(4)
        /\ Below(4) => At(3) \/ Below(3)
        /\ Below(3) => At(2) \/ Below(2)
        /\ Below(2) => At(1) \/ Below(1)
        /\ Below(1) => step[a] = "idle"
  BY StepsLeftValues DEF PairTypeOK, Phone!TypeOK, Phone!Steps
<1> QED
  BY <1>1, <1>2, AttemptsHaveContext, PTL DEF AttemptContext, AttemptAdvances
=============================================================================
