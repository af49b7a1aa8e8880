------------------------------ MODULE Pairing ------------------------------
(***************************************************************************)
(* One phone and one PC: the daemon of AuthWindow and the handshakes of    *)
(* PhoneTrust joined by their TCP connections, with the configuration and  *)
(* the unlocking of Unlock.                                                *)
(*                                                                         *)
(* A connection is opened by ThePhone, whose steps are all modelled, or by *)
(* another peer, which sends what AuthWindow lets any phone send but       *)
(* cannot sign as ThePhone.  ThePhone may at the same time be in           *)
(* handshakes with other PCs (OtherAttempts), of which only its own side   *)
(* is modelled.  Every step of the daemon here is a step of AuthWindow     *)
(* with its guard strengthened by what has been sent.                      *)
(*                                                                         *)
(* The world may become calm: from then on nothing fails, nobody else      *)
(* connects, the PC is woken whenever it sleeps and the user confirms.     *)
(* That is the assumption of the liveness property Recovers, and of it     *)
(* alone.                                                                  *)
(***************************************************************************)
EXTENDS AuthWindow, Unlock

CONSTANTS
    ThePhone,
    ThisPc, OtherPc,
    OtherAttempts,      \* handshakes of ThePhone with OtherPc
    Sick,               \* sessions that loginctl never manages to unlock
    ConfigFiles         \* what the configuration file may say

ASSUME PhoneAssumption == ThePhone \in Phones
ASSUME AttemptAssumption == OtherAttempts \cap Conns = {}
ASSUME PcAssumption == ThisPc # OtherPc

VARIABLES
    peer,           \* who opened the connection
    up,             \* what ThePhone has written and the daemon not yet read
    written,        \* how many messages the daemon has written
    file,           \* the configuration file
    opened,         \* sessions unlocked since they were last locked
    step, tofu, current, store, flushed,    \* the phone: see PhoneTrust
    lost,           \* the phone has lost a change of its list (history)
    calm

Attempts == Conns \cup OtherAttempts
Pcs == {ThisPc, OtherPc}
PcOf(a) == IF a \in Conns THEN ThisPc ELSE OtherPc

Phone == INSTANCE PhoneTrust

wireVars == <<peer, up, written>>
sessionVars == <<file, opened>>
phoneVars == <<step, tofu, current, store, flushed, lost>>
pairVars == <<vars, wireVars, sessionVars, phoneVars, calm>>

PairTypeOK ==
    /\ TypeOK
    /\ Phone!TypeOK
    /\ peer \in [Conns -> {"nobody", "phone", "other"}]
    /\ up \in [Conns -> {"nothing", "hello", "response"}]
    /\ written \in [Conns -> 0..2]
    /\ file \in ConfigFiles
    /\ opened \subseteq Sessions
    /\ lost \in BOOLEAN /\ calm \in BOOLEAN

\* Both sides as installed.
PairInit ==
    /\ Init
    /\ keyFile = Absent
    /\ Phone!Init
    /\ peer = [c \in Conns |-> "nobody"]
    /\ up = [c \in Conns |-> "nothing"]
    /\ written = [c \in Conns |-> 0]
    /\ file \in ConfigFiles
    /\ opened = {}
    /\ lost = FALSE
    /\ calm = FALSE

PeerIsPhone(c) == peer[c] = "phone"

\* Nobody will write to the daemon on this connection any more.
Silent(c) == up[c] = "nothing" /\ (PeerIsPhone(c) => step[c] = "idle")

(***************************************************************************)
(* The daemon                                                              *)
(***************************************************************************)
\* run_daemon: load_config raises on an invalid file, before there is a daemon.
PcBoots ==
    /\ ValidUnlockConfig(file)
    /\ Boot
    /\ calm => pcKey'
    /\ UNCHANGED <<wireVars, sessionVars, phoneVars, calm>>

\* A new window is opened for sessions that have been locked again.
PcOpensWindow ==
    /\ OpenWindow
    /\ opened' = {}
    /\ UNCHANGED <<wireVars, file, phoneVars, calm>>

\* What the main task does apart from that.
PcRuns ==
    /\ \/ StartServer(UnlockOnStart(file)) \/ NoticeStop \/ WindowCompleted
       \/ AfterWindow \/ Exit
       \/ ~calm /\ (StartFails \/ WindowExpired)
    /\ UNCHANGED <<wireVars, sessionVars, phoneVars, calm>>

\* What happens to the daemon.
PcWakes ==
    /\ Wake
    /\ UNCHANGED <<wireVars, sessionVars, phoneVars, calm>>

PcDisturbed ==
    /\ ~calm
    /\ Stop \/ Crash \/ DiscoveryEnds \/ DiscoveryFails
    /\ UNCHANGED <<wireVars, sessionVars, phoneVars, calm>>

PcReadsHello(c) ==
    /\ IF PeerIsPhone(c)
       THEN /\ up[c] = "hello"
            /\ AcceptHello(c, ThePhone, ThePhone) \/ RefuseHello(c, ThePhone, ThePhone)
            /\ up' = [up EXCEPT ![c] = "nothing"]
       ELSE /\ \E k, fingerprint \in Phones :
                 AcceptHello(c, k, fingerprint) \/ RefuseHello(c, k, fingerprint)
            /\ UNCHANGED up
    /\ written' = [written EXCEPT ![c] = IF stage'[c] = "accepted" THEN 1 ELSE 0]
    /\ UNCHANGED <<peer, sessionVars, phoneVars, calm>>

PcSendsChallenge(c) ==
    /\ SendChallenge(c)
    /\ written' = [written EXCEPT ![c] = 2]
    /\ UNCHANGED <<peer, up, sessionVars, phoneVars, calm>>

PcReadsResponse(c) ==
    /\ IF PeerIsPhone(c)
       THEN /\ up[c] = "response"
            /\ ReceiveResponse(c, ThePhone)
            /\ up' = [up EXCEPT ![c] = "nothing"]
       ELSE /\ \E s \in Keys \ {ThePhone} : ReceiveResponse(c, s)
            /\ UNCHANGED up
    /\ UNCHANGED <<peer, written, sessionVars, phoneVars, calm>>

\* A timeout or EOF; in calm only of a peer that is silent.
PcGivesUp(c) ==
    /\ FailHandshake(c)
    /\ calm => ~PeerIsPhone(c) \/ Silent(c)
    /\ UNCHANGED <<wireVars, sessionVars, phoneVars, calm>>

\* How the commands may end: a sick session never opens, in calm all others do.
Results ==
    {r \in [ActiveSessions -> Outcomes] : \A s \in ActiveSessions :
        /\ s \in Sick => r[s] # "ok"
        /\ calm => IF s \in Sick THEN r[s] \in {"status", "timeout"} ELSE r[s] = "ok"}

\* The handshake of a pinned phone is verified: _unlock_sessions.
PcUnlocks(c) ==
    /\ UnlockSessions(c)
    /\ \E order \in Orders, result \in Results, listing, outcome \in Outcomes :
         /\ calm => listing = "ok" /\ outcome = "ok"
         /\ opened' = opened \cup Opens(file, listing, order, result, outcome)
    /\ unlockedBy' = IF opened' = opened THEN unlockedBy ELSE verificationKey[c]
    /\ UNCHANGED <<wireVars, file, phoneVars, calm>>

\* The other steps of a handler.
PcHandles(c) ==
    /\ \/ Admit(c) \/ AdmitWithoutPcKey(c) \/ Reject(c)
       \/ RefuseResponse(c) \/ PairPhone(c) \/ CloseConn(c)
       \/ ~calm /\ (SaveFails(c) \/ CrashInSave(c))
    /\ UNCHANGED <<wireVars, sessionVars, phoneVars, calm>>

(***************************************************************************)
(* The phone and the other peers                                           *)
(***************************************************************************)
\* Somebody's connection reaches the daemon.
Arrives(c, who, sent) ==
    /\ Connect(c)
    /\ peer' = [peer EXCEPT ![c] = who]
    /\ up' = [up EXCEPT ![c] = sent]
    /\ written' = [written EXCEPT ![c] = 0]

\* The registry lets one attempt per address, port and fingerprint live, so two
\* attempts at one PC may overlap: after a change of its address, and while the
\* body of a cancelled attempt runs on.  Attempts at OtherPc start and receive
\* when that PC likes.  In calm the phone connects because it has heard the
\* broadcast of a window; the PC keeps its address and nothing is cancelled.
PhoneConnects(a) ==
    /\ calm => /\ a \in Conns /\ mainPc = "window"
               /\ \A d \in Attempts : PcOf(d) = PcOf(a) => step[d] = "idle"
    /\ Phone!SendHello(a)
    /\ IF a \in Conns THEN Arrives(a, "phone", "hello") ELSE UNCHANGED <<vars, wireVars>>
    /\ UNCHANGED <<sessionVars, lost, calm>>

OtherConnects(c) ==
    /\ ~calm
    /\ step[c] = "idle"
    /\ Arrives(c, "other", "nothing")
    /\ UNCHANGED <<sessionVars, phoneVars, calm>>

PhoneReads(a) ==
    /\ \/ (a \in Conns => written[a] >= 1) /\ Phone!ReadAccept(a, PcOf(a))
       \/ (a \in Conns => written[a] = 2) /\ Phone!ReadChallenge(a)
    /\ UNCHANGED <<vars, wireVars, sessionVars, lost, calm>>

PhoneSaves(a) ==
    /\ Phone!ReadStore(a) \/ Phone!WriteStore(a, PcOf(a))
    /\ UNCHANGED <<vars, wireVars, sessionVars, lost, calm>>

\* The response may still be read after the phone has closed.
PhoneResponds(a) ==
    /\ Phone!Respond(a)
    /\ up' = IF a \in Conns THEN [up EXCEPT ![a] = "response"] ELSE up
    /\ UNCHANGED <<vars, peer, written, sessionVars, lost, calm>>

\* In calm an attempt ends early only when the daemon has closed.
PhoneGivesUp(a) ==
    /\ Phone!GiveUp(a)
    /\ calm /\ a \in Conns => stage[a] \in {"none", "closing"}
    /\ UNCHANGED <<vars, wireVars, sessionVars, lost, calm>>

PhoneFlushes ==
    /\ Phone!Flush
    /\ UNCHANGED <<vars, wireVars, sessionVars, lost, calm>>

PhoneDies ==
    /\ ~calm
    /\ Phone!Kill
    /\ lost' = (lost \/ flushed # store)
    /\ UNCHANGED <<vars, wireVars, sessionVars, calm>>

BecomeCalm ==
    /\ ~calm
    /\ calm' = TRUE
    /\ UNCHANGED <<vars, wireVars, sessionVars, phoneVars>>

-----------------------------------------------------------------------------
PcMainStep == PcOpensWindow \/ PcRuns

PcStep(c) ==
    \/ PcReadsHello(c) \/ PcSendsChallenge(c) \/ PcReadsResponse(c)
    \/ PcGivesUp(c) \/ PcUnlocks(c) \/ PcHandles(c)

\* What an attempt does without its user, its timeouts included.
PhoneStep(a) == PhoneReads(a) \/ PhoneSaves(a) \/ PhoneGivesUp(a)

PairNext ==
    \/ PcBoots \/ PcMainStep \/ PcWakes \/ PcDisturbed
    \/ \E c \in Conns : PcStep(c) \/ OtherConnects(c)
    \/ \E a \in Attempts : PhoneConnects(a) \/ PhoneStep(a) \/ PhoneResponds(a)
    \/ PhoneFlushes \/ PhoneDies \/ BecomeCalm

PairSpec == PairInit /\ [][PairNext]_pairVars

\* Only in calm the daemon is started, the PC woken, the broadcast heard and the
\* prompt confirmed.
CalmFairness ==
    /\ WF_pairVars(calm /\ PcBoots)
    /\ WF_pairVars(calm /\ mainPc = "idle" /\ ~wakeupEvent /\ PcWakes)
    /\ WF_pairVars(calm /\ \E c \in Conns : PhoneConnects(c))

\* Both programs take the steps they can, timeouts included.
PcMainFairness == WF_pairVars(PcMainStep)
PcFairness(c) == WF_pairVars(PcStep(c))
PhoneFairness(a) == WF_pairVars(PhoneStep(a)) /\ WF_pairVars(calm /\ PhoneResponds(a))

PairFairness ==
    /\ PcMainFairness
    /\ \A c \in Conns : PcFairness(c)
    /\ \A a \in Attempts : PhoneFairness(a)
    /\ CalmFairness

PairFairSpec == PairSpec /\ PairFairness

(***************************************************************************)
(* Safety                                                                  *)
(***************************************************************************)
\* A PC that has pinned the phone is in the phone's list, through every
\* interleaving of their handshakes, crashes of the daemon and failed saves,
\* unless the phone was killed before its list was on disk: the phone saves the
\* PC before it lets the user confirm, and the PC pins after the response
\* (PhonectNetworkService.kt:441-447, 489; daemon.py:437-440).
PinIsMutual == keyFile = ThePhone /\ ~lost => ThisPc \in store

\* Whatever fails while sessions are unlocked, the sessions that were opened
\* are the user's own, and only for a phone that is pinned on disk
\* (daemon.py:269-271, 613-638, 677-682).
OpenedByPinned == opened # {} => opened \subseteq Mine /\ unlockedBy = keyFile

(***************************************************************************)
(* Liveness, under PairFairSpec                                            *)
(***************************************************************************)
\* The phone waits for a message that the daemon has yet to write.
AwaitsPc(a) ==
    /\ calm /\ a \in Conns
    /\ \/ step[a] = "accept" /\ stage[a] \in {"queued", "hello"}
       \/ step[a] = "challenge" /\ stage[a] \in {"queued", "hello", "accepted"}

\* Phone and daemon never wait for each other: an attempt can go on by itself,
\* or, in calm, with its user's answer or because the daemon can go on, which
\* has received what it waits for (PhonectNetworkService.kt:365-459,
\* daemon.py:341-432).
PairNeverStuck ==
    \A a \in Attempts :
        /\ step[a] # "idle" /\ (calm => step[a] # "prompt") /\ ~AwaitsPc(a)
             => ENABLED <<PhoneStep(a)>>_pairVars
        /\ calm /\ step[a] = "prompt" => ENABLED <<calm /\ PhoneResponds(a)>>_pairVars
        /\ AwaitsPc(a) => ENABLED <<PcStep(a)>>_pairVars

\* An attempt of the phone ends, whatever the PC and the user do, so that its
\* key in the registry is given back (PhonectNetworkService.kt:335-336, 459,
\* 489; the fairness assumed in AttemptRegistry).
AttemptEnds == \A a \in Attempts : step[a] # "idle" ~> step[a] = "idle"

\* Nothing that can go wrong before leaves the two in a state from which they
\* cannot get on: once the world is calm, they pair if they have to and then
\* open every session that can be opened, unless the PC has no key or another
\* phone, or the phone another PC (daemon.py:371-379, 437-440, 613-638;
\* PhonectNetworkService.kt:391-406).
CanGetOn ==
    /\ ValidUnlockConfig(file)
    /\ pcKey \/ mainPc = "down"
    /\ keyFile \notin Phones \ {ThePhone}
    /\ store \subseteq {ThisPc}

Recovers ==
    calm /\ CanGetOn ~> \/ Mine \ Sick \subseteq opened
                       \/ keyFile \in Phones \ {ThePhone}
=============================================================================
