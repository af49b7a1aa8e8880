----------------------------- MODULE AuthWindow -----------------------------
(***************************************************************************)
(* The PC daemon, src/phonect/daemon.py: one asyncio process that waits    *)
(* for wake-ups, opens an authentication window for each, serves at most   *)
(* one phone handshake at a time, pins the first phone key that proves     *)
(* itself (trust on first use) and unlocks sessions for a pinned key.      *)
(*                                                                         *)
(* asyncio runs one callback at a time, so an action is the code from one  *)
(* await that may suspend to the next.  The tasks are the main loop        *)
(* (run and _run_auth_cycle, variable mainPc), the discovery broadcaster   *)
(* (variable discovery) and one handler per TCP connection (variable       *)
(* stage).  The process may be killed between any two steps and in the     *)
(* middle of writing the pinned key; only keyFile survives.                *)
(*                                                                         *)
(* A definition whose comment starts with "Fault:" is a faulty variant of  *)
(* the one that follows it.  It is never used here; substituted for the    *)
(* other it shows which property notices that fault (README.md).           *)
(***************************************************************************)
CONSTANTS
    Conns,          \* TCP connections that can be open at the same time
    Phones,         \* phone keys (a key stands for its PEM and fingerprint)
    NoKey,          \* Python's None, and a signature no phone key made
    Absent, Torn,   \* key file: does not exist; exists but is not a key
    ReadFaults,     \* TRUE: a good key file may fail to load at start
    WaitClosedWaits \* TRUE: Server.wait_closed waits for open connections

ASSUME KeyAssumption ==
    /\ NoKey \notin Phones
    /\ Absent \notin Phones
    /\ Torn \notin Phones
ASSUME FlagAssumption == ReadFaults \in BOOLEAN /\ WaitClosedWaits \in BOOLEAN

VARIABLES
    \* the main task and the object's flags
    mainPc,          \* where the main task is
    running,         \* _running
    wakeupEvent,     \* _wakeup_event.is_set()
    authPending,     \* _auth_pending
    authCompleted,   \* _auth_completed.is_set()
    waiterDone,      \* the future the window waits on is resolved
    authInProgress,  \* _auth_in_progress
    lastAuthOk,      \* _last_auth_ok
    discovery,       \* the broadcaster of the current window
    \* keys
    pcKey,           \* _pc_private_key is not None
    trustedKey,      \* _trusted_key
    keyFile,         \* the file config.public_key_path: survives a crash
    \* one handler per connection, with the locals of _tcp_handshake
    stage,
    isNew,
    verificationKey,
    signer,          \* the key that made the signature being verified
    \* history, read by no action
    inWindow,        \* connections admitted by the window that is open
    unlockedBy       \* the key whose proof last unlocked, since the last wake

mainVars == <<mainPc, running, wakeupEvent>>
flagVars == <<authPending, authCompleted, waiterDone, authInProgress, lastAuthOk>>
keyVars  == <<pcKey, trustedKey, keyFile>>
localVars == <<isNew, verificationKey, signer>>
connVars == <<stage, localVars>>
vars == <<mainVars, flagVars, discovery, keyVars, connVars, inWindow, unlockedBy>>

MainPcs == {"down", "starting", "idle", "window", "closing", "cleanup"}
Discoveries == {"none", "running", "ended", "failed", "cancelled"}
HandshakeStages == {"hello", "accepted", "challenged", "verifying"}
Stages == {"none", "queued", "closing"} \cup HandshakeStages
Keys == Phones \cup {NoKey}
Files == Phones \cup {Absent, Torn}

\* The handler of c is inside _tcp_handshake.
Busy(c) == stage[c] \in HandshakeStages

TypeOK ==
    /\ mainPc \in MainPcs
    /\ running \in BOOLEAN
    /\ wakeupEvent \in BOOLEAN
    /\ authPending \in BOOLEAN
    /\ authCompleted \in BOOLEAN
    /\ waiterDone \in BOOLEAN
    /\ authInProgress \in BOOLEAN
    /\ lastAuthOk \in BOOLEAN
    /\ discovery \in Discoveries
    /\ pcKey \in BOOLEAN
    /\ trustedKey \in Keys
    /\ keyFile \in Files
    /\ stage \in [Conns -> Stages]
    /\ isNew \in [Conns -> BOOLEAN]
    /\ verificationKey \in [Conns -> Keys]
    /\ signer \in [Conns -> Keys]
    /\ inWindow \subseteq Conns
    /\ unlockedBy \in Keys

Init ==
    /\ mainPc = "down"
    /\ running = FALSE
    /\ wakeupEvent = FALSE
    /\ authPending = FALSE
    /\ authCompleted = FALSE
    /\ waiterDone = FALSE
    /\ authInProgress = FALSE
    /\ lastAuthOk = FALSE
    /\ discovery = "none"
    /\ pcKey = FALSE
    /\ trustedKey = NoKey
    /\ keyFile \in Files
    /\ stage = [c \in Conns |-> "none"]
    /\ isNew = [c \in Conns |-> FALSE]
    /\ verificationKey = [c \in Conns |-> NoKey]
    /\ signer = [c \in Conns |-> NoKey]
    /\ inWindow = {}
    /\ unlockedBy = NoKey

(***************************************************************************)
(* Process start and end                                                   *)
(***************************************************************************)
\* Fault: the key file is not loaded at start.
ForgottenLoad(file) == {NoKey}

\* What loading the pinned key may give: any exception is logged and leaves
\* the daemon without one.
LoadedKey(file) ==
    IF file \in Phones THEN {file} \cup (IF ReadFaults THEN {NoKey} ELSE {})
                       ELSE {NoKey}

\* PhonectDaemon.__init__ and the first step of run().
Boot ==
    /\ mainPc = "down"
    /\ mainPc' = "starting"
    /\ running' = TRUE
    /\ pcKey' \in BOOLEAN
    /\ trustedKey' \in LoadedKey(keyFile)
    /\ UNCHANGED <<wakeupEvent, flagVars, discovery, keyFile, connVars,
                   inWindow, unlockedBy>>

\* D-Bus is connected (or given up on), the TCP server listens; with
\* unlock_on_start the daemon wakes itself.  stop() may already have run.
StartServer(unlockOnStart) ==
    /\ mainPc = "starting"
    /\ mainPc' = IF running THEN "idle" ELSE "cleanup"
    /\ wakeupEvent' = (wakeupEvent \/ unlockOnStart)
    /\ UNCHANGED <<running, flagVars, discovery, keyVars, connVars,
                   inWindow, unlockedBy>>

\* The process is gone: everything but the key file is lost.  The sessions
\* are the desktop's and stay as they are.
LoseMemory ==
    /\ mainPc' = "down"
    /\ running' = FALSE
    /\ wakeupEvent' = FALSE
    /\ authPending' = FALSE
    /\ authCompleted' = FALSE
    /\ waiterDone' = FALSE
    /\ authInProgress' = FALSE
    /\ lastAuthOk' = FALSE
    /\ discovery' = "none"
    /\ pcKey' = FALSE
    /\ trustedKey' = NoKey
    /\ stage' = [c \in Conns |-> "none"]
    /\ isNew' = [c \in Conns |-> FALSE]
    /\ verificationKey' = [c \in Conns |-> NoKey]
    /\ signer' = [c \in Conns |-> NoKey]
    /\ inWindow' = {}
    /\ UNCHANGED unlockedBy

\* The port is taken: start_server raises out of run() before its try.
StartFails ==
    /\ mainPc = "starting"
    /\ LoseMemory
    /\ UNCHANGED keyFile

\* Killed, or the machine loses power.
Crash ==
    /\ mainPc # "down"
    /\ LoseMemory
    /\ UNCHANGED keyFile

\* _cleanup has closed the server; asyncio.run cancels what is left.
Exit ==
    /\ mainPc = "cleanup"
    /\ WaitClosedWaits => \A c \in Conns : stage[c] = "none"
    /\ LoseMemory
    /\ UNCHANGED keyFile

(***************************************************************************)
(* Requests to the main task, from D-Bus and from signal handlers          *)
(***************************************************************************)
\* trigger_wakeup (SIGUSR1), or PrepareForSleep(false) after a resume.
Wake ==
    /\ mainPc # "down"
    /\ wakeupEvent' = TRUE
    /\ UNCHANGED <<mainPc, running, flagVars, discovery, keyVars, connVars,
                   inWindow, unlockedBy>>

\* Fault: stop() does not set the event the main task may be waiting for.
WakeupKept == wakeupEvent

WakeupAfterStop == TRUE

\* stop (SIGTERM, SIGINT): it wakes the main task up so that it looks.
Stop ==
    /\ mainPc # "down"
    /\ running' = FALSE
    /\ wakeupEvent' = WakeupAfterStop
    /\ UNCHANGED <<mainPc, flagVars, discovery, keyVars, connVars,
                   inWindow, unlockedBy>>

(***************************************************************************)
(* The main task: run and _run_auth_cycle                                  *)
(***************************************************************************)
\* The wait for a wake-up ends on a daemon that was told to stop.
NoticeStop ==
    /\ mainPc = "idle"
    /\ wakeupEvent
    /\ ~running
    /\ mainPc' = "cleanup"
    /\ wakeupEvent' = FALSE
    /\ UNCHANGED <<running, flagVars, discovery, keyVars, connVars,
                   inWindow, unlockedBy>>

\* The event is cleared first, so a wake-up during the window is kept.
\* In the model the desktop has locked its sessions before it asks again.
OpenWindow ==
    /\ mainPc = "idle"
    /\ wakeupEvent
    /\ running
    /\ mainPc' = "window"
    /\ wakeupEvent' = FALSE
    /\ authPending' = TRUE
    /\ authCompleted' = FALSE
    /\ lastAuthOk' = FALSE
    /\ waiterDone' = FALSE
    /\ discovery' = "running"
    /\ unlockedBy' = NoKey
    /\ UNCHANGED <<running, authInProgress, keyVars, connVars, inWindow>>

\* The broadcaster passes its own deadline.
DiscoveryEnds ==
    /\ mainPc = "window"
    /\ discovery = "running"
    /\ discovery' = "ended"
    /\ UNCHANGED <<mainVars, flagVars, keyVars, connVars, inWindow, unlockedBy>>

\* sendto raises an OSError other than ENETUNREACH.
DiscoveryFails ==
    /\ mainPc = "window"
    /\ discovery = "running"
    /\ discovery' = "failed"
    /\ UNCHANGED <<mainVars, flagVars, keyVars, connVars, inWindow, unlockedBy>>

\* The finally block of _run_auth_cycle, up to the await of the broadcaster.
CloseWindow ==
    /\ mainPc' = "closing"
    /\ authPending' = FALSE
    /\ waiterDone' = FALSE
    /\ discovery' = IF discovery = "running" THEN "cancelled" ELSE discovery
    /\ inWindow' = {}
    /\ UNCHANGED <<running, wakeupEvent, authCompleted, authInProgress,
                   lastAuthOk, keyVars, connVars, unlockedBy>>

\* A handler has set _auth_completed and the main task gets to run.
WindowCompleted ==
    /\ mainPc = "window"
    /\ waiterDone
    /\ CloseWindow

\* wait_for gives up after poll_timeout.  (WindowCompleted in its place is the
\* fault of a window without a timeout.)
WindowExpired ==
    /\ mainPc = "window"
    /\ CloseWindow

\* The broadcaster's result: cancellation is swallowed, an OSError leaves
\* run() through its finally block.  Otherwise the loop's condition is tested.
AfterWindow ==
    /\ mainPc = "closing"
    /\ mainPc' = IF discovery # "failed" /\ running THEN "idle" ELSE "cleanup"
    /\ discovery' = "none"
    /\ UNCHANGED <<running, wakeupEvent, flagVars, keyVars, connVars,
                   inWindow, unlockedBy>>

(***************************************************************************)
(* One TCP connection: _handle_client and _tcp_handshake                   *)
(***************************************************************************)
\* The listening socket is closed from _cleanup on.
Serving == mainPc \in {"idle", "window", "closing"}

Connect(c) ==
    /\ Serving
    /\ stage[c] = "none"
    /\ stage' = [stage EXCEPT ![c] = "queued"]
    /\ UNCHANGED <<mainVars, flagVars, discovery, keyVars, localVars,
                   inWindow, unlockedBy>>

\* Fault: the second gate of _handle_client is missing.
MayAdmitWhenPending == authPending

\* The two gates of _handle_client.
MayAdmit == authPending /\ ~authInProgress

Admit(c) ==
    /\ stage[c] = "queued"
    /\ MayAdmit
    /\ pcKey
    /\ stage' = [stage EXCEPT ![c] = "hello"]
    /\ authInProgress' = TRUE
    /\ authCompleted' = FALSE
    /\ lastAuthOk' = FALSE
    /\ inWindow' = inWindow \cup {c}
    /\ UNCHANGED <<mainVars, authPending, waiterDone, discovery, keyVars,
                   localVars, unlockedBy>>

\* The handler ends: the locals of its handshake are gone, its writer closes.
Leave(c) ==
    /\ stage' = [stage EXCEPT ![c] = "closing"]
    /\ isNew' = [isNew EXCEPT ![c] = FALSE]
    /\ verificationKey' = [verificationKey EXCEPT ![c] = NoKey]
    /\ signer' = [signer EXCEPT ![c] = NoKey]
    /\ inWindow' = inWindow \ {c}

\* The finally block of _handle_client: whatever happened to c, the window
\* that is waiting now is told.
Finish(c, ok) ==
    /\ Leave(c)
    /\ lastAuthOk' = ok
    /\ authCompleted' = TRUE
    /\ waiterDone' = (waiterDone \/ mainPc = "window")
    /\ authInProgress' = FALSE
    /\ UNCHANGED <<mainVars, authPending, discovery, pcKey>>

\* Without a PC key the handshake fails before its first await.
AdmitWithoutPcKey(c) ==
    /\ stage[c] = "queued"
    /\ MayAdmit
    /\ ~pcKey
    /\ Finish(c, FALSE)
    /\ UNCHANGED <<trustedKey, keyFile, unlockedBy>>

\* The early returns of _handle_client.
Reject(c) ==
    /\ stage[c] = "queued"
    /\ ~MayAdmit
    /\ Leave(c)
    /\ UNCHANGED <<mainVars, flagVars, discovery, keyVars, unlockedBy>>

\* The fingerprint must be that of the key, and the key the trusted one; with
\* no trusted key any will do.
MayAcceptHello(k, fingerprint) ==
    /\ fingerprint = k
    /\ trustedKey \in {NoKey, fingerprint}

\* The key is a candidate to be pinned (is_new).
IsCandidate(k) == trustedKey = NoKey

\* pair_hello with key k is read, the trust decision taken and pair_accept
\* written, in one step.  The verification key is captured here.
AcceptHello(c, k, fingerprint) ==
    /\ stage[c] = "hello"
    /\ MayAcceptHello(k, fingerprint)
    /\ stage' = [stage EXCEPT ![c] = "accepted"]
    /\ isNew' = [isNew EXCEPT ![c] = IsCandidate(k)]
    /\ verificationKey' =
         [verificationKey EXCEPT ![c] = IF IsCandidate(k) THEN k ELSE trustedKey]
    /\ UNCHANGED <<mainVars, flagVars, discovery, keyVars, signer,
                   inWindow, unlockedBy>>

RefuseHello(c, k, fingerprint) ==
    /\ stage[c] = "hello"
    /\ ~MayAcceptHello(k, fingerprint)
    /\ Finish(c, FALSE)
    /\ UNCHANGED <<trustedKey, keyFile, unlockedBy>>

\* pair_accept has drained; a fresh nonce goes out in the challenge.
SendChallenge(c) ==
    /\ stage[c] = "accepted"
    /\ stage' = [stage EXCEPT ![c] = "challenged"]
    /\ UNCHANGED <<mainVars, flagVars, discovery, keyVars, localVars,
                   inWindow, unlockedBy>>

\* A well-formed response, signed by the holder of s (NoKey: a signature of
\* no phone over this nonce), is handed to the executor for verification.
ReceiveResponse(c, s) ==
    /\ stage[c] = "challenged"
    /\ stage' = [stage EXCEPT ![c] = "verifying"]
    /\ signer' = [signer EXCEPT ![c] = s]
    /\ UNCHANGED <<mainVars, flagVars, discovery, keyVars, isNew,
                   verificationKey, inWindow, unlockedBy>>

\* Fault: waiting for the response has no timeout.
HelloOnly == {"hello", "accepted"}

\* Stages whose await can end in a timeout, an EOF, a connection error or a
\* malformed message.
Interruptible == {"hello", "accepted", "challenged"}

FailHandshake(c) ==
    /\ stage[c] \in Interruptible
    /\ Finish(c, FALSE)
    /\ UNCHANGED <<trustedKey, keyFile, unlockedBy>>

\* verify_nonce returned True.
Valid(c) == stage[c] = "verifying" /\ signer[c] = verificationKey[c]

RefuseResponse(c) ==
    /\ stage[c] = "verifying"
    /\ ~Valid(c)
    /\ Finish(c, FALSE)
    /\ UNCHANGED <<trustedKey, keyFile, unlockedBy>>

\* Fault: the first contact unlocks too.
EveryProofUnlocks(c) == TRUE

\* The second result of _tcp_handshake, for a valid response.
MayUnlock(c) == ~isNew[c]

\* What _unlock_sessions leaves: it runs its backend synchronously, and the
\* backend may find no session or fail, which is only logged.
UnlockIfAllowed(c) ==
    unlockedBy' \in IF MayUnlock(c) THEN {verificationKey[c], unlockedBy}
                                    ELSE {unlockedBy}

\* First contact: the key is written, then trusted; nothing is unlocked.
PairPhone(c) ==
    /\ Valid(c)
    /\ isNew[c]
    /\ Finish(c, TRUE)
    /\ keyFile' = verificationKey[c]
    /\ trustedKey' = verificationKey[c]
    /\ UnlockIfAllowed(c)

\* write_text opens the file for writing (which empties it), then writes.
PartialWrites(k) == {Torn, k}

\* Fault: the key is trusted before it is saved.
TrustBeforeSave(c) == verificationKey[c]

\* _trusted_key, when saving raised.
TrustAfterFailedSave(c) == trustedKey

\* _save_phone_key raises: before opening the file or in the middle.  The
\* assignment after it is not reached and the handshake has failed.
SaveFails(c) ==
    /\ Valid(c)
    /\ isNew[c]
    /\ Finish(c, FALSE)
    /\ keyFile' \in {keyFile, Torn}
    /\ trustedKey' = TrustAfterFailedSave(c)
    /\ UNCHANGED unlockedBy

\* The process dies inside write_text.
CrashInSave(c) ==
    /\ Valid(c)
    /\ isNew[c]
    /\ keyFile' \in PartialWrites(verificationKey[c])
    /\ LoseMemory

\* A known phone.
UnlockSessions(c) ==
    /\ Valid(c)
    /\ ~isNew[c]
    /\ Finish(c, TRUE)
    /\ UnlockIfAllowed(c)
    /\ UNCHANGED <<trustedKey, keyFile>>

\* wait_closed returns: the transport is gone.
CloseConn(c) ==
    /\ stage[c] = "closing"
    /\ stage' = [stage EXCEPT ![c] = "none"]
    /\ UNCHANGED <<mainVars, flagVars, discovery, keyVars, localVars,
                   inWindow, unlockedBy>>

-----------------------------------------------------------------------------
MainStep ==
    \/ \E b \in BOOLEAN : StartServer(b)
    \/ StartFails
    \/ NoticeStop
    \/ OpenWindow
    \/ WindowCompleted
    \/ WindowExpired
    \/ AfterWindow
    \/ Exit

\* A message of the phone arrives, which the phone may also never send.
MessageStep(c) ==
    \/ \E k, fingerprint \in Phones : AcceptHello(c, k, fingerprint)
    \/ \E k, fingerprint \in Phones : RefuseHello(c, k, fingerprint)
    \/ \E s \in Keys : ReceiveResponse(c, s)

\* What the handler does without hearing from the phone.
OwnStep(c) ==
    \/ Admit(c)
    \/ AdmitWithoutPcKey(c)
    \/ Reject(c)
    \/ SendChallenge(c)
    \/ FailHandshake(c)
    \/ RefuseResponse(c)
    \/ PairPhone(c)
    \/ SaveFails(c)
    \/ UnlockSessions(c)
    \/ CloseConn(c)

HandlerStep(c) == MessageStep(c) \/ OwnStep(c)

Next ==
    \/ Boot
    \/ MainStep
    \/ Wake
    \/ Stop
    \/ DiscoveryEnds
    \/ DiscoveryFails
    \/ Crash
    \/ \E c \in Conns : Connect(c) \/ HandlerStep(c) \/ CrashInSave(c)

Spec == Init /\ [][Next]_vars

\* The event loop runs whatever is ready, every read has a timeout, the
\* window has one too, and a closed transport goes away.  Nothing makes a
\* phone connect or answer, the system resume or the daemon start.
MainFairness == WF_vars(MainStep)
HandlerFairness(c) == WF_vars(OwnStep(c))

Fairness ==
    /\ MainFairness
    /\ \A c \in Conns : HandlerFairness(c)

FairSpec == Spec /\ Fairness

(***************************************************************************)
(* Safety                                                                  *)
(***************************************************************************)
\* The main task has something to do: it starts, its window's wait has a
\* timeout, the broadcaster it awaits has ended, or its event is set.
MainMayMove ==
    \/ mainPc \in {"starting", "window", "closing"}
    \/ mainPc = "idle" /\ wakeupEvent
    \/ mainPc = "cleanup" /\ (WaitClosedWaits => \A c \in Conns : stage[c] = "none")

\* No task waits for something that may never come: the main task goes on from
\* every await but the one for a wake-up and the one for open connections, and
\* a handler from every await, with or without an answer of its phone
\* (daemon.py:172-181, 291-306, 341-432, the timeouts of _read_frame).
NeverStuck ==
    /\ MainMayMove => ENABLED <<MainStep>>_vars
    /\ \A c \in Conns : stage[c] # "none" => ENABLED <<OwnStep(c)>>_vars

\* At most one connection is in a handshake, and the flag the gate reads says
\* so: _auth_in_progress is neither left set by a handler that ended nor
\* cleared by one that did not (daemon.py:257-264, 276-281).
OneHandshake ==
    /\ \A c, d \in Conns : Busy(c) /\ Busy(d) => c = d
    /\ authInProgress <=> \E c \in Conns : Busy(c)

\* The trust decision taken when the hello was read still holds in every
\* later step of that handshake, although it suspends several times before it
\* acts on it: a candidate is a candidate because nothing is trusted, and a
\* known key is the trusted one (daemon.py:371-379 against 437-440).
DecisionStillHolds ==
    \A c \in Conns : stage[c] \in HandshakeStages \ {"hello"} =>
        /\ verificationKey[c] \in Phones
        /\ isNew[c] <=> trustedKey = NoKey
        /\ ~isNew[c] => verificationKey[c] = trustedKey

\* The daemon never trusts in memory a key that is not the one on disk, also
\* when saving it fails half way (daemon.py:437-440, 473-478): otherwise a
\* restart would forget a phone that was told it is paired.
TrustIsOnDisk == trustedKey # NoKey => keyFile = trustedKey

\* While a handshake runs, the outcome of an earlier one is not visible as its
\* outcome (daemon.py:262-264, 276-279).
OutcomeIsNotStale ==
    (\E c \in Conns : Busy(c)) => ~authCompleted /\ ~lastAuthOk

\* A process that reads its key file when it starts trusts what the file holds.
DiskIsTrusted ==
    ~ReadFaults /\ mainPc # "down" /\ keyFile \in Phones => trustedKey = keyFile

\* Before the server listens there is no connection, and no key before that.
NothingBeforeStart ==
    /\ mainPc \in {"down", "starting"} => \A c \in Conns : stage[c] = "none"
    /\ mainPc = "down" => trustedKey = NoKey

\* The strengthening by which the invariants above are inductive.
Inv ==
    /\ TypeOK
    /\ OneHandshake
    /\ DecisionStillHolds
    /\ TrustIsOnDisk
    /\ OutcomeIsNotStale
    /\ DiskIsTrusted
    /\ NothingBeforeStart

\* A key file that holds a phone key is never rewritten: not by a second
\* pairing that began before the first one ended, not by a crash while saving,
\* not after a restart (README.md:55, daemon.py:371-379, 473-478).
PinIsNeverReplaced == [][(keyFile \in Phones) => keyFile' = keyFile]_vars

\* What TofuPolicy calls proof: the key of the response that verified.
proven ==
    IF \E c \in Conns : Valid(c)
    THEN verificationKey[CHOOSE c \in Conns : Valid(c)]
    ELSE NoKey

Policy == INSTANCE TofuPolicy WITH
    pinned     <- IF keyFile \in Phones THEN keyFile ELSE NoKey,
    proof      <- proven,
    unlockedBy <- unlockedBy

\* The daemon, with its windows, interleaved connections, failing writes and
\* crashes, does to keys and sessions only what the policy lets it do.
ImplementsPolicy == Policy!PolicySpec

\* Sessions were unlocked by no other key than the one now on disk.
UnlockedByPinned == Policy!UnlockedByPinned

(***************************************************************************)
(* Liveness, under FairSpec                                                *)
(***************************************************************************)
\* A wake-up that arrives at any time, a window that is open or closing
\* included, is answered by a window that opens after it, unless the daemon
\* stops (daemon.py:162-170, 183-186).
WakeOpensWindow ==
    wakeupEvent ~> (mainPc = "window" /\ ~wakeupEvent) \/ mainPc \in {"cleanup", "down"}

\* No peer can hold the only handshake slot for ever (daemon.py:276-281 and
\* the timeouts of _read_frame).
HandshakeEnds == authInProgress ~> ~authInProgress

\* Every connection is answered and closed in the end, so that
\* Server.wait_closed returns.
ConnectionEnds ==
    \A c \in Conns : stage[c] = "queued" ~> stage[c] = "none"

\* stop() was called, or the broadcaster has died of an error.
MustEnd == ~running \/ discovery = "failed"

\* A daemon told to stop goes down, from any state, also when it was idle and
\* when it must wait for open connections (daemon.py:177-181, 214-222).  So does
\* one whose broadcaster has died, rather than serve on without broadcasting:
\* the error is kept until the window closes and leaves run() then
\* (daemon.py:291-298, 328).
StopEnds == (mainPc # "down" /\ MustEnd) ~> mainPc = "down"

(***************************************************************************)
(* What the documents say and the code does not do                         *)
(***************************************************************************)
\* "Open a bounded auth window and broadcast discovery until auth or timeout"
\* (daemon.py:284): the window's wait is ended only by a connection that was
\* admitted by that window.
WindowWaitsForItsOwn ==
    [][~waiterDone /\ waiterDone' =>
         \E c \in Conns : \/ c \in inWindow /\ c \notin inWindow'
                          \/ stage[c] = "queued" /\ stage'[c] = "closing"]_vars

\* "Maximum seconds to advertise and accept one TCP auth after wake"
\* (config.py:214): once an authentication has ended the window's wait, that
\* window admits no other connection.
OneAuthPerWindow ==
    [][\A c \in Conns :
         waiterDone /\ stage[c] = "queued" => ~(stage'[c] \in HandshakeStages)]_vars
=============================================================================
