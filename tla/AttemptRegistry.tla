-------------------------- MODULE AttemptRegistry --------------------------
(***************************************************************************)
(* The phone's InFlightAttemptRegistry (InFlightAttemptRegistry.kt): one   *)
(* cancellable connection attempt per discovery key.  It is called from    *)
(* several threads at once: listener coroutines claim and start attempts,  *)
(* the attempts' own coroutines attach their sockets and complete, and the *)
(* main thread and the connectivity thread call cancelAll.                 *)
(*                                                                         *)
(* An action is one synchronized block, or one call made outside of it.    *)
(* cancelAll is three actions: it marks under the lock, cancels and closes *)
(* without it, and removes under it again.  The body of an attempt is      *)
(* connectAndHandleTcp (PhonectNetworkService.kt), as far as its socket    *)
(* and its job are concerned.                                              *)
(*                                                                         *)
(* Definitions marked "Fault:" are faulty variants, as in AuthWindow.      *)
(***************************************************************************)
CONSTANTS
    Keys,       \* discovery keys, "ip:port:fingerprint"
    Attempts,   \* attempt objects; each is claimed at most once (a bound)
    Cancellers, \* threads that call cancelAll
    NoAttempt,
    NoKey

ASSUME RegistryAssumption == NoAttempt \notin Attempts /\ NoKey \notin Keys

VARIABLES
    attempts,    \* the map: key -> the attempt that owns it
    key,         \* attempt -> its key, NoKey before it is claimed
    job,         \* attempt -> the state of its owner, a coroutine Job
    isCancelled, \* attempt -> owner.isCancelled
    cancelling,  \* attempt -> the flag cancelAll sets
    body,        \* attempt -> how far connectAndHandleTcp is
    socket,      \* attempt -> the socket object itself
    attached,    \* attempt -> attempt.socket refers to it
    scopeActive, \* serviceScope has not been cancelled
    batch,       \* canceller -> the attempts its cancelAll has marked
    toCancel,    \* canceller -> those whose owner it has yet to cancel
    toClose      \* canceller -> those whose socket it took and has to close

claimVars == <<attempts, key>>
jobVars == <<job, isCancelled, body>>
sockVars == <<socket, attached>>
cancelVars == <<batch, toCancel, toClose>>
vars == <<claimVars, jobVars, cancelling, sockVars, scopeActive, cancelVars>>

\* "ended": the job is complete, its completion handler has not run yet.
Jobs == {"none", "lazy", "running", "ended", "done"}
Bodies == {"connecting", "attached", "using", "left"}
Sockets == {"none", "open", "closed"}

TypeOK ==
    /\ attempts \in [Keys -> Attempts \cup {NoAttempt}]
    /\ key \in [Attempts -> Keys \cup {NoKey}]
    /\ job \in [Attempts -> Jobs]
    /\ isCancelled \in [Attempts -> BOOLEAN]
    /\ cancelling \in [Attempts -> BOOLEAN]
    /\ body \in [Attempts -> Bodies]
    /\ socket \in [Attempts -> Sockets]
    /\ attached \in [Attempts -> BOOLEAN]
    /\ scopeActive \in BOOLEAN
    /\ batch \in [Cancellers -> SUBSET Attempts]
    /\ toCancel \in [Cancellers -> SUBSET Attempts]
    /\ toClose \in [Cancellers -> SUBSET Attempts]

Init ==
    /\ attempts = [k \in Keys |-> NoAttempt]
    /\ key = [a \in Attempts |-> NoKey]
    /\ job = [a \in Attempts |-> "none"]
    /\ isCancelled = [a \in Attempts |-> FALSE]
    /\ cancelling = [a \in Attempts |-> FALSE]
    /\ body = [a \in Attempts |-> "connecting"]
    /\ socket = [a \in Attempts |-> "none"]
    /\ attached = [a \in Attempts |-> FALSE]
    /\ scopeActive = TRUE
    /\ batch = [t \in Cancellers |-> {}]
    /\ toCancel = [t \in Cancellers |-> {}]
    /\ toClose = [t \in Cancellers |-> {}]

\* attempts[attempt.key] === attempt: identity, not merely the same key.
Registered(a) == key[a] \in Keys /\ attempts[key[a]] = a

\* The attempt may still do its work.
Live(a) == job[a] \in {"lazy", "running"} /\ ~isCancelled[a]

(***************************************************************************)
(* claim and start                                                         *)
(***************************************************************************)
\* Fault: a key that is taken is given again.
ClaimRegardless(k) == TRUE

\* "if (attempts.containsKey(key)) return null"
MayClaim(k) == attempts[k] = NoAttempt

Claim(k, a) ==
    /\ MayClaim(k)
    /\ scopeActive
    /\ job[a] = "none"
    /\ attempts' = [attempts EXCEPT ![k] = a]
    /\ key' = [key EXCEPT ![a] = k]
    /\ job' = [job EXCEPT ![a] = "lazy"]
    /\ UNCHANGED <<isCancelled, body, cancelling, sockVars, scopeActive, cancelVars>>

\* In a cancelled scope the job is born cancelled; invokeOnCompletion runs
\* complete() at once, inside the same lock, and the key is free again.
ClaimInCancelledScope(k, a) ==
    /\ MayClaim(k)
    /\ ~scopeActive
    /\ job[a] = "none"
    /\ key' = [key EXCEPT ![a] = k]
    /\ job' = [job EXCEPT ![a] = "done"]
    /\ isCancelled' = [isCancelled EXCEPT ![a] = TRUE]
    /\ UNCHANGED <<attempts, body, cancelling, sockVars, scopeActive, cancelVars>>

\* The claimer starts the lazy job, unless it was cancelled in between.
Start(a) ==
    /\ job[a] = "lazy"
    /\ job' = [job EXCEPT ![a] = "running"]
    /\ UNCHANGED <<claimVars, isCancelled, body, cancelling, sockVars,
                   scopeActive, cancelVars>>

(***************************************************************************)
(* The attempt's coroutine                                                 *)
(***************************************************************************)
\* Fault: a marked attempt may still attach.
RejectUnregistered(a) == ~Registered(a) \/ isCancelled[a]

\* The condition of attachSocket.
RejectSocket(a) == ~Registered(a) \/ cancelling[a] \/ isCancelled[a]

\* Socket() and attachSocket: a rejected socket is closed on the spot.
AttachSocket(a) ==
    /\ job[a] = "running"
    /\ body[a] = "connecting"
    /\ body' = [body EXCEPT ![a] = "attached"]
    /\ socket' = [socket EXCEPT ![a] = IF RejectSocket(a) THEN "closed" ELSE "open"]
    /\ attached' = [attached EXCEPT ![a] = ~RejectSocket(a)]
    /\ UNCHANGED <<claimVars, job, isCancelled, cancelling, scopeActive, cancelVars>>

\* "if (attempt.owner.isCancelled) return": the body does not close here.
UseSocket(a) ==
    /\ job[a] = "running"
    /\ body[a] = "attached"
    /\ ~isCancelled[a]
    /\ body' = [body EXCEPT ![a] = "using"]
    /\ UNCHANGED <<claimVars, job, isCancelled, cancelling, sockVars,
                   scopeActive, cancelVars>>

\* connect and the handshake are over, well or not: the socket is closed.
FinishWork(a) ==
    /\ job[a] = "running"
    /\ body[a] = "using"
    /\ body' = [body EXCEPT ![a] = "left"]
    /\ job' = [job EXCEPT ![a] = "ended"]
    /\ socket' = [socket EXCEPT ![a] = "closed"]
    /\ UNCHANGED <<claimVars, isCancelled, cancelling, attached, scopeActive, cancelVars>>

\* Fault: a cancelled body looks for its cancellation only before it connects.
LeaveUnattached(a) ==
    /\ job[a] = "running"
    /\ isCancelled[a]
    /\ body[a] = "connecting"
    /\ body' = [body EXCEPT ![a] = "left"]
    /\ job' = [job EXCEPT ![a] = "ended"]
    /\ UNCHANGED <<claimVars, isCancelled, cancelling, sockVars, scopeActive, cancelVars>>

\* A cancelled body leaves before it connects, without closing anything.
LeaveEarly(a) ==
    /\ job[a] = "running"
    /\ isCancelled[a]
    /\ body[a] \in {"connecting", "attached"}
    /\ body' = [body EXCEPT ![a] = "left"]
    /\ job' = [job EXCEPT ![a] = "ended"]
    /\ UNCHANGED <<claimVars, isCancelled, cancelling, sockVars, scopeActive, cancelVars>>

\* Fault: a cancelled owner does not give its key back.
KeepsKeyIfCancelled(a) == Registered(a) /\ ~isCancelled[a]

\* isCurrent in complete: a replaced or a marked attempt removes nothing.
IsCurrent(a) == Registered(a) /\ ~cancelling[a]

\* Fault: complete forgets the socket.
CompleteWithoutClosing(a) == socket[a]

\* The socket the attempt refers to is closed, whether or not the key goes.
SocketAfterComplete(a) == IF attached[a] THEN "closed" ELSE socket[a]

\* complete, as the job's completion handler.
Complete(a) ==
    /\ job[a] = "ended"
    /\ job' = [job EXCEPT ![a] = "done"]
    /\ attempts' = IF IsCurrent(a) THEN [attempts EXCEPT ![key[a]] = NoAttempt]
                                   ELSE attempts
    /\ socket' = [socket EXCEPT ![a] = SocketAfterComplete(a)]
    /\ attached' = [attached EXCEPT ![a] = FALSE]
    /\ UNCHANGED <<key, isCancelled, body, cancelling, scopeActive, cancelVars>>

(***************************************************************************)
(* Cancellation                                                            *)
(***************************************************************************)
\* What cancel() makes of a Job: one that has not started is complete at once
\* (kotlinx then runs its handler in the calling thread; here it may also run
\* later), a running one goes on until its body notices, a complete one is
\* unaffected.
JobAfterCancel(a) == IF job[a] = "lazy" THEN "ended" ELSE job[a]

CancelJob(a) ==
    /\ isCancelled' = [isCancelled EXCEPT ![a] = @ \/ job[a] \in {"lazy", "running"}]
    /\ job' = [job EXCEPT ![a] = JobAfterCancel(a)]

\* serviceScope.cancel() in onDestroy, which reaches the children one by one.
CancelScope ==
    /\ scopeActive
    /\ scopeActive' = FALSE
    /\ UNCHANGED <<claimVars, jobVars, cancelling, sockVars, cancelVars>>

CancelChild(a) ==
    /\ ~scopeActive
    /\ Live(a)
    /\ CancelJob(a)
    /\ UNCHANGED <<claimVars, body, cancelling, sockVars, scopeActive, cancelVars>>

\* The thread t is not inside cancelAll.
Idle(t) == batch[t] = {}

\* First block of cancelAll: everything registered is marked and its socket
\* taken away.  (With nothing registered the call has no effect.)
CancelAllMark(t) ==
    LET owners == {a \in Attempts : Registered(a)} IN
    /\ Idle(t)
    /\ owners # {}
    /\ batch' = [batch EXCEPT ![t] = owners]
    /\ toCancel' = [toCancel EXCEPT ![t] = owners]
    /\ toClose' = [toClose EXCEPT ![t] = {a \in owners : attached[a]}]
    /\ cancelling' = [a \in Attempts |-> cancelling[a] \/ a \in owners]
    /\ attached' = [a \in Attempts |-> attached[a] /\ a \notin owners]
    /\ UNCHANGED <<claimVars, jobVars, socket, scopeActive>>

CancelOwner(t, a) ==
    /\ a \in toCancel[t]
    /\ toCancel' = [toCancel EXCEPT ![t] = @ \ {a}]
    /\ CancelJob(a)
    /\ UNCHANGED <<claimVars, body, cancelling, sockVars, scopeActive, batch, toClose>>

CloseTaken(t, a) ==
    /\ a \in toClose[t]
    /\ a \notin toCancel[t]
    /\ toClose' = [toClose EXCEPT ![t] = @ \ {a}]
    /\ socket' = [socket EXCEPT ![a] = "closed"]
    /\ UNCHANGED <<claimVars, jobVars, cancelling, attached, scopeActive, batch, toCancel>>

\* Fault: the last block removes by key, not by identity.
SameKeyRemoved(t, k) == \E a \in batch[t] : key[a] = k

\* Last block: an entry goes only if it is still one of those marked.
RemovedBy(t, k) == attempts[k] \in batch[t]

\* Fault: cancelAll waits for the completions to give the keys back, which
\* leave what is marked to cancelAll.
WaitsForCompletions(t) ==
    toCancel[t] = {} /\ toClose[t] = {} /\ \A a \in batch[t] : ~Registered(a)

\* Fault: the last block runs before all owners are cancelled.
OwnersMayBeLeft(t) == toClose[t] = {}

\* The loop between the two synchronized blocks is over.
OwnersCancelled(t) == toCancel[t] = {} /\ toClose[t] = {}

CancelAllRemove(t) ==
    /\ ~Idle(t)
    /\ OwnersCancelled(t)
    /\ attempts' = [k \in Keys |-> IF RemovedBy(t, k) THEN NoAttempt ELSE attempts[k]]
    /\ batch' = [batch EXCEPT ![t] = {}]
    /\ toCancel' = [toCancel EXCEPT ![t] = {}]
    /\ UNCHANGED <<key, jobVars, cancelling, sockVars, scopeActive, toClose>>

-----------------------------------------------------------------------------
BodyStep(a) ==
    \/ Start(a)
    \/ AttachSocket(a)
    \/ UseSocket(a)
    \/ FinishWork(a)
    \/ LeaveEarly(a)
    \/ Complete(a)

CancelStep(t) ==
    \/ \E a \in Attempts : CancelOwner(t, a) \/ CloseTaken(t, a)
    \/ CancelAllRemove(t)

Next ==
    \/ \E k \in Keys, a \in Attempts : Claim(k, a) \/ ClaimInCancelledScope(k, a)
    \/ \E a \in Attempts : BodyStep(a) \/ CancelChild(a)
    \/ CancelScope
    \/ \E t \in Cancellers : CancelAllMark(t) \/ CancelStep(t)

Spec == Init /\ [][Next]_vars

\* Threads run; connect, read and the biometric prompt have timeouts (5 s and
\* twice 30 s), so a body ends.  Nobody has to claim or to cancel.
BodyFairness(a) == WF_vars(BodyStep(a))
CancelFairness(t) == WF_vars(CancelStep(t))
Fairness ==
    /\ \A a \in Attempts : BodyFairness(a)
    /\ \A t \in Cancellers : CancelFairness(t)

FairSpec == Spec /\ Fairness

(***************************************************************************)
(* Safety                                                                  *)
(***************************************************************************)
\* Two attempts for one key are never both able to work, whatever cancelAll
\* calls overlap with claims and completions: a key is given again only after
\* its owner is complete or cancelled (InFlightAttemptRegistry.kt:21-77).
OneLiveAttemptPerKey ==
    \A a, b \in Attempts : Live(a) /\ Live(b) /\ key[a] = key[b] => a = b

\* A live attempt is in the map, so cancelAll reaches it: no completion of an
\* older attempt and no late third phase of another cancelAll takes it out.
LiveIsRegistered == \A a \in Attempts : Live(a) => Registered(a)

\* An open socket always has somebody who is going to close it: the body that
\* uses it, the completion handler that has yet to run, or a cancelAll that
\* took it (attachSocket, complete and cancelAll pass it from one to another).
OpenSocketHasCloser ==
    \A a \in Attempts : socket[a] = "open" =>
        \/ body[a] = "using"
        \/ attached[a] /\ job[a] # "done"
        \/ \E t \in Cancellers : a \in toClose[t]

\* An attempt that cancelAll has marked holds an open socket only as long as a
\* cancelAll is about to close it: cancelling a coroutine does not interrupt
\* connect or read, closing the socket does.
MarkedSocketIsBeingClosed ==
    \A a \in Attempts : cancelling[a] /\ socket[a] = "open" =>
        \E t \in Cancellers : a \in toClose[t]

\* A key that is taken always has somebody who is going to give it back: the
\* attempt's completion, or, once the attempt is marked or complete, a cancelAll
\* that holds it (InFlightAttemptRegistry.kt:45-77).
KeyHasReleaser ==
    \A a \in Attempts : Registered(a) =>
        \/ job[a] # "done" /\ ~cancelling[a]
        \/ \E t \in Cancellers : a \in batch[t]

\* An attempt nobody has claimed has left no trace anywhere.
UnclaimedIsFresh ==
    \A a \in Attempts :
        /\ job[a] = "none" <=> key[a] = NoKey
        /\ job[a] = "none" => /\ ~cancelling[a]
                             /\ ~isCancelled[a]
                             /\ body[a] = "connecting"
                             /\ \A t \in Cancellers : a \notin batch[t]

\* The map files an attempt under its own key, and no unclaimed one.
FiledUnderItsKey ==
    \A k \in Keys : attempts[k] # NoAttempt =>
        key[attempts[k]] = k /\ job[attempts[k]] # "none"

\* What a running cancelAll holds: marked attempts, and those it is through
\* with can work no more.
BatchIsMarked ==
    \A t \in Cancellers :
        /\ toCancel[t] \subseteq batch[t]
        /\ toClose[t] \subseteq batch[t]
        /\ \A a \in batch[t] : cancelling[a] /\ (a \notin toCancel[t] => ~Live(a))

\* How body, job and socket of one attempt go together.
BodyFollowsJob ==
    \A a \in Attempts :
        /\ job[a] = "lazy" => body[a] = "connecting"
        /\ body[a] = "connecting" => socket[a] = "none" /\ ~attached[a]
        /\ body[a] = "connecting" => \A t \in Cancellers : a \notin toClose[t]
        /\ body[a] = "using" => job[a] = "running"
        /\ socket[a] = "open" /\ ~cancelling[a] => attached[a]

\* The strengthening by which the invariants above are inductive.
Inv ==
    /\ TypeOK
    /\ LiveIsRegistered
    /\ OpenSocketHasCloser
    /\ MarkedSocketIsBeingClosed
    /\ KeyHasReleaser
    /\ UnclaimedIsFresh
    /\ FiledUnderItsKey
    /\ BatchIsMarked
    /\ BodyFollowsJob

\* When a cancelAll returns, nothing it marked can work any more or is still
\* in the map.
CancelAllIsComplete ==
    [][\A t \in Cancellers : ~Idle(t) /\ (batch'[t] = {}) =>
          \A a \in batch[t] : ~Live(a) /\ attempts'[key[a]] # a]_vars

\* The attempts that may work for each key, and those that exist.
Holders == [k \in Keys |-> {a \in Attempts : key[a] = k /\ Live(a)}]
Made == {a \in Attempts : job[a] # "none"}

Lease == INSTANCE KeyLease WITH holders <- Holders, made <- Made

\* With all its threads and in whatever order their blocks run, the registry
\* lends each key to one attempt at a time, and to none twice
\* (InFlightAttemptRegistry.kt:21-77).
ImplementsLease == Lease!LeaseSpec

(***************************************************************************)
(* Liveness, under FairSpec                                                *)
(***************************************************************************)
\* Wherever an attempt is between its claim and its completion, and wherever a
\* thread is in cancelAll, the steps that are fair can take it on: nobody waits
\* for a step of another thread (InFlightAttemptRegistry.kt:21-77).
NeverStuck ==
    /\ \A a \in Attempts :
          job[a] \notin {"none", "done"} => ENABLED <<BodyStep(a)>>_vars
    /\ \A t \in Cancellers : ~Idle(t) => ENABLED <<CancelStep(t)>>_vars

CancelAllReturns(t) == ~Idle(t) ~> Idle(t)

\* Every cancelAll returns: it waits for no attempt
\* (InFlightAttemptRegistry.kt:57-77).
CancelAllsEnd == \A t \in Cancellers : CancelAllReturns(t)

\* No attempt keeps its key for ever, so the PC can be answered again.
KeyIsReleased == \A a \in Attempts : Registered(a) ~> ~Registered(a)

\* Every socket is closed in the end.
SocketIsClosed == \A a \in Attempts : socket[a] = "open" ~> socket[a] = "closed"
=============================================================================
