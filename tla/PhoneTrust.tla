----------------------------- MODULE PhoneTrust -----------------------------
(***************************************************************************)
(* The phone's side of its handshakes with PCs, and its list of paired     *)
(* PCs (PhonectNetworkService.kt, handleTcpConnection and saveTrustedPc).  *)
(* Attempts run as coroutines on several threads.  The list lives in       *)
(* SharedPreferences: apply() changes it in memory at once and on disk     *)
(* later, so a process that is killed may lose the last changes.           *)
(*                                                                         *)
(* The actions say what an attempt does; when it may receive a message is  *)
(* for the module that composes the phone with its PCs.                    *)
(***************************************************************************)
CONSTANTS
    Attempts,   \* handshakes, each with one PC
    Pcs         \* public keys of PCs

VARIABLES
    step,       \* what the attempt waits for
    tofu,       \* isNewTofu
    current,    \* the list that saveTrustedPc has read
    store,      \* PREFS_PAIRED_PCS in memory
    flushed     \* PREFS_PAIRED_PCS on disk

attemptVars == <<step, tofu, current>>
phoneVars == <<attemptVars, store, flushed>>

Steps == {"idle", "accept", "challenge", "save", "write", "prompt"}

TypeOK ==
    /\ step \in [Attempts -> Steps]
    /\ tofu \in [Attempts -> BOOLEAN]
    /\ current \in [Attempts -> SUBSET Pcs]
    /\ store \subseteq Pcs
    /\ flushed \subseteq Pcs

Init ==
    /\ step = [a \in Attempts |-> "idle"]
    /\ tofu = [a \in Attempts |-> FALSE]
    /\ current = [a \in Attempts |-> {}]
    /\ store = {}
    /\ flushed = {}

\* The handshake ends and its socket is closed.
Leave(a) ==
    /\ step' = [step EXCEPT ![a] = "idle"]
    /\ tofu' = [tofu EXCEPT ![a] = FALSE]
    /\ current' = [current EXCEPT ![a] = {}]

\* The socket is connected and pair_hello written.
SendHello(a) ==
    /\ step[a] = "idle"
    /\ step' = [step EXCEPT ![a] = "accept"]
    /\ UNCHANGED <<tofu, current, store, flushed>>

\* Fault: once the phone has paired, it takes no pair_accept again.
TrustsFirstOnly(p) == store = {}

\* The trust policy: a paired PC, or any as long as none is paired.
Trusts(p) == p \in store \/ store = {}

\* pair_accept of PC p is read.
ReadAccept(a, p) ==
    /\ step[a] = "accept"
    /\ IF Trusts(p) THEN /\ step' = [step EXCEPT ![a] = "challenge"]
                         /\ tofu' = [tofu EXCEPT ![a] = p \notin store]
                         /\ UNCHANGED current
                    ELSE Leave(a)
    /\ UNCHANGED <<store, flushed>>

\* Fault: the PC is not saved.
NeverSaves(a) == {"prompt"}

\* A new PC is saved; a known one only if its address has changed.
AfterChallenge(a) == IF tofu[a] THEN {"save"} ELSE {"save", "prompt"}

\* The challenge is read and the PC's signature over its nonce is valid.
ReadChallenge(a) ==
    /\ step[a] = "challenge"
    /\ \E s \in AfterChallenge(a) : step' = [step EXCEPT ![a] = s]
    /\ UNCHANGED <<tofu, current, store, flushed>>

\* saveTrustedPc reads the list ...
ReadStore(a) ==
    /\ step[a] = "save"
    /\ step' = [step EXCEPT ![a] = "write"]
    /\ current' = [current EXCEPT ![a] = store]
    /\ UNCHANGED <<tofu, store, flushed>>

\* ... and writes it back with p, replacing the entry of the same fingerprint.
WriteStore(a, p) ==
    /\ step[a] = "write"
    /\ step' = [step EXCEPT ![a] = "prompt"]
    /\ current' = [current EXCEPT ![a] = {}]
    /\ store' = current[a] \cup {p}
    /\ UNCHANGED <<tofu, flushed>>

\* The user confirms; the nonce is signed, the response written, the socket
\* closed.
Respond(a) ==
    /\ step[a] = "prompt"
    /\ Leave(a)
    /\ UNCHANGED <<store, flushed>>

\* Fault: the prompt has no timeout.
SocketTimedSteps == {"accept", "challenge"}

\* Where an attempt may end early: a timeout of the socket (30 s), EOF, an I/O
\* error, a bad message or signature, no activity to show the prompt in, a
\* declined prompt or its own timeout (30 s).
MayGiveUp == {"accept", "challenge", "prompt"}

GiveUp(a) ==
    /\ step[a] \in MayGiveUp
    /\ Leave(a)
    /\ UNCHANGED <<store, flushed>>

\* apply() reaches the disk.
Flush ==
    /\ flushed # store
    /\ flushed' = store
    /\ UNCHANGED <<attemptVars, store>>

\* The process is killed and started again.
Kill ==
    /\ step' = [a \in Attempts |-> "idle"]
    /\ tofu' = [a \in Attempts |-> FALSE]
    /\ current' = [a \in Attempts |-> {}]
    /\ store' = flushed
    /\ UNCHANGED flushed
=============================================================================
