# Phonect: models and proofs

Phonect unlocks a Linux session from an Android phone. After a resume the PC's
daemon opens a short authentication window and broadcasts UDP discovery
packets; the phone's service connects back over TCP, the two exchange keys, the
PC sends a signed nonce, the phone's user confirms with a fingerprint, and the
phone signs the nonce. The first phone that proves its key is pinned (trust on
first use) and unlocks nothing; later, only that phone unlocks.

This directory holds TLA+ modules translated from the source, TLC
configurations that check them on small instances, and proofs that the TLA+
proof system TLAPS checks for every instance. `PROJECT.json` maps each
definition to the lines it models. `daemon.py` below is
`src/phonect/daemon.py`; the Kotlin files are those under
`android/app/src/main/java/com/phonect/android/`.

## Inventory

| Part | State | Operations | Interacts with | Hard part |
| --- | --- | --- | --- | --- |
| Daemon (`daemon.py`) | flags of the window and of the handshake slot, two asyncio events, PC key, trusted key, key file | `run`, `_run_auth_cycle`, broadcaster, `_handle_client`, `_tcp_handshake`, `_save_phone_key`, `_unlock_sessions`, `stop`, wake-up | systemd/logind, phones over TCP, desktop sessions | tasks that interleave at every `await`; handshakes that outlive their window; crash while saving; failing load |
| Registry (`network/InFlightAttemptRegistry.kt`) | map from discovery key to attempt; each attempt's job, flag, socket | `claim`, `start`, `attachSocket`, `complete`, `cancelAll` | called from listener coroutines, attempt coroutines, main and connectivity threads | a three-phase `cancelAll` whose middle is outside the lock; completion handlers; late sockets |
| Listener and service (`network/PhonectNetworkService.kt` 67-310) | desired flag, current network, listener job, published socket | `onStartCommand`, `onAvailable`, `onLost`, `onDestroy`, `startWifiListener`, `cancelTransport` | registry, Android connectivity, UDP | check and publication in two lock regions; restarts that overlap the old listener |
| Phone handshake and trust store (same file, 345-544) | list of paired PCs | `handleTcpConnection`, `saveTrustedPc` | daemon over TCP, Keystore, biometric prompt | concurrent trust on first use; 30 s prompt against the PC's 15 s read |
| Framing and validators (`protocol.py`, `network/ProtocolHandler.kt`) | none | encode, decode, validate | both handshakes | lengths at the limits, partial reads |
| Reference handshake (`handshake.py`) | one connection | `HandshakeServer`, `HandshakeClient` | CLI | timeouts of a synchronous exchange |
| Unlock backends (`daemon.py` 594-684, `config.py`) | none | loginctl per session, static command | desktop | one session of several failing |
| Crypto, Keystore, biometrics | keys | sign, verify, fingerprint, prompt | all | ideal in the models |
| Configuration (`config.py`) | the file, read once | `load_config`, `validate_unlock_config` | daemon | a file that is refused or overrides itself |
| CLI, `state.py`, UI, log, packaging | - | - | - | mostly not modelled; see below |

What makes each correct: the daemon keeps at most one handshake and exactly one
pin, acts only on trust decisions that still hold, answers every wake-up and
can be stopped. The registry gives a key to one live attempt at a time, and
neither an attempt nor a socket escapes a `cancelAll`. A listener that receives
can always be cancelled, and one should run whenever it is desired and a network
is there. All readers of frames should delimit the same frames however the bytes
are cut. Phone and PC should agree on who is paired, a failure at any message
must not leave them unable to pair or unlock later, and only the user's own
sessions may be opened.

## Modules

| Module | What it is |
| --- | --- |
| `TofuPolicy` | Abstract specification of what the daemon promises about keys and unlocking: three variables, no network, no process. |
| `AuthWindow` | The daemon. |
| `MCAuthWindow` | Model values for it. |
| `AuthWindowProofs`, `AuthWindowLiveProofs` | Its inductive invariant, its safety theorems and the proof that it implements `TofuPolicy`; its liveness. |
| `KeyLease` | Abstract specification of what the registry promises: which attempts hold a key, and which exist. |
| `AttemptRegistry` | The phone's registry with the bodies of its attempts. |
| `MCAttemptRegistry`, `AttemptRegistryProofs` | Model values; proofs. |
| `WifiListener` | The phone's service: START, STOP, destruction, network callback, listeners. |
| `MCWifiListener`, `WifiListenerProofs` | Model values; proofs. |
| `Framing` | Frames of bytes, and the three functions that read them. |
| `FramingProofs` | Theorems about these functions for any sizes. |
| `RefHandshake` | `handshake.py`'s server and client, and the daemon's `_async_handshake`, on streams of bytes; extends `Framing`. |
| `MCRefHandshake`, `RefHandshakeProofs` | Model values; proofs. |
| `Unlock` | The unlock settings and backends, as functions. |
| `PhoneTrust` | The phone's handshakes and its list of paired PCs. |
| `Pairing` | `AuthWindow`, `PhoneTrust` and `Unlock` joined by connections. |
| `MCPairing`, `PairingProofs`, `PairingLiveProofs` | Model values; proofs of safety; that attempts end. |

### AuthWindow

asyncio runs one callback at a time, so an action is the code between two
awaits that may suspend. Three kinds of task interleave:

- the main task, `mainPc`: `down` (no process), `starting` (until the server
  listens), `idle` (waiting for the wake-up event), `window` (in `wait_for`),
  `closing` (awaiting the cancelled broadcaster), `cleanup`;
- the broadcaster of the window, `discovery`; it matters only by how it ends;
- one handler per connection, `stage`: `queued` (accepted by the kernel or by
  the loop, the handler has not run), `hello` (reading `pair_hello`), `accepted`
  (writing `pair_accept`), `challenged` (writing the challenge or reading the
  response), `verifying` (the executor checks the signature), `closing`.

The end of a handshake is one action, because the code from the executor's
result to the end of the `finally` block in `_handle_client` does not suspend:
`PairPhone`, `SaveFails`, `UnlockSessions`, `RefuseResponse`, `FailHandshake`,
`RefuseHello` and `AdmitWithoutPcKey` share `Finish`, which is that block.
`Finish` also resolves the future of whichever window waits at that moment:
`asyncio.Event.set()` resolves the waiters it has, and a later `clear()` does
not undo that. That future is `waiterDone`, apart from the event's own
flag `authCompleted`.

Crash, failed start and exit lose everything but `keyFile`. A save truncates
the file and then writes it, so a failure or a crash in the middle leaves
`Torn`, which no load accepts. Loading a good key fails only with `ReadFaults`
(permissions, I/O): the `except Exception` at daemon.py:126. The file system is
otherwise ideal: a completed write survives.

The data are abstract. A phone key stands for its PEM and its fingerprint;
`AcceptHello(c, k, fingerprint)` keeps both, because the code compares them. A
signature is the key that made it, over the nonce of this handshake: a replayed
or foreign signature is `NoKey`. Malformed messages, timeouts, EOF and I/O
errors have the same effect in the code and are one action, `FailHandshake`.
An unlock backend that fails, finds no session or is misconfigured is an
outcome of `UnlockIfAllowed`; `Unlock` says which.

`inWindow` (connections the open window admitted) and `unlockedBy` (the key
whose proof last unlocked, forgotten when the next window opens) are history
variables that no action reads.

`WaitClosedWaits` chooses between the two behaviours of
`Server.wait_closed()`: Python before 3.12.1 returned at once, later versions
wait for the connections. Safety runs take the first, which has more
behaviours; the liveness run takes the second, which is harder.

### AttemptRegistry

An action is one `synchronized` block or one call made outside of it.
`cancelAll` is `CancelAllMark`, then `CancelOwner` and `CloseTaken` per attempt
without the lock, then `CancelAllRemove`. Several threads may be in it. The
attempt's coroutine (`connectAndHandleTcp`, PhonectNetworkService.kt 326-343) is
`body`: it creates its socket and attaches it, leaves if it sees the
cancellation, otherwise uses and closes it. `job` and `isCancelled` are the
coroutine Job: a lazy job that is cancelled is complete at once, a running one
when its body ends, and then the completion handler calls `complete`. In the
model that handler may run later than it would, which only adds behaviours.
The order of cancellation in the unlocked phase is free per attempt; the code
goes through them in map order, so its runs are among those of the model.

Each attempt object is used once, so runs end when they are used up: the
registry's configurations set `CHECK_DEADLOCK FALSE` for this reason. The
listener conditions around `claim` are not in this module.

### WifiListener

The threads are `Main` (service calls), `Conn` (the network callback) and the
restart coroutines that `onAvailable` launches; `pc` says where each is inside
`startWifiListener` (`install`, `start`), `cancelTransport` (`capture`, `cancel`,
`closeSocket`), what follows it (`after`, with `purpose` for the caller to return
to), or a restart (`join`, `mayRestart`). An action is one block on
`listenerLock` or one call made outside of it, so every gap between two blocks
is open to the others: between installing and starting a listener, between
capturing a job and cancelling it, between the two blocks in which a listener
checks that it may publish its socket and publishes it.

Each listener has `step` (`lazy`, `bind`, `check`, `publish`, `receive`, `close`,
`clear` for the last block of its `finally`, `ended` until the completion
handler has run), `cancelled`, and `sock`, whether its socket is open. A listener
value stands for another coroutine once it is complete and no thread refers to
it. `Job.isActive` is false of a lazy job that has not been started, as in
kotlinx.coroutines. Cancelling a lazy job completes it; a started one goes on
until it looks, or never runs if no thread has picked it up.

`Create` is a new service instance. The real one may overlap the coroutines of
its predecessor, of which it shares only the port; the model waits for them. The
port is used by nobody else. The receive loop is one step, `LeaveLoop`, since
what it does with a packet, claiming an attempt, is not in this module.

### Framing

A byte is a number below `Base` and a buffer a sequence of bytes. `DecodeFrame`,
`ReadFrame` and `PhoneReadFrame` give, for all the bytes received so far, what
`decode_frame`, the daemon's `_read_frame` and the phone's `readFrame` do:
wait (`incomplete`), refuse (`security`), raise something else (`exception`), or
return an object (`message`), another JSON value (`value`) or `null`. The header is
the big-endian number of the code, and the phone's is signed, as `getInt` is.

The three agree on where frames end and on which lengths are refused, which is what
`SameFraming` states. They do not agree on what they accept, because each hands the
payload to a parser of its own. JSON is not parsed in the model; what a payload says
(`Meaning`), how it is coded if not in plain UTF-8 (`Coding`), which objects do
not fit the phone's class (`Misfits`) and what Gson makes of payloads that are no JSON
(`Lenient`) are constants, of which a run or a theorem may take any value:

| Payload | `decode_frame` (protocol.py:109, `json.loads(bytes)`) | `_read_frame` (daemon.py:588, `decode("utf-8")`, `json.loads(str)`) | `readFrame` (ProtocolHandler.kt:61-62, `String`, `gson.fromJson`) |
| --- | --- | --- | --- |
| object, plain UTF-8 | `message` | `message` | `message`, or `exception` if a field has another type than its class |
| the same after a byte order mark | `message` | `exception` | as plain UTF-8 |
| the same with encoded surrogates | `message` | `exception` | as plain UTF-8 |
| the same in UTF-16 or UTF-32 | `message` | `exception` | `exception` |
| other JSON value, `null`, in plain UTF-8 | `security` | `value`, `null` | `exception`, `null` |
| no JSON | `security` | `exception` | `exception`, or what its lenient parser makes of it |
| bytes of no text, a number too long, nesting too deep | `exception` | `exception` | as the row above |

The last row is `UnicodeDecodeError`, `ValueError` or `RecursionError`, which the
handler for `JSONDecodeError` in `decode_frame` does not catch (the callers in
handshake.py catch every exception). A comment in ProtocolHandler.kt (line 16) gives
the payload as UTF-8 JSON; only `_read_frame` holds a peer to that. For the program's
own messages none of this matters: both sides write objects in plain UTF-8 that fit the
other's class (`Written`), and all three readers accept those.

### RefHandshake

Both streams are kept whole, with how much of each has been received; an action
of a reader is one `recv` of 1 to `Chunk` bytes with all that follows it up to
the next call that may block. `server` and `client` say where each call is, or
with which of its returns it ended. `variant` is chosen at the start: the
`HandshakeServer` of `cmd_server`, or `_async_handshake`, which gets its connection
from the caller, reads with `_read_frame` and leaves the connection open.
In place of one of the two sides there may be a peer, which writes up to
`StreamBound` bytes of any value one at a time and may close; it cannot write the
trusted key's signature of the fresh nonce, unless it holds that key and has been
sent the challenge. `confirmed` is a history variable. Fields of a message that
no check of the code reads are left out, and so is the PC's signature in the
challenge, which the client does not verify (handshake.py:303). A challenge whose
nonce is of another length or no hexadecimal is a message that is no challenge.

### Unlock

One call of `_unlock_sessions` blocks the event loop, so it is a function: from
the configuration, the outcome of `list-sessions`, the order of the sessions and
the outcome of each command, to the sessions that open. A status, a timeout and
a missing executable leave the loop running; any other `OSError` leaves it.
Whether the configured command opens the user's sessions when it succeeds is the
user's affair; it is assumed to. The configuration file is a record of the four
settings that decide this, and `load_config` the functions `Backend`, `Command`
and `UnlockOnStart` of it.

### PhoneTrust

`step` is where an attempt of the phone is: reading `pair_accept`, reading the
challenge, before and inside `saveTrustedPc`, at the prompt. Attempts run on
threads of `Dispatchers.IO` without a lock, so the read of the list and its
write are two actions. `store` is the list as `SharedPreferences` shows it,
`flushed` what is on disk; `Kill` is the death of the process. A PC is its key:
the name and the address in an entry are left out, but a change of the address,
which saves a known PC again, is a choice. An error of any kind, EOF, a declined
prompt and each timeout are `GiveUp`.

### Pairing

`Pairing` extends `AuthWindow` and joins it to an instance of `PhoneTrust` by the
connections, whose state is `up` (the message the phone has written and the
daemon not yet read) and `written` (how many messages the daemon has written).
Every action of the daemon is one of `AuthWindow` under a stronger guard, which
`PairingProofs!DaemonIsAuthWindow` proves. The phone's signature is `ThePhone`, and
other peers send any hello and sign with any other key, or not at all.
The daemon's read may time out while the phone's prompt is still open, and the
phone then answers to a handshake that has failed. `PcUnlocks` replaces the
choice of `UnlockSessions` by what `Unlock` says.

`calm` is the assumption of `Recovers`. Until it is set everything may fail; from
then on nothing does: the PC has started and has its key, it is woken whenever
it is idle, the phone hears the broadcast, the user confirms within the time
limits, commands succeed except for the sessions in `Sick`, and nobody else
connects. `Recovers` says that whatever happened before, pairing and
unlocking then succeed; that this holds is not clear beforehand, because one
side may have been left paired and the other not. `lost` remembers
that a change of the phone's list never reached its disk.

### Faulty variants

An operator whose comment starts with `Fault:` is a plausible mistake in the
code: the second gate of `_handle_client` dropped, the key trusted before it is
saved, `cancelAll` removing by key instead of by identity. No action uses one.
Each is listed in `PROJECT.json` with the property that fails when it takes the
place of the right definition; this is how we know the properties can fail.

## Runs

| Run | Instance | States | Shows |
| --- | --- | --- | --- |
| `window_safety` | 3 connections, 2 phones, symmetric | 9 422 | one handshake, standing trust decision, trust is on disk, no stale outcome, a pin is never replaced, only the pinned key unlocks, `TofuPolicy` is implemented; the inductive invariant of the proofs |
| `window_live` | 2 connections, 2 phones, `wait_closed` waits | 15 744 | no task waits for a step that is not fair, wake-ups are answered, handshakes and connections end, stop or a dead broadcaster ends the process |
| `registry_safety` | 2 keys, 3 attempts, 2 cancellers, symmetric | 1 300 862 | no forgotten key, no forgotten socket, complete `cancelAll`; the inductive invariant, which includes that a live attempt is in the map, so that no key has two |
| `registry_live` | 1 key, 2 attempts, 2 cancellers | 28 589 | `KeyLease` is implemented, no attempt and no `cancelAll` waits for a step that is not fair, each `cancelAll` returns, keys are given back, sockets are closed |
| `wifi_safety` | 2 listeners, 1 restart, 2 networks, symmetric | 914 365 | no working listener is lost, its socket is open, no dead socket is published, a stop is complete; the inductive invariant |
| `ref_handshake` | bytes of 3 values, headers of 2 bytes, payloads of 1 or 2 bytes, chunks of 1 or 2, streams of at most 5 bytes of a peer | 56 726 | readers delimit the same frames, bounded buffers, the first frame decides, True means signed and confirmed, the two sides understand each other, no call waits without a timeout, calls return |
| `pairing` | 1 connection at a time, the phone and one stranger, 3 sessions of which 2 are the user's and 1 of these never opens, 3 configuration files | 344 790 | a pin is mutual, only the user's sessions are opened and for the pinned phone, phone and daemon never wait for each other, attempts end, the two recover |
| `window_stale`, `window_one_auth`, `window_read_faults` | 2 connections, 2 phones | - | the first three disagreements below |
| `wifi_desired` | 2 listeners, 1 restart, 1 network | - | the fourth |
| `pairing_two_pcs` | as `pairing`, and a handshake with another PC | - | the fifth |

Why the bounds suffice for what is asked. The hazards of the daemon need a
stale handshake, one of the present window and a third that is refused: three
connections. A trusted phone and a stranger are two phones; a third key would
behave like the second. Nothing counts, so wake-ups, windows and restarts are
unbounded. In the registry an old attempt, its replacement and a third that
finds the key taken are three attempts; a second key shows independence; two
cancellers overlap in every way two calls can. Of listeners, two that overlap
are an old one and its replacement, or two that two threads start; a third that
waits for a free place is one that is started a little later. A restart
for an outdated network needs two networks. In `ref_handshake` the maximal frame
is 2 bytes and headers declare 0 to 8: 0, both legal lengths, the first illegal
one, and those whose sign bit is set; five bytes are a whole frame of the largest
size and the beginning of what follows it, more than any call reads, and the
chunks cut header and payload everywhere. Among the payloads are a good response in
UTF-16, on which the two servers differ, and a challenge that does not fit the phone's
class. `pairing` has one connection, used
again and again: an attempt that outlives its handshake, a stranger in between,
and a second attempt after any failure are all there, but not two that wait at
the same time, which `window_safety` has for the daemon with three; with two
connections the state space exceeds nine million. (The registry's key is address, port
and fingerprint, so attempts of the phone at one PC may overlap, if the PC's address has
changed or a cancelled one runs on; `PhoneConnects` allows this outside of calm, and
the theorems about `Pairing` cover it, for any number of connections.) One session
that opens, one that never does and one of another user are three sessions. A refused
configuration file means no daemon, and `ref_handshake` ends when both calls have
returned: their configurations set `CHECK_DEADLOCK FALSE` for these reasons. The
theorems hold without bounds.

The five runs that are expected to find a violation:

- **A stale handshake closes a later window** (`window_stale`, daemon.py:278). A
  handshake admitted just before its window expires goes on. If the next window
  opens meanwhile, the end of the old handshake, also a timeout, sets the event
  that the new window waits for, and the new window closes before its phone has
  answered. The method's own description (daemon.py:284) is "Open a bounded auth
  window and broadcast discovery until auth or timeout".
- **A window can admit a second authentication** (`window_one_auth`,
  daemon.py:252). Between the end of a handshake and the main task's next step
  a queued handler finds `_auth_pending` still set and the slot free. The
  configuration template (config.py:214) says "accept one TCP auth after wake".
- **An unreadable pin reopens trust on first use** (`window_read_faults`,
  daemon.py:126). A load error leaves `_trusted_key` at None, which means that
  nothing is pinned; the next phone overwrites the file. README.md:55 promises
  that a trusted key is not replaced by an unknown one.
- **Two starts leave no listener** (`wifi_desired`, PhonectNetworkService.kt:277).
  A job that is installed but not started yet is not active, so a second
  `startWifiListener` replaces it. Both coroutines run; the replaced one may bind
  the port first, the other's bind fails and it ends, and the replaced one finds
  that it is not `listenJob` and closes. The service is desired, has a network and
  is left alone, and nothing listens until the next START or network change.
  START and the first `onAvailable` after `onCreate` are such a pair. A listener
  started by a network that comes back, or by START after STOP, does not wait for
  the old one as a restart does; if that still holds the port, it ends the same
  way. The class comment (line 30) says "Foreground Service that listens for Wi-Fi UDP
  discovery from the PC."

- **Two PCs at once lose one** (`pairing_two_pcs`, PhonectNetworkService.kt:525). A
  new phone in handshakes with two PCs finds its list empty in both, each
  attempt reads the list in `saveTrustedPc`, and the second write drops the first
  one's PC. Both PCs pin the phone; the phone refuses the lost one from then on.
  README.md:289 says that at the first correct connection the keys (of both) are
  pinned. The overlap is the only cause: as long as no attempt reads the list
  between another's reading and writing it, `PinIsMutual` is proved, with any
  number of PCs (`OnlyOverlapLosesAPc`).

The first two leave the trust policy intact: `window_safety` checks it of the
same behaviours. The third breaks it only for a key file that is good and
cannot be read.

## Fairness

`AuthWindow!FairSpec` has weak fairness of the main task's step and of what each
handler does without hearing from its phone (`OwnStep`), its timeouts included;
a phone may stay silent at any point. asyncio runs callbacks that are ready; each read of a handshake
has a 15 s timeout, the window has `poll_timeout`, the executor's verification
returns, and a closed transport is torn down. `drain()` has no timeout of its
own in the code; the frames are far smaller than the socket buffer, so it does
not block, and that is assumed. Nothing is assumed of `Boot`, `Wake`, `Stop`,
`Connect`, the broadcaster or crashes.

`AttemptRegistry!FairSpec` has weak fairness of each attempt's body and of each
running `cancelAll`. Connect has a timeout of 5 s, reads one of 30 s, the prompt
one of 30 s. Nobody has to claim or to cancel.

`WifiListener!FairSpec` has weak fairness of every thread inside a method and of
every listener: the blocks on the lock are short, bind does not block, and
receive returns at least every second (`soTimeout`, line 206). No START, STOP,
destruction or network change has to happen.

`RefHandshake!FairSpec` has weak fairness of each side's socket operations: a
`recv` returns data, EOF or an error, or its timeout expires. The start of the
server, the client's connection, the callback and the peer's writes are not fair.

`Pairing!PairFairSpec` has weak fairness of the daemon's main task, of each
handler and of each attempt of the phone, timeouts included, for the reasons
above. `Boot`, `Wake`, the broadcast and the user's confirmation are fair only in
calm: that is what the word means. `AttemptEnds` uses none of them but the last: in
calm no prompt times out, so that it ends by being confirmed.

## Proofs

The assumptions on constants are named (`KeyAssumption`, `FlagAssumption`,
`RegistryAssumption`, `ListenerAssumption`, `PhoneAssumption`, `AttemptAssumption`,
`PcAssumption`, `SessionAssumption`) and say only that the special values
and threads differ from the ordinary ones, that flags are Boolean and that there
are finitely many sessions. `SizeAssumption`, `HeaderAssumption` and
`MessageAssumption` say that headers are numbers of a fixed base, one for each
number, that twice the largest frame fits one (2 * 65536 < 2^32 in the code), and
that each message of the program has a payload of legal length in plain UTF-8.
`KindAssumption` and `CodingAssumption` are the types of `Meaning`, `Coding` and
`Lenient`. The sets of connections, phones,
keys, attempts and threads are arbitrary, infinite ones included.

**Daemon.** `OneHandshake` is not enough to show itself or the rest inductive:
that the trust decision still holds needs that no other handshake concludes
meanwhile; that a restart trusts what is on disk needs that nothing is trusted
while the process is down. `AuthWindow!Inv` is the conjunction of the type
invariant, `OneHandshake`, `DecisionStillHolds`, `TrustIsOnDisk`,
`OutcomeIsNotStale`, `DiskIsTrusted` and `NothingBeforeStart`.
`AuthWindowProofs!Invariance` proves it, with one lemma for the steps of the
main task and of the environment and one for those of a connection; the other
theorems of that module are its consequences. (The type invariants of this module,
of the registry and of the listener are conjuncts of their `Inv` and checked with
it; those of `Pairing` and `RefHandshake` are `PairTypesCorrect` and
`TypeCorrect`.) The second half of the module proves, for a daemon whose good key
file always loads, that no step rewrites a pin
(`PinIsKept`), that every step is a step of `TofuPolicy` or a stutter
(`DaemonImplementsPolicy`), and that only the pinned key unlocks
(`OnlyThePinnedPhoneUnlocks`). The refinement maps `pinned` to the readable key
in the file and `proof` to the key of the one handshake, if any, whose response
has verified; by `OneHandshake` there is at most one.

**Progress of the daemon.** The prover does not know what ENABLED means, but it
does not have to: what weak fairness needs is that the task can move, and
`NeverStuck` says exactly this, of every handler and of the main task. It is a
state predicate that `window_live` checks as an invariant, and the hypothesis of
the theorems of `AuthWindowLiveProofs`; everything else is proved, for any number
of connections and phones. `Left` ranks the stages of a handler: a step of its
own lowers the rank and no other step raises it, so every connection ends
(`ConnectionsEnd`). The step that ends a handshake frees the slot, whichever
connection held it (`HandshakesEnd`). A wake-up stays recorded, in the event or in
the main task's position, until a window opens (`WakeUpsAreAnswered`).
`MainLeft` ranks the main task once the daemon has been told to stop or its broadcaster
has died; that it opens no other window is what makes it a rank
(`StopReachesCleanup`). The error of a broadcaster has to survive until its window
has closed for that, whatever else happens in the window (`LeavingLasts`). `StopsEnd`
follows for a `wait_closed` that returns at once. For the one that waits, the rank is
the number of open connections: it is finite, because the daemon starts with none and
each step opens at most one, none is opened any more, and by `ConnectionsEnd`'s
argument it goes down (`CleanupAdvances`). With that, `StopsEndWaiting` says that no
peer can keep the daemon from stopping.

**The LATTICE rule.** A rank of a few values, as the stages of a handler have, is
descended by hand. Where it may be any number, the step from "it always goes down or
the end is reached" to "the end is reached" is an induction over a temporal formula,
which the prover does not have. The theorem then has that one step as a hypothesis,
`LatticeRule`, an instance of Lamport's rule LATTICE for the natural numbers: what it
says is true of every behaviour, of whatever specification, so it assumes nothing of
the program. That the rank is a natural number and that it goes down is proved. Three
modules use it, for the stop of the daemon, `cancelAll` and the reference handshake.

**Registry.** That a key has one live attempt follows from a stronger fact, that
a live attempt is in the map under its key. This is inductive only with what a
running `cancelAll` knows (`BatchIsMarked`: what it holds is marked, and
what it is through with is no longer live), with the map's own order
(`FiledUnderItsKey`, `UnclaimedIsFresh`) and with the way body, job and socket go
together (`BodyFollowsJob`). `AttemptRegistryProofs` has a lemma per operation
and derives `KeyHasOneLiveAttempt`, `NoSocketIsForgotten`, `NoKeyIsForgotten` and
`CancelAllLeavesNothing`.

`RegistryImplementsLease` says what the lock and the three phases are for, without
mentioning them. The refinement maps the holders of a key to the attempts made for it
that are live, and there is at most one because a live attempt is the one the map has.
Each step is a claim, which lends a key that nobody holds; the end or the cancellation
of one attempt, which returns the one key it holds; or invisible. Live never comes
back, so no attempt holds a key twice.

`NoSocketIsForgotten` and `NoKeyIsForgotten` say who is responsible: for each open
socket and for each key in the map there is a body, a completion or a `cancelAll`
that has it in hand.
Liveness (`KeysAreReleased`, `SocketsAreClosed`) is then that whoever has it in hand
comes to an end, and hands it to nobody but one of the others. An attempt's `Left`
falls with each of its own steps and rises with nobody's, cancellations included,
from the same two ingredients as above: `NeverStuck`, which `registry_live` checks,
and weak fairness. A `cancelAll` goes through a set, one attempt at a time; the set is
finite, since attempts are made one by one, and is fixed once the map has been read, so
`ToDo`, the number of things the call has yet to do, goes down with each of its steps
and is never raised by another's (`CountsDown`). By the LATTICE rule it returns
(`CancelAllsReturn`), and the other two theorems rest on that. None of the
liveness properties assumes how calls overlap.

**Listener.** That a working listener can be cancelled rests on two facts: a
listener begins to work only in `Check`, when it is `listenJob`, and it stops
being `listenJob` only by `Capture`, which announces the cancellation in the same
block, or by its own completion; `MayInstall` refuses to replace an active one,
so the replacement of a lazy job, which is the flaw above, loses no listener that
works. The sockets need `SocketFollowsStep`: a socket a thread has captured
belongs to a listener that is past publishing it, and that no longer works unless
its cancellation is pending. That case is real: the socket of a listener that a
first `cancelTransport` has captured may be published after that, and a second one
closes it before the first cancels the job; until then the loop spins on the
exception of `receive`. `StopIsComplete` needs `NothingIsInstalled`: from the
capture on, nobody installs a listener that is not desired.
`WifiListenerProofs` has a lemma per operation, as the registry's proofs.

**Frames.** `FramingProofs` shows that a reader's verdict does not change when
more bytes arrive (`VerdictIsFinal`), that the three readers delimit the same frames
(`ReadersDelimitAlike`; the signed length of the phone is legal exactly if the
unsigned one is), that what either program writes is accepted by all three, whatever
their parsers make of anything else (`WrittenIsReadByAll`), that a reader that waits
holds less than a frame (`WaitingIsBounded`), that what `encode_frame` writes is read back
(`EncodedIsDecoded`), and that no frame it writes is the beginning of another one
(`FramesAreDistinct`).

**Reference handshake.** `FirstFrameDecides` compares what the server made of the
bytes it had with what it would make of the whole stream, so by `VerdictIsFinal` it
survives everything that is written later. What the two sides say to each other
needs more: `RefHandshakeProofs!IInv` adds the same fact for the client, what an
honest side has written (`DownIsChallenge`, `UpIsResponse`), that a valid
response comes after the challenge and from the key's holder (`ProofIsOwned`),
and that signing follows confirmation. `VerifiedIsConfirmed` and
`HonestPeersAgree` follow from it with `WrittenIsReadByAll`. `ServersDifferByCodingOnly`
compares the two servers: they wait for the same bytes, and return the same of True,
False and the refusal of a message unless the payload is coded otherwise than in plain
UTF-8. Then the synchronous one judges what it says, so that a correctly signed response
in UTF-16 is accepted, and the daemon's raises. A payload that is no object ends
either call, by one exception or another or with nothing.
`CallsAlwaysReturn` says that neither call is kept by a peer, though every timeout is
one of a single `recv` and starts anew with each byte: a receipt leaves less room in
the buffer, which `BufferAlwaysBounded` bounds, and each other step of a side takes it
to a later stage; `ServerLeft` and `ClientLeft` count both. It needs `NeverStuck`, that
a side at work, the callback aside, can always move, and the LATTICE rule.

**Pairing.** By `DaemonIsAuthWindow` the daemon's invariant and theorems hold here
too, and with them the policy (`PairImplementsPolicy`). That a pin is mutual needs
to know that an attempt at the prompt has the PC in its list, that what an attempt
is about to write back has the PC if the list has it (`PhoneKnows`), and that the
phone's response, wherever it is, in the connection or being verified, was written
after that (`ProofAfterSave`). The middle part is what the program does not provide
for: `OnlyOverlapLosesAPc` assumes that at any time the attempts which have read the
list and not yet written it are all at one PC (`SavesDoNotOverlap`), and nothing
else. A phone that meets one PC at a time satisfies this, which is `PinsAreMutual`;
`pairing_two_pcs` shows what happens without it. However saves overlap, a phone that
has a paired PC does not fall back to trusting any, unless it is killed before its
list is on disk (`PhoneTrustStaysClosed`).

What is opened is opened for the phone that is pinned on disk and to the daemon's
user alone, for a key file that can always be read (`OpenedForPinned`). Conversely
one session that cannot be unlocked leaves the others alone: the loop is left only
by an exception that it does not catch, so it comes to every session
(`LoopTriesAll`), and in calm an unlock opens all that can be opened
(`UnlockOpensTheRest`).

`AttemptsEnd` is about two programs that wait for each other's messages. `StepsLeft`
ranks the steps of an attempt, and only the attempt's own steps and the death of the phone's process
change its rank. Before calm
its timeouts take it on. In calm there are none, and it may wait for a message that
the daemon has yet to write (`AwaitsPc`); then the daemon has got what it waits for
itself, its handler goes on by fairness and its own rank, `Left`, falls until it has
written. `PairNeverStuck` is what makes this sound: in no state do the two wait for
each other.

**Only model-checked.** That the violations exist. `NeverStuck` of the daemon, of the
registry and of the reference handshake and `PairNeverStuck`: their meaning is in
ENABLED, which the prover does not know; the theorems of liveness have them as
hypotheses, and runs check them as invariants. `Recovers`: it goes through whatever
state was left, a new window and a whole new handshake, with fairness that holds in
calm only. Every other property of the passing runs is stated by a theorem.

## Not modelled

- `crypto.py` and `CryptoManager.kt` are ideal: a signature verifies with one key
  and one nonce, a fingerprint names one key. Key generation is not modelled.
- `BiometricHandler.kt` is a prompt that is confirmed, declined or times out.
- `cli.py` beyond `server` and `client`, `MainActivity.kt`, `LogManager.kt` and the Nix
  files set things up or show them. The program has no operation that removes a
  paired PC.
- `state.py` is a legacy file that only its own tests use.
- Of `config.py`, paths, names, ports and intervals, and the template.
- Loss of a completed but unsynced write on the PC (`write_text` has no fsync): the
  PC's file system is taken to be durable. The phone's is not, see `Kill`.
- The receive loop of the listener (PhonectNetworkService.kt 222-255). It checks its
  eligibility (229) and claims (233) in two steps, so that a `cancelTransport` may
  run between the two and the attempt escape it. The product of `WifiListener` and
  `AttemptRegistry`, about a million states each, is out of TLC's reach here;
  `AttemptRegistry` lets attempts be claimed after a `cancelAll` has ended, so its
  theorems hold of such an attempt too.

## What could come next

1. An abstraction of the listener, one that is small enough to be composed with
   the registry, for the gap between eligibility and claim.
2. Two connections at once in `Pairing`, with a smaller daemon in the place of
   `AuthWindow`.
