---------------------------- MODULE RefHandshake ----------------------------
(***************************************************************************)
(* The reference challenge and response, src/phonect/handshake.py, as the  *)
(* command line runs it (cli.py): a server that accepts one connection,    *)
(* and a client that answers one challenge.  With variant "async" the      *)
(* server is the daemon's _async_handshake, which is given a connection.   *)
(*                                                                         *)
(* The two sides exchange bytes.  Either side may instead be a peer that   *)
(* writes what it likes: halves of frames, illegal lengths, other          *)
(* messages, or nothing.  Only a peer that holds the trusted key can write *)
(* a response signed with it.                                              *)
(*                                                                         *)
(* A definition whose comment starts with "Fault:" is a faulty variant of  *)
(* the one that follows it (README.md).                                    *)
(***************************************************************************)
EXTENDS Framing

CONSTANTS
    Trusted, Other,     \* signing keys
    Fresh, Stale,       \* the nonce of this challenge, and some other
    Chunk,              \* READ_CHUNK_SIZE
    StreamBound         \* how many bytes a peer writes

VARIABLES
    variant,        \* "sync": HandshakeServer; "async": _async_handshake
    holder,         \* the key that the client's side can sign with
    server,         \* where the server is, or how its call ended
    client,         \* where the client is, or how its call ended
    up, down,       \* every byte written to the server, and to the client
    upRead,         \* how many of these the server has received
    downRead,       \* how many of these the client has received
    upShut,         \* the client's side has closed
    downShut,       \* the server's side has closed
    confirmed       \* the client's callback returned True

config == <<variant, holder>>
upstream == <<up, upRead, upShut>>
downstream == <<down, downRead, downShut>>
vars == <<config, server, client, upstream, downstream, confirmed>>

ServerRunning == {"listening", "accepted", "reading"}
ServerEnds == {"verified", "mismatch", "invalid", "none", "toolong",
               "security", "exception", "eof", "timeout", "oserror", "refused"}
ClientRunning == {"reading", "prompt", "signing"}
ClientEnds == {"sent", "declined", "invalid", "toolong", "security", "exception", "eof",
               "timeout", "oserror"}

Connected == client \in ClientRunning \cup ClientEnds \cup {"talking", "gone"}

Message(kind, nonce, key) == [kind |-> kind, nonce |-> nonce, key |-> key]
Challenge(nonce) == Message("challenge", nonce, Other)
Response(nonce, key) == Message("response", nonce, key)

\* json.dumps: the payload that says m, in plain UTF-8.
Json(m) == CHOOSE p \in DOMAIN Meaning : Written(p) /\ Meaning[p] = m
ErrorMessage == CHOOSE p \in DOMAIN Meaning : Written(p) /\ Meaning[p].kind = "object"

ASSUME MessageAssumption ==
    /\ DOMAIN Meaning \subseteq Seq(Byte)
    /\ \A p \in DOMAIN Meaning : LegalLength(Len(p))
    /\ \E p \in DOMAIN Meaning : Written(p) /\ Meaning[p] = Challenge(Fresh)
    /\ \A n \in {Fresh, Stale}, k \in {Trusted, Other} :
         \E p \in DOMAIN Meaning : Written(p) /\ Meaning[p] = Response(n, k)
    /\ \E p \in DOMAIN Meaning : Written(p) /\ Meaning[p].kind = "object"
    /\ \A p \in DOMAIN Meaning :
         /\ Meaning[p].kind = "challenge" =>
              \E n \in {Fresh, Stale} : Meaning[p] = Challenge(n)
         /\ Meaning[p].kind = "response" =>
              \E n \in {Fresh, Stale}, k \in {Trusted, Other} : Meaning[p] = Response(n, k)
    /\ Trusted # Other /\ Fresh # Stale
    /\ Chunk \in Nat \ {0} /\ StreamBound \in Nat

TypeOK ==
    /\ variant \in {"sync", "async"}
    /\ holder \in {Trusted, Other}
    /\ server \in {"off", "talking", "gone"} \cup ServerRunning \cup ServerEnds
    /\ client \in {"off", "silent", "talking", "gone"} \cup ClientRunning \cup ClientEnds
    /\ up \in Seq(Byte) /\ down \in Seq(Byte)
    /\ upRead \in 0..Len(up) /\ downRead \in 0..Len(down)
    /\ upShut \in BOOLEAN /\ downShut \in BOOLEAN /\ confirmed \in BOOLEAN

\* At most one side is a peer ("silent", then "talking", then "gone").
Init ==
    /\ variant \in {"sync", "async"}
    /\ holder \in {Trusted, Other}
    /\ server \in {"off", "talking"}
    /\ client \in {"off", "silent"}
    /\ server = "talking" => client = "off"
    /\ up = <<>> /\ down = <<>>
    /\ upRead = 0 /\ downRead = 0
    /\ upShut = FALSE /\ downShut = FALSE
    /\ confirmed = FALSE

(***************************************************************************)
(* The server                                                              *)
(***************************************************************************)
\* cmd_server: bind and listen.
Start ==
    /\ server = "off"
    /\ variant = "sync"
    /\ server' = "listening"
    /\ UNCHANGED <<config, client, upstream, downstream, confirmed>>

\* accept() times out outside of the try: the exception leaves cmd_server.
AcceptTimesOut ==
    /\ server = "listening"
    /\ server' = "refused"
    /\ downShut' = TRUE
    /\ UNCHANGED <<config, client, upstream, down, downRead, confirmed>>

Accept ==
    /\ Connected
    /\ \/ server = "listening"
       \/ server = "off" /\ variant = "async"
    /\ server' = "accepted"
    /\ UNCHANGED <<config, client, upstream, downstream, confirmed>>

\* The call returns or raises.  accept_and_verify closes the connection in its
\* finally block, _async_handshake leaves that to its caller.
Return(end) ==
    /\ server' = end
    /\ downShut' = (variant = "sync")

\* _async_handshake without a trusted key.
NothingTrusted ==
    /\ server = "accepted"
    /\ variant = "async"
    /\ Return("none")
    /\ UNCHANGED <<config, client, upstream, down, downRead, confirmed>>

\* make_challenge with a nonce generated for this connection, and sendall.
SendChallenge ==
    /\ server = "accepted"
    /\ server' = "reading"
    /\ down' = EncodeFrame(Json(Challenge(Fresh)))
    /\ UNCHANGED <<config, client, upstream, downRead, downShut, confirmed>>

\* sendall or recv on a connection that the other side has reset.
ServerSocketFails ==
    /\ server \in {"accepted", "reading"}
    /\ upShut
    /\ Return("oserror")
    /\ UNCHANGED <<config, client, upstream, down, downRead, confirmed>>

\* Fault: each chunk is decoded on its own.
LastChunk(stream, received, n) == SubSeq(stream, received + 1, received + n)

\* buf += chunk
Received(stream, received, n) == SubSeq(stream, 1, received + n)

\* What the reader of variant v makes of its buffer.
ServerVerdict(v, buf) == IF v = "sync" THEN DecodeFrame(buf) ELSE ReadFrame(buf)

\* validate_response and bytes.fromhex pass.
ValidResponse(m) == m.kind = "response"

\* Fault: any signature of the trusted key will do, also a replayed one.
SignedByTrusted(m) == m.key = Trusted

\* verify_nonce(trusted_key, nonce, signature)
Verifies(m) == m.key = Trusted /\ m.nonce = Fresh

\* Validation and verification of the payload that was received.
Judgement(p) ==
    IF ~ValidResponse(Content(p)) THEN "invalid"
    ELSE IF Verifies(Content(p)) THEN "verified" ELSE "mismatch"

\* The else branch of the read loops.
TooLong(buf) == Len(buf) > HeaderSize + MaxFrame

\* What the server does once it has received buf: read on, or end.  A JSON value
\* that is no object has no get(); null is taken for a closed connection.
ServerAfter(v, buf) ==
    CASE ServerVerdict(v, buf) = "message" -> Judgement(PayloadOf(buf))
      [] ServerVerdict(v, buf) = "value" -> "exception"
      [] ServerVerdict(v, buf) = "null" -> "none"
      [] ServerVerdict(v, buf) = "incomplete" ->
           IF v = "sync" /\ TooLong(buf) THEN "toolong" ELSE "reading"
      [] OTHER -> ServerVerdict(v, buf)

\* One recv and what follows it.  HandshakeServer answers an invalid message
\* with an error frame, unless the socket fails.
ServerReceives(n) ==
    LET after == ServerAfter(variant, Received(up, upRead, n))
    IN /\ server = "reading"
       /\ upRead + n <= Len(up)
       /\ upRead' = upRead + n
       /\ IF after = "reading" THEN UNCHANGED <<server, downShut>> ELSE Return(after)
       /\ \/ after = "invalid" /\ variant = "sync" /\ down' = down \o EncodeFrame(ErrorMessage)
          \/ ~(after = "invalid" /\ variant = "sync" /\ ~upShut) /\ down' = down
       /\ UNCHANGED <<config, client, up, upShut, downRead, confirmed>>

\* recv returns b"", or readexactly raises IncompleteReadError.
ServerSeesEof ==
    /\ server = "reading"
    /\ upShut /\ upRead = Len(up)
    /\ Return("eof")
    /\ UNCHANGED <<config, client, upstream, down, downRead, confirmed>>

\* Fault: only the accept has a timeout.
TimedStages == {}

\* Where the socket's timeout, or that of wait_for, applies.
ServerTimed == {"reading"}

ServerTimesOut ==
    /\ server \in ServerTimed
    /\ Return("timeout")
    /\ UNCHANGED <<config, client, upstream, down, downRead, confirmed>>

(***************************************************************************)
(* The client                                                              *)
(***************************************************************************)
\* connect(); the kernel completes it before the server's accept().
Connect ==
    /\ client = "off"
    /\ server \in {"listening", "talking"} \/ (server = "off" /\ variant = "async")
    /\ client' = "reading"
    /\ UNCHANGED <<config, server, upstream, downstream, confirmed>>

\* do_handshake ends, and closes its socket.
Leave(end) ==
    /\ client' = end
    /\ upShut' = TRUE

ConnectFails ==
    /\ client = "off"
    /\ Leave("oserror")
    /\ UNCHANGED <<config, server, up, upRead, downstream, confirmed>>

\* validate_challenge passes.
ValidChallenge(m) == m.kind = "challenge"

\* The same of the client.
ClientAfter(buf) ==
    CASE DecodeFrame(buf) = "message" ->
           IF ValidChallenge(Content(PayloadOf(buf))) THEN "prompt" ELSE "invalid"
      [] DecodeFrame(buf) = "incomplete" -> IF TooLong(buf) THEN "toolong" ELSE "reading"
      [] OTHER -> DecodeFrame(buf)

\* One recv and what follows it, up to the callback.
ClientReceives(n) ==
    LET after == ClientAfter(Received(down, downRead, n))
    IN /\ client = "reading"
       /\ downRead + n <= Len(down)
       /\ downRead' = downRead + n
       /\ IF after \in {"reading", "prompt"} THEN client' = after /\ UNCHANGED upShut
                                             ELSE Leave(after)
       /\ UNCHANGED <<config, server, up, upRead, down, downShut, confirmed>>

\* EOF, a reset, or the timeout of recv.
ClientReadFails ==
    /\ client = "reading"
    /\ \/ downShut /\ downRead = Len(down) /\ Leave("eof")
       \/ downShut /\ Leave("oserror")
       \/ Leave("timeout")
    /\ UNCHANGED <<config, server, up, upRead, downstream, confirmed>>

\* The callback (the biometric prompt) answers; it has no timeout.
Confirm ==
    /\ client = "prompt"
    /\ client' = "signing"
    /\ confirmed' = TRUE
    /\ UNCHANGED <<config, server, upstream, downstream>>

Decline ==
    /\ client = "prompt"
    /\ Leave("declined")
    /\ UNCHANGED <<config, server, up, upRead, downstream, confirmed>>

\* sign_nonce, make_response and sendall.  It may succeed although the server
\* has closed its end.
SendResponse ==
    /\ client = "signing"
    /\ up' = up \o EncodeFrame(Json(
         Response(Content(PayloadOf(SubSeq(down, 1, downRead))).nonce, holder)))
    /\ Leave("sent")
    /\ UNCHANGED <<config, server, upRead, downstream, confirmed>>

SendFails ==
    /\ client = "signing"
    /\ downShut
    /\ Leave("oserror")
    /\ UNCHANGED <<config, server, up, upRead, downstream, confirmed>>

(***************************************************************************)
(* A peer in the place of one side                                         *)
(***************************************************************************)
\* The trusted key's signature of this nonce, before or without its holder.
Forged(stream) ==
    /\ HasFrame(stream)
    /\ Content(PayloadOf(stream)) = Response(Fresh, Trusted)
    /\ holder # Trusted \/ down = <<>>

PeerConnects ==
    /\ client = "silent"
    /\ server = "listening" \/ (server = "off" /\ variant = "async")
    /\ client' = "talking"
    /\ UNCHANGED <<config, server, upstream, downstream, confirmed>>

PeerWritesUp(b) ==
    /\ client = "talking"
    /\ Len(up) < StreamBound
    /\ ~Forged(Append(up, b))
    /\ up' = Append(up, b)
    /\ UNCHANGED <<config, server, client, upRead, upShut, downstream, confirmed>>

PeerWritesDown(b) ==
    /\ server = "talking"
    /\ client # "off"
    /\ Len(down) < StreamBound
    /\ down' = Append(down, b)
    /\ UNCHANGED <<config, server, client, upstream, downRead, downShut, confirmed>>

PeerCloses ==
    \/ /\ client = "talking"
       /\ client' = "gone" /\ upShut' = TRUE
       /\ UNCHANGED <<config, server, up, upRead, downstream, confirmed>>
    \/ /\ server = "talking"
       /\ server' = "gone" /\ downShut' = TRUE
       /\ UNCHANGED <<config, client, upstream, down, downRead, confirmed>>

-----------------------------------------------------------------------------
ServerStep ==
    \/ Accept \/ NothingTrusted \/ SendChallenge \/ ServerSocketFails
    \/ \E n \in 1..Chunk : ServerReceives(n)
    \/ ServerSeesEof \/ ServerTimesOut \/ AcceptTimesOut

ClientStep ==
    \/ \E n \in 1..Chunk : ClientReceives(n)
    \/ ClientReadFails \/ SendResponse \/ SendFails

PeerStep ==
    \/ PeerConnects
    \/ \E b \in Byte : PeerWritesUp(b) \/ PeerWritesDown(b)
    \/ PeerCloses

Next ==
    \/ Start
    \/ ServerStep
    \/ Connect \/ ConnectFails
    \/ ClientStep
    \/ Confirm \/ Decline
    \/ PeerStep

Spec == Init /\ [][Next]_vars

\* Every socket operation of both calls returns or times out.  Nothing makes
\* the user answer, the client connect or a peer write.
ServerFairness == WF_vars(ServerStep)
ClientFairness == WF_vars(ClientStep)

FairSpec == Spec /\ ServerFairness /\ ClientFairness

serverBuf == SubSeq(up, 1, upRead)
clientBuf == SubSeq(down, 1, downRead)

(***************************************************************************)
(* Safety                                                                  *)
(***************************************************************************)
\* Whatever bytes arrive, in whatever pieces, decode_frame, the daemon's
\* _read_frame and the phone's readFrame delimit the same frames: they wait for
\* the same bytes and refuse the same lengths, although the phone's are signed
\* (protocol.py:91-103, daemon.py:577-587, ProtocolHandler.kt:45-59).
ReadersAgree == SameFraming(serverBuf) /\ SameFraming(clientBuf)

\* A reader that still waits holds less than one whole frame, so that no peer
\* can make the buffer grow and the "exceeded maximum" branches are never taken
\* (handshake.py:130-146, 253-269; protocol.py:18).
BufferIsBounded ==
    /\ server = "reading" => upRead < HeaderSize + MaxFrame
    /\ client = "reading" => downRead < HeaderSize + MaxFrame
    /\ server # "toolong" /\ client # "toolong"

\* The server's call is decided by the first frame of the stream alone: not by
\* how the bytes were cut into chunks, nor by what follows the frame
\* (handshake.py:129-143, daemon.py:526-545).
FirstFrameDecides ==
    /\ server \in {"verified", "mismatch", "invalid", "security", "exception", "toolong"}
         => server = ServerAfter(variant, up)
    /\ server = "reading" => ServerAfter(variant, serverBuf) = "reading"

\* True is returned only for the trusted key's signature of the nonce this
\* server sent, and if the other side is HandshakeClient, only after its user
\* confirmed and the client has returned True (handshake.py:163-188, 297-317).
VerifiedIsConfirmed ==
    server = "verified" =>
        /\ down # <<>>
        /\ holder = Trusted
        /\ Content(PayloadOf(up)) = Response(Fresh, Trusted)
        /\ client \in ClientRunning \cup ClientEnds => confirmed /\ client = "sent"

\* Between HandshakeServer or _async_handshake and HandshakeClient with the
\* trusted key nothing but a refusal of the user, a timeout or a broken
\* connection fails: no message of one is malformed for the other.
HonestPeersAgree ==
    /\ client \in ClientRunning \cup ClientEnds
    /\ server \in ServerRunning \cup ServerEnds
    => /\ client \notin {"invalid", "toolong", "security", "exception"}
       /\ server \notin {"invalid", "toolong", "security", "exception"}
       /\ server = "mismatch" => holder = Other

(***************************************************************************)
(* Liveness, under FairSpec                                                *)
(***************************************************************************)
\* Neither side waits for the other: every socket operation returns with data,
\* with EOF or with a timeout, so that only the client's callback is waited for
\* (handshake.py:95, 114, 255; daemon.py:527, 577-587).
NeverStuck ==
    /\ server \in ServerRunning => ENABLED <<ServerStep>>_vars
    /\ client \in ClientRunning \ {"prompt"} => ENABLED <<ClientStep>>_vars

\* Both calls return whatever the other side does, also when it writes a few
\* bytes at a time and never ends its frame: each recv has a timeout, and the
\* buffer is bounded.  The client's callback alone may wait for ever.
CallsReturn ==
    /\ server \in ServerRunning ~> server \notin ServerRunning
    /\ client \in ClientRunning ~> client \notin ClientRunning \/ client = "prompt"
=============================================================================
