------------------------- MODULE RefHandshakeProofs -------------------------
(***************************************************************************)
(* Proofs about the reference handshake, for every width of the header,    *)
(* every maximal frame, chunk and stream, and whatever a peer in the place *)
(* of one side writes.                                                     *)
(***************************************************************************)
EXTENDS RefHandshake, FramingProofs

Decisions == {"verified", "mismatch", "invalid", "security", "exception", "toolong"}
ClientErrors == {"invalid", "toolong", "security", "exception"}

HonestServer == server \notin {"talking", "gone"}
HonestClient == client \notin {"talking", "gone"}

\* Nothing is read before there is a connection.
NothingRead ==
    /\ server \in {"off", "listening", "accepted"} => upRead = 0 /\ down = <<>>
    /\ client = "off" => downRead = 0

\* FirstFrameDecides, of the client.
ClientDecided ==
    /\ client = "reading" => ClientAfter(clientBuf) = "reading"
    /\ client \in {"prompt", "signing"} => ClientAfter(clientBuf) = "prompt"
    /\ client \in ClientErrors => client = ClientAfter(down)

ChallengeFrame == EncodeFrame(Json(Challenge(Fresh)))
ResponseFrame(n) == EncodeFrame(Json(Response(n, holder)))

\* What a side that is no peer has written.
DownIsChallenge ==
    HonestServer =>
        \/ down = <<>> /\ server # "reading"
        \/ Starts(ChallengeFrame, down)

UpIsResponse ==
    HonestClient =>
        \/ up = <<>>
        \/ /\ client = "sent"
           /\ \E n \in {Fresh, Stale} :
                up = ResponseFrame(n) /\ (HonestServer => n = Fresh)

\* A valid response comes after the challenge, from the holder of the key.
ProofIsOwned ==
    HasFrame(up) /\ Content(PayloadOf(up)) = Response(Fresh, Trusted)
      => down # <<>> /\ holder = Trusted

ConfirmedFirst == client \in {"signing", "sent"} => confirmed

IInv ==
    /\ TypeOK
    /\ NothingRead
    /\ FirstFrameDecides
    /\ ClientDecided
    /\ DownIsChallenge
    /\ UpIsResponse
    /\ ProofIsOwned
    /\ ConfirmedFirst

(***************************************************************************)
(* Buffers                                                                 *)
(***************************************************************************)
\* What was received is the beginning of what was written.
LEMMA ReceivedStarts ==
  ASSUME NEW s \in Seq(Byte), NEW n \in 0..Len(s)
  PROVE  /\ SubSeq(s, 1, n) \in Seq(Byte)
         /\ Len(SubSeq(s, 1, n)) = n
         /\ Starts(SubSeq(s, 1, n), s)
<1>1. n \in Int /\ \A i \in 1..n : s[i] \in Byte
  OBVIOUS
<1>2. /\ SubSeq(s, 1, n) \in Seq(Byte)
      /\ Len(SubSeq(s, 1, n)) = n
      /\ \A i \in 1..n : SubSeq(s, 1, n)[i] = s[i]
  <2>1. /\ SubSeq(s, 1, n) \in Seq(Byte)
        /\ Len(SubSeq(s, 1, n)) = IF 1 <= n THEN n - 1 + 1 ELSE 0
        /\ \A i \in 1..(n - 1 + 1) : SubSeq(s, 1, n)[i] = s[1 + i - 1]
    BY <1>1, SubSeqProperties
  <2> QED
    BY <2>1
<1> QED
  BY <1>2 DEF Starts

\* A stream that is written to goes on.
LEMMA WrittenStarts ==
  ASSUME NEW s \in Seq(Byte), NEW t \in Seq(Byte)
  PROVE  s \o t \in Seq(Byte) /\ Starts(s, s \o t)
  BY ConcatProperties DEF Starts

LEMMA AppendedStarts ==
  ASSUME NEW s \in Seq(Byte), NEW b \in Byte
  PROVE  Append(s, b) \in Seq(Byte) /\ Starts(s, Append(s, b))
  BY AppendProperties DEF Starts

LEMMA StartsIsTransitive ==
  ASSUME NEW s \in Seq(Byte), NEW t \in Seq(Byte), NEW u \in Seq(Byte),
         Starts(s, t), Starts(t, u)
  PROVE  Starts(s, u)
  BY DEF Starts

\* The beginning of a stream that goes on is the same.
LEMMA SameBeginning ==
  ASSUME NEW s \in Seq(Byte), NEW t \in Seq(Byte), Starts(s, t), NEW n \in 0..Len(s)
  PROVE  SubSeq(t, 1, n) = SubSeq(s, 1, n)
<1>1. 1 \in Nat \ {0} /\ n \in Int /\ n <= Len(s)
  OBVIOUS
<1> QED
  BY <1>1, SameSubSeq

\* With nothing received every reader waits.
LEMMA NothingReceived ==
  ASSUME NEW s \in Seq(Byte), s = <<>>
  PROVE  /\ ~HasHeader(s) /\ ~HasFrame(s)
         /\ DecodeFrame(s) = "incomplete" /\ ReadFrame(s) = "incomplete"
  BY SizeAssumption DEF HasHeader, HasFrame, DecodeFrame, ReadFrame, Framed

(***************************************************************************)
(* The decisions of both sides are functions of the first frame            *)
(***************************************************************************)
\* The answers of the readers are verdicts; a message, a value or null has a
\* whole frame.
LEMMA VerdictTypes ==
  ASSUME NEW buf \in Seq(Byte)
  PROVE  /\ DecodeFrame(buf) \in Verdicts /\ ReadFrame(buf) \in Verdicts
         /\ DecodeFrame(buf) \in {"message", "value", "null"} => HasFrame(buf)
         /\ ReadFrame(buf) \in {"message", "value", "null"} => HasFrame(buf)
         /\ DecodeFrame(buf) \notin {"value", "null"}
<1>1. /\ Decoded(PayloadOf(buf)) \in {"message", "security", "exception"}
      /\ ReadJson(PayloadOf(buf)) \in Verdicts \ {"incomplete"}
  BY ParserVerdicts DEF Decoded
<1> QED
  BY <1>1 DEF DecodeFrame, ReadFrame, Framed, Verdicts

\* A waiting buffer is not too long.
LEMMA WaitingIsNotTooLong ==
  ASSUME NEW buf \in Seq(Byte),
         DecodeFrame(buf) = "incomplete" \/ ReadFrame(buf) = "incomplete"
  PROVE  ~TooLong(buf) /\ Len(buf) < HeaderSize + MaxFrame
<1>1. Len(buf) < HeaderSize + MaxFrame
  BY WaitingIsBounded
<1> QED
  BY <1>1, SizeAssumption DEF TooLong

\* The server reads on exactly as long as its reader waits, and never because
\* its buffer is too long.
LEMMA ServerWaits ==
  ASSUME NEW v \in {"sync", "async"}, NEW buf \in Seq(Byte)
  PROVE  /\ ServerAfter(v, buf) = "reading" <=> ServerVerdict(v, buf) = "incomplete"
         /\ ServerAfter(v, buf) = "reading" => Len(buf) < HeaderSize + MaxFrame
         /\ ServerAfter(v, buf) # "toolong"
         /\ ServerAfter(v, buf) \in {"reading", "none"} \cup (Decisions \ {"toolong"})
<1>1. Judgement(PayloadOf(buf)) \in {"invalid", "verified", "mismatch"}
  BY DEF Judgement
<1>2. ServerVerdict(v, buf) \in Verdicts
  BY VerdictTypes DEF ServerVerdict
<1>3. ServerVerdict(v, buf) = "incomplete" =>
         ~TooLong(buf) /\ Len(buf) < HeaderSize + MaxFrame
  BY WaitingIsNotTooLong DEF ServerVerdict
<1> QED
  BY <1>1, <1>2, <1>3 DEF ServerAfter, Verdicts, Decisions

LEMMA ClientWaits ==
  ASSUME NEW buf \in Seq(Byte)
  PROVE  /\ ClientAfter(buf) = "reading" <=> DecodeFrame(buf) = "incomplete"
         /\ ClientAfter(buf) = "reading" => Len(buf) < HeaderSize + MaxFrame
         /\ ClientAfter(buf) # "toolong"
         /\ ClientAfter(buf) \in {"reading", "prompt"} \cup (ClientErrors \ {"toolong"})
         /\ ClientAfter(buf) = "prompt" =>
              HasFrame(buf) /\ ValidChallenge(Content(PayloadOf(buf)))
<1>1. DecodeFrame(buf) \in Verdicts \ {"value", "null"}
  BY VerdictTypes
<1>2. DecodeFrame(buf) = "incomplete" =>
         ~TooLong(buf) /\ Len(buf) < HeaderSize + MaxFrame
  BY WaitingIsNotTooLong
<1>3. DecodeFrame(buf) = "message" => HasFrame(buf)
  BY VerdictTypes
<1> QED
  BY <1>1, <1>2, <1>3 DEF ClientAfter, Verdicts, ClientErrors

\* What they do is final.
LEMMA ServerIsFinal ==
  ASSUME NEW v \in {"sync", "async"}, NEW s \in Seq(Byte), NEW t \in Seq(Byte),
         Starts(s, t), ServerAfter(v, s) # "reading"
  PROVE  ServerAfter(v, t) = ServerAfter(v, s)
<1>1. ServerVerdict(v, s) # "incomplete"
  BY ServerWaits
<1>2. ServerVerdict(v, t) = ServerVerdict(v, s)
  BY <1>1, VerdictIsFinal DEF ServerVerdict
<1>3. ServerVerdict(v, s) = "message" => PayloadOf(t) = PayloadOf(s)
  <2>1. ServerVerdict(v, s) = "message" => HasFrame(s) /\ HasHeader(s)
    BY VerdictTypes DEF ServerVerdict, HasFrame
  <2> QED
    BY <2>1, SameFrame
<1> QED
  BY <1>1, <1>2, <1>3 DEF ServerAfter

LEMMA ClientIsFinal ==
  ASSUME NEW s \in Seq(Byte), NEW t \in Seq(Byte),
         Starts(s, t), ClientAfter(s) # "reading"
  PROVE  /\ ClientAfter(t) = ClientAfter(s)
         /\ ClientAfter(s) = "prompt" => PayloadOf(t) = PayloadOf(s)
<1>1. DecodeFrame(s) # "incomplete"
  BY ClientWaits
<1>2. DecodeFrame(t) = DecodeFrame(s)
  BY <1>1, VerdictIsFinal
<1>3. DecodeFrame(s) = "message" => PayloadOf(t) = PayloadOf(s)
  <2>1. DecodeFrame(s) = "message" => HasFrame(s) /\ HasHeader(s)
    BY VerdictTypes DEF HasFrame
  <2> QED
    BY <2>1, SameFrame
<1>4. ClientAfter(s) = "prompt" => DecodeFrame(s) = "message"
  BY VerdictTypes DEF ClientAfter, Verdicts
<1> QED
  BY <1>1, <1>2, <1>3, <1>4 DEF ClientAfter

(***************************************************************************)
(* Messages                                                                *)
(***************************************************************************)
\* A challenge or a response that one side writes is what the other reads.
LEMMA WrittenIsRead ==
  ASSUME NEW m, \E p \in DOMAIN Meaning : Written(p) /\ Meaning[p] = m,
         m.kind \in {"challenge", "response"}
  PROVE  /\ EncodeFrame(Json(m)) \in Seq(Byte)
         /\ EncodeFrame(Json(m)) # <<>>
         /\ \A buf \in Seq(Byte) : Starts(EncodeFrame(Json(m)), buf) =>
              /\ HasFrame(buf)
              /\ Content(PayloadOf(buf)) = m
              /\ DecodeFrame(buf) = "message" /\ ReadFrame(buf) = "message"
<1> DEFINE p == Json(m)
<1>1. p \in DOMAIN Meaning /\ Written(p) /\ Meaning[p] = m
  BY DEF Json
<1> HIDE DEF p
<1>2. p \in Seq(Byte) /\ LegalLength(Len(p))
  BY <1>1, MessageAssumption
<1>3. Content(p) = m
  BY <1>1 DEF Content
<1>4. EncodeFrame(p) \in Seq(Byte) /\ Len(EncodeFrame(p)) > 0
  <2>1. /\ HeaderSize \in Nat \ {0} /\ MaxFrame \in Nat
        /\ Base^HeaderSize \in Nat /\ 2 * MaxFrame < Base^HeaderSize
    BY SizeAssumption
  <2>2. Len(p) \in Declarable
    BY <1>2, <2>1 DEF LegalLength, Declarable
  <2>3. Header(Len(p)) \in [1..HeaderSize -> Byte]
    BY <2>2, HeaderAssumption
  <2>4. Header(Len(p)) \in Seq(Byte) /\ Len(Header(Len(p))) = HeaderSize
    BY <2>1, <2>3
  <2> QED
    BY <1>2, <2>1, <2>4, ConcatProperties DEF EncodeFrame
<1>5. ASSUME NEW buf \in Seq(Byte), Starts(EncodeFrame(p), buf)
      PROVE  /\ HasFrame(buf)
             /\ Content(PayloadOf(buf)) = m
             /\ DecodeFrame(buf) = "message" /\ ReadFrame(buf) = "message"
  <2>1. /\ PayloadOf(buf) = p
        /\ DecodeFrame(buf) = "message" /\ ReadFrame(buf) = "message"
    BY <1>1, <1>2, <1>5, WrittenIsReadByAll
  <2> QED
    BY <1>3, <2>1, VerdictTypes
<1> QED
  BY <1>4, <1>5 DEF p

\* The messages of the two programs are among these.
LEMMA ProgramsMessages ==
  /\ \E p \in DOMAIN Meaning : Written(p) /\ Meaning[p] = Challenge(Fresh)
  /\ \A n \in {Fresh, Stale}, k \in {Trusted, Other} :
       \E p \in DOMAIN Meaning : Written(p) /\ Meaning[p] = Response(n, k)
  /\ Challenge(Fresh).kind = "challenge" /\ Challenge(Fresh).nonce = Fresh
  /\ \A n, k : /\ Response(n, k).kind = "response"
               /\ Response(n, k).nonce = n /\ Response(n, k).key = k
<1>1. \E p \in DOMAIN Meaning : Written(p) /\ Meaning[p] = Challenge(Fresh)
  BY MessageAssumption
<1>2. ASSUME NEW n \in {Fresh, Stale}, NEW k \in {Trusted, Other}
      PROVE  \E p \in DOMAIN Meaning : Written(p) /\ Meaning[p] = Response(n, k)
  BY MessageAssumption
<1>3. Challenge(Fresh).kind = "challenge" /\ Challenge(Fresh).nonce = Fresh
  BY DEF Challenge, Message
<1>4. \A n, k : /\ Response(n, k).kind = "response"
                /\ Response(n, k).nonce = n /\ Response(n, k).key = k
  BY DEF Response, Message
<1> QED
  BY <1>1, <1>2, <1>3, <1>4

\* The frame that tells the client its response is invalid.
LEMMA ErrorFrame == EncodeFrame(ErrorMessage) \in Seq(Byte)
<1>1. ErrorMessage \in DOMAIN Meaning
  BY MessageAssumption DEF ErrorMessage
<1>2. ErrorMessage \in Seq(Byte) /\ LegalLength(Len(ErrorMessage))
  BY <1>1, MessageAssumption
<1>3. /\ HeaderSize \in Nat \ {0} /\ MaxFrame \in Nat
      /\ Base^HeaderSize \in Nat /\ 2 * MaxFrame < Base^HeaderSize
  BY SizeAssumption
<1>4. Len(ErrorMessage) \in Declarable
  BY <1>2, <1>3 DEF LegalLength, Declarable
<1>5. Header(Len(ErrorMessage)) \in [1..HeaderSize -> Byte]
  BY <1>4, HeaderAssumption
<1>6. Header(Len(ErrorMessage)) \in Seq(Byte)
  BY <1>3, <1>5
<1> QED
  BY <1>2, <1>6, ConcatProperties DEF EncodeFrame

\* What a challenge or a response says.
LEMMA MessageContents ==
  ASSUME NEW p
  PROVE  /\ Content(p).kind = "challenge" =>
              \E n \in {Fresh, Stale} : Content(p) = Challenge(n)
         /\ Content(p).kind = "response" =>
              \E n \in {Fresh, Stale}, k \in {Trusted, Other} : Content(p) = Response(n, k)
<1>1. CASE p \in DOMAIN Meaning
  BY <1>1, MessageAssumption DEF Content
<1>2. CASE p \notin DOMAIN Meaning
  BY <1>2 DEF Content, NotJson
<1> QED
  BY <1>1, <1>2

(***************************************************************************)
(* The invariant                                                           *)
(***************************************************************************)
LEMMA InitEstablishes == Init => IInv
<1> SUFFICES ASSUME Init PROVE IInv
  OBVIOUS
<1>1. TypeOK
  <2>1. /\ up \in Seq(Byte) /\ down \in Seq(Byte)
        /\ Len(up) = 0 /\ Len(down) = 0
    BY EmptySeq DEF Init
  <2>2. upRead \in 0..Len(up) /\ downRead \in 0..Len(down)
    BY <2>1 DEF Init
  <2>3. /\ variant \in {"sync", "async"} /\ holder \in {Trusted, Other}
        /\ server \in {"off", "talking"} /\ client \in {"off", "silent"}
        /\ upShut \in BOOLEAN /\ downShut \in BOOLEAN /\ confirmed \in BOOLEAN
    BY DEF Init
  <2> QED
    BY <2>1, <2>2, <2>3 DEF TypeOK
<1>2. up = <<>> /\ down = <<>> /\ ~HasFrame(up)
  BY <1>1, NothingReceived DEF Init, TypeOK
<1>3. /\ server \in {"off", "talking"} /\ client \in {"off", "silent"}
      /\ upRead = 0 /\ downRead = 0
  BY DEF Init
<1> QED
  BY <1>1, <1>2, <1>3
     DEF IInv, NothingRead, FirstFrameDecides, ClientDecided, DownIsChallenge,
         UpIsResponse, ProofIsOwned, ConfirmedFirst, ClientErrors

\* A step that neither writes nor receives, and after which each side is where
\* it was, has ended without a decision, or has gone on as the actions say.
Quiet ==
    /\ UNCHANGED <<config, up, upRead, down, downRead>>
    /\ upShut' \in BOOLEAN /\ downShut' \in BOOLEAN
    /\ \/ server' = server
       \/ server \in {"off", "listening"} /\ server' \in {"listening", "accepted", "refused"}
       \/ server = "talking" /\ server' = "gone"
       \/ server \in ServerRunning /\ server' \in {"none", "oserror", "eof", "timeout"}
    /\ \/ client' = client
       \/ client = "off" /\ client' \in {"reading", "oserror"}
       \/ client = "silent" /\ client' = "talking"
       \/ client = "talking" /\ client' = "gone"
       \/ client = "prompt" /\ client' \in {"signing", "declined"}
       \/ client \in {"reading", "signing"} /\ client' \in {"eof", "oserror", "timeout"}
    /\ confirmed' = (confirmed \/ client' = "signing")

LEMMA QuietSteps ==
  ASSUME TypeOK, ConfirmedFirst, Next,
         ~(\E n \in 1..Chunk : ServerReceives(n) \/ ClientReceives(n)),
         ~(\E b \in Byte : PeerWritesUp(b) \/ PeerWritesDown(b)),
         ~SendChallenge, ~SendResponse
  PROVE  Quiet
<1> USE DEF config, upstream, downstream, Quiet, ServerRunning
<1>0. /\ confirmed \in BOOLEAN /\ upShut \in BOOLEAN /\ downShut \in BOOLEAN
      /\ client = "signing" => confirmed
  BY DEF TypeOK, ConfirmedFirst
<1>1. CASE Start
  BY <1>0, <1>1 DEF Start
<1>2. CASE Accept
  BY <1>0, <1>2 DEF Accept
<1>3. CASE NothingTrusted
  BY <1>0, <1>3 DEF NothingTrusted, Return
<1>4. CASE ServerSocketFails
  BY <1>0, <1>4 DEF ServerSocketFails, Return
<1>5. CASE ServerSeesEof
  BY <1>0, <1>5 DEF ServerSeesEof, Return
<1>6. CASE ServerTimesOut
  BY <1>0, <1>6 DEF ServerTimesOut, Return, ServerTimed
<1>7. CASE AcceptTimesOut
  BY <1>0, <1>7 DEF AcceptTimesOut
<1>8. CASE Connect \/ ConnectFails
  BY <1>0, <1>8 DEF Connect, ConnectFails, Leave
<1>9. CASE ClientReadFails
  BY <1>0, <1>9 DEF ClientReadFails, Leave
<1>10. CASE SendFails
  BY <1>0, <1>10 DEF SendFails, Leave
<1>11. CASE Confirm \/ Decline
  BY <1>0, <1>11 DEF Confirm, Decline, Leave
<1>12. CASE PeerConnects \/ PeerCloses
  BY <1>0, <1>12 DEF PeerConnects, PeerCloses
<1> QED
  BY <1>1, <1>2, <1>3, <1>4, <1>5, <1>6, <1>7, <1>8, <1>9, <1>10, <1>11, <1>12
     DEF Next, ServerStep, ClientStep, PeerStep

\* The server's buffer before it has received anything.
LEMMA ReadingFromNothing ==
  ASSUME NEW s \in Seq(Byte)
  PROVE  /\ \A v \in {"sync", "async"} : ServerAfter(v, SubSeq(s, 1, 0)) = "reading"
         /\ ClientAfter(SubSeq(s, 1, 0)) = "reading"
<1>1. SubSeq(s, 1, 0) = <<>> /\ SubSeq(s, 1, 0) \in Seq(Byte)
  BY SubSeqEmpty
<1>2. /\ DecodeFrame(SubSeq(s, 1, 0)) = "incomplete"
      /\ ReadFrame(SubSeq(s, 1, 0)) = "incomplete"
  BY <1>1, NothingReceived
<1> QED
  BY <1>1, <1>2, ServerWaits, ClientWaits DEF ServerVerdict

LEMMA QuietKeeps ==
  ASSUME IInv, Quiet
  PROVE  IInv'
<1> USE DEF Quiet, config
<1>1. TypeOK'
  BY DEF IInv, TypeOK, ServerRunning, ServerEnds, ClientRunning, ClientEnds
<1>2. NothingRead'
  BY DEF IInv, NothingRead, ServerRunning
<1>3. FirstFrameDecides'
  BY DEF IInv, FirstFrameDecides, serverBuf, ServerRunning
<1>4. ClientDecided'
  <2>1. /\ clientBuf' = clientBuf
        /\ client = "off" => ClientAfter(clientBuf) = "reading"
    <3>1. down \in Seq(Byte) /\ (client = "off" => downRead = 0)
      BY DEF IInv, TypeOK, NothingRead
    <3> QED
      BY <3>1, ReadingFromNothing DEF clientBuf
  <2> QED
    BY <2>1 DEF IInv, ClientDecided, ClientErrors
<1>5. DownIsChallenge' /\ ProofIsOwned'
  BY DEF IInv, DownIsChallenge, HonestServer, ProofIsOwned, ServerRunning
<1>6. UpIsResponse'
  <2>1. HonestServer' => HonestServer
    BY DEF HonestServer, ServerRunning
  <2>2. HonestClient' => HonestClient /\ (client = "sent" => client' = "sent")
    BY DEF HonestClient
  <2>3. UNCHANGED <<up, holder>>
    OBVIOUS
  <2> QED
    BY <2>1, <2>2, <2>3 DEF IInv, UpIsResponse, ResponseFrame
<1>7. ConfirmedFirst'
  BY DEF IInv, ConfirmedFirst
<1> QED
  BY <1>1, <1>2, <1>3, <1>4, <1>5, <1>6, <1>7 DEF IInv

\* The decisions stand when the streams go on.
LEMMA UpGoesOn ==
  ASSUME TypeOK, FirstFrameDecides, up' \in Seq(Byte), Starts(up, up'),
         UNCHANGED <<variant, server, upRead>>
  PROVE  FirstFrameDecides'
<1>1. up \in Seq(Byte) /\ upRead \in 0..Len(up) /\ variant \in {"sync", "async"}
  BY DEF TypeOK
<1>2. serverBuf' = serverBuf
  BY <1>1, SameBeginning DEF serverBuf
<1>3. ServerAfter(variant, up) # "reading" =>
         ServerAfter(variant, up') = ServerAfter(variant, up)
  BY <1>1, ServerIsFinal
<1> QED
  BY <1>2, <1>3 DEF FirstFrameDecides

LEMMA DownGoesOn ==
  ASSUME TypeOK, ClientDecided, down' \in Seq(Byte), Starts(down, down'),
         UNCHANGED <<client, downRead>>
  PROVE  ClientDecided'
<1>1. down \in Seq(Byte) /\ downRead \in 0..Len(down)
  BY DEF TypeOK
<1>2. clientBuf' = clientBuf
  BY <1>1, SameBeginning DEF clientBuf
<1>3. ClientAfter(down) # "reading" => ClientAfter(down') = ClientAfter(down)
  BY <1>1, ClientIsFinal
<1> QED
  BY <1>2, <1>3 DEF ClientDecided, ClientErrors

\* A stream that goes on does not become empty, and reading stays in range.
LEMMA StreamGrows ==
  ASSUME NEW s \in Seq(Byte), NEW t \in Seq(Byte), Starts(s, t)
  PROVE  /\ s # <<>> => t # <<>>
         /\ \A n \in 0..Len(s) : n \in 0..Len(t)
  BY DEF Starts

LEMMA ServerReceivesKeeps ==
  ASSUME IInv, NEW n \in 1..Chunk, ServerReceives(n)
  PROVE  IInv'
<1> DEFINE buf == SubSeq(up, 1, upRead + n)
           after == ServerAfter(variant, buf)
<1> USE DEF config
<1>1. /\ up \in Seq(Byte) /\ down \in Seq(Byte) /\ upRead \in 0..Len(up)
      /\ downRead \in 0..Len(down) /\ variant \in {"sync", "async"}
      /\ upRead + n \in 0..Len(up) /\ Chunk \in Nat
  BY MessageAssumption DEF IInv, TypeOK, ServerReceives
<1>2. buf \in Seq(Byte) /\ Starts(buf, up)
  BY <1>1, ReceivedStarts
<1>3. /\ server = "reading"
      /\ upRead' = upRead + n
      /\ server' = after
      /\ downShut' \in BOOLEAN
      /\ UNCHANGED <<variant, holder, client, up, upShut, downRead, confirmed>>
      /\ down' = down \/ down' = down \o EncodeFrame(ErrorMessage)
  BY <1>1 DEF ServerReceives, Received, Return, IInv, TypeOK
<1>4. /\ after \in {"reading", "none"} \cup (Decisions \ {"toolong"})
      /\ after # "reading" => ServerAfter(variant, up) = after
  <2> HIDE DEF buf
  <2>1. after \in {"reading", "none"} \cup (Decisions \ {"toolong"})
    BY <1>1, <1>2, ServerWaits
  <2>2. after # "reading" => ServerAfter(variant, up) = after
    BY <1>1, <1>2, ServerIsFinal
  <2> QED
    BY <2>1, <2>2
<1>5. down' \in Seq(Byte) /\ Starts(down, down')
  <2>1. CASE down' = down
    BY <1>1, <2>1 DEF Starts
  <2>2. CASE down' = down \o EncodeFrame(ErrorMessage)
    BY <1>1, <2>2, ErrorFrame, WrittenStarts
  <2> QED
    BY <1>3, <2>1, <2>2
<1>6. serverBuf' = buf
  BY <1>3 DEF serverBuf
<1> HIDE DEF buf, after
<1>7. TypeOK'
  <2>1. server' \in ServerRunning \cup ServerEnds
    BY <1>3, <1>4 DEF Decisions, ServerRunning, ServerEnds
  <2>2. upRead' \in 0..Len(up') /\ downRead' \in 0..Len(down')
    BY <1>1, <1>3, <1>5, StreamGrows
  <2> QED
    BY <1>3, <1>5, <2>1, <2>2 DEF IInv, TypeOK
<1>8. NothingRead'
  BY <1>3, <1>4 DEF IInv, NothingRead, Decisions
<1>9. FirstFrameDecides'
  BY <1>3, <1>4, <1>6 DEF FirstFrameDecides, after
<1>10. ClientDecided'
  BY <1>3, <1>5, DownGoesOn DEF IInv
<1>11. DownIsChallenge'
  <2>1. Starts(ChallengeFrame, down)
    BY <1>3 DEF IInv, DownIsChallenge, HonestServer
  <2>2. ChallengeFrame \in Seq(Byte)
    BY ProgramsMessages, WrittenIsRead DEF ChallengeFrame
  <2>3. Starts(ChallengeFrame, down')
    BY <1>1, <1>5, <2>1, <2>2, StartsIsTransitive
  <2> QED
    BY <2>3 DEF DownIsChallenge, ChallengeFrame
<1>12. UpIsResponse'
  <2>1. HonestServer
    BY <1>3 DEF HonestServer
  <2> QED
    BY <1>3, <2>1 DEF IInv, UpIsResponse, HonestClient, ResponseFrame
<1>13. ProofIsOwned'
  BY <1>1, <1>3, <1>5, StreamGrows DEF IInv, ProofIsOwned
<1>14. ConfirmedFirst'
  BY <1>3 DEF IInv, ConfirmedFirst
<1> QED
  BY <1>7, <1>8, <1>9, <1>10, <1>11, <1>12, <1>13, <1>14 DEF IInv

LEMMA ClientReceivesKeeps ==
  ASSUME IInv, NEW n \in 1..Chunk, ClientReceives(n)
  PROVE  IInv'
<1> DEFINE buf == SubSeq(down, 1, downRead + n)
           after == ClientAfter(buf)
<1> USE DEF config
<1>1. /\ up \in Seq(Byte) /\ down \in Seq(Byte) /\ upRead \in 0..Len(up)
      /\ downRead \in 0..Len(down)
      /\ downRead + n \in 0..Len(down) /\ Chunk \in Nat
  BY MessageAssumption DEF IInv, TypeOK, ClientReceives
<1>2. buf \in Seq(Byte) /\ Starts(buf, down)
  BY <1>1, ReceivedStarts
<1>3. /\ client = "reading"
      /\ downRead' = downRead + n
      /\ client' = after
      /\ upShut' \in BOOLEAN
      /\ UNCHANGED <<variant, holder, server, up, upRead, down, downShut, confirmed>>
  BY <1>1 DEF ClientReceives, Received, Leave, IInv, TypeOK
<1>4. /\ after \in {"reading", "prompt"} \cup (ClientErrors \ {"toolong"})
      /\ after # "reading" => ClientAfter(down) = after
  BY <1>1, <1>2, ClientWaits, ClientIsFinal
<1>5. clientBuf' = buf
  BY <1>3 DEF clientBuf
<1> HIDE DEF buf, after
<1>6. TypeOK'
  <2>1. client' \in ClientRunning \cup ClientEnds
    BY <1>3, <1>4 DEF ClientErrors, ClientRunning, ClientEnds
  <2>2. downRead' \in 0..Len(down')
    BY <1>1, <1>3
  <2> QED
    BY <1>3, <2>1, <2>2 DEF IInv, TypeOK
<1>7. NothingRead'
  BY <1>3, <1>4 DEF IInv, NothingRead, ClientErrors
<1>8. FirstFrameDecides'
  BY <1>3 DEF IInv, FirstFrameDecides, serverBuf
<1>9. ClientDecided'
  BY <1>3, <1>4, <1>5 DEF ClientDecided, ClientErrors, after
<1>10. DownIsChallenge' /\ ProofIsOwned'
  BY <1>3 DEF IInv, DownIsChallenge, HonestServer, ProofIsOwned
<1>11. UpIsResponse'
  <2>1. up = <<>>
    BY <1>3 DEF IInv, UpIsResponse, HonestClient
  <2> QED
    BY <1>3, <2>1 DEF UpIsResponse
<1>12. ConfirmedFirst'
  BY <1>3, <1>4 DEF IInv, ConfirmedFirst, ClientErrors
<1> QED
  BY <1>6, <1>7, <1>8, <1>9, <1>10, <1>11, <1>12 DEF IInv

LEMMA SendChallengeKeeps ==
  ASSUME IInv, SendChallenge
  PROVE  IInv'
<1> USE DEF config, upstream
<1>1. /\ up \in Seq(Byte) /\ down \in Seq(Byte) /\ upRead \in 0..Len(up)
      /\ downRead \in 0..Len(down) /\ variant \in {"sync", "async"}
  BY DEF IInv, TypeOK
<1>2. /\ server = "accepted" /\ server' = "reading"
      /\ upRead = 0 /\ down = <<>>
      /\ down' = ChallengeFrame
      /\ UNCHANGED <<variant, holder, client, up, upRead, upShut,
                     downRead, downShut, confirmed>>
  BY DEF IInv, NothingRead, SendChallenge, ChallengeFrame
<1>3. down' \in Seq(Byte) /\ Starts(down, down')
  <2>1. ChallengeFrame \in Seq(Byte)
    BY ProgramsMessages, WrittenIsRead DEF ChallengeFrame
  <2> QED
    BY <1>2, <2>1 DEF Starts
<1>4. TypeOK'
  <2>1. downRead' \in 0..Len(down')
    BY <1>1, <1>2, <1>3, StreamGrows
  <2>2. server' \in ServerRunning
    BY <1>2 DEF ServerRunning
  <2> QED
    BY <1>2, <1>3, <2>1, <2>2 DEF IInv, TypeOK
<1>5. NothingRead'
  BY <1>2 DEF IInv, NothingRead
<1>6. FirstFrameDecides'
  BY <1>1, <1>2, ReadingFromNothing DEF FirstFrameDecides, serverBuf
<1>7. ClientDecided'
  BY <1>2, <1>3, DownGoesOn DEF IInv
<1>8. DownIsChallenge'
  BY <1>2, <1>3 DEF DownIsChallenge, ChallengeFrame, Starts
<1>9. UpIsResponse'
  <2>1. HonestServer
    BY <1>2 DEF HonestServer
  <2> QED
    BY <1>2, <2>1 DEF IInv, UpIsResponse, HonestClient, ResponseFrame
<1>10. ProofIsOwned'
  BY <1>1, <1>2, <1>3, StreamGrows DEF IInv, ProofIsOwned
<1>11. ConfirmedFirst'
  BY <1>2 DEF IInv, ConfirmedFirst
<1> QED
  BY <1>4, <1>5, <1>6, <1>7, <1>8, <1>9, <1>10, <1>11 DEF IInv

\* The response answers the challenge that was received.
LEMMA SendResponseKeeps ==
  ASSUME IInv, SendResponse
  PROVE  IInv'
<1> USE DEF config, downstream
<1>1. /\ up \in Seq(Byte) /\ down \in Seq(Byte) /\ upRead \in 0..Len(up)
      /\ downRead \in 0..Len(down) /\ holder \in {Trusted, Other}
  BY DEF IInv, TypeOK
<1>2. clientBuf \in Seq(Byte) /\ Starts(clientBuf, down)
  BY <1>1, ReceivedStarts DEF clientBuf
<1>3. client = "signing" /\ up = <<>> /\ confirmed
  BY DEF SendResponse, IInv, UpIsResponse, HonestClient, ConfirmedFirst
<1>4. ClientAfter(clientBuf) = "prompt"
  BY <1>3 DEF IInv, ClientDecided
<1>5. /\ HasFrame(clientBuf)
      /\ Content(PayloadOf(clientBuf)).kind = "challenge"
      /\ PayloadOf(down) = PayloadOf(clientBuf)
  BY <1>1, <1>2, <1>4, ClientWaits, ClientIsFinal DEF ValidChallenge
<1>6. PICK n \in {Fresh, Stale} : Content(PayloadOf(clientBuf)) = Challenge(n)
  BY <1>5, MessageContents
<1>7. Content(PayloadOf(clientBuf)).nonce = n
  BY <1>6 DEF Challenge, Message
<1>8. ResponseFrame(n) \in Seq(Byte) /\ ResponseFrame(n) # <<>>
  BY <1>1, ProgramsMessages, WrittenIsRead DEF ResponseFrame
<1>9. /\ up' = ResponseFrame(n)
      /\ client' = "sent" /\ upShut' = TRUE
      /\ UNCHANGED <<variant, holder, server, upRead, down, downRead, downShut, confirmed>>
  <2>1. up' = <<>> \o ResponseFrame(n)
    BY <1>3, <1>7 DEF SendResponse, clientBuf, ResponseFrame
  <2>2. up' = ResponseFrame(n)
    BY <1>8, <2>1, ConcatEmptySeq
  <2> QED
    BY <2>2 DEF SendResponse, Leave
<1>10. down # <<>>
  <2>1. clientBuf # <<>>
    BY <1>2, <1>5, NothingReceived
  <2> QED
    BY <1>1, <1>2, <2>1, StreamGrows
<1>11. up' \in Seq(Byte) /\ Starts(up, up')
  BY <1>3, <1>8, <1>9 DEF Starts
<1>12. TypeOK'
  <2>1. upRead' \in 0..Len(up')
    BY <1>1, <1>9, <1>11, StreamGrows
  <2>2. client' \in ClientEnds
    BY <1>9 DEF ClientEnds
  <2> QED
    BY <1>9, <1>11, <2>1, <2>2 DEF IInv, TypeOK
<1>13. NothingRead'
  BY <1>9 DEF IInv, NothingRead
<1>14. FirstFrameDecides'
  BY <1>9, <1>11, UpGoesOn DEF IInv
<1>15. ClientDecided'
  BY <1>9 DEF ClientDecided, ClientErrors
<1>16. DownIsChallenge'
  BY <1>9 DEF IInv, DownIsChallenge, HonestServer
<1>17. UpIsResponse'
  <2>1. HonestServer => n = Fresh
    <3>1. HonestServer => Starts(ChallengeFrame, down)
      BY <1>10 DEF IInv, DownIsChallenge
    <3>2. Starts(ChallengeFrame, down) => Content(PayloadOf(down)) = Challenge(Fresh)
      BY <1>1, ProgramsMessages, WrittenIsRead DEF ChallengeFrame
    <3>3. Challenge(Fresh).nonce = Fresh
      BY ProgramsMessages
    <3> QED
      BY <1>5, <1>7, <3>1, <3>2, <3>3
  <2>2. HonestServer' = HonestServer
    BY <1>9 DEF HonestServer
  <2> QED
    BY <1>9, <2>1, <2>2 DEF UpIsResponse, ResponseFrame
<1>18. ProofIsOwned'
  <2>1. Starts(ResponseFrame(n), up')
    BY <1>8, <1>9 DEF Starts
  <2>2. Content(PayloadOf(up')) = Response(n, holder)
    BY <1>1, <1>11, <2>1, ProgramsMessages, WrittenIsRead DEF ResponseFrame
  <2>3. Response(n, holder) = Response(Fresh, Trusted) => holder = Trusted
    BY ProgramsMessages
  <2> QED
    BY <1>9, <1>10, <2>2, <2>3 DEF ProofIsOwned
<1>19. ConfirmedFirst'
  BY <1>3, <1>9 DEF ConfirmedFirst
<1> QED
  BY <1>12, <1>13, <1>14, <1>15, <1>16, <1>17, <1>18, <1>19 DEF IInv

LEMMA PeerWritesUpKeeps ==
  ASSUME IInv, NEW b \in Byte, PeerWritesUp(b)
  PROVE  IInv'
<1> USE DEF config, downstream
<1>1. /\ up \in Seq(Byte) /\ down \in Seq(Byte) /\ upRead \in 0..Len(up)
      /\ holder \in {Trusted, Other}
  BY DEF IInv, TypeOK
<1>2. /\ client = "talking" /\ up' = Append(up, b) /\ ~Forged(up')
      /\ UNCHANGED <<variant, holder, server, client, upRead, upShut,
                     down, downRead, downShut, confirmed>>
  BY DEF PeerWritesUp
<1>3. up' \in Seq(Byte) /\ Starts(up, up')
  BY <1>1, <1>2, AppendedStarts
<1>4. TypeOK'
  <2>1. upRead' \in 0..Len(up')
    BY <1>1, <1>2, <1>3, StreamGrows
  <2> QED
    BY <1>2, <1>3, <2>1 DEF IInv, TypeOK
<1>5. NothingRead' /\ DownIsChallenge' /\ ConfirmedFirst'
  BY <1>2 DEF IInv, NothingRead, DownIsChallenge, HonestServer, ConfirmedFirst
<1>6. FirstFrameDecides'
  BY <1>2, <1>3, UpGoesOn DEF IInv
<1>7. ClientDecided'
  BY <1>2 DEF IInv, ClientDecided, clientBuf
<1>8. UpIsResponse'
  BY <1>2 DEF UpIsResponse, HonestClient
<1>9. ProofIsOwned'
  BY <1>2 DEF ProofIsOwned, Forged
<1> QED
  BY <1>4, <1>5, <1>6, <1>7, <1>8, <1>9 DEF IInv

LEMMA PeerWritesDownKeeps ==
  ASSUME IInv, NEW b \in Byte, PeerWritesDown(b)
  PROVE  IInv'
<1> USE DEF config, upstream
<1>1. up \in Seq(Byte) /\ down \in Seq(Byte) /\ downRead \in 0..Len(down)
  BY DEF IInv, TypeOK
<1>2. /\ server = "talking" /\ client # "off" /\ down' = Append(down, b)
      /\ UNCHANGED <<variant, holder, server, client, up, upRead, upShut,
                     downRead, downShut, confirmed>>
  BY DEF PeerWritesDown
<1>3. down' \in Seq(Byte) /\ Starts(down, down')
  BY <1>1, <1>2, AppendedStarts
<1>4. TypeOK'
  <2>1. downRead' \in 0..Len(down')
    BY <1>1, <1>2, <1>3, StreamGrows
  <2> QED
    BY <1>2, <1>3, <2>1 DEF IInv, TypeOK
<1>5. NothingRead' /\ DownIsChallenge' /\ ConfirmedFirst'
  BY <1>2 DEF IInv, NothingRead, DownIsChallenge, HonestServer, ConfirmedFirst
<1>6. FirstFrameDecides'
  BY <1>2 DEF IInv, FirstFrameDecides, serverBuf
<1>7. ClientDecided'
  BY <1>2, <1>3, DownGoesOn DEF IInv
<1>8. UpIsResponse'
  BY <1>2 DEF IInv, UpIsResponse, HonestClient, HonestServer, ResponseFrame
<1>9. ProofIsOwned'
  BY <1>1, <1>2, <1>3, StreamGrows DEF IInv, ProofIsOwned
<1> QED
  BY <1>4, <1>5, <1>6, <1>7, <1>8, <1>9 DEF IInv

LEMMA StepKeeps == IInv /\ [Next]_vars => IInv'
<1> SUFFICES ASSUME IInv, [Next]_vars PROVE IInv'
  OBVIOUS
<1>1. CASE \E n \in 1..Chunk : ServerReceives(n) \/ ClientReceives(n)
  BY <1>1, ServerReceivesKeeps, ClientReceivesKeeps
<1>2. CASE \E b \in Byte : PeerWritesUp(b) \/ PeerWritesDown(b)
  BY <1>2, PeerWritesUpKeeps, PeerWritesDownKeeps
<1>3. CASE SendChallenge \/ SendResponse
  BY <1>3, SendChallengeKeeps, SendResponseKeeps
<1>4. CASE UNCHANGED vars
  <2>1. Quiet
    BY <1>4 DEF Quiet, vars, config, upstream, downstream, IInv, TypeOK, ConfirmedFirst
  <2> QED
    BY <2>1, QuietKeeps
<1>5. CASE Next /\ ~(\E n \in 1..Chunk : ServerReceives(n) \/ ClientReceives(n))
           /\ ~(\E b \in Byte : PeerWritesUp(b) \/ PeerWritesDown(b))
           /\ ~SendChallenge /\ ~SendResponse
  <2>1. Quiet
    BY <1>5, QuietSteps DEF IInv
  <2> QED
    BY <2>1, QuietKeeps
<1> QED
  BY <1>1, <1>2, <1>3, <1>4, <1>5

LEMMA Invariance == Spec => []IInv
  BY InitEstablishes, StepKeeps, PTL DEF Spec

(***************************************************************************)
(* The results                                                             *)
(***************************************************************************)
\* Every variable keeps its type; no position runs past the end of its stream.
THEOREM TypeCorrect == Spec => []TypeOK
<1>1. IInv => TypeOK
  BY DEF IInv
<1> QED
  BY <1>1, Invariance, PTL

\* In every state decode_frame, _read_frame and the phone's readFrame delimit
\* both buffers alike (protocol.py:91-103, daemon.py:577-587,
\* ProtocolHandler.kt:45-59).
THEOREM ReadersAlwaysAgree == Spec => []ReadersAgree
<1>1. IInv => ReadersAgree
  <2> SUFFICES ASSUME IInv PROVE ReadersAgree
    OBVIOUS
  <2>1. serverBuf \in Seq(Byte) /\ clientBuf \in Seq(Byte)
    BY ReceivedStarts DEF IInv, TypeOK, serverBuf, clientBuf
  <2> QED
    BY <2>1, ReadersDelimitAlike DEF ReadersAgree
<1> QED
  BY <1>1, Invariance, PTL

\* Neither buffer grows past one frame, whatever the peer writes, so that the
\* branches for a buffer above the maximum are dead (handshake.py:130-146,
\* 253-269).
THEOREM BufferAlwaysBounded == Spec => []BufferIsBounded
<1>1. IInv => BufferIsBounded
  <2> SUFFICES ASSUME IInv PROVE BufferIsBounded
    OBVIOUS
  <2>1. /\ up \in Seq(Byte) /\ upRead \in 0..Len(up)
        /\ down \in Seq(Byte) /\ downRead \in 0..Len(down)
        /\ variant \in {"sync", "async"}
    BY DEF IInv, TypeOK
  <2>2. /\ serverBuf \in Seq(Byte) /\ Len(serverBuf) = upRead
        /\ clientBuf \in Seq(Byte) /\ Len(clientBuf) = downRead
    BY <2>1, ReceivedStarts DEF serverBuf, clientBuf
  <2>3. server = "reading" => upRead < HeaderSize + MaxFrame
    BY <2>1, <2>2, ServerWaits DEF IInv, FirstFrameDecides
  <2>4. client = "reading" => downRead < HeaderSize + MaxFrame
    BY <2>2, ClientWaits DEF IInv, ClientDecided
  <2>5. server # "toolong"
    BY <2>1, ServerWaits DEF IInv, FirstFrameDecides
  <2>6. client # "toolong"
    BY <2>1, ClientWaits DEF IInv, ClientDecided, ClientErrors
  <2> QED
    BY <2>3, <2>4, <2>5, <2>6 DEF BufferIsBounded
<1> QED
  BY <1>1, Invariance, PTL

\* The server's result depends on the first frame alone, not on how it was cut
\* into chunks nor on what follows it (handshake.py:129-143).
THEOREM FirstFrameAlwaysDecides == Spec => []FirstFrameDecides
<1>1. IInv => FirstFrameDecides
  BY DEF IInv
<1> QED
  BY <1>1, Invariance, PTL

\* The server returns True only if the holder of the trusted key signed this
\* nonce, and a HandshakeClient only after its user confirmed
\* (handshake.py:163-188, 297-317).
THEOREM VerifiedAlwaysConfirmed == Spec => []VerifiedIsConfirmed
<1>1. IInv => VerifiedIsConfirmed
  <2> SUFFICES ASSUME IInv, server = "verified" PROVE VerifiedIsConfirmed
    BY DEF VerifiedIsConfirmed
  <2>1. up \in Seq(Byte) /\ variant \in {"sync", "async"}
    BY DEF IInv, TypeOK
  <2>2. ServerAfter(variant, up) = "verified"
    BY DEF IInv, FirstFrameDecides
  <2>3. ServerVerdict(variant, up) = "message"
        /\ Judgement(PayloadOf(up)) = "verified"
    <3>1. ServerVerdict(variant, up) \in Verdicts
      BY <2>1, VerdictTypes DEF ServerVerdict
    <3> QED
      BY <2>2, <3>1 DEF ServerAfter, Verdicts
  <2>4. HasFrame(up)
    BY <2>1, <2>3, VerdictTypes DEF ServerVerdict
  <2>5. /\ Content(PayloadOf(up)).kind = "response"
        /\ Content(PayloadOf(up)).key = Trusted
        /\ Content(PayloadOf(up)).nonce = Fresh
    BY <2>3 DEF Judgement, ValidResponse, Verifies
  <2>6. Content(PayloadOf(up)) = Response(Fresh, Trusted)
    <3>1. PICK n \in {Fresh, Stale}, k \in {Trusted, Other} :
            Content(PayloadOf(up)) = Response(n, k)
      BY <2>5, MessageContents
    <3>2. n = Fresh /\ k = Trusted
      BY <2>5, <3>1 DEF Response, Message
    <3> QED
      BY <3>1, <3>2
  <2>7. down # <<>> /\ holder = Trusted
    BY <2>4, <2>6 DEF IInv, ProofIsOwned
  <2>8. client \in ClientRunning \cup ClientEnds => confirmed /\ client = "sent"
    <3>1. up # <<>>
      BY <2>1, <2>4, NothingReceived
    <3>2. client \in ClientRunning \cup ClientEnds => HonestClient
      BY DEF ClientRunning, ClientEnds, HonestClient
    <3> QED
      BY <3>1, <3>2 DEF IInv, UpIsResponse, ConfirmedFirst
  <2> QED
    BY <2>6, <2>7, <2>8 DEF VerifiedIsConfirmed
<1> QED
  BY <1>1, Invariance, PTL

\* The two programs understand each other: what one writes is well-formed for
\* the other, and a signature is refused only if it is another key's.
THEOREM HonestPeersAlwaysAgree == Spec => []HonestPeersAgree
<1>1. IInv => HonestPeersAgree
  <2> SUFFICES ASSUME IInv,
                      client \in ClientRunning \cup ClientEnds,
                      server \in ServerRunning \cup ServerEnds
               PROVE  /\ client \notin ClientErrors
                      /\ server \notin {"invalid", "toolong", "security", "exception"}
                      /\ server = "mismatch" => holder = Other
    BY DEF HonestPeersAgree, ClientErrors
  <2>1. HonestClient /\ HonestServer
    BY DEF ClientRunning, ClientEnds, ServerRunning, ServerEnds, HonestClient, HonestServer
  <2>2. /\ up \in Seq(Byte) /\ down \in Seq(Byte)
        /\ variant \in {"sync", "async"} /\ holder \in {Trusted, Other}
    BY DEF IInv, TypeOK
  <2>3. client \notin ClientErrors
    <3>1. SUFFICES ASSUME client \in ClientErrors PROVE FALSE
      OBVIOUS
    <3>2. ClientAfter(down) = client /\ client \notin {"reading", "prompt"}
      BY <3>1 DEF IInv, ClientDecided, ClientErrors
    <3>3. CASE down = <<>>
      <4>1. DecodeFrame(down) = "incomplete"
        BY <2>2, <3>3, NothingReceived
      <4> QED
        BY <2>2, <3>2, <4>1, ClientWaits
    <3>4. CASE down # <<>>
      <4>1. Starts(ChallengeFrame, down)
        BY <2>1, <3>4 DEF IInv, DownIsChallenge
      <4>2. /\ Content(PayloadOf(down)) = Challenge(Fresh)
            /\ DecodeFrame(down) = "message"
        BY <2>2, <4>1, ProgramsMessages, WrittenIsRead DEF ChallengeFrame
      <4>3. ClientAfter(down) = "prompt"
        BY <4>2, ProgramsMessages DEF ClientAfter, ValidChallenge
      <4> QED
        BY <3>2, <4>3
    <3> QED
      BY <3>3, <3>4
  <2>4. CASE up = <<>>
    <3>1. DecodeFrame(up) = "incomplete" /\ ReadFrame(up) = "incomplete"
      BY <2>2, <2>4, NothingReceived
    <3>2. ServerAfter(variant, up) = "reading"
      BY <2>2, <3>1, ServerWaits DEF ServerVerdict
    <3> QED
      BY <2>3, <3>2 DEF IInv, FirstFrameDecides
  <2>5. CASE up # <<>>
    <3>1. up = ResponseFrame(Fresh)
      BY <2>1, <2>5 DEF IInv, UpIsResponse
    <3>2. Starts(ResponseFrame(Fresh), up)
      BY <2>2, <3>1 DEF Starts
    <3>3. /\ Content(PayloadOf(up)) = Response(Fresh, holder)
          /\ DecodeFrame(up) = "message" /\ ReadFrame(up) = "message"
      BY <2>2, <3>2, ProgramsMessages, WrittenIsRead DEF ResponseFrame
    <3>4. ServerAfter(variant, up) = IF holder = Trusted THEN "verified" ELSE "mismatch"
      BY <3>3, ProgramsMessages
         DEF ServerAfter, ServerVerdict, Judgement, ValidResponse, Verifies
    <3> QED
      BY <2>2, <2>3, <3>4 DEF IInv, FirstFrameDecides
  <2> QED
    BY <2>4, <2>5
<1> QED
  BY <1>1, Invariance, PTL

\* HandshakeServer and the daemon's _async_handshake, which read frames with
\* different code, wait for the same bytes and return the same of True, False
\* and the refusal of a message, but for the coding: of a payload in UTF-8 with
\* a byte order mark or in UTF-16, which json.loads(bytes) takes, the former
\* judges what it says and the latter raises (protocol.py:109, daemon.py:588,
\* handshake.py:129-188, daemon.py:526-588).
THEOREM ServersDifferByCodingOnly ==
  ASSUME NEW buf \in Seq(Byte)
  PROVE  /\ ServerAfter("sync", buf) = "reading" <=> ServerAfter("async", buf) = "reading"
         /\ \A end \in {"verified", "mismatch", "invalid"} :
              ServerAfter("async", buf) = end <=>
                /\ ServerAfter("sync", buf) = end
                /\ CodingOf(PayloadOf(buf)) = "utf8"
         /\ /\ ServerAfter("sync", buf) \in {"verified", "mismatch", "invalid"}
            /\ CodingOf(PayloadOf(buf)) # "utf8"
            => ServerAfter("async", buf) = "exception"
<1> DEFINE p == PayloadOf(buf)
<1>1. /\ DecodeFrame(buf) \in Verdicts /\ ReadFrame(buf) \in Verdicts
      /\ DecodeFrame(buf) = "incomplete" <=> ReadFrame(buf) = "incomplete"
  BY VerdictTypes, ReadersDelimitAlike DEF SameFraming
<1>2. Judgement(p) \in {"verified", "mismatch", "invalid"}
  BY DEF Judgement
<1>3. /\ ServerAfter("sync", buf) = "reading" <=> DecodeFrame(buf) = "incomplete"
      /\ ServerAfter("async", buf) = "reading" <=> ReadFrame(buf) = "incomplete"
  BY ServerWaits DEF ServerVerdict
<1>4. \A end \in {"verified", "mismatch", "invalid"} :
        /\ ServerAfter("sync", buf) = end <=>
             DecodeFrame(buf) = "message" /\ Judgement(p) = end
        /\ ServerAfter("async", buf) = end <=>
             ReadFrame(buf) = "message" /\ Judgement(p) = end
  BY <1>1, <1>2 DEF ServerAfter, ServerVerdict, Verdicts
<1>5. CASE DecodeFrame(buf) = "message"
  <2>1. /\ HasFrame(buf) /\ HasHeader(buf)
        /\ LegalLength(DeclaredLength(buf))
        /\ IsObject(p)
    <3>1. Decoded(p) \in {"message", "security", "exception"}
      BY DEF Decoded
    <3>2. HasHeader(buf) /\ LegalLength(DeclaredLength(buf)) /\ HasFrame(buf)
      BY <1>5 DEF DecodeFrame, Framed
    <3>3. Decoded(p) = "message"
      BY <1>5, <3>2 DEF DecodeFrame, Framed
    <3> QED
      BY <3>2, <3>3 DEF Decoded
  <2>2. ReadableLength(DeclaredLength(buf))
    BY <2>1, HeaderDeclares, SameLengths
  <2>3. ReadFrame(buf) = ReadJson(p)
    BY <2>1, <2>2 DEF ReadFrame, Framed
  <2>4. ReadJson(p) = IF CodingOf(p) = "utf8" THEN "message" ELSE "exception"
    <3>1. IsObject(p) /\ IsJson(p)
      BY <2>1 DEF IsObject, IsJson
    <3> HIDE DEF p
    <3> QED
      BY <3>1 DEF ReadJson
  <2>5. ReadFrame(buf) = "exception" => ServerAfter("async", buf) = "exception"
    BY DEF ServerAfter, ServerVerdict
  <2> QED
    BY <1>1, <1>2, <1>3, <1>4, <1>5, <2>3, <2>4, <2>5
<1>6. CASE DecodeFrame(buf) # "message"
  <2>1. ReadFrame(buf) # "message"
    <3> SUFFICES ASSUME ReadFrame(buf) = "message" PROVE FALSE
      OBVIOUS
    <3>1. HasHeader(buf) /\ ReadableLength(DeclaredLength(buf)) /\ HasFrame(buf)
      BY DEF ReadFrame, Framed
    <3>2. IsObject(p)
      <4>1. ReadJson(p) = "message"
        BY <3>1 DEF ReadFrame, Framed
      <4>2. Content(p).kind # "message"
        BY KindAssumption DEF Content, NotJson, Kinds
      <4> QED
        BY <4>1, <4>2 DEF ReadJson
    <3>3. LegalLength(DeclaredLength(buf))
      BY <3>1, HeaderDeclares, SameLengths
    <3>4. Decoded(p) = "message"
      BY <3>2 DEF Decoded, IsObject
    <3> QED
      BY <1>6, <3>1, <3>3, <3>4 DEF DecodeFrame, Framed
  <2> QED
    BY <1>1, <1>3, <1>4, <1>6, <2>1
<1> QED
  BY <1>5, <1>6

(***************************************************************************)
(* Progress                                                                *)
(*                                                                         *)
(* ENABLED is an unknown predicate to the prover, so NeverStuck, which TLC *)
(* checks, is a hypothesis here.                                           *)
(***************************************************************************)
LongestFrame == HeaderSize + MaxFrame

\* How many steps each call has at most before it: a reader needs at least one
\* byte for each of its own.
ServerLeft ==
    CASE server = "listening" -> LongestFrame + 2
      [] server = "accepted" -> LongestFrame + 1
      [] server = "reading" -> LongestFrame - upRead
      [] OTHER -> 0

ClientLeft ==
    CASE client = "reading" -> LongestFrame + 1 - downRead
      [] client = "signing" -> 1
      [] OTHER -> 0

ServerAtWork == server \in ServerRunning
ClientAtWork == client \in ClientRunning \ {"prompt"}

\* The strengthened invariant with the bound of the buffers.
Bounded == IInv /\ BufferIsBounded

LEMMA AlwaysBounded == Spec => []Bounded
  BY Invariance, BufferAlwaysBounded, PTL DEF Bounded

LEMMA LeftIsNumber ==
  ASSUME Bounded
  PROVE  /\ ServerLeft \in Nat /\ ClientLeft \in Nat
         /\ upRead \in Nat /\ downRead \in Nat
<1>1. HeaderSize \in Nat /\ MaxFrame \in Nat
  BY SizeAssumption
<1>2. Len(up) \in Nat /\ Len(down) \in Nat
  BY LenProperties DEF Bounded, IInv, TypeOK
<1>3. upRead \in Nat /\ downRead \in Nat
  BY <1>2 DEF Bounded, IInv, TypeOK
<1> QED
  BY <1>1, <1>3 DEF ServerLeft, ClientLeft, LongestFrame, Bounded, BufferIsBounded

\* The same after a step.
LEMMA LeftStaysNumber ==
  ASSUME Bounded'
  PROVE  ServerLeft' \in Nat /\ ClientLeft' \in Nat
<1>1. HeaderSize \in Nat /\ MaxFrame \in Nat
  BY SizeAssumption
<1>2. Len(up') \in Nat /\ Len(down') \in Nat
  BY LenProperties DEF Bounded, IInv, TypeOK
<1>3. upRead' \in Nat /\ downRead' \in Nat
  BY <1>2 DEF Bounded, IInv, TypeOK
<1> QED
  BY <1>1, <1>3 DEF ServerLeft, ClientLeft, LongestFrame, Bounded, BufferIsBounded

\* A step of the server's call takes it on or ends it.
LEMMA ServerStepsGoOn ==
  ASSUME Bounded, Bounded', ServerAtWork, ServerStep
  PROVE  ~ServerAtWork' \/ ServerLeft' \in 0..(ServerLeft - 1)
<1> USE DEF ServerRunning, ServerAtWork
<1>1. /\ upRead \in Nat /\ LongestFrame \in Nat
      /\ ServerLeft \in Nat /\ ServerLeft' \in Nat
  BY LeftIsNumber, LeftStaysNumber, SizeAssumption DEF LongestFrame
<1>2. CASE AcceptTimesOut \/ NothingTrusted \/ ServerSocketFails \/ ServerSeesEof
           \/ ServerTimesOut
  BY <1>2 DEF AcceptTimesOut, NothingTrusted, ServerSocketFails, ServerSeesEof,
              ServerTimesOut, Return
<1>3. CASE Accept
  BY <1>1, <1>3 DEF Accept, ServerLeft
<1>4. CASE SendChallenge
  <2>1. server = "accepted" /\ server' = "reading" /\ upRead' = 0
    BY <1>4 DEF SendChallenge, upstream, Bounded, IInv, NothingRead
  <2> QED
    BY <1>1, <2>1 DEF ServerLeft
<1>5. ASSUME NEW n \in 1..Chunk, ServerReceives(n)
      PROVE  ~ServerAtWork' \/ ServerLeft' \in 0..(ServerLeft - 1)
  <2>1. server = "reading" /\ upRead' = upRead + n
    BY <1>5 DEF ServerReceives
  <2>2. CASE server' = "reading"
    BY <1>1, <2>1, <2>2 DEF ServerLeft
  <2>3. CASE server' # "reading"
    <3>1. server' = ServerAfter(variant, Received(up, upRead, n))
      BY <1>5, <2>1, <2>3 DEF ServerReceives, Return
    <3>2. \A v, buf : ServerAfter(v, buf) \notin {"listening", "accepted"}
      BY ParserVerdicts
         DEF ServerAfter, Judgement, ServerVerdict, DecodeFrame, ReadFrame, Framed, Verdicts
    <3> QED
      BY <2>3, <3>1, <3>2
  <2> QED
    BY <2>2, <2>3
<1> QED
  BY <1>2, <1>3, <1>4, <1>5 DEF ServerStep

\* Nobody else touches it.
LEMMA ServerIsItsOwn ==
  ASSUME ServerAtWork, [Next]_vars, ~ServerStep
  PROVE  server' = server /\ upRead' = upRead
  BY DEF ServerAtWork, ServerRunning, Next, Start, Connect, ConnectFails, ClientStep,
     ClientReceives, ClientReadFails, SendResponse, SendFails, Confirm, Decline, Leave,
     PeerStep, PeerConnects, PeerWritesUp, PeerWritesDown, PeerCloses, vars, upstream

\* A step of the client's call takes it on, to its callback or to its end.
LEMMA ClientStepsGoOn ==
  ASSUME Bounded, Bounded', ClientAtWork, ClientStep
  PROVE  ~ClientAtWork' \/ ClientLeft' \in 0..(ClientLeft - 1)
<1> USE DEF ClientRunning, ClientAtWork
<1>1. /\ downRead \in Nat /\ LongestFrame \in Nat
      /\ ClientLeft \in Nat /\ ClientLeft' \in Nat
  BY LeftIsNumber, LeftStaysNumber, SizeAssumption DEF LongestFrame
<1>2. CASE ClientReadFails \/ SendResponse \/ SendFails
  BY <1>2 DEF ClientReadFails, SendResponse, SendFails, Leave
<1>3. ASSUME NEW n \in 1..Chunk, ClientReceives(n)
      PROVE  ~ClientAtWork' \/ ClientLeft' \in 0..(ClientLeft - 1)
  <2>1. client = "reading" /\ downRead' = downRead + n
    BY <1>3 DEF ClientReceives
  <2>2. CASE client' = "reading"
    BY <1>1, <2>1, <2>2 DEF ClientLeft
  <2>3. CASE client' # "reading"
    <3>1. client' = ClientAfter(Received(down, downRead, n))
      BY <1>3, <2>1, <2>3 DEF ClientReceives, Leave
    <3>2. \A buf : ClientAfter(buf) # "signing"
      BY DEF ClientAfter, DecodeFrame, Framed, Decoded
    <3> QED
      BY <2>3, <3>1, <3>2
  <2> QED
    BY <2>2, <2>3
<1> QED
  BY <1>2, <1>3 DEF ClientStep

LEMMA ClientIsItsOwn ==
  ASSUME ClientAtWork, [Next]_vars, ~ClientStep
  PROVE  client' = client /\ downRead' = downRead
  BY DEF ClientAtWork, ClientRunning, Next, Start, ServerStep, Accept, AcceptTimesOut,
     NothingTrusted, SendChallenge, ServerSocketFails, ServerReceives, ServerSeesEof,
     ServerTimesOut, Return, Connect, ConnectFails, Confirm, Decline, Leave,
     PeerStep, PeerConnects, PeerWritesUp, PeerWritesDown, PeerCloses, vars, downstream

\* A call with n steps to go comes to have fewer, or returns.
ServerAdvances(n) ==
    [](ServerLeft = n => <>(~ServerAtWork \/ ServerLeft \in 0..(n - 1)))
ClientAdvances(n) ==
    [](ClientLeft = n => <>(~ClientAtWork \/ ClientLeft \in 0..(n - 1)))

LEMMA ServerAlwaysAdvances ==
  ASSUME NEW n \in Nat
  PROVE  []Bounded /\ [][Next]_vars /\ []ServerFairness /\ []NeverStuck
           => ServerAdvances(n)
<1> DEFINE At == ServerAtWork /\ ServerLeft = n
           Later == ~ServerAtWork \/ ServerLeft \in 0..(n - 1)
<1>1. Bounded /\ Bounded' /\ At /\ [Next]_vars => At' \/ Later'
  <2> SUFFICES ASSUME Bounded, Bounded', At, [Next]_vars PROVE At' \/ Later'
    OBVIOUS
  <2>1. CASE ServerStep
    BY <2>1, ServerStepsGoOn
  <2>2. CASE ~ServerStep
    BY <2>2, ServerIsItsOwn DEF ServerLeft, ServerAtWork
  <2> QED
    BY <2>1, <2>2
<1>2. Bounded /\ Bounded' /\ At /\ <<ServerStep>>_vars => Later'
  BY ServerStepsGoOn
<1>3. NeverStuck /\ At => ENABLED <<ServerStep>>_vars
  BY DEF NeverStuck, ServerAtWork
<1>4. ServerLeft = n => At \/ Later
  OBVIOUS
<1> QED
  BY <1>1, <1>2, <1>3, <1>4, PTL DEF ServerFairness, ServerAdvances

LEMMA ClientAlwaysAdvances ==
  ASSUME NEW n \in Nat
  PROVE  []Bounded /\ [][Next]_vars /\ []ClientFairness /\ []NeverStuck
           => ClientAdvances(n)
<1> DEFINE At == ClientAtWork /\ ClientLeft = n
           Later == ~ClientAtWork \/ ClientLeft \in 0..(n - 1)
<1>1. Bounded /\ Bounded' /\ At /\ [Next]_vars => At' \/ Later'
  <2> SUFFICES ASSUME Bounded, Bounded', At, [Next]_vars PROVE At' \/ Later'
    OBVIOUS
  <2>1. CASE ClientStep
    BY <2>1, ClientStepsGoOn
  <2>2. CASE ~ClientStep
    BY <2>2, ClientIsItsOwn DEF ClientLeft, ClientAtWork
  <2> QED
    BY <2>1, <2>2
<1>2. Bounded /\ Bounded' /\ At /\ <<ClientStep>>_vars => Later'
  BY ClientStepsGoOn
<1>3. NeverStuck /\ At => ENABLED <<ClientStep>>_vars
  BY DEF NeverStuck, ClientAtWork
<1>4. ClientLeft = n => At \/ Later
  OBVIOUS
<1> QED
  BY <1>1, <1>2, <1>3, <1>4, PTL DEF ClientFairness, ClientAdvances

\* Lamport's rule LATTICE for the steps that are left: what always comes to be
\* smaller, or the end, comes to the end.  It holds of every behaviour, because
\* the natural numbers are well-founded, but takes an induction over a temporal
\* formula, which the prover does not have.
LatticeRule ==
    /\ (\A n \in Nat : ServerAdvances(n)) => [](ServerLeft \in Nat => <>~ServerAtWork)
    /\ (\A n \in Nat : ClientAdvances(n)) => [](ClientLeft \in Nat => <>~ClientAtWork)

\* Both calls return (handshake.py:100-196, 239-317), whatever the other side
\* writes and in whatever pieces: each receipt leaves less room in a buffer that
\* is bounded.  Only the client's callback is waited for.
THEOREM CallsAlwaysReturn ==
  FairSpec /\ []NeverStuck /\ LatticeRule => CallsReturn
<1> DEFINE Running == []Bounded /\ [][Next]_vars /\ []NeverStuck
                      /\ []ServerFairness /\ []ClientFairness
<1>1. Running => (\A n \in Nat : ServerAdvances(n)) /\ (\A n \in Nat : ClientAdvances(n))
  BY ServerAlwaysAdvances, ClientAlwaysAdvances
<1>2. Running /\ LatticeRule => /\ [](ServerLeft \in Nat => <>~ServerAtWork)
                               /\ [](ClientLeft \in Nat => <>~ClientAtWork)
  BY <1>1 DEF LatticeRule
<1>3. Bounded => ServerLeft \in Nat /\ ClientLeft \in Nat
  BY LeftIsNumber
<1>4. (ServerFairness => []ServerFairness) /\ (ClientFairness => []ClientFairness)
  BY PTL DEF ServerFairness, ClientFairness
<1>5. /\ ~ServerAtWork => server \notin ServerRunning
      /\ ~ClientAtWork => client \notin ClientRunning \/ client = "prompt"
  BY DEF ServerAtWork, ClientAtWork
<1> QED
  BY <1>2, <1>3, <1>4, <1>5, AlwaysBounded, PTL DEF FairSpec, Spec, CallsReturn
=============================================================================
