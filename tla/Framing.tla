------------------------------ MODULE Framing ------------------------------
(***************************************************************************)
(* The wire format, src/phonect/protocol.py: a frame is a big-endian       *)
(* length of HeaderSize bytes and a JSON payload of 1..MaxFrame bytes.     *)
(* The same format is read by three pieces of code: decode_frame on a      *)
(* growing buffer, the daemon's _read_frame and the phone's readFrame on   *)
(* streams.  Each is the function from the bytes it has received to what   *)
(* it makes of them.                                                       *)
(*                                                                         *)
(* The readers cut the same frames out of a stream, but parse the payload  *)
(* with different libraries and options, which take different codings of   *)
(* the same text.  What a payload says, how it is coded, and what the      *)
(* libraries make of it are constants.  A definition that starts with      *)
(* "Fault:" is a faulty variant of the next one (README.md).               *)
(***************************************************************************)
EXTENDS Integers, Sequences

CONSTANTS
    Base,           \* values of a byte: 256 in the code
    HeaderSize,     \* FRAME_HEADER_SIZE: 4 in the code
    MaxFrame,       \* MAX_FRAME_SIZE: 65536 in the code
    Meaning,        \* what the payloads that are JSON say, in whatever coding
    Coding,         \* how those of them are coded that are not plain UTF-8
    Misfits,        \* objects with a field that does not fit the phone's class
    Lenient         \* what Gson makes of payloads that are not JSON

Byte == 0..(Base - 1)

\* Every number an unsigned header can hold.
Declarable == 0..(Base^HeaderSize - 1)

\* struct.pack("!I", n)
Header(n) == [i \in 1..HeaderSize |-> (n \div Base^(HeaderSize - i)) % Base]

ASSUME SizeAssumption ==
    /\ Base \in Nat \ {0, 1}
    /\ HeaderSize \in Nat \ {0}
    /\ MaxFrame \in Nat \ {0}
    /\ Base^HeaderSize \in Nat
    /\ 2 * MaxFrame < Base^HeaderSize
ASSUME HeaderAssumption ==
    /\ \A n \in Declarable : Header(n) \in [1..HeaderSize -> Byte]
    /\ \A h \in [1..HeaderSize -> Byte] : \E n \in Declarable : Header(n) = h
    /\ \A m, n \in Declarable : Header(m) = Header(n) => m = n

\* UTF-8 after a byte order mark, UTF-8 with encoded surrogates, UTF-16 or 32.
Codings == {"bom", "surrogates", "wide"}

ASSUME CodingAssumption ==
    /\ \A p \in DOMAIN Coding : Coding[p] \in Codings
    /\ \A p \in DOMAIN Lenient : Lenient[p] \in {"message", "null"}

Kinds == {"challenge", "response", "object", "value", "null", "damaged", "text"}
NotJson == [kind |-> "text"]

ASSUME KindAssumption == \A p \in DOMAIN Meaning : Meaning[p].kind \in Kinds

\* What json.loads(bytes) finds in payload p, whose coding it detects.  A "value"
\* is JSON but not an object; of a "damaged" payload it raises something else
\* than JSONDecodeError, because bytes do not belong to any text, or because a
\* number is too long or the nesting too deep.
Content(p) == IF p \in DOMAIN Meaning THEN Meaning[p] ELSE NotJson

CodingOf(p) == IF p \in DOMAIN Coding THEN Coding[p] ELSE "utf8"

IsJson(p) == Content(p).kind \notin {"damaged", "text"}
IsObject(p) == Content(p).kind \in {"challenge", "response", "object"}

\* struct.unpack("!I", buf[:4])
DeclaredLength(buf) ==
    CHOOSE n \in Declarable : Header(n) = SubSeq(buf, 1, HeaderSize)

PayloadOf(buf) ==
    SubSeq(buf, HeaderSize + 1, HeaderSize + DeclaredLength(buf))

HasHeader(buf) == Len(buf) >= HeaderSize

HasFrame(buf) == HasHeader(buf) /\ Len(buf) >= HeaderSize + DeclaredLength(buf)

\* The order in which every reader looks at its bytes.
Framed(buf, legal, parsed) ==
    IF ~HasHeader(buf) THEN "incomplete"
    ELSE IF ~legal THEN "security"
    ELSE IF ~HasFrame(buf) THEN "incomplete"
    ELSE parsed

\* encode_frame; it raises if the payload is too long.
EncodeFrame(p) == Header(Len(p)) \o p

\* Fault: a payload one byte longer than the maximum.
LengthOffByOne(n) == 0 < n /\ n <= MaxFrame + 1

\* The guard of decode_frame.
LegalLength(n) == ~(n <= 0 \/ n > MaxFrame)

\* json.loads gets bytes and takes any coding.  A UnicodeDecodeError is not a
\* JSONDecodeError and so becomes no ProtocolSecurityError.
Decoded(p) ==
    CASE IsObject(p) -> "message"
      [] Content(p).kind = "damaged" -> "exception"
      [] OTHER -> "security"

\* decode_frame, asked again with every chunk.
DecodeFrame(buf) ==
    Framed(buf, LegalLength(DeclaredLength(buf)), Decoded(PayloadOf(buf)))

\* Fault: the empty payload is read.
ZeroIsReadable(n) == n >= 0 /\ n <= MaxFrame

\* The guard of _read_frame.
ReadableLength(n) == ~(n <= 0 \/ n > MaxFrame)

\* decode("utf-8") or json.loads(str) raises on any other coding.  Whatever JSON
\* the payload holds is returned; the errors propagate.
ReadJson(p) ==
    IF CodingOf(p) # "utf8" \/ ~IsJson(p) THEN "exception"
    ELSE IF IsObject(p) THEN "message"
    ELSE Content(p).kind

\* _read_frame: readexactly(4), then readexactly(n).
ReadFrame(buf) ==
    Framed(buf, ReadableLength(DeclaredLength(buf)), ReadJson(PayloadOf(buf)))

\* ByteBuffer.getInt is signed.
Signed(n) == IF 2 * n >= Base^HeaderSize THEN n - Base^HeaderSize ELSE n

\* The guard of the phone's readFrame.
PhoneLength(n) == ~(Signed(n) <= 0 \/ Signed(n) > MaxFrame)

\* String(payload, UTF_8) replaces what is not UTF-8, so that surrogates parse
\* and UTF-16 does not; Gson skips a byte order mark, is lenient with what is
\* not quite JSON, and raises on a field of another type than its class has.
PhoneParsed(p) ==
    CASE ~IsJson(p) -> IF p \in DOMAIN Lenient THEN Lenient[p] ELSE "exception"
      [] IsObject(p) /\ CodingOf(p) # "wide" /\ p \notin Misfits -> "message"
      [] Content(p).kind = "null" /\ CodingOf(p) # "wide" -> "null"
      [] OTHER -> "exception"

\* readFrame of the phone.
PhoneReadFrame(buf) ==
    Framed(buf, PhoneLength(DeclaredLength(buf)), PhoneParsed(PayloadOf(buf)))

Verdicts == {"incomplete", "security", "exception", "message", "value", "null"}

\* What both programs write: messages in plain UTF-8 (json.dumps is ASCII,
\* toByteArray(UTF_8) writes no byte order mark and no surrogates) whose fields
\* have the types of the other side's class.
Written(p) == IsObject(p) /\ CodingOf(p) = "utf8" /\ p \notin Misfits

\* The three readers delimit the same frames: they wait for the same bytes and
\* refuse the same lengths, the phone's being signed.  They do not accept the
\* same payloads.
SameFraming(buf) ==
    LET illegal == HasHeader(buf) /\ ~LegalLength(DeclaredLength(buf))
        readers == {DecodeFrame(buf), ReadFrame(buf), PhoneReadFrame(buf)}
    IN /\ "incomplete" \in readers => readers = {"incomplete"}
       /\ illegal => readers = {"security"}
=============================================================================
