--------------------------- MODULE FramingProofs ---------------------------
(***************************************************************************)
(* Proofs about the wire format, for every width of the header, every      *)
(* maximum and every meaning of the payloads: a reader may be asked again  *)
(* with every chunk, because its first answer is final.                    *)
(***************************************************************************)
EXTENDS Framing, SequenceTheorems, TLAPS

\* t continues s.
Starts(s, t) == Len(s) <= Len(t) /\ \A i \in 1..Len(s) : s[i] = t[i]

\* The two have the same subsequences within s.
LEMMA SameSubSeq ==
  ASSUME NEW s \in Seq(Byte), NEW t \in Seq(Byte), Starts(s, t),
         NEW m \in Nat \ {0}, NEW n \in Int, n <= Len(s)
  PROVE  SubSeq(s, m, n) = SubSeq(t, m, n)
<1>1. /\ \A i \in m..n : s[i] \in Byte
      /\ \A i \in m..n : t[i] \in Byte
      /\ \A i \in m..n : s[i] = t[i]
  BY DEF Starts
<1>2. /\ SubSeq(s, m, n) \in Seq(Byte)
      /\ Len(SubSeq(s, m, n)) = IF m <= n THEN n - m + 1 ELSE 0
      /\ \A i \in 1..(n - m + 1) : SubSeq(s, m, n)[i] = s[m + i - 1]
  BY <1>1, SubSeqProperties
<1>3. /\ SubSeq(t, m, n) \in Seq(Byte)
      /\ Len(SubSeq(t, m, n)) = IF m <= n THEN n - m + 1 ELSE 0
      /\ \A i \in 1..(n - m + 1) : SubSeq(t, m, n)[i] = t[m + i - 1]
  BY <1>1, SubSeqProperties
<1>4. \A i \in 1..Len(SubSeq(s, m, n)) : SubSeq(s, m, n)[i] = SubSeq(t, m, n)[i]
  BY <1>1, <1>2, <1>3
<1> QED
  BY <1>2, <1>3, <1>4, SeqEqual

\* What the header of a buffer declares is a number, and its payload bytes.
LEMMA HeaderDeclares ==
  ASSUME NEW buf \in Seq(Byte), HasHeader(buf)
  PROVE  /\ DeclaredLength(buf) \in Declarable
         /\ DeclaredLength(buf) \in Nat
         /\ Header(DeclaredLength(buf)) = SubSeq(buf, 1, HeaderSize)
<1>1. HeaderSize \in Nat \ {0} /\ Base^HeaderSize \in Nat
  BY SizeAssumption
<1>2. SubSeq(buf, 1, HeaderSize) \in [1..HeaderSize -> Byte]
  <2>1. \A i \in 1..HeaderSize : buf[i] \in Byte
    BY <1>1 DEF HasHeader
  <2>2. /\ SubSeq(buf, 1, HeaderSize) \in Seq(Byte)
        /\ Len(SubSeq(buf, 1, HeaderSize)) = HeaderSize
    BY <1>1, <2>1, SubSeqProperties
  <2> QED
    BY <1>1, <2>2, LenProperties
<1>3. \E n \in Declarable : Header(n) = SubSeq(buf, 1, HeaderSize)
  BY <1>2, HeaderAssumption
<1>4. Declarable \subseteq Nat
  BY <1>1 DEF Declarable
<1> QED
  BY <1>3, <1>4 DEF DeclaredLength

\* A buffer that goes on declares the same length and holds the same payload.
LEMMA SameFrame ==
  ASSUME NEW s \in Seq(Byte), NEW t \in Seq(Byte), Starts(s, t), HasHeader(s)
  PROVE  /\ HasHeader(t)
         /\ DeclaredLength(t) = DeclaredLength(s)
         /\ HasFrame(s) => HasFrame(t) /\ PayloadOf(t) = PayloadOf(s)
<1>1. HeaderSize \in Nat \ {0} /\ HasHeader(t)
  BY SizeAssumption DEF HasHeader, Starts
<1>2. SubSeq(s, 1, HeaderSize) = SubSeq(t, 1, HeaderSize)
  BY <1>1, SameSubSeq DEF HasHeader
<1>3. DeclaredLength(t) = DeclaredLength(s)
  BY <1>2 DEF DeclaredLength
<1>4. DeclaredLength(s) \in Nat
  BY HeaderDeclares
<1>5. ASSUME HasFrame(s)
      PROVE  HasFrame(t) /\ PayloadOf(t) = PayloadOf(s)
  <2>1. HeaderSize + DeclaredLength(s) <= Len(s)
    BY <1>1, <1>4, <1>5 DEF HasFrame
  <2>2. SubSeq(s, HeaderSize + 1, HeaderSize + DeclaredLength(s))
          = SubSeq(t, HeaderSize + 1, HeaderSize + DeclaredLength(s))
    <3> DEFINE m == HeaderSize + 1
               n == HeaderSize + DeclaredLength(s)
    <3>1. m \in Nat \ {0} /\ n \in Int /\ n <= Len(s)
      BY <1>1, <1>4, <2>1
    <3> HIDE DEF m, n
    <3>2. SubSeq(s, m, n) = SubSeq(t, m, n)
      BY <3>1, SameSubSeq
    <3> QED
      BY <3>2 DEF m, n
  <2> QED
    BY <1>1, <1>3, <1>4, <2>1, <2>2 DEF HasFrame, PayloadOf, Starts
<1> QED
  BY <1>1, <1>3, <1>5

\* No reader changes its mind: once decode_frame, _read_frame or readFrame has
\* an answer other than to wait, the bytes that follow do not change it, nor
\* the payload it was about.  So how a stream is cut into chunks is of no
\* matter (protocol.py:91-116, daemon.py:577-588, ProtocolHandler.kt:42-63).
THEOREM VerdictIsFinal ==
  ASSUME NEW s \in Seq(Byte), NEW t \in Seq(Byte), Starts(s, t)
  PROVE  /\ DecodeFrame(s) # "incomplete" => DecodeFrame(t) = DecodeFrame(s)
         /\ ReadFrame(s) # "incomplete" => ReadFrame(t) = ReadFrame(s)
         /\ PhoneReadFrame(s) # "incomplete" => PhoneReadFrame(t) = PhoneReadFrame(s)
<1>1. CASE ~HasHeader(s)
  BY <1>1 DEF DecodeFrame, ReadFrame, PhoneReadFrame, Framed
<1>2. CASE HasHeader(s) /\ ~HasFrame(s)
  <2>1. HasHeader(t) /\ DeclaredLength(t) = DeclaredLength(s)
    BY <1>2, SameFrame
  <2> QED
    BY <1>2, <2>1 DEF DecodeFrame, ReadFrame, PhoneReadFrame, Framed
<1>3. CASE HasHeader(s) /\ HasFrame(s)
  <2>1. /\ HasHeader(t) /\ HasFrame(t)
        /\ DeclaredLength(t) = DeclaredLength(s)
        /\ PayloadOf(t) = PayloadOf(s)
    BY <1>3, SameFrame
  <2> QED
    BY <1>3, <2>1 DEF DecodeFrame, ReadFrame, PhoneReadFrame, Framed
<1> QED
  BY <1>1, <1>2, <1>3

\* The phone's test of the signed length refuses what the PC's test of the
\* unsigned length refuses.
LEMMA SameLengths ==
  ASSUME NEW n \in Declarable
  PROVE  (PhoneLength(n) <=> LegalLength(n)) /\ (ReadableLength(n) <=> LegalLength(n))
<1>1. /\ Base^HeaderSize \in Nat /\ MaxFrame \in Nat \ {0}
      /\ 2 * MaxFrame < Base^HeaderSize
  BY SizeAssumption
<1> DEFINE B == Base^HeaderSize
<1>2. B \in Nat /\ 2 * MaxFrame < B /\ n \in 0..(B - 1)
  BY <1>1 DEF Declarable
<1>3. Signed(n) = IF 2 * n >= B THEN n - B ELSE n
  BY DEF Signed
<1> HIDE DEF B
<1> QED
  BY <1>1, <1>2, <1>3 DEF PhoneLength, LegalLength, ReadableLength

\* A parser's answer is final; it never waits for more.
LEMMA ParserVerdicts ==
  ASSUME NEW p
  PROVE  /\ Decoded(p) \in Verdicts \ {"incomplete"}
         /\ ReadJson(p) \in Verdicts \ {"incomplete"}
         /\ PhoneParsed(p) \in Verdicts \ {"incomplete"}
<1>1. Content(p).kind \in Kinds
  BY KindAssumption DEF Content, NotJson, Kinds
<1> QED
  BY <1>1, CodingAssumption
     DEF Decoded, ReadJson, PhoneParsed, IsObject, IsJson, Kinds, Verdicts

\* Every sequence of bytes is delimited alike by the three readers: they wait
\* for the same bytes and refuse the same lengths, although the phone compares a
\* signed number (protocol.py:91-103, daemon.py:577-587,
\* ProtocolHandler.kt:45-59).
THEOREM ReadersDelimitAlike ==
  ASSUME NEW buf \in Seq(Byte)
  PROVE  SameFraming(buf)
<1>1. CASE ~HasHeader(buf)
  BY <1>1 DEF SameFraming, DecodeFrame, ReadFrame, PhoneReadFrame, Framed
<1>2. CASE HasHeader(buf)
  <2> DEFINE n == DeclaredLength(buf)
             p == PayloadOf(buf)
  <2>1. (PhoneLength(n) <=> LegalLength(n)) /\ (ReadableLength(n) <=> LegalLength(n))
    BY <1>2, HeaderDeclares, SameLengths
  <2>2. /\ Decoded(p) \in Verdicts \ {"incomplete"}
        /\ ReadJson(p) \in Verdicts \ {"incomplete"}
        /\ PhoneParsed(p) \in Verdicts \ {"incomplete"}
    BY ParserVerdicts
  <2> HIDE DEF n, p
  <2>4. /\ DecodeFrame(buf) = Framed(buf, LegalLength(n), Decoded(p))
        /\ ReadFrame(buf) = Framed(buf, ReadableLength(n), ReadJson(p))
        /\ PhoneReadFrame(buf) = Framed(buf, PhoneLength(n), PhoneParsed(p))
    BY DEF DecodeFrame, ReadFrame, PhoneReadFrame, n, p
  <2>5. CASE ~LegalLength(n)
    BY <1>2, <2>1, <2>4, <2>5 DEF SameFraming, Framed, n
  <2>6. CASE LegalLength(n) /\ ~HasFrame(buf)
    BY <1>2, <2>1, <2>4, <2>6 DEF SameFraming, Framed, n
  <2>7. CASE LegalLength(n) /\ HasFrame(buf)
    BY <1>2, <2>1, <2>2, <2>4, <2>7 DEF SameFraming, Framed, n
  <2> QED
    BY <2>5, <2>6, <2>7
<1> QED
  BY <1>1, <1>2

\* A reader that waits holds less than a whole frame of the largest size.
THEOREM WaitingIsBounded ==
  ASSUME NEW buf \in Seq(Byte),
         DecodeFrame(buf) = "incomplete" \/ ReadFrame(buf) = "incomplete"
  PROVE  Len(buf) < HeaderSize + MaxFrame
<1>1. DecodeFrame(buf) = "incomplete"
  BY ReadersDelimitAlike DEF SameFraming
<1>2. HeaderSize \in Nat \ {0} /\ MaxFrame \in Nat \ {0}
  BY SizeAssumption
<1>3. CASE ~HasHeader(buf)
  BY <1>2, <1>3 DEF HasHeader
<1>4. CASE HasHeader(buf)
  <2>1. DeclaredLength(buf) \in Nat
    BY <1>4, HeaderDeclares
  <2>2. Decoded(PayloadOf(buf)) # "incomplete"
    BY DEF Decoded
  <2>3. LegalLength(DeclaredLength(buf)) /\ ~HasFrame(buf)
    BY <1>1, <1>4, <2>2 DEF DecodeFrame, Framed
  <2> QED
    BY <1>2, <1>4, <2>1, <2>3 DEF LegalLength, HasFrame
<1> QED
  BY <1>3, <1>4

\* What encode_frame has written is read back, whatever follows it
\* (protocol.py:66-76 against 91-116).
THEOREM EncodedIsDecoded ==
  ASSUME NEW p \in Seq(Byte), LegalLength(Len(p)),
         NEW buf \in Seq(Byte), Starts(EncodeFrame(p), buf)
  PROVE  /\ PayloadOf(buf) = p
         /\ DecodeFrame(buf) = Decoded(p)
<1> DEFINE e == EncodeFrame(p)
<1>1. /\ HeaderSize \in Nat \ {0} /\ MaxFrame \in Nat \ {0}
      /\ Base^HeaderSize \in Nat /\ 2 * MaxFrame < Base^HeaderSize
  BY SizeAssumption
<1>2. Len(p) \in Declarable
  BY <1>1 DEF LegalLength, Declarable
<1>3. Header(Len(p)) \in [1..HeaderSize -> Byte]
  BY <1>2, HeaderAssumption
<1>4. Header(Len(p)) \in Seq(Byte) /\ Len(Header(Len(p))) = HeaderSize
  BY <1>1, <1>3
<1>5. /\ e \in Seq(Byte)
      /\ Len(e) = HeaderSize + Len(p)
      /\ \A i \in 1..HeaderSize : e[i] = Header(Len(p))[i]
      /\ \A i \in 1..Len(p) : e[HeaderSize + i] = p[i]
  <2>1. /\ e \in Seq(Byte)
        /\ Len(e) = HeaderSize + Len(p)
        /\ \A i \in 1..(HeaderSize + Len(p)) :
             e[i] = IF i <= HeaderSize THEN Header(Len(p))[i] ELSE p[i - HeaderSize]
    BY <1>4, ConcatProperties DEF EncodeFrame
  <2> HIDE DEF e
  <2> QED
    BY <1>1, <2>1
<1> HIDE DEF e
<1>6. SubSeq(e, 1, HeaderSize) = Header(Len(p))
  <2>1. \A i \in 1..HeaderSize : e[i] \in Byte
    BY <1>1, <1>5
  <2>2. /\ SubSeq(e, 1, HeaderSize) \in Seq(Byte)
        /\ Len(SubSeq(e, 1, HeaderSize)) = HeaderSize
        /\ \A i \in 1..HeaderSize : SubSeq(e, 1, HeaderSize)[i] = e[i]
    BY <1>1, <2>1, SubSeqProperties
  <2> QED
    BY <1>4, <1>5, <2>2, SeqEqual
<1>7. HasHeader(e) /\ DeclaredLength(e) = Len(p)
  <2>1. HasHeader(e)
    BY <1>1, <1>5 DEF HasHeader
  <2>2. /\ DeclaredLength(e) \in Declarable
        /\ Header(DeclaredLength(e)) = Header(Len(p))
    BY <1>5, <1>6, <2>1, HeaderDeclares
  <2> QED
    BY <1>2, <2>1, <2>2, HeaderAssumption
<1>8. HasFrame(e) /\ PayloadOf(e) = p
  <2>1. HasFrame(e)
    BY <1>5, <1>7 DEF HasFrame
  <2>2. \A i \in (HeaderSize + 1)..(HeaderSize + Len(p)) : e[i] \in Byte
    BY <1>1, <1>5
  <2>3. PayloadOf(e) = SubSeq(e, HeaderSize + 1, HeaderSize + Len(p))
    BY <1>7 DEF PayloadOf
  <2>4. /\ PayloadOf(e) \in Seq(Byte)
        /\ Len(PayloadOf(e)) = Len(p)
        /\ \A i \in 1..Len(p) : PayloadOf(e)[i] = e[HeaderSize + i]
    <3>1. /\ PayloadOf(e) \in Seq(Byte)
          /\ Len(PayloadOf(e)) =
               IF HeaderSize + 1 <= HeaderSize + Len(p)
               THEN (HeaderSize + Len(p)) - (HeaderSize + 1) + 1 ELSE 0
          /\ \A i \in 1..((HeaderSize + Len(p)) - (HeaderSize + 1) + 1) :
               PayloadOf(e)[i] = e[(HeaderSize + 1) + i - 1]
      <4> DEFINE m == HeaderSize + 1
                 n == HeaderSize + Len(p)
      <4>1. m \in Nat \ {0} /\ n \in Int /\ e \in Seq(Byte)
        BY <1>1, <1>5
      <4>2. PayloadOf(e) = SubSeq(e, m, n) /\ \A i \in m..n : e[i] \in Byte
        BY <2>2, <2>3
      <4> HIDE DEF m, n
      <4>3. /\ PayloadOf(e) \in Seq(Byte)
            /\ Len(PayloadOf(e)) = IF m <= n THEN n - m + 1 ELSE 0
            /\ \A i \in 1..(n - m + 1) : PayloadOf(e)[i] = e[m + i - 1]
        BY <4>1, <4>2, SubSeqProperties
      <4> QED
        BY <4>3 DEF m, n
    <3> QED
      BY <1>1, <3>1
  <2> QED
    BY <1>5, <2>1, <2>4, SeqEqual
<1>9. Starts(e, buf)
  BY DEF e
<1>10. /\ HasHeader(buf) /\ HasFrame(buf)
       /\ DeclaredLength(buf) = Len(p)
       /\ PayloadOf(buf) = p
  BY <1>5, <1>7, <1>8, <1>9, SameFrame
<1> QED
  BY <1>10 DEF DecodeFrame, Framed

\* Whatever the readers make of other payloads, a message that either program
\* writes is accepted by all three, whatever follows it: for these the codings
\* that only json.loads(bytes) takes and the classes of Gson make no difference
\* (protocol.py:68, 109; daemon.py:588; ProtocolHandler.kt:28, 62).
THEOREM WrittenIsReadByAll ==
  ASSUME NEW p \in Seq(Byte), LegalLength(Len(p)), Written(p),
         NEW buf \in Seq(Byte), Starts(EncodeFrame(p), buf)
  PROVE  /\ PayloadOf(buf) = p
         /\ DecodeFrame(buf) = "message"
         /\ ReadFrame(buf) = "message"
         /\ PhoneReadFrame(buf) = "message"
<1>1. /\ Decoded(p) = "message"
      /\ ReadJson(p) = "message"
      /\ PhoneParsed(p) = "message"
  BY DEF Written, Decoded, ReadJson, PhoneParsed, IsJson, IsObject
<1>2. PayloadOf(buf) = p /\ DecodeFrame(buf) = "message"
  BY <1>1, EncodedIsDecoded
<1>3. HasHeader(buf) /\ HasFrame(buf) /\ LegalLength(DeclaredLength(buf))
  BY <1>2 DEF DecodeFrame, Framed
<1>4. /\ PhoneLength(DeclaredLength(buf))
      /\ ReadableLength(DeclaredLength(buf))
  BY <1>3, HeaderDeclares, SameLengths
<1> QED
  BY <1>1, <1>2, <1>3, <1>4 DEF ReadFrame, PhoneReadFrame, Framed

\* What encode_frame writes is a sequence of bytes, and continues itself.
LEMMA EncodedBytes ==
  ASSUME NEW p \in Seq(Byte), LegalLength(Len(p))
  PROVE  /\ EncodeFrame(p) \in Seq(Byte)
         /\ Starts(EncodeFrame(p), EncodeFrame(p))
<1>1. /\ HeaderSize \in Nat \ {0} /\ MaxFrame \in Nat \ {0}
      /\ Base^HeaderSize \in Nat /\ 2 * MaxFrame < Base^HeaderSize
  BY SizeAssumption
<1>2. Len(p) \in Declarable
  BY <1>1 DEF LegalLength, Declarable
<1>3. Header(Len(p)) \in Seq(Byte)
  <2>1. Header(Len(p)) \in [1..HeaderSize -> Byte]
    BY <1>2, HeaderAssumption
  <2> QED
    BY <1>1, <2>1
<1>4. EncodeFrame(p) \in Seq(Byte)
  BY <1>3, ConcatProperties DEF EncodeFrame
<1> QED
  BY <1>4 DEF Starts

\* No frame that encode_frame writes is another one or the beginning of
\* another one: a stream of frames can be read in one way only, and a reader
\* never takes the beginning of a long frame for a short one
\* (protocol.py:66-76).
THEOREM FramesAreDistinct ==
  ASSUME NEW p \in Seq(Byte), LegalLength(Len(p)),
         NEW q \in Seq(Byte), LegalLength(Len(q)),
         Starts(EncodeFrame(p), EncodeFrame(q))
  PROVE  p = q
<1>1. EncodeFrame(q) \in Seq(Byte) /\ Starts(EncodeFrame(q), EncodeFrame(q))
  BY EncodedBytes
<1>2. PayloadOf(EncodeFrame(q)) = p
  BY <1>1, EncodedIsDecoded
<1>3. PayloadOf(EncodeFrame(q)) = q
  BY <1>1, EncodedIsDecoded
<1> QED
  BY <1>2, <1>3
=============================================================================
