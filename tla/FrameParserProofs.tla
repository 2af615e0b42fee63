-------------------------- MODULE FrameParserProofs -------------------------
(***************************************************************************)
(* Proofs about the stream of frames: for every layout, every set of       *)
(* frames, every number of them and every way of cutting the stream into   *)
(* pieces, the parser keeps its buffers within their limits, the session   *)
(* gets exactly what was sent, and a padded text is read as it was.        *)
(***************************************************************************)
EXTENDS TextPadding, SequenceTheorems, WellFoundedInduction, TLAPS

\* A set of naturals that is not empty has a least member.
LEMMA NatLeast ==
    ASSUME NEW T \in SUBSET Nat, T # {}
    PROVE  \E m \in T : \A k \in T : m <= k
<1> DEFINE R == OpToRel(<, Nat)
<1>1. IsWellFoundedOn(R, Nat)
  BY NatLessThanWellFounded, Zenon
<1>2. \A a, b \in Nat : a < b => <<a, b>> \in R
  BY Zenon DEF OpToRel
<1> HIDE DEF R
<1>3. PICK m \in T : \A k \in T : ~ (<<k, m>> \in R)
  BY <1>1, WFMin, Zenon
<1>4. \A k \in T : ~(k < m) /\ k \in Nat /\ m \in Nat
  BY <1>2, <1>3, Zenon
<1>5. \A k \in T : m <= k
  BY <1>4
<1> QED
  BY <1>5, Zenon

\* Induction, as a property of sets of numbers.
LEMMA NatInduct ==
    ASSUME NEW B, 0 \in B, \A n \in Nat : n \in B => n + 1 \in B
    PROVE  \A n \in Nat : n \in B
<1> DEFINE T == Nat \ B
<1> SUFFICES ASSUME T # {} PROVE FALSE
  BY Zenon
<1>1. PICK m \in T : \A k \in T : m <= k
  BY NatLeast, Zenon
<1>2. m \in Nat /\ m # 0
  BY Zenon
<1>3. m - 1 \in Nat /\ ~(m <= m - 1) /\ (m - 1) + 1 = m
  BY <1>2
<1>4. m - 1 \in B
  BY <1>1, <1>3, Zenon
<1> QED
  BY <1>3, <1>4, Zenon

AnyState == {"READING_HEADER", "READING_PAYLOAD", "FRAME_READY", "ERROR_MALFORMED"}
ParserRecord ==
    [state : AnyState, header : Seq(Byte), payload : Seq(Byte), expected : Nat]

\* What holds of the parser at every point of the read loop.
Sound(p) ==
    /\ p \in ParserRecord
    /\ Len(p.header) <= HeaderSize
    /\ Len(p.payload) <= MaxPayload
    /\ p.state = "READING_HEADER" => Len(p.header) < HeaderSize /\ p.payload = <<>>
    /\ p.state = "READING_PAYLOAD" =>
           /\ Len(p.header) = HeaderSize
           /\ Len(p.payload) < p.expected /\ p.expected <= MaxPayload
    /\ p.state = "FRAME_READY" => Len(p.header) = HeaderSize

AnyFrame == [action : Byte, mailbox : Seq(Byte), payload : Seq(Byte)]

ParserInv ==
    /\ sent \in Seq(Sendable)
    /\ wire \in Seq(Byte) /\ span \in Seq(Byte)
    /\ Sound(parser) /\ parser.state # "FRAME_READY"
    /\ got \in Seq(AnyFrame)
    /\ open \in BOOLEAN

\* Sizes and bytes are natural numbers.
LEMMA Sizes ==
    /\ ByteBase \in Nat /\ ByteBase > 5 /\ Byte \subseteq Nat
    /\ 0 \in Byte /\ {PUSH, POLL, ACK, AUTH_CHALLENGE, AUTH_RESPONSE} \subseteq Byte
    /\ MailboxSize \in Nat /\ MaxPayload \in Nat /\ ControlSize \in Nat
    /\ HeaderSize \in Nat /\ HeaderSize = MailboxSize + 5
  BY ParserAssumption
     DEF Byte, HeaderSize, PUSH, POLL, ACK, AUTH_CHALLENGE, AUTH_RESPONSE

\* Taking bytes from the front of a piece splits it.
LEMMA Split ==
    ASSUME NEW s \in Seq(Byte), NEW n \in Nat, n <= Len(s)
    PROVE  /\ First(s, n) \in Seq(Byte) /\ Len(First(s, n)) = n
           /\ Rest(s, n) \in Seq(Byte) /\ Len(Rest(s, n)) = Len(s) - n
  BY DEF First, Rest

LEMMA LeastIsBound ==
    ASSUME NEW a \in Nat, NEW b \in Nat
    PROVE  Least(a, b) \in Nat /\ Least(a, b) <= a /\ Least(a, b) <= b
  BY DEF Least

\* Appending a piece.
LEMMA Join ==
    ASSUME NEW s \in Seq(Byte), NEW t \in Seq(Byte)
    PROVE  s \o t \in Seq(Byte) /\ Len(s \o t) = Len(s) + Len(t)
  OBVIOUS

\* The length field of a complete header is a number.
LEMMA LengthIsNat ==
    ASSUME NEW h \in Seq(Byte), Len(h) = HeaderSize
    PROVE  LengthField(h) \in Nat
<1> DEFINE o == 1 + MailboxSize
<1>1. \A i \in 1 .. HeaderSize : h[i] \in Nat
  <2>1. \A i \in 1 .. Len(h) : h[i] \in Byte
    OBVIOUS
  <2> QED
    BY <2>1, Sizes, Zenon
<1>2. h[o + 1] \in Nat /\ h[o + 2] \in Nat /\ h[o + 3] \in Nat /\ h[o + 4] \in Nat
  BY <1>1, Sizes
<1>3. \A x, y \in Nat : x * y \in Nat /\ x + y \in Nat
  OBVIOUS
<1>4. /\ h[o + 2] * ByteBase \in Nat
      /\ h[o + 3] * ByteBase * ByteBase \in Nat
      /\ h[o + 4] * ByteBase * ByteBase * ByteBase \in Nat
  BY <1>2, <1>3, Sizes, Zenon
<1> HIDE DEF o
<1>5. h[o + 1] + h[o + 2] * ByteBase + h[o + 3] * ByteBase * ByteBase
          + h[o + 4] * ByteBase * ByteBase * ByteBase \in Nat
  BY <1>2, <1>3, <1>4, Zenon
<1> QED
  BY <1>5, Zenon DEF LengthField, o

\* ParseHeader decides what a complete header leads to.
LEMMA ParseHeaderSound ==
    ASSUME NEW p \in ParserRecord, Len(p.header) = HeaderSize, p.payload = <<>>
    PROVE  Sound(ParseHeader(p))
<1> DEFINE n == LengthField(p.header)
<1>1. n \in Nat
  BY LengthIsNat, Zenon DEF ParserRecord
<1> HIDE DEF n
<1> DEFINE st == IF n > MaxPayload THEN "ERROR_MALFORMED"
                 ELSE IF n = 0 THEN "FRAME_READY" ELSE "READING_PAYLOAD"
<1>2. ParseHeader(p) = [p EXCEPT !.expected = n, !.state = st]
  BY Zenon DEF ParseHeader, n
<1>3. ParseHeader(p) = [state |-> st, header |-> p.header, payload |-> <<>>, expected |-> n]
  BY <1>2, Zenon DEF ParserRecord
<1>4. Len(<<>>) = 0
  BY Zenon
<1> QED
  BY <1>1, <1>3, <1>4, Sizes DEF Sound, ParserRecord, AnyState

LEMMA FeedHeaderSound ==
    ASSUME NEW p, Sound(p), NEW data \in Seq(Byte)
    PROVE  LET r == FeedHeader(p, data)
           IN  Sound(r.parser) /\ r.data \in Seq(Byte)
<1>1. CASE p.state # "READING_HEADER" \/ data = <<>>
  BY <1>1, Zenon DEF FeedHeader
<1>2. CASE p.state = "READING_HEADER" /\ data # <<>>
  <2> DEFINE n == Least(HeaderSize - Len(p.header), Len(data))
             hd == p.header \o First(data, n)
             q == [p EXCEPT !.header = hd]
  <2>1. /\ p \in ParserRecord /\ Len(p.header) \in Nat /\ Len(p.header) < HeaderSize
        /\ p.payload = <<>> /\ p.header \in Seq(Byte) /\ p.expected \in Nat
        /\ Len(data) \in Nat /\ HeaderSize - Len(p.header) \in Nat
    BY <1>2, Sizes DEF Sound, ParserRecord
  <2>2. n \in Nat /\ n <= Len(data) /\ n <= HeaderSize - Len(p.header)
    BY <2>1, LeastIsBound, Zenon
  <2>3. First(data, n) \in Seq(Byte) /\ Len(First(data, n)) = n /\ Rest(data, n) \in Seq(Byte)
    BY <2>2, Split, Zenon
  <2> HIDE DEF n
  <2>5. hd \in Seq(Byte) /\ Len(hd) = Len(p.header) + n
    BY <2>1, <2>3, Join, ZenonT(20)
  <2> HIDE DEF hd
  <2>4. q = [state |-> "READING_HEADER", header |-> hd,
             payload |-> <<>>, expected |-> p.expected]
    BY <1>2, <2>1, SMTT(30) DEF ParserRecord
  <2> HIDE DEF q
  <2>6. q \in ParserRecord /\ q.payload = <<>> /\ Len(q.header) <= HeaderSize
    <3>1. \A a, b, h \in Nat : a < h /\ b <= h - a => a + b <= h
      OBVIOUS
    <3>2. Len(hd) <= HeaderSize
      BY <2>1, <2>2, <2>5, <3>1, Sizes, Zenon
    <3>3. q.payload = <<>> /\ q.header = hd
      BY <2>4, Zenon
    <3>4. q \in ParserRecord
      <4>1. <<>> \in Seq(Byte) /\ "READING_HEADER" \in AnyState
        BY DEF AnyState
      <4> QED
        BY <2>1, <2>4, <2>5, <4>1, Zenon DEF ParserRecord
    <3> QED
      BY <3>2, <3>3, <3>4, Zenon
  <2>7. FeedHeader(p, data) =
            [parser |-> IF Len(q.header) = HeaderSize THEN ParseHeader(q) ELSE q,
             data |-> Rest(data, n)]
    BY <1>2, Zenon DEF FeedHeader, n, q, hd
  <2>8. Len(q.header) # HeaderSize => Sound(q)
    <3>1. /\ q.state = "READING_HEADER" /\ q.header = hd /\ q.payload = <<>>
          /\ Len(<<>>) = 0
      BY <2>4, Zenon
    <3>2. Len(hd) \in Nat /\ Len(hd) <= HeaderSize
      BY <2>5, <2>6, <3>1
    <3> QED
      BY <2>6, <3>1, <3>2, Sizes DEF Sound
  <2> QED
    BY <2>3, <2>6, <2>7, <2>8, ParseHeaderSound
<1> QED
  BY <1>1, <1>2, Zenon

LEMMA FeedPayloadSound ==
    ASSUME NEW p, Sound(p), NEW data \in Seq(Byte)
    PROVE  LET r == FeedPayload(p, data)
           IN  Sound(r.parser) /\ r.data \in Seq(Byte)
<1>1. CASE p.state # "READING_PAYLOAD" \/ data = <<>>
  BY <1>1, Zenon DEF FeedPayload
<1>2. CASE p.state = "READING_PAYLOAD" /\ data # <<>>
  <2> DEFINE n == Least(p.expected - Len(p.payload), Len(data))
             pl == p.payload \o First(data, n)
             q == [p EXCEPT !.payload = pl]
  <2>1. /\ p \in ParserRecord /\ Len(p.payload) \in Nat /\ p.expected \in Nat
        /\ Len(p.payload) < p.expected /\ p.expected <= MaxPayload
        /\ p.header \in Seq(Byte) /\ Len(p.header) = HeaderSize
        /\ p.payload \in Seq(Byte) /\ Len(data) \in Nat
        /\ p.expected - Len(p.payload) \in Nat
    BY <1>2 DEF Sound, ParserRecord
  <2>2. n \in Nat /\ n <= Len(data) /\ n <= p.expected - Len(p.payload)
    BY <2>1, LeastIsBound, Zenon
  <2>3. First(data, n) \in Seq(Byte) /\ Len(First(data, n)) = n /\ Rest(data, n) \in Seq(Byte)
    BY <2>2, Split, Zenon
  <2> HIDE DEF n
  <2>4. pl \in Seq(Byte) /\ Len(pl) = Len(p.payload) + n
    BY <2>1, <2>3, Join, ZenonT(20)
  <2> HIDE DEF pl
  <2>5. q = [state |-> "READING_PAYLOAD", header |-> p.header, payload |-> pl,
             expected |-> p.expected]
    BY <1>2, <2>1, SMTT(30) DEF ParserRecord
  <2> HIDE DEF q
  <2>6. FeedPayload(p, data) =
            [parser |-> IF Len(q.payload) = q.expected
                        THEN [q EXCEPT !.state = "FRAME_READY"] ELSE q,
             data |-> Rest(data, n)]
    BY <1>2, Zenon DEF FeedPayload, n, pl, q
  <2>7. CASE Len(pl) = p.expected
    <3>1. FeedPayload(p, data).parser =
              [state |-> "FRAME_READY", header |-> p.header, payload |-> pl,
               expected |-> p.expected]
      BY <2>5, <2>6, <2>7
    <3>2. FeedPayload(p, data).data = Rest(data, n)
      BY <2>6
    <3>3. FeedPayload(p, data).parser \in ParserRecord
      BY <2>1, <2>4, <3>1 DEF ParserRecord, AnyState
    <3> QED
      BY <2>1, <2>3, <2>4, <2>7, <3>1, <3>2, <3>3, Sizes DEF Sound
  <2>8. CASE Len(pl) # p.expected
    <3>1. FeedPayload(p, data).parser = q
      BY <2>5, <2>6, <2>8
    <3>2. FeedPayload(p, data).data = Rest(data, n)
      BY <2>6
    <3>3. q \in ParserRecord
      BY <2>1, <2>4, <2>5, Zenon DEF ParserRecord, AnyState
    <3>4. Len(pl) \in Nat /\ Len(pl) < p.expected
      <4>1. \A a, b, e \in Nat : b <= e - a /\ a + b # e => a + b \in Nat /\ a + b < e
        OBVIOUS
      <4>2. Len(p.payload) \in Nat /\ n \in Nat /\ p.expected \in Nat
        BY <2>1, <2>2, Zenon
      <4>3. n <= p.expected - Len(p.payload)
        BY <2>2, Zenon
      <4>4. Len(p.payload) + n # p.expected
        BY <2>4, <2>8, Zenon
      <4>5. Len(p.payload) + n \in Nat /\ Len(p.payload) + n < p.expected
        BY <4>1, <4>2, <4>3, <4>4, Zenon
      <4> QED
        BY <2>4, <4>5, Zenon
    <3>5. /\ q.state = "READING_PAYLOAD" /\ q.header = p.header
          /\ q.payload = pl /\ q.expected = p.expected
      BY <2>5, Zenon
    <3>6. Len(pl) <= MaxPayload /\ Len(p.header) <= HeaderSize
      <4>1. \A a, b, c \in Nat : a < b /\ b <= c => a <= c
        OBVIOUS
      <4> QED
        BY <2>1, <3>4, <4>1, Sizes
    <3>7. Sound(q)
      BY <2>1, <3>3, <3>4, <3>5, <3>6, Zenon DEF Sound
    <3> QED
      BY <2>3, <3>1, <3>2, <3>7, Zenon
  <2> QED
    BY <2>7, <2>8, Zenon
<1> QED
  BY <1>1, <1>2, Zenon

LEMMA FeedBytesSound ==
    ASSUME NEW p, Sound(p), NEW data \in Seq(Byte)
    PROVE  LET r == FeedBytes(p, data)
           IN  Sound(r.parser) /\ r.data \in Seq(Byte)
  BY FeedHeaderSound, FeedPayloadSound, Zenon DEF FeedBytes

\* An extracted frame is built from the bytes of the header and the payload.
LEMMA ExtractedIsFrame ==
    ASSUME NEW p, Sound(p), p.state = "FRAME_READY"
    PROVE  Extracted(p) \in Seq(AnyFrame)
<1> DEFINE m == SubSeq(p.header, 2, 1 + MailboxSize)
<1>1. p.header \in Seq(Byte) /\ Len(p.header) = HeaderSize /\ p.payload \in Seq(Byte)
  BY Zenon DEF Sound, ParserRecord
<1>2. m \in Seq(Byte)
  BY <1>1, Sizes
<1>3. \A n \in Nat : Zeros(n) \in Seq(Byte)
  BY Sizes DEF Zeros
<1>4. Padded(p.payload) \in Seq(Byte)
  <2>1. CASE Len(p.payload) < ControlSize
    <3>1. ControlSize - Len(p.payload) \in Nat
      BY <1>1, <2>1, Sizes
    <3> QED
      BY <1>1, <1>3, <2>1, <3>1 DEF Padded
  <2> QED
    BY <1>1, <2>1, Zenon DEF Padded
<1> HIDE DEF m
<1>5. \A a \in {PUSH, POLL, ACK, AUTH_CHALLENGE, AUTH_RESPONSE}, b \in Seq(Byte) :
          <<FrameOf(a, m, b)>> \in Seq(AnyFrame)
  BY <1>2, Sizes DEF FrameOf, AnyFrame
<1>6. Zeros(ControlSize) \in Seq(Byte)
  BY <1>3, Sizes, Zenon
<1>7. /\ <<CreatePush(m, p.payload)>> \in Seq(AnyFrame)
      /\ <<CreatePoll(m)>> \in Seq(AnyFrame)
      /\ <<CreateAck(m, p.payload)>> \in Seq(AnyFrame)
      /\ <<CreateAuthChallenge(m, p.payload)>> \in Seq(AnyFrame)
      /\ <<CreateAuthResponse(m, p.payload)>> \in Seq(AnyFrame)
  BY <1>1, <1>4, <1>5, <1>6, Zenon
     DEF CreatePush, CreatePoll, CreateAck, CreateAuthChallenge, CreateAuthResponse
<1>8. <<>> \in Seq(AnyFrame)
  OBVIOUS
<1> QED
  BY <1>7, <1>8, Zenon DEF Extracted, m

LEMMA LengthInBytes ==
    ASSUME NEW n \in Nat
    PROVE  LengthBytes(n) \in Seq(Byte)
<1>1. \A k \in Nat : k % ByteBase \in Byte
  BY Sizes DEF Byte
<1>2. \A k, d \in Nat : d > 0 => k \div d \in Nat
  OBVIOUS
<1>3. /\ ByteBase * ByteBase \in Nat /\ ByteBase * ByteBase > 0
      /\ ByteBase * ByteBase * ByteBase \in Nat /\ ByteBase * ByteBase * ByteBase > 0
  <2>1. \A x, y \in Nat : x > 0 /\ y > 0 => x * y \in Nat /\ x * y > 0
    OBVIOUS
  <2> QED
    BY <2>1, Sizes
<1>4. /\ n \div ByteBase \in Nat
      /\ n \div (ByteBase * ByteBase) \in Nat
      /\ n \div (ByteBase * ByteBase * ByteBase) \in Nat
  BY <1>2, <1>3, Sizes
<1>5. /\ n % ByteBase \in Byte /\ (n \div ByteBase) % ByteBase \in Byte
      /\ (n \div (ByteBase * ByteBase)) % ByteBase \in Byte
      /\ (n \div (ByteBase * ByteBase * ByteBase)) % ByteBase \in Byte
  BY <1>1, <1>4, Zenon
<1>6. \A a, b, c, d \in Byte : <<a, b, c, d>> \in Seq(Byte)
  OBVIOUS
<1> QED
  BY <1>5, <1>6, Zenon DEF LengthBytes

LEMMA SerializedBytes ==
    ASSUME NEW f \in Sendable
    PROVE  Serialize(f) \in Seq(Byte)
<1>1. f.action \in Byte /\ f.mailbox \in Seq(Byte) /\ f.payload \in Seq(Byte)
  BY ParserAssumption, Zenon
<1>2. LengthBytes(Len(f.payload)) \in Seq(Byte)
  BY <1>1, LengthInBytes
<1>3. <<f.action>> \in Seq(Byte)
  BY <1>1
<1> QED
  BY <1>1, <1>2, <1>3 DEF Serialize

LEMMA FreshSound == Sound(Fresh) /\ Fresh.state # "FRAME_READY"
  BY Sizes DEF Sound, Fresh, ParserRecord, AnyState

LEMMA InitParserInv == Init => ParserInv
  BY FreshSound DEF Init, ParserInv

LEMMA StepParserInv == ParserInv /\ [Next]_vars => ParserInv'
<1> SUFFICES ASSUME ParserInv, [Next]_vars PROVE ParserInv'
  BY Zenon
<1> USE DEF ParserInv
<1>1. ASSUME NEW f \in Sendable, SendFrame(f) PROVE ParserInv'
  BY <1>1, SerializedBytes DEF SendFrame
<1>2. CASE ReadSome
  <2>1. PICK n \in 1 .. Least(MaxChunk, Len(wire)) :
            span' = First(wire, n) /\ wire' = Rest(wire, n)
    BY <1>2, Zenon DEF ReadSome
  <2>2. n \in Nat /\ n <= Len(wire)
    BY <2>1, ParserAssumption DEF Least
  <2> QED
    BY <1>2, <2>1, <2>2, Split, Zenon DEF ReadSome
<1>3. CASE ConsumeSpan
  <2> DEFINE fed == FeedBytes(parser, span)
             taken == TryExtractFrame(fed.parser)
  <2>1. Sound(fed.parser) /\ fed.data \in Seq(Byte)
    BY FeedBytesSound, Zenon
  <2>2. /\ span' = fed.data /\ UNCHANGED <<sent, wire>>
        /\ \/ /\ fed.parser.state = "ERROR_MALFORMED"
              /\ parser' = fed.parser /\ open' = FALSE /\ got' = got
           \/ parser' = taken.parser /\ got' = got \o taken.frames
              /\ open' = (fed.data # span)
    BY <1>3, Zenon DEF ConsumeSpan
  <2> HIDE DEF fed
  <2>3. /\ Sound(taken.parser) /\ taken.parser.state # "FRAME_READY"
        /\ taken.frames \in Seq(AnyFrame)
    <3>1. CASE fed.parser.state = "FRAME_READY"
      BY <2>1, <3>1, FreshSound, ExtractedIsFrame, Zenon DEF TryExtractFrame
    <3>2. CASE fed.parser.state # "FRAME_READY"
      BY <2>1, <3>2 DEF TryExtractFrame
    <3> QED
      BY <3>1, <3>2, Zenon
  <2> HIDE DEF taken
  <2>4. parser' = fed.parser \/ parser' = taken.parser
    BY <2>2, Zenon
  <2>5. Sound(parser') /\ parser'.state # "FRAME_READY"
    BY <2>1, <2>2, <2>3, Zenon
  <2>6. got' \in Seq(AnyFrame) /\ open' \in BOOLEAN
    <3>1. got \o taken.frames \in Seq(AnyFrame)
      BY <2>3
    <3> QED
      BY <2>2, <3>1, Zenon
  <2> QED
    BY <2>1, <2>2, <2>5, <2>6, Zenon DEF Sound
<1>4. CASE UNCHANGED vars
  BY <1>4, Zenon DEF vars, Sound
<1> QED
  BY <1>1, <1>2, <1>3, <1>4, Zenon DEF Next

\* The strengthened invariant holds throughout the read loop of DoRead.
THEOREM ParserAlwaysSound == Spec => []ParserInv
  BY InitParserInv, StepParserInv, PTL DEF Spec

\* Every variable of the read loop keeps its type: the parser is never left
\* FRAME_READY between two reads and only ever hands out frames made of bytes.
THEOREM ParserTypeCorrect == Spec => []TypeOK
<1>1. ParserInv => TypeOK
  BY Zenon DEF ParserInv, Sound, ParserRecord, AnyState, AnyFrame, TypeOK
<1> QED
  BY <1>1, ParserAlwaysSound, PTL

\* For every stream and every way of cutting it, FeedBytes keeps the header
\* below 21 bytes and the payload below its announced length, which is at most
\* maxPayloadSize: its unsigned subtractions never wrap.
THEOREM ParserBuffersBounded == Spec => []BuffersBounded
<1>1. ParserInv => BuffersBounded
  BY Zenon DEF ParserInv, Sound, BuffersBounded
<1> QED
  BY <1>1, ParserAlwaysSound, PTL

-----------------------------------------------------------------------------
(* The length field: a number and its four digits. *)

\* Quotient and remainder.
LEMMA DivMod ==
    ASSUME NEW a \in Nat, NEW b \in Nat, b > 0
    PROVE  /\ a \div b \in Nat /\ a % b \in Nat /\ a % b < b
           /\ a = b * (a \div b) + (a % b)
  OBVIOUS

\* They are determined by the number.
LEMMA QuotientUnique ==
    ASSUME NEW b \in Nat, b > 0, NEW q \in Nat, NEW r \in Nat, r < b,
           NEW p \in Nat, NEW t \in Nat, t < b, b * q + r = b * p + t
    PROVE  q = p
<1>1. CASE q < p
  <2>1. p - q - 1 \in Nat /\ b * (p - q - 1) \in Nat
    BY <1>1
  <2>2. b * (p - q - 1) = b * p - b * q - b
    OBVIOUS
  <2> QED
    BY <2>1, <2>2
<1>2. CASE p < q
  <2>1. q - p - 1 \in Nat /\ b * (q - p - 1) \in Nat
    BY <1>2
  <2>2. b * (q - p - 1) = b * q - b * p - b
    OBVIOUS
  <2> QED
    BY <2>1, <2>2
<1> QED
  BY <1>1, <1>2

\* Dividing twice is dividing by the product.
LEMMA DivDiv ==
    ASSUME NEW a \in Nat, NEW b \in Nat, NEW c \in Nat, b > 0, c > 0
    PROVE  a \div (b * c) = (a \div b) \div c
<1> DEFINE q == a \div b
           r == a % b
           s == q \div c
           t == q % c
           d == b * c
<1>1. q \in Nat /\ r \in Nat /\ r < b /\ a = b * q + r
  BY DivMod, Zenon
<1>2. s \in Nat /\ t \in Nat /\ t < c /\ q = c * s + t
  BY <1>1, DivMod, Zenon
<1>3. d \in Nat /\ d > 0
  OBVIOUS
<1>4. a \div d \in Nat /\ a % d \in Nat /\ a % d < d /\ a = d * (a \div d) + (a % d)
  BY <1>3, DivMod, Zenon
<1> HIDE DEF q, r, s, t
<1>5. b * (c - 1 - t) \in Nat /\ b * t \in Nat
  BY <1>2
<1>6. b * t + r \in Nat /\ b * t + r < d
  BY <1>1, <1>2, <1>5
<1>7. a = d * s + (b * t + r)
  BY <1>1, <1>2
<1> HIDE DEF d
<1> DEFINE u == a \div d
           v == a % d
           w == b * t + r
<1>8. u \in Nat /\ v \in Nat /\ v < d /\ w \in Nat /\ w < d /\ d * u + v = d * s + w
  BY <1>4, <1>6, <1>7, Zenon
<1> HIDE DEF u, v, w
<1>9. u = s
  BY <1>2, <1>3, <1>8, QuotientUnique, Zenon
<1> QED
  BY <1>9, Zenon DEF u, d, s, q

\* What LengthField computes from the bytes of LengthBytes.
LEMMA FourDigits ==
    ASSUME NEW b \in Nat, b > 0, NEW n \in Nat, n < b * b * b * b
    PROVE  n = (n % b) + ((n \div b) % b) * b + ((n \div (b * b)) % b) * b * b
                   + ((n \div (b * b * b)) % b) * b * b * b
<1> DEFINE p == n \div b
           q == n \div (b * b)
           r == n \div (b * b * b)
<1>1. b * b \in Nat /\ b * b > 0 /\ b * b * b \in Nat /\ b * b * b > 0
  OBVIOUS
<1>2. p \in Nat /\ q \in Nat /\ r \in Nat
  BY <1>1, DivMod, Zenon
<1>3. q = p \div b
  BY DivDiv, Zenon
<1>4. r = q \div b
  BY <1>1, DivDiv, Zenon
<1>5. n = b * p + (n % b)
  BY DivMod, Zenon
<1>6. p = b * q + (p % b)
  BY <1>2, <1>3, DivMod, Zenon
<1>7. q = b * r + (q % b)
  BY <1>2, <1>4, DivMod, Zenon
<1>8. r < b
  <2>1. n = (b * b * b) * r + (n % (b * b * b)) /\ n % (b * b * b) \in Nat
    BY <1>1, DivMod, Zenon
  <2> DEFINE d == b * b * b
  <2>2. d \in Nat /\ d > 0 /\ n < d * b /\ d * r <= n
    BY <1>1, <1>2, <2>1
  <2> HIDE DEF d, r
  <2> SUFFICES ASSUME r >= b PROVE FALSE
    BY <1>2
  <2>3. d * (r - b) \in Nat
    BY <1>2, <2>2
  <2> QED
    BY <1>2, <2>2, <2>3
<1>9. r % b = r
  BY <1>2, <1>8
<1>10. /\ n % b \in Nat /\ p % b \in Nat /\ q % b \in Nat
  BY <1>2, DivMod, Zenon
<1> DEFINE x == n % b
           y == p % b
           z == q % b
<1> HIDE DEF p, q, r, x, y, z
<1>11. n = x + y * b + z * b * b + r * b * b * b
  BY <1>2, <1>5, <1>6, <1>7, <1>10 DEF x, y, z
<1> QED
  BY <1>9, <1>11, Zenon DEF p, q, r, x, y, z

-----------------------------------------------------------------------------
(* The stream does not depend on where it is cut. *)

\* Two splits of one stream at the same place are the same split.
LEMMA SameSplit ==
    ASSUME NEW a \in Seq(Byte), NEW b \in Seq(Byte), NEW c \in Seq(Byte), NEW d \in Seq(Byte),
           a \o b = c \o d, Len(a) = Len(c)
    PROVE  a = c /\ b = d
<1>1. Len(b) = Len(d)
  <2>1. Len(a \o b) = Len(a) + Len(b) /\ Len(c \o d) = Len(c) + Len(d)
    BY Join, Zenon
  <2> QED
    BY <2>1
<1>2. \A i \in 1 .. Len(a) : a[i] = c[i]
  <2> SUFFICES ASSUME NEW i \in 1 .. Len(a) PROVE a[i] = c[i]
    BY Zenon
  <2>1. (a \o b)[i] = a[i] /\ (c \o d)[i] = c[i]
    OBVIOUS
  <2> QED
    BY <2>1, Zenon
<1>3. \A i \in 1 .. Len(b) : b[i] = d[i]
  <2> SUFFICES ASSUME NEW i \in 1 .. Len(b) PROVE b[i] = d[i]
    BY Zenon
  <2>1. (a \o b)[Len(a) + i] = b[i] /\ (c \o d)[Len(c) + i] = d[i]
    BY <1>1, SMTT(30)
  <2> QED
    BY <2>1, Zenon
<1> QED
  BY <1>1, <1>2, <1>3, SeqEqual, Zenon

\* Joining is associative.
LEMMA Regroup ==
    ASSUME NEW a \in Seq(Byte), NEW b \in Seq(Byte), NEW c \in Seq(Byte)
    PROVE  (a \o b) \o c = a \o (b \o c)
  BY ConcatAssociative

\* Where the bytes of two pieces are when they are joined.
LEMMA JoinAt ==
    ASSUME NEW s \in Seq(Byte), NEW t \in Seq(Byte)
    PROVE  /\ \A i \in 1 .. Len(s) : (s \o t)[i] = s[i]
           /\ \A i \in 1 .. Len(t) : (s \o t)[Len(s) + i] = t[i]
  OBVIOUS

\* Splitting a piece loses nothing.
LEMMA SplitJoins ==
    ASSUME NEW s \in Seq(Byte), NEW n \in Nat, n <= Len(s)
    PROVE  First(s, n) \o Rest(s, n) = s
<1>1. 1 \in 1 .. Len(s) + 1 /\ n \in 1 - 1 .. Len(s) /\ Len(s) \in n .. Len(s)
  OBVIOUS
<1>2. SubSeq(s, 1, n) \o SubSeq(s, n + 1, Len(s)) = SubSeq(s, 1, Len(s))
  BY <1>1, ConcatAdjacentSubSeq, Zenon
<1> QED
  BY <1>2, SubSeqFull, Zenon DEF First, Rest

\* The header of a frame on the wire.
HeaderOf(f) == <<f.action>> \o f.mailbox \o LengthBytes(Len(f.payload))

\* Where Serialize puts the members of a frame.
LEMMA HeaderFacts ==
    ASSUME NEW f \in Sendable
    PROVE  /\ HeaderOf(f) \in Seq(Byte) /\ Len(HeaderOf(f)) = HeaderSize
           /\ f.payload \in Seq(Byte) /\ f.mailbox \in Seq(Byte)
           /\ Serialize(f) = HeaderOf(f) \o f.payload
           /\ HeaderOf(f)[1] = f.action
           /\ SubSeq(HeaderOf(f), 2, 1 + MailboxSize) = f.mailbox
           /\ LET n == Len(f.payload) o == 1 + MailboxSize
              IN  /\ HeaderOf(f)[o + 1] = n % ByteBase
                  /\ HeaderOf(f)[o + 2] = (n \div ByteBase) % ByteBase
                  /\ HeaderOf(f)[o + 3] = (n \div (ByteBase * ByteBase)) % ByteBase
                  /\ HeaderOf(f)[o + 4] = (n \div (ByteBase * ByteBase * ByteBase)) % ByteBase
<1> DEFINE m == f.mailbox
           l == LengthBytes(Len(f.payload))
           a == <<f.action>>
<1>1. /\ m \in Seq(Byte) /\ f.payload \in Seq(Byte) /\ Len(m) = MailboxSize
      /\ a \in Seq(Byte) /\ Len(a) = 1
  BY ParserAssumption
<1>2. l \in Seq(Byte) /\ Len(l) = 4
  <2>1. l \in Seq(Byte)
    BY LengthInBytes, <1>1
  <2>2. Len(l) = 4
    BY Zenon DEF LengthBytes
  <2> QED
    BY <2>1, <2>2, Zenon
<1>3. /\ l[1] = Len(f.payload) % ByteBase
      /\ l[2] = (Len(f.payload) \div ByteBase) % ByteBase
      /\ l[3] = (Len(f.payload) \div (ByteBase * ByteBase)) % ByteBase
      /\ l[4] = (Len(f.payload) \div (ByteBase * ByteBase * ByteBase)) % ByteBase
  BY Zenon DEF LengthBytes
<1>4. HeaderOf(f) = (a \o m) \o l
  BY Zenon DEF HeaderOf
<1>5. a[1] = f.action
  BY Zenon
<1> HIDE DEF m, l, a
<1> DEFINE am == a \o m
<1>6. /\ am \in Seq(Byte) /\ Len(am) = 1 + MailboxSize
      /\ am[1] = a[1] /\ \A i \in 1 .. MailboxSize : am[1 + i] = m[i]
  <2>1. am \in Seq(Byte) /\ Len(am) = 1 + MailboxSize
    BY <1>1, Join, Zenon
  <2>2. /\ \A i \in 1 .. Len(a) : am[i] = a[i]
        /\ \A i \in 1 .. Len(m) : am[Len(a) + i] = m[i]
    BY <1>1, JoinAt, Zenon
  <2> HIDE DEF am
  <2>3. 1 \in 1 .. 1
    OBVIOUS
  <2> QED
    BY <1>1, <2>1, <2>2, <2>3, Zenon
<1> HIDE DEF am
<1> DEFINE h == am \o l
<1>7. /\ h \in Seq(Byte) /\ Len(h) = HeaderSize
      /\ \A i \in 1 .. 1 + MailboxSize : h[i] = am[i]
      /\ \A i \in 1 .. 4 : h[1 + MailboxSize + i] = l[i]
  <2>1. am \in Seq(Byte) /\ Len(am) = 1 + MailboxSize
    BY <1>6, Zenon DEF am
  <2>2. h \in Seq(Byte) /\ Len(h) = 1 + MailboxSize + 4
    BY <1>2, <2>1, Join, Zenon
  <2>3. /\ \A i \in 1 .. 1 + MailboxSize : h[i] = am[i]
        /\ \A i \in 1 .. 4 : h[1 + MailboxSize + i] = l[i]
    <3>1. /\ \A i \in 1 .. Len(am) : h[i] = am[i]
          /\ \A i \in 1 .. Len(l) : h[Len(am) + i] = l[i]
      BY <1>2, <2>1, JoinAt, Zenon
    <3> HIDE DEF h
    <3> QED
      BY <1>2, <2>1, <3>1, Zenon
  <2> HIDE DEF h
  <2>4. 1 + MailboxSize + 4 = HeaderSize
    BY Sizes
  <2> QED
    BY <2>2, <2>3, <2>4, Zenon
<1> HIDE DEF h
<1>8. h[1] = f.action
  BY <1>5, <1>6, <1>7, Sizes DEF am
<1>9. SubSeq(h, 2, 1 + MailboxSize) = m
  <2>1. \A i \in 2 .. 1 + MailboxSize : h[i] \in Byte
    BY <1>7, Sizes
  <2>2. 1 + MailboxSize \in Int /\ 2 \in Int
    BY Sizes
  <2> DEFINE k == 1 + MailboxSize
             x == SubSeq(h, 2, k)
  <2>5. k \in Int /\ 2 \in Int /\ k - 2 + 1 = MailboxSize /\ (~(2 <= k) => MailboxSize = 0)
    BY Sizes
  <2> HIDE DEF k
  <2>6. /\ x \in Seq(Byte)
        /\ Len(x) = IF 2 <= k THEN k - 2 + 1 ELSE 0
        /\ \A i \in 1 .. k - 2 + 1 : x[i] = h[2 + i - 1]
    <3>1. \A i \in 2 .. k : h[i] \in Byte
      BY <2>1, Zenon DEF k
    <3> QED
      BY <2>5, <3>1, SubSeqProperties
  <2>7. Len(x) = MailboxSize /\ \A i \in 1 .. MailboxSize : x[i] = h[2 + i - 1]
    BY <2>5, <2>6, Zenon
  <2>8. \A i \in 1 .. MailboxSize : 2 + i - 1 = 1 + i
    BY Sizes
  <2>3. /\ x \in Seq(Byte) /\ Len(x) = MailboxSize
        /\ \A i \in 1 .. MailboxSize : x[i] = h[1 + i]
    BY <2>6, <2>7, <2>8, Zenon
  <2> HIDE DEF x
  <2>4. \A i \in 1 .. MailboxSize : h[1 + i] = m[i]
    <3>1. \A i \in 1 .. MailboxSize : 1 + i \in 1 .. 1 + MailboxSize
      BY Sizes
    <3> QED
      BY <1>6, <1>7, <3>1, Zenon DEF am
  <2> QED
    <3>1. x = m
      BY <1>1, <2>3, <2>4, SeqEqual, ZenonT(20)
    <3> QED
      BY <3>1, Zenon DEF x, k
<1>10. Serialize(f) = h \o f.payload
  BY Zenon DEF Serialize, h, am, m, l, a
<1>11. HeaderOf(f) = h
  BY <1>4, Zenon DEF h, am
<1>12. \A i \in 1 .. 4 : h[1 + MailboxSize + i] = l[i]
  BY <1>7, Zenon
<1> QED
  <2>1. h[1 + MailboxSize + 1] = l[1] /\ h[1 + MailboxSize + 2] = l[2]
        /\ h[1 + MailboxSize + 3] = l[3] /\ h[1 + MailboxSize + 4] = l[4]
    BY <1>12
  <2> QED
    BY <1>1, <1>3, <1>7, <1>8, <1>9, <1>10, <1>11, <2>1, Zenon DEF m

\* The parser reads the length that Serialize wrote.
LEMMA HeaderLength ==
    ASSUME NEW f \in Sendable
    PROVE  LengthField(HeaderOf(f)) = Len(f.payload)
<1> DEFINE n == Len(f.payload)
           h == HeaderOf(f)
           o == 1 + MailboxSize
<1>1. n \in Nat /\ n < ByteBase * ByteBase * ByteBase * ByteBase
  BY HeaderFacts, FactoryAssumption
<1>2. /\ h[o + 1] = n % ByteBase
      /\ h[o + 2] = (n \div ByteBase) % ByteBase
      /\ h[o + 3] = (n \div (ByteBase * ByteBase)) % ByteBase
      /\ h[o + 4] = (n \div (ByteBase * ByteBase * ByteBase)) % ByteBase
  BY HeaderFacts, Zenon
<1>3. LengthField(h) = h[o + 1] + h[o + 2] * ByteBase + h[o + 3] * ByteBase * ByteBase
                           + h[o + 4] * ByteBase * ByteBase * ByteBase
  BY Zenon DEF LengthField
<1>4. ByteBase \in Nat /\ ByteBase > 0
  BY Sizes
<1> HIDE DEF n, h, o
<1>5. n = (n % ByteBase) + ((n \div ByteBase) % ByteBase) * ByteBase
              + ((n \div (ByteBase * ByteBase)) % ByteBase) * ByteBase * ByteBase
              + ((n \div (ByteBase * ByteBase * ByteBase)) % ByteBase)
                    * ByteBase * ByteBase * ByteBase
  BY <1>1, <1>4, FourDigits, Zenon
<1>6. LengthField(h) = n
  BY <1>2, <1>3, <1>5, Zenon
<1> QED
  BY <1>6, Zenon DEF n, h

\* TryExtractFrame gives back what was serialised.
LEMMA ExtractedOf ==
    ASSUME NEW f \in Sendable, NEW p, p.header = HeaderOf(f), p.payload = f.payload
    PROVE  Extracted(p) = IF Known(f) THEN <<f>> ELSE <<>>
<1>1. /\ p.header[1] = f.action
      /\ SubSeq(p.header, 2, 1 + MailboxSize) = f.mailbox
  BY HeaderFacts, Zenon
<1>2. f = FrameOf(f.action, f.mailbox, f.payload)
  BY ParserAssumption, Zenon DEF FrameOf
<1>3. f.action = POLL => f.payload = Zeros(ControlSize)
  BY FactoryAssumption, Zenon
<1>4. f.action \in {AUTH_CHALLENGE, AUTH_RESPONSE} => Padded(f.payload) = f.payload
  <2>1. Len(f.payload) \in Nat
    BY HeaderFacts
  <2>2. f.action \in {AUTH_CHALLENGE, AUTH_RESPONSE} => Len(f.payload) >= ControlSize
    BY FactoryAssumption, Zenon
  <2> QED
    BY <2>1, <2>2, Sizes DEF Padded
<1> DEFINE a == f.action
           m == f.mailbox
<1>5. Extracted(p) =
          CASE a = PUSH -> <<CreatePush(m, f.payload)>>
            [] a = POLL -> <<CreatePoll(m)>>
            [] a = ACK -> <<CreateAck(m, f.payload)>>
            [] a = AUTH_CHALLENGE -> <<CreateAuthChallenge(m, f.payload)>>
            [] a = AUTH_RESPONSE -> <<CreateAuthResponse(m, f.payload)>>
            [] OTHER -> <<>>
  BY <1>1, Zenon DEF Extracted
<1>6. /\ a = PUSH => CreatePush(m, f.payload) = f
      /\ a = POLL => CreatePoll(m) = f
      /\ a = ACK => CreateAck(m, f.payload) = f
      /\ a = AUTH_CHALLENGE => CreateAuthChallenge(m, f.payload) = f
      /\ a = AUTH_RESPONSE => CreateAuthResponse(m, f.payload) = f
  BY <1>2, <1>3, <1>4, Zenon
     DEF CreatePush, CreatePoll, CreateAck, CreateAuthChallenge, CreateAuthResponse
<1> HIDE DEF a, m
<1>7. Known(f) <=> a \in {PUSH, POLL, ACK, AUTH_CHALLENGE, AUTH_RESPONSE}
  BY Zenon DEF Known, a
<1> QED
  BY <1>5, <1>6, <1>7, Zenon DEF PUSH, POLL, ACK, AUTH_CHALLENGE, AUTH_RESPONSE

\* r is what Serialize makes of the frames of s after the n-th.
Remains(s, n, r) ==
    \E cut \in [n .. Len(s) -> Seq(Byte)] :
        /\ cut[n] = r /\ cut[Len(s)] = <<>>
        /\ \A k \in n + 1 .. Len(s) : cut[k - 1] = Serialize(s[k]) \o cut[k]

\* A frame that is sent is added at the end.
LEMMA RemainsSent ==
    ASSUME NEW s \in Seq(Sendable), NEW n \in 0 .. Len(s), NEW r \in Seq(Byte), Remains(s, n, r),
           NEW f \in Sendable
    PROVE  Remains(Append(s, f), n, r \o Serialize(f))
<1> DEFINE L == Len(s)
           t == Append(s, f)
           b == Serialize(f)
<1>1. PICK cut \in [n .. L -> Seq(Byte)] :
          /\ cut[n] = r /\ cut[L] = <<>>
          /\ \A k \in n + 1 .. L : cut[k - 1] = Serialize(s[k]) \o cut[k]
  BY Zenon DEF Remains
<1>2. /\ L \in Nat /\ n \in Nat /\ n <= L /\ Len(t) = L + 1
      /\ \A k \in 1 .. L : t[k] = s[k] /\ s[k] \in Sendable
      /\ t[L + 1] = f
  OBVIOUS
<1>3. b \in Seq(Byte)
  BY SerializedBytes, Zenon
<1> HIDE DEF b, t
<1> DEFINE new == [k \in n .. L + 1 |-> IF k = L + 1 THEN <<>> ELSE cut[k] \o b]
<1>4. new \in [n .. Len(t) -> Seq(Byte)]
  <2>1. ASSUME NEW k \in n .. L + 1 PROVE new[k] \in Seq(Byte)
    <3>1. k # L + 1 => k \in n .. L
      BY <1>2
    <3> QED
      BY <1>1, <1>3, <3>1, Join
  <2> QED
    BY <1>2, <2>1, Zenon
<1>5. new[n] = r \o b /\ new[Len(t)] = <<>>
  BY <1>1, <1>2
<1>6. ASSUME NEW k \in n + 1 .. Len(t) PROVE new[k - 1] = Serialize(t[k]) \o new[k]
  <2>1. k - 1 \in n .. L + 1 /\ k \in n .. L + 1 /\ k - 1 # L + 1
    BY <1>2
  <2>2. new[k - 1] = cut[k - 1] \o b
    BY <2>1, Zenon
  <2>3. CASE k = L + 1
    <3>1. cut[k - 1] = <<>> /\ new[k] = <<>> /\ Serialize(t[k]) = b
      BY <1>1, <1>2, <2>1, <2>3 DEF b
    <3>2. <<>> \o b = b /\ b \o <<>> = b
      BY <1>3, ConcatEmptySeq, Zenon
    <3> QED
      BY <2>2, <3>1, <3>2, Zenon
  <2>4. CASE k # L + 1
    <3>1. k \in n + 1 .. L /\ k \in 1 .. L /\ k \in n .. L
      BY <1>2, <2>1, <2>4
    <3>2. cut[k - 1] = Serialize(s[k]) \o cut[k] /\ new[k] = cut[k] \o b /\ t[k] = s[k]
      BY <1>1, <1>2, <2>1, <2>4, <3>1, Zenon
    <3>3. Serialize(s[k]) \in Seq(Byte) /\ cut[k] \in Seq(Byte)
      BY <1>1, <1>2, <3>1, SerializedBytes, Zenon
    <3>4. (Serialize(s[k]) \o cut[k]) \o b = Serialize(s[k]) \o (cut[k] \o b)
      BY <1>3, <3>3, Regroup, ZenonT(20)
    <3> QED
      BY <2>2, <3>2, <3>4, Zenon
  <2> QED
    BY <2>3, <2>4, Zenon
<1> HIDE DEF new
<1> QED
  BY <1>4, <1>5, <1>6, Zenon DEF Remains, t, b

\* What remains, if anything, begins with the next frame.
LEMMA RemainsNext ==
    ASSUME NEW s \in Seq(Sendable), NEW n \in 0 .. Len(s), NEW r \in Seq(Byte), Remains(s, n, r),
           r # <<>>
    PROVE  /\ n < Len(s) /\ s[n + 1] \in Sendable
           /\ \E x \in Seq(Byte) : r = Serialize(s[n + 1]) \o x /\ Remains(s, n + 1, x)
<1> DEFINE L == Len(s)
<1>1. PICK cut \in [n .. L -> Seq(Byte)] :
          /\ cut[n] = r /\ cut[L] = <<>>
          /\ \A k \in n + 1 .. L : cut[k - 1] = Serialize(s[k]) \o cut[k]
  BY Zenon DEF Remains
<1>2. n # L /\ L \in Nat /\ n \in Nat
  BY <1>1
<1>3. /\ n < L /\ n + 1 \in n .. L /\ n + 1 \in n + 1 .. L /\ (n + 1) - 1 = n /\ L \in n + 1 .. L
      /\ s[n + 1] \in Sendable
  BY <1>2
<1> DEFINE new == [k \in n + 1 .. L |-> cut[k]]
<1>4. /\ new \in [n + 1 .. L -> Seq(Byte)] /\ new[n + 1] = cut[n + 1] /\ new[L] = <<>>
  BY <1>1, <1>2, <1>3
<1>5. ASSUME NEW k \in (n + 1) + 1 .. L PROVE new[k - 1] = Serialize(s[k]) \o new[k]
  <2>1. k - 1 \in n + 1 .. L /\ k \in n + 1 .. L
    BY <1>2
  <2> QED
    BY <1>1, <2>1, Zenon
<1> HIDE DEF new
<1>6. Remains(s, n + 1, cut[n + 1])
  BY <1>4, <1>5, Zenon DEF Remains
<1>7. cut[n + 1] \in Seq(Byte) /\ r = Serialize(s[n + 1]) \o cut[n + 1]
  BY <1>1, <1>3, Zenon
<1> QED
  BY <1>3, <1>6, <1>7, Zenon

\* e and a are what Ends and Accepted compute for the first n frames of s.
Counts(e, s, n) ==
    e = [i \in 0 .. n |-> IF i = 0 THEN 0 ELSE e[i - 1] + HeaderSize + Len(s[i].payload)]
Keeps(a, s, n) ==
    a = [i \in 0 .. n |-> IF i = 0 THEN <<>>
                          ELSE a[i - 1] \o (IF Known(s[i]) THEN <<s[i]>> ELSE <<>>)]

\* Functions that satisfy the two equations exist.
LEMMA CountsExists ==
    ASSUME NEW s
    PROVE  \A n \in Nat : \E e : Counts(e, s, n)
<1> DEFINE B == {n \in Nat : \E e : Counts(e, s, n)}
           Step(x, i) == x + HeaderSize + Len(s[i].payload)
<1>1. 0 \in B
  <2> DEFINE e == [i \in 0 .. 0 |-> 0]
  <2>1. e = [i \in 0 .. 0 |-> IF i = 0 THEN 0 ELSE Step(e[i - 1], i)]
    OBVIOUS
  <2> QED
    BY <2>1, Zenon DEF Counts
<1>2. ASSUME NEW n \in Nat, n \in B PROVE n + 1 \in B
  <2>1. PICK e : Counts(e, s, n)
    BY <1>2, Zenon
  <2>2. \A i \in 0 .. n : e[i] = IF i = 0 THEN 0 ELSE Step(e[i - 1], i)
    BY <2>1, Zenon DEF Counts
  <2> HIDE DEF Step
  <2> DEFINE h == [i \in 0 .. n + 1 |-> IF i = 0 THEN 0 ELSE Step(e[i - 1], i)]
  <2>3. \A i \in 0 .. n + 1 : i # 0 => i - 1 \in 0 .. n /\ i - 1 \in 0 .. n + 1
    OBVIOUS
  <2>4. \A i \in 0 .. n + 1 : i # 0 => h[i - 1] = e[i - 1]
    BY <2>2, <2>3, Zenon
  <2>5. h = [i \in 0 .. n + 1 |-> IF i = 0 THEN 0 ELSE Step(h[i - 1], i)]
    BY <2>4, Zenon
  <2>6. \E k : Counts(k, s, n + 1)
    BY <2>5, Zenon DEF Counts, Step
  <2> QED
    BY <2>6
<1> HIDE DEF B
<1>3. \A n \in Nat : n \in B
  BY <1>1, <1>2, NatInduct, Zenon
<1> QED
  BY <1>3, Zenon DEF B

LEMMA KeepsExists ==
    ASSUME NEW s
    PROVE  \A n \in Nat : \E a : Keeps(a, s, n)
<1> DEFINE B == {n \in Nat : \E a : Keeps(a, s, n)}
           Step(x, i) == x \o (IF Known(s[i]) THEN <<s[i]>> ELSE <<>>)
<1>1. 0 \in B
  <2> DEFINE a == [i \in 0 .. 0 |-> <<>>]
  <2>1. a = [i \in 0 .. 0 |-> IF i = 0 THEN <<>> ELSE Step(a[i - 1], i)]
    OBVIOUS
  <2> QED
    BY <2>1, Zenon DEF Keeps
<1>2. ASSUME NEW n \in Nat, n \in B PROVE n + 1 \in B
  <2>1. PICK a : Keeps(a, s, n)
    BY <1>2, Zenon
  <2>2. \A i \in 0 .. n : a[i] = IF i = 0 THEN <<>> ELSE Step(a[i - 1], i)
    BY <2>1, Zenon DEF Keeps
  <2> HIDE DEF Step
  <2> DEFINE h == [i \in 0 .. n + 1 |-> IF i = 0 THEN <<>> ELSE Step(a[i - 1], i)]
  <2>3. \A i \in 0 .. n + 1 : i # 0 => i - 1 \in 0 .. n /\ i - 1 \in 0 .. n + 1
    OBVIOUS
  <2>4. \A i \in 0 .. n + 1 : i # 0 => h[i - 1] = a[i - 1]
    BY <2>2, <2>3, Zenon
  <2>5. h = [i \in 0 .. n + 1 |-> IF i = 0 THEN <<>> ELSE Step(h[i - 1], i)]
    BY <2>4, Zenon
  <2>6. \E k : Keeps(k, s, n + 1)
    BY <2>5, Zenon DEF Keeps, Step
  <2> QED
    BY <2>6
<1> HIDE DEF B
<1>3. \A n \in Nat : n \in B
  BY <1>1, <1>2, NatInduct, Zenon
<1> QED
  BY <1>3, Zenon DEF B

\* The equations of Ends and Accepted.
LEMMA EndsUnfolds ==
    ASSUME NEW s \in Seq(Sendable)
    PROVE  /\ Ends(s)[0] = 0
           /\ \A n \in 1 .. Len(s) : Ends(s)[n] = Ends(s)[n - 1] + HeaderSize + Len(s[n].payload)
<1> DEFINE e == CHOOSE x : Counts(x, s, Len(s))
<1>0. Len(s) \in Nat
  OBVIOUS
<1>1. Counts(e, s, Len(s))
  BY <1>0, CountsExists, Zenon
<1>2. Ends(s) = e
  BY Zenon DEF Ends, Counts
<1> HIDE DEF e
<1>3. e[0] = 0
  BY <1>0, <1>1 DEF Counts
<1>4. \A n \in 1 .. Len(s) : e[n] = e[n - 1] + HeaderSize + Len(s[n].payload)
  BY <1>0, <1>1 DEF Counts
<1> QED
  BY <1>2, <1>3, <1>4, Zenon

LEMMA AcceptedUnfolds ==
    ASSUME NEW s \in Seq(Sendable)
    PROVE  /\ Accepted(s)[0] = <<>>
           /\ \A n \in 1 .. Len(s) :
                  Accepted(s)[n] = Accepted(s)[n - 1] \o (IF Known(s[n]) THEN <<s[n]>> ELSE <<>>)
<1> DEFINE a == CHOOSE x : Keeps(x, s, Len(s))
<1>0. Len(s) \in Nat
  OBVIOUS
<1>1. Keeps(a, s, Len(s))
  BY <1>0, KeepsExists, Zenon
<1>2. Accepted(s) = a
  BY Zenon DEF Accepted, Keeps
<1> HIDE DEF a
<1>3. a[0] = <<>>
  BY <1>0, <1>1 DEF Keeps
<1> DEFINE Step(x, i) == x \o (IF Known(s[i]) THEN <<s[i]>> ELSE <<>>)
<1>4. a = [i \in 0 .. Len(s) |-> IF i = 0 THEN <<>> ELSE Step(a[i - 1], i)]
  BY <1>1, Zenon DEF Keeps
<1> HIDE DEF Step
<1>5. \A n \in 1 .. Len(s) : a[n] = Step(a[n - 1], n)
  BY <1>0, <1>4
<1> QED
  BY <1>2, <1>3, <1>5, Zenon DEF Step

\* A further frame changes neither for those before it.
LEMMA AcceptedSent ==
    ASSUME NEW s \in Seq(Sendable), NEW f \in Sendable, NEW n \in 0 .. Len(s)
    PROVE  Accepted(Append(s, f))[n] = Accepted(s)[n]
<1> DEFINE t == Append(s, f)
           B == {i \in Nat : i <= Len(s) => Accepted(t)[i] = Accepted(s)[i]}
<1>1. /\ t \in Seq(Sendable) /\ Len(t) = Len(s) + 1 /\ Len(s) \in Nat
      /\ \A i \in 1 .. Len(s) : t[i] = s[i]
  OBVIOUS
<1> HIDE DEF t
<1>2. 0 \in B
  BY <1>1, AcceptedUnfolds, Zenon
<1>3. ASSUME NEW i \in Nat, i \in B PROVE i + 1 \in B
  <2> SUFFICES ASSUME i + 1 <= Len(s) PROVE Accepted(t)[i + 1] = Accepted(s)[i + 1]
    OBVIOUS
  <2>1. /\ i + 1 \in 1 .. Len(s) /\ i + 1 \in 1 .. Len(t) /\ (i + 1) - 1 = i
        /\ Accepted(t)[i] = Accepted(s)[i]
    BY <1>1, <1>3
  <2> DEFINE x(q) == IF Known(q[i + 1]) THEN <<q[i + 1]>> ELSE <<>>
  <2>2. Accepted(t)[i + 1] = Accepted(t)[i] \o x(t)
    BY <1>1, <2>1, AcceptedUnfolds, Zenon
  <2>3. Accepted(s)[i + 1] = Accepted(s)[i] \o x(s)
    BY <2>1, AcceptedUnfolds, Zenon
  <2>4. x(t) = x(s)
    BY <1>1, <2>1, Zenon
  <2> HIDE DEF x
  <2> QED
    BY <2>1, <2>2, <2>3, <2>4, Zenon
<1> HIDE DEF B
<1>4. \A i \in Nat : i \in B
  BY <1>2, <1>3, NatInduct, Zenon
<1> QED
  BY <1>4 DEF B, t

\* Later frames end later.
LEMMA EndsGrow ==
    ASSUME NEW s \in Seq(Sendable)
    PROVE  /\ \A n \in 0 .. Len(s) : Ends(s)[n] \in Nat
           /\ \A n, k \in 0 .. Len(s) : n <= k => Ends(s)[n] <= Ends(s)[k]
<1> DEFINE E == Ends(s)
           B == {i \in Nat : i <= Len(s) => E[i] \in Nat}
           G(n) == {j \in Nat : n + j <= Len(s) => E[n] <= E[n + j]}
<1>0. Len(s) \in Nat /\ \A i \in 1 .. Len(s) : Len(s[i].payload) \in Nat
  <2>1. \A i \in 1 .. Len(s) : s[i] \in Sendable
    OBVIOUS
  <2> QED
    BY <2>1, HeaderFacts
<1>1. E[0] = 0 /\ \A n \in 1 .. Len(s) : E[n] = E[n - 1] + HeaderSize + Len(s[n].payload)
  BY EndsUnfolds, Zenon
<1> HIDE DEF E
<1>2. \A i \in Nat : i + 1 <= Len(s) =>
          E[i + 1] = E[i] + HeaderSize + Len(s[i + 1].payload) /\ Len(s[i + 1].payload) \in Nat
  <2> SUFFICES ASSUME NEW i \in Nat, i + 1 <= Len(s)
               PROVE  /\ E[i + 1] = E[i] + HeaderSize + Len(s[i + 1].payload)
                      /\ Len(s[i + 1].payload) \in Nat
    BY Zenon
  <2>1. i + 1 \in 1 .. Len(s) /\ (i + 1) - 1 = i
    BY <1>0
  <2> QED
    BY <1>0, <1>1, <2>1, Zenon
<1>3. 0 \in B
  BY <1>1
<1>3a. ASSUME NEW i \in Nat, i \in B PROVE i + 1 \in B
  <2> SUFFICES ASSUME i + 1 <= Len(s) PROVE E[i + 1] \in Nat
    OBVIOUS
  <2>1. E[i] \in Nat
    BY <1>0, <1>3a
  <2>2. E[i + 1] = E[i] + HeaderSize + Len(s[i + 1].payload) /\ Len(s[i + 1].payload) \in Nat
    BY <1>2, Zenon
  <2> QED
    BY <2>1, <2>2, Sizes
<1> HIDE DEF B
<1>4. \A i \in Nat : i \in B
  BY <1>3, <1>3a, NatInduct, Zenon
<1>5. \A i \in Nat : i <= Len(s) => E[i] \in Nat
  BY <1>4, Zenon DEF B
<1>6. ASSUME NEW n \in Nat PROVE \A j \in Nat : j \in G(n)
  <2>1. 0 \in G(n)
    BY <1>5
  <2>2. ASSUME NEW j \in Nat, j \in G(n) PROVE j + 1 \in G(n)
    <3> SUFFICES ASSUME n + (j + 1) <= Len(s) PROVE E[n] <= E[n + (j + 1)]
      OBVIOUS
    <3>1. /\ n + j \in Nat /\ n + j <= Len(s) /\ n + (j + 1) = (n + j) + 1 /\ n <= Len(s)
      BY <1>0
    <3>2. E[n] \in Nat /\ E[n + j] \in Nat /\ E[n] <= E[n + j]
      BY <1>5, <2>2, <3>1, Zenon
    <3>3. E[(n + j) + 1] = E[n + j] + HeaderSize + Len(s[(n + j) + 1].payload)
          /\ Len(s[(n + j) + 1].payload) \in Nat
      BY <1>2, <3>1, Zenon
    <3>4. E[n] <= E[(n + j) + 1]
      BY <3>2, <3>3, Sizes, SMTT(60)
    <3> QED
      BY <3>1, <3>4, Zenon
  <2> DEFINE C == G(n)
  <2> HIDE DEF G
  <2>3. 0 \in C /\ \A j \in Nat : j \in C => j + 1 \in C
    BY <2>1, <2>2, Zenon
  <2> HIDE DEF C
  <2>4. \A j \in Nat : j \in C
    BY <2>3, NatInduct, Zenon
  <2> QED
    BY <2>4, Zenon DEF C
<1>7. ASSUME NEW n \in 0 .. Len(s), NEW k \in 0 .. Len(s), n <= k PROVE E[n] <= E[k]
  <2>1. n \in Nat /\ k - n \in Nat /\ n + (k - n) = k /\ k <= Len(s)
    BY <1>7
  <2>2. k - n \in G(n)
    BY <1>6, <2>1, Zenon
  <2> QED
    BY <2>1, <2>2, Zenon
<1> QED
  BY <1>5, <1>7 DEF E

\* What remains is as long as the frames that are left.
LEMMA RemainsLength ==
    ASSUME NEW s \in Seq(Sendable), NEW n \in 0 .. Len(s), NEW r \in Seq(Byte), Remains(s, n, r)
    PROVE  Len(r) = Ends(s)[Len(s)] - Ends(s)[n]
<1> DEFINE L == Len(s)
           E == Ends(s)
<1>1. PICK cut \in [n .. L -> Seq(Byte)] :
          /\ cut[n] = r /\ cut[L] = <<>>
          /\ \A k \in n + 1 .. L : cut[k - 1] = Serialize(s[k]) \o cut[k]
  BY Zenon DEF Remains
<1>2. L \in Nat /\ n \in Nat /\ n <= L
  OBVIOUS
<1>3. /\ \A k \in 1 .. L : E[k] = E[k - 1] + HeaderSize + Len(s[k].payload)
      /\ \A k \in 0 .. L : E[k] \in Nat
  BY EndsUnfolds, EndsGrow, Zenon
<1>4. ASSUME NEW k \in 1 .. L
      PROVE  /\ Serialize(s[k]) \in Seq(Byte) /\ Len(s[k].payload) \in Nat
             /\ Len(Serialize(s[k])) = HeaderSize + Len(s[k].payload)
  <2>1. s[k] \in Sendable
    OBVIOUS
  <2>2. /\ HeaderOf(s[k]) \in Seq(Byte) /\ Len(HeaderOf(s[k])) = HeaderSize
        /\ s[k].payload \in Seq(Byte) /\ Serialize(s[k]) = HeaderOf(s[k]) \o s[k].payload
    BY <2>1, HeaderFacts, Zenon
  <2>3. Len(s[k].payload) \in Nat
    BY <2>2
  <2> QED
    BY <2>2, <2>3, Join, Zenon
<1> HIDE DEF E
<1> DEFINE B == {j \in Nat : n + j <= L => Len(cut[n + j]) + E[n + j] = Len(cut[n]) + E[n]}
<1>5. 0 \in B
  BY <1>1, <1>2, <1>3
<1>6. ASSUME NEW j \in Nat, j \in B PROVE j + 1 \in B
  <2> SUFFICES ASSUME n + (j + 1) <= L
               PROVE  Len(cut[n + (j + 1)]) + E[n + (j + 1)] = Len(cut[n]) + E[n]
    OBVIOUS
  <2> DEFINE k == n + (j + 1)
  <2>1. /\ k \in 1 .. L /\ k \in n + 1 .. L /\ k - 1 = n + j /\ n + j <= L
        /\ k \in n .. L /\ n + j \in n .. L /\ n \in n .. L
        /\ k \in 0 .. L /\ n + j \in 0 .. L /\ n \in 0 .. L
    BY <1>2
  <2>2. Len(cut[n + j]) + E[n + j] = Len(cut[n]) + E[n]
    BY <1>6, <2>1, Zenon
  <2> HIDE DEF k
  <2>3. cut[k] \in Seq(Byte) /\ cut[n + j] = Serialize(s[k]) \o cut[k]
    BY <1>1, <2>1, Zenon
  <2>4. Len(cut[n + j]) = (HeaderSize + Len(s[k].payload)) + Len(cut[k])
    BY <1>4, <2>1, <2>3, Join
  <2>5. E[k] = E[n + j] + HeaderSize + Len(s[k].payload)
    BY <1>3, <2>1, Zenon
  <2>6. /\ Len(cut[k]) \in Nat /\ Len(cut[n]) \in Nat /\ E[n + j] \in Nat /\ E[n] \in Nat
        /\ Len(s[k].payload) \in Nat
    BY <1>1, <1>3, <1>4, <2>1, <2>3
  <2>7. Len(cut[k]) + E[k] = Len(cut[n]) + E[n]
    <3> DEFINE lk == Len(cut[k])
               lj == Len(cut[n + j])
               ln == Len(cut[n])
               ek == E[k]
               ej == E[n + j]
               en == E[n]
               p == Len(s[k].payload)
    <3>1. /\ lj + ej = ln + en /\ lj = (HeaderSize + p) + lk /\ ek = ej + HeaderSize + p
          /\ lk \in Nat /\ ln \in Nat /\ ej \in Nat /\ en \in Nat /\ p \in Nat
      BY <2>2, <2>4, <2>5, <2>6, Zenon
    <3> HIDE DEF lk, lj, ln, ek, ej, en, p
    <3>2. lk + ek = ln + en
      BY <3>1, Sizes
    <3> QED
      BY <3>2, Zenon DEF lk, ek, ln, en
  <2> QED
    BY <2>7, Zenon DEF k
<1> HIDE DEF B
<1>7. \A j \in Nat : j \in B
  BY <1>5, <1>6, NatInduct, Zenon
<1>8. L - n \in Nat /\ n + (L - n) = L
  BY <1>2
<1>9. Len(cut[L]) + E[L] = Len(cut[n]) + E[n]
  <2> DEFINE m == L - n
  <2>1. m \in Nat /\ n + m = L
    BY <1>8, Zenon
  <2> HIDE DEF m
  <2>2. m \in B
    BY <1>7, <2>1, Zenon
  <2>3. n + m <= L => Len(cut[n + m]) + E[n + m] = Len(cut[n]) + E[n]
    BY <2>2, Zenon DEF B
  <2>4. n + m <= L
    BY <1>2, <2>1
  <2> QED
    BY <2>1, <2>3, <2>4, Zenon
<1>10. Len(cut[L]) = 0 /\ Len(r) \in Nat /\ E[L] \in Nat /\ E[n] \in Nat
  BY <1>1, <1>2, <1>3
<1> QED
  BY <1>1, <1>9, <1>10 DEF E

\* What the members of the parser say of the header it has read.
Exact(p) ==
    /\ p.state # "READING_HEADER" => Len(p.header) = HeaderSize
    /\ p.state = "READING_PAYLOAD" => p.expected = LengthField(p.header)
    /\ p.state = "FRAME_READY" =>
           Len(p.payload) = LengthField(p.header) /\ LengthField(p.header) <= MaxPayload
    /\ p.state = "ERROR_MALFORMED" => LengthField(p.header) > MaxPayload

\* The bytes a parser has taken.
Held(p) == p.header \o p.payload

LEMMA HeldBytes ==
    ASSUME NEW p, Sound(p)
    PROVE  /\ p.header \in Seq(Byte) /\ p.payload \in Seq(Byte) /\ Held(p) \in Seq(Byte)
           /\ Len(Held(p)) = Len(p.header) + Len(p.payload)
<1>1. p.header \in Seq(Byte) /\ p.payload \in Seq(Byte)
  BY Zenon DEF Sound, ParserRecord
<1> QED
  BY <1>1, Join, Zenon DEF Held

\* ParseHeader records the length of the header and keeps its bytes.
LEMMA ParseHeaderExact ==
    ASSUME NEW p \in ParserRecord, Len(p.header) = HeaderSize, p.payload = <<>>
    PROVE  LET q == ParseHeader(p) IN Exact(q) /\ q.header = p.header /\ q.payload = <<>>
<1> DEFINE n == LengthField(p.header)
<1>1. n \in Nat
  BY LengthIsNat, Zenon DEF ParserRecord
<1> DEFINE st == IF n > MaxPayload THEN "ERROR_MALFORMED"
                 ELSE IF n = 0 THEN "FRAME_READY" ELSE "READING_PAYLOAD"
<1>2. ParseHeader(p) = [p EXCEPT !.expected = n, !.state = st]
  BY Zenon DEF ParseHeader
<1> HIDE DEF n
<1>3. ParseHeader(p) = [state |-> st, header |-> p.header, payload |-> <<>>, expected |-> n]
  BY <1>2, Zenon DEF ParserRecord
<1> DEFINE q == [state |-> st, header |-> p.header, payload |-> <<>>, expected |-> n]
<1>4. Len(<<>>) = 0
  BY Zenon
<1>5. q.header = p.header /\ q.payload = <<>> /\ q.state = st /\ q.expected = n
  BY Zenon
<1> HIDE DEF q
<1>6. LengthField(q.header) = n
  BY <1>5, Zenon DEF n
<1>7. Exact(q)
  BY <1>1, <1>4, <1>5, <1>6, Sizes DEF Exact
<1> QED
  BY <1>3, <1>5, <1>7, Zenon DEF q

\* The header branch moves bytes from the piece to the parser.
LEMMA FeedHeaderMoves ==
    ASSUME NEW p, Sound(p), Exact(p), NEW data \in Seq(Byte)
    PROVE  LET r == FeedHeader(p, data)
           IN  /\ Exact(r.parser)
               /\ Held(r.parser) \o r.data = Held(p) \o data
               /\ p.state = "READING_HEADER" /\ data # <<>> => Len(r.data) < Len(data)
               /\ p.state # "READING_HEADER" => r.parser = p /\ r.data = data
               /\ Len(r.data) <= Len(data)
<1> DEFINE r == FeedHeader(p, data)
<1>0. Len(data) \in Nat
  OBVIOUS
<1>1. CASE p.state # "READING_HEADER" \/ data = <<>>
  <2>1. r.parser = p /\ r.data = data
    BY <1>1, Zenon DEF FeedHeader
  <2> HIDE DEF r
  <2>2. Exact(r.parser) /\ Held(r.parser) \o r.data = Held(p) \o data /\ Len(r.data) <= Len(data)
    BY <1>0, <2>1
  <2> QED
    BY <1>1, <2>1, <2>2, Zenon DEF r
<1>2. CASE p.state = "READING_HEADER" /\ data # <<>>
  <2> DEFINE n == Least(HeaderSize - Len(p.header), Len(data))
             hd == p.header \o First(data, n)
             q == [p EXCEPT !.header = hd]
  <2>1. /\ p \in ParserRecord /\ Len(p.header) \in Nat /\ Len(p.header) < HeaderSize
        /\ p.payload = <<>> /\ p.header \in Seq(Byte) /\ p.expected \in Nat
        /\ Len(data) \in Nat /\ Len(data) > 0 /\ HeaderSize - Len(p.header) \in Nat
        /\ HeaderSize - Len(p.header) > 0
    BY <1>2, Sizes DEF Sound, ParserRecord
  <2>2. n \in Nat /\ n <= Len(data) /\ n > 0
    BY <2>1, LeastIsBound, Zenon DEF Least
  <2>3. /\ First(data, n) \in Seq(Byte) /\ Len(First(data, n)) = n
        /\ Rest(data, n) \in Seq(Byte) /\ Len(Rest(data, n)) = Len(data) - n
        /\ First(data, n) \o Rest(data, n) = data
    BY <2>2, Split, SplitJoins, Zenon
  <2> HIDE DEF n
  <2>5. hd \in Seq(Byte) /\ hd \o Rest(data, n) = p.header \o data
    <3>1. hd \in Seq(Byte)
      BY <2>1, <2>3, Join, Zenon
    <3>2. (p.header \o First(data, n)) \o Rest(data, n)
              = p.header \o (First(data, n) \o Rest(data, n))
      BY <2>1, <2>3, Regroup, Zenon
    <3> QED
      BY <2>3, <3>1, <3>2, Zenon
  <2> HIDE DEF hd
  <2>4. q = [state |-> "READING_HEADER", header |-> hd,
             payload |-> <<>>, expected |-> p.expected]
    BY <1>2, <2>1, SMTT(30) DEF ParserRecord
  <2>6. q \in ParserRecord /\ q.header = hd /\ q.payload = <<>> /\ q.state = "READING_HEADER"
    BY <2>1, <2>4, <2>5, Zenon DEF ParserRecord, AnyState
  <2>7. r = [parser |-> IF Len(q.header) = HeaderSize THEN ParseHeader(q) ELSE q,
             data |-> Rest(data, n)]
    BY <1>2, Zenon DEF FeedHeader, n, hd
  <2> HIDE DEF q, r
  <2>8. r.data = Rest(data, n) /\ Len(r.data) < Len(data) /\ Len(r.data) <= Len(data)
    BY <2>2, <2>3, <2>7
  <2>9. Exact(r.parser) /\ r.parser.header = hd /\ r.parser.payload = <<>>
    <3>1. CASE Len(q.header) = HeaderSize
      <4>1. r.parser = ParseHeader(q)
        BY <2>7, <3>1, Zenon
      <4> QED
        BY <2>6, <3>1, <4>1, ParseHeaderExact, Zenon
    <3>2. CASE Len(q.header) # HeaderSize
      <4>1. r.parser = q
        BY <2>7, <3>2, Zenon
      <4> QED
        BY <2>6, <4>1, Zenon DEF Exact
    <3> QED
      BY <3>1, <3>2, Zenon
  <2>10. Held(r.parser) = hd /\ Held(p) = p.header
    BY <2>1, <2>5, <2>9 DEF Held
  <2>11. Held(r.parser) \o r.data = Held(p) \o data
    BY <2>5, <2>8, <2>10, Zenon
  <2> QED
    BY <1>2, <2>8, <2>9, <2>11, Zenon DEF r
<1> QED
  BY <1>1, <1>2, Zenon

\* So does the payload branch.
LEMMA FeedPayloadMoves ==
    ASSUME NEW p, Sound(p), Exact(p), NEW data \in Seq(Byte)
    PROVE  LET r == FeedPayload(p, data)
           IN  /\ Exact(r.parser)
               /\ Held(r.parser) \o r.data = Held(p) \o data
               /\ p.state = "READING_PAYLOAD" /\ data # <<>> => Len(r.data) < Len(data)
               /\ Len(r.data) <= Len(data)
<1> DEFINE r == FeedPayload(p, data)
<1>0. Len(data) \in Nat
  OBVIOUS
<1>1. CASE p.state # "READING_PAYLOAD" \/ data = <<>>
  <2>1. r.parser = p /\ r.data = data
    BY <1>1, Zenon DEF FeedPayload
  <2> HIDE DEF r
  <2>2. Exact(r.parser) /\ Held(r.parser) \o r.data = Held(p) \o data /\ Len(r.data) <= Len(data)
    BY <1>0, <2>1
  <2> QED
    BY <1>1, <2>1, <2>2, Zenon DEF r
<1>2. CASE p.state = "READING_PAYLOAD" /\ data # <<>>
  <2> DEFINE n == Least(p.expected - Len(p.payload), Len(data))
             pl == p.payload \o First(data, n)
             q == [p EXCEPT !.payload = pl]
  <2>1. /\ p \in ParserRecord /\ Len(p.payload) \in Nat /\ Len(p.payload) < p.expected
        /\ p.header \in Seq(Byte) /\ p.payload \in Seq(Byte) /\ p.expected \in Nat
        /\ Len(p.header) = HeaderSize /\ p.expected = LengthField(p.header)
        /\ p.expected <= MaxPayload
    BY <1>2 DEF Sound, Exact, ParserRecord
  <2>1a. /\ Len(data) \in Nat /\ Len(data) > 0 /\ p.expected - Len(p.payload) \in Nat
         /\ p.expected - Len(p.payload) > 0
    BY <1>2, <2>1
  <2>2. n \in Nat /\ n <= Len(data) /\ n > 0
    BY <2>1a, LeastIsBound, Zenon DEF Least
  <2>3. /\ First(data, n) \in Seq(Byte)
        /\ Rest(data, n) \in Seq(Byte) /\ Len(Rest(data, n)) = Len(data) - n
        /\ First(data, n) \o Rest(data, n) = data
    BY <2>2, Split, SplitJoins, Zenon
  <2> HIDE DEF n
  <2>5. pl \in Seq(Byte) /\ pl \o Rest(data, n) = p.payload \o data
    <3>1. pl \in Seq(Byte)
      BY <2>1, <2>3, Join, Zenon
    <3>2. (p.payload \o First(data, n)) \o Rest(data, n)
              = p.payload \o (First(data, n) \o Rest(data, n))
      BY <2>1, <2>3, Regroup, ZenonT(20)
    <3> QED
      BY <2>3, <3>1, <3>2, Zenon
  <2> HIDE DEF pl
  <2>4. q = [state |-> "READING_PAYLOAD", header |-> p.header,
             payload |-> pl, expected |-> p.expected]
    BY <1>2, <2>1, SMTT(30) DEF ParserRecord
  <2> DEFINE st == IF Len(pl) = p.expected THEN "FRAME_READY" ELSE "READING_PAYLOAD"
             t == [state |-> st, header |-> p.header, payload |-> pl, expected |-> p.expected]
  <2>7. r = [parser |-> IF Len(q.payload) = q.expected
                        THEN [q EXCEPT !.state = "FRAME_READY"] ELSE q,
             data |-> Rest(data, n)]
    BY <1>2, Zenon DEF FeedPayload, n, pl
  <2>6. r.parser = t
    <3>1. q.payload = pl /\ q.expected = p.expected
      BY <2>4, Zenon
    <3> HIDE DEF r
    <3>2. CASE Len(pl) = p.expected
      <4>1. r.parser = [q EXCEPT !.state = "FRAME_READY"]
        BY <2>7, <3>1, <3>2, Zenon
      <4> HIDE DEF q
      <4> QED
        BY <2>4, <3>2, <4>1, Zenon
    <3>3. CASE Len(pl) # p.expected
      <4>1. r.parser = q
        BY <2>7, <3>1, <3>3, Zenon
      <4> HIDE DEF q
      <4> QED
        BY <2>4, <3>3, <4>1, Zenon
    <3> QED
      BY <3>2, <3>3, Zenon
  <2> HIDE DEF q, r
  <2>8. r.data = Rest(data, n) /\ Len(r.data) < Len(data) /\ Len(r.data) <= Len(data)
    BY <2>2, <2>3, <2>7
  <2>9. /\ r.parser.header = p.header /\ r.parser.payload = pl
        /\ r.parser.state = st /\ r.parser.expected = p.expected
    BY <2>6
  <2> HIDE DEF t
  <2>10. Exact(r.parser)
    BY <2>1, <2>9, Zenon DEF Exact
  <2>11. Held(r.parser) \o r.data = Held(p) \o data
    <3>1. Held(r.parser) \o r.data = p.header \o (pl \o Rest(data, n))
      <4>1. (p.header \o pl) \o Rest(data, n) = p.header \o (pl \o Rest(data, n))
        <5> DEFINE hd == p.header
                   rd == Rest(data, n)
        <5>1. hd \in Seq(Byte) /\ pl \in Seq(Byte) /\ rd \in Seq(Byte)
          BY <2>1, <2>3, <2>5, Zenon
        <5> HIDE DEF hd, rd
        <5>2. (hd \o pl) \o rd = hd \o (pl \o rd)
          BY <5>1, Regroup, SMTT(30)
        <5> QED
          BY <5>2, Zenon DEF hd, rd
      <4>2. Held(r.parser) = p.header \o pl
        BY <2>9, Zenon DEF Held
      <4> QED
        BY <2>8, <4>1, <4>2, Zenon
    <3>2. Held(p) \o data = p.header \o (p.payload \o data)
      BY <2>1, Regroup, Zenon DEF Held
    <3> QED
      BY <2>5, <3>1, <3>2, Zenon
  <2> QED
    BY <1>2, <2>8, <2>10, <2>11, Zenon DEF r
<1> QED
  BY <1>1, <1>2, Zenon

\* FeedBytes moves bytes from the piece to the parser, and at least one.
LEMMA FeedBytesMoves ==
    ASSUME NEW p, Sound(p), Exact(p), NEW data \in Seq(Byte), data # <<>>,
           p.state \in {"READING_HEADER", "READING_PAYLOAD"}
    PROVE  LET r == FeedBytes(p, data)
           IN  /\ Exact(r.parser)
               /\ Held(r.parser) \o r.data = Held(p) \o data
               /\ r.data # data
<1> DEFINE u == FeedHeader(p, data)
           r == FeedPayload(u.parser, u.data)
<1>1. /\ Sound(u.parser) /\ u.data \in Seq(Byte)
      /\ Exact(u.parser) /\ Held(u.parser) \o u.data = Held(p) \o data
      /\ p.state = "READING_HEADER" => Len(u.data) < Len(data)
      /\ p.state # "READING_HEADER" => u.parser = p /\ u.data = data
      /\ Len(u.data) <= Len(data)
  BY FeedHeaderSound, FeedHeaderMoves, Zenon
<1> HIDE DEF u
<1>2. /\ r.data \in Seq(Byte) /\ Exact(r.parser)
      /\ Held(r.parser) \o r.data = Held(u.parser) \o u.data
      /\ u.parser.state = "READING_PAYLOAD" /\ u.data # <<>> => Len(r.data) < Len(u.data)
      /\ Len(r.data) <= Len(u.data)
  BY <1>1, FeedPayloadSound, FeedPayloadMoves, Zenon
<1> HIDE DEF r
<1>3. Len(r.data) \in Nat /\ Len(u.data) \in Nat /\ Len(data) \in Nat
  BY <1>1, <1>2
<1>4. Len(r.data) < Len(data)
  <2>1. CASE p.state = "READING_HEADER"
    BY <1>1, <1>2, <1>3, <2>1
  <2>2. CASE p.state = "READING_PAYLOAD"
    BY <1>1, <1>2, <1>3, <2>2, Zenon
  <2> QED
    BY <2>1, <2>2, Zenon
<1>5. r.data # data
  BY <1>3, <1>4
<1>6. Held(r.parser) \o r.data = Held(p) \o data
  BY <1>1, <1>2, Zenon
<1>7. FeedBytes(p, data) = r
  BY Zenon DEF FeedBytes, r, u
<1> QED
  BY <1>2, <1>5, <1>6, <1>7, Zenon

\* The bytes of no extracted frame: those the parser holds, then the rest.
Unread == Held(parser) \o (span \o wire)

\* n frames are dealt with, and the unread bytes are those of the others.
Dealt(n) ==
    /\ Remains(sent, n, Unread)
    /\ \A i \in 1 .. n : WellSized(sent[i])
    /\ got = Accepted(sent)[n]

\* The inductive invariant: the bytes that are held, being parsed and not yet
\* arrived are together those of the frames not dealt with.
ChunkInv ==
    /\ ParserInv
    /\ Exact(parser)
    /\ open <=> parser.state # "ERROR_MALFORMED"
    /\ \E n \in 0 .. Len(sent) : Dealt(n)

\* How many bytes are unread.
LEMMA UnreadBytes ==
    ASSUME ParserInv
    PROVE  /\ Held(parser) \in Seq(Byte) /\ span \o wire \in Seq(Byte) /\ Unread \in Seq(Byte)
           /\ Len(Unread) = Len(parser.header) + Len(parser.payload) + Len(span) + Len(wire)
           /\ Len(parser.header) \in Nat /\ Len(parser.payload) \in Nat
           /\ Len(span) \in Nat /\ Len(wire) \in Nat
<1>1. /\ wire \in Seq(Byte) /\ span \in Seq(Byte) /\ Sound(parser)
  BY Zenon DEF ParserInv
<1>2. /\ Held(parser) \in Seq(Byte) /\ parser.header \in Seq(Byte) /\ parser.payload \in Seq(Byte)
      /\ Len(Held(parser)) = Len(parser.header) + Len(parser.payload)
  BY <1>1, HeldBytes, Zenon
<1>3. span \o wire \in Seq(Byte) /\ Len(span \o wire) = Len(span) + Len(wire)
  BY <1>1, Join, Zenon
<1>4. Unread \in Seq(Byte) /\ Len(Unread) = Len(Held(parser)) + Len(span \o wire)
  BY <1>2, <1>3, Join, Zenon DEF Unread
<1>5. /\ Len(parser.header) \in Nat /\ Len(parser.payload) \in Nat
      /\ Len(span) \in Nat /\ Len(wire) \in Nat
  BY <1>1, <1>2
<1>6. Len(Unread) = Len(parser.header) + Len(parser.payload) + Len(span) + Len(wire)
  <2> DEFINE a == Len(parser.header)
             b == Len(parser.payload)
             c == Len(span)
             d == Len(wire)
  <2>1. a \in Nat /\ b \in Nat /\ c \in Nat /\ d \in Nat /\ Len(Unread) = (a + b) + (c + d)
    BY <1>2, <1>3, <1>4, <1>5, Zenon
  <2> HIDE DEF a, b, c, d
  <2>2. Len(Unread) = a + b + c + d
    BY <2>1
  <2> QED
    BY <2>2, Zenon DEF a, b, c, d
<1> QED
  BY <1>2, <1>3, <1>4, <1>5, <1>6, Zenon

\* A parser with a complete header has that of the next frame.
LEMMA CompleteHeader ==
    ASSUME NEW s \in Seq(Sendable), NEW n \in 0 .. Len(s), NEW p, Sound(p),
           Len(p.header) = HeaderSize, NEW x \in Seq(Byte), Remains(s, n, Held(p) \o x)
    PROVE  /\ n < Len(s) /\ s[n + 1] \in Sendable
           /\ p.header = HeaderOf(s[n + 1])
           /\ LengthField(p.header) = Len(s[n + 1].payload)
           /\ \E y \in Seq(Byte) : p.payload \o x = s[n + 1].payload \o y /\ Remains(s, n + 1, y)
<1> DEFINE r == Held(p) \o x
           f == s[n + 1]
<1>1. /\ p.header \in Seq(Byte) /\ p.payload \in Seq(Byte) /\ Held(p) \in Seq(Byte)
      /\ Len(Held(p)) = Len(p.header) + Len(p.payload)
  BY HeldBytes, Zenon
<1>2. r \in Seq(Byte) /\ Len(r) = Len(Held(p)) + Len(x)
  BY <1>1, Join, Zenon
<1>3. p.header \o (p.payload \o x) = r /\ p.payload \o x \in Seq(Byte)
  <2>1. (p.header \o p.payload) \o x = p.header \o (p.payload \o x)
    BY <1>1, Regroup, ZenonT(60)
  <2>2. p.payload \o x \in Seq(Byte)
    BY <1>1, Join, Zenon
  <2> QED
    BY <2>1, <2>2, Zenon DEF Held
<1>4. Remains(s, n, r)
  BY Zenon
<1> HIDE DEF r
<1>5. r # <<>>
  <2>1. Len(p.payload) \in Nat /\ Len(x) \in Nat
    BY <1>1
  <2>2. Len(r) > 0
    <3> DEFINE a == Len(p.payload)
               b == Len(x)
    <3>1. Len(r) = (HeaderSize + a) + b /\ a \in Nat /\ b \in Nat
      BY <1>1, <1>2, <2>1, Zenon
    <3> HIDE DEF a, b
    <3> QED
      BY <3>1, Sizes
  <2> QED
    BY <2>2
<1>6. /\ n < Len(s) /\ f \in Sendable
      /\ \E y \in Seq(Byte) : r = Serialize(f) \o y /\ Remains(s, n + 1, y)
  BY <1>2, <1>4, <1>5, RemainsNext, Zenon
<1> HIDE DEF f
<1>7. PICK y \in Seq(Byte) : r = Serialize(f) \o y /\ Remains(s, n + 1, y)
  BY <1>6, Zenon
<1> DEFINE z == p.payload \o x
<1>8. z \in Seq(Byte) /\ p.header \o z = Serialize(f) \o y
  BY <1>3, <1>7, Zenon
<1> HIDE DEF z
<1>9. p.header = HeaderOf(f) /\ z = f.payload \o y
  <2> DEFINE hd == p.header
             hf == HeaderOf(f)
             pf == f.payload
  <2>1. /\ hd \in Seq(Byte) /\ Len(hd) = HeaderSize /\ hd \o z = Serialize(f) \o y
        /\ hf \in Seq(Byte) /\ Len(hf) = HeaderSize
        /\ pf \in Seq(Byte) /\ Serialize(f) = hf \o pf
        /\ z \in Seq(Byte) /\ y \in Seq(Byte)
    BY <1>1, <1>6, <1>7, <1>8, HeaderFacts, Zenon
  <2> HIDE DEF hd, hf, pf
  <2>2. (hf \o pf) \o y = hf \o (pf \o y) /\ pf \o y \in Seq(Byte)
    <3>1. hf \in Seq(Byte) /\ pf \in Seq(Byte) /\ y \in Seq(Byte)
      BY <2>1, Zenon
    <3>2. (hf \o pf) \o y = hf \o (pf \o y)
      BY <3>1, Regroup, ZenonT(20)
    <3>3. pf \o y \in Seq(Byte)
      BY <3>1, Join, Zenon
    <3> QED
      BY <3>2, <3>3, Zenon
  <2> DEFINE v == pf \o y
  <2>3. hd \o z = hf \o v /\ v \in Seq(Byte)
    BY <2>1, <2>2, Zenon
  <2> HIDE DEF v
  <2>4. hd = hf /\ z = v
    BY <2>1, <2>3, SameSplit, Zenon
  <2> QED
    BY <2>4, Zenon DEF hd, hf, pf, v
<1>10. LengthField(p.header) = Len(f.payload)
  BY <1>6, <1>9, HeaderLength, Zenon
<1> QED
  BY <1>6, <1>7, <1>9, <1>10, Zenon DEF z, f

\* At first nothing is sent and nothing unread.
LEMMA InitChunkInv == Init => ChunkInv
<1> SUFFICES ASSUME Init PROVE ChunkInv
  BY Zenon
<1>1. ParserInv
  BY InitParserInv, Zenon
<1>2. /\ sent = <<>> /\ wire = <<>> /\ span = <<>> /\ got = <<>> /\ open = TRUE
      /\ parser.state = "READING_HEADER" /\ parser.header = <<>> /\ parser.payload = <<>>
  BY Zenon DEF Init, Fresh
<1>3. Exact(parser)
  BY <1>2, Zenon DEF Exact
<1>4. Unread = <<>>
  BY <1>2 DEF Unread, Held
<1>5. Len(sent) = 0 /\ sent \in Seq(Sendable)
  BY <1>2
<1>6. Remains(sent, 0, Unread)
  <2> DEFINE cut == [k \in 0 .. 0 |-> <<>>]
  <2>1. cut \in [0 .. 0 -> Seq(Byte)] /\ cut[0] = <<>>
    OBVIOUS
  <2>2. \A k \in 0 + 1 .. 0 : cut[k - 1] = Serialize(sent[k]) \o cut[k]
    OBVIOUS
  <2> HIDE DEF cut
  <2> QED
    BY <1>4, <1>5, <2>1, <2>2, Zenon DEF Remains
<1>7. Accepted(sent)[0] = <<>>
  BY <1>5, AcceptedUnfolds, Zenon
<1>8. Dealt(0)
  BY <1>2, <1>6, <1>7 DEF Dealt
<1> QED
  BY <1>1, <1>2, <1>3, <1>5, <1>8 DEF ChunkInv

\* SendFrame adds a frame and its bytes.
LEMMA SendKeepsDealt ==
    ASSUME ChunkInv, NEW f \in Sendable, SendFrame(f), ParserInv'
    PROVE  ChunkInv'
<1>1. /\ sent' = Append(sent, f) /\ wire' = wire \o Serialize(f)
      /\ span' = span /\ parser' = parser /\ got' = got /\ open' = open
  BY Zenon DEF SendFrame
<1>2. sent \in Seq(Sendable) /\ wire \in Seq(Byte) /\ span \in Seq(Byte) /\ Sound(parser)
  BY Zenon DEF ChunkInv, ParserInv
<1>3. PICK n \in 0 .. Len(sent) : Dealt(n)
  BY Zenon DEF ChunkInv
<1>4. /\ n \in 0 .. Len(sent') /\ Len(sent) \in Nat
      /\ \A i \in 1 .. Len(sent) : sent'[i] = sent[i]
  BY <1>1, <1>2
<1>5. Unread' = Unread \o Serialize(f)
  <2> DEFINE h == Held(parser)
             b == Serialize(f)
  <2>1. h \in Seq(Byte) /\ b \in Seq(Byte) /\ span \o wire \in Seq(Byte)
    BY <1>2, HeldBytes, SerializedBytes, Join, Zenon
  <2>2. Unread' = h \o (span \o (wire \o b)) /\ Unread = h \o (span \o wire)
    BY <1>1, Zenon DEF Unread, Held
  <2> HIDE DEF h, b
  <2>3. (span \o wire) \o b = span \o (wire \o b)
    BY <1>2, <2>1, Regroup
  <2>4. (h \o (span \o wire)) \o b = h \o ((span \o wire) \o b)
    BY <2>1, Regroup, Zenon
  <2>5. Unread' = Unread \o b
    BY <2>2, <2>3, <2>4, Zenon
  <2> QED
    BY <2>5, Zenon DEF b
<1>6. Remains(sent', n, Unread')
  <2>1. Unread \in Seq(Byte) /\ Remains(sent, n, Unread)
    BY <1>3, UnreadBytes, Zenon DEF ChunkInv, Dealt
  <2>2. Remains(Append(sent, f), n, Unread \o Serialize(f))
    BY <1>2, <2>1, RemainsSent, Zenon
  <2> QED
    BY <1>1, <1>5, <2>2, Zenon
<1>7. got' = Accepted(sent')[n]
  <2>1. Accepted(Append(sent, f))[n] = Accepted(sent)[n]
    BY <1>2, AcceptedSent, Zenon
  <2>2. got = Accepted(sent)[n]
    BY <1>3, Zenon DEF Dealt
  <2> QED
    BY <1>1, <2>1, <2>2, Zenon
<1>8. \A i \in 1 .. n : WellSized(sent'[i])
  <2>1. \A i \in 1 .. n : WellSized(sent[i]) /\ i \in 1 .. Len(sent)
    BY <1>3, <1>4 DEF Dealt
  <2> QED
    BY <1>4, <2>1, Zenon
<1>9. Dealt(n)'
  BY <1>6, <1>7, <1>8, Zenon DEF Dealt
<1>10. Exact(parser') /\ (open' <=> parser'.state # "ERROR_MALFORMED")
  BY <1>1, Zenon DEF ChunkInv
<1> QED
  BY <1>4, <1>9, <1>10, Zenon DEF ChunkInv

\* A read moves bytes from the wire to the span, wherever it cuts.
LEMMA ReadKeepsDealt ==
    ASSUME ChunkInv, ReadSome, ParserInv'
    PROVE  ChunkInv'
<1>1. PICK m \in 1 .. Least(MaxChunk, Len(wire)) : span' = First(wire, m) /\ wire' = Rest(wire, m)
  BY Zenon DEF ReadSome
<1>2. span = <<>> /\ sent' = sent /\ parser' = parser /\ got' = got /\ open' = open
  BY Zenon DEF ReadSome
<1>3. wire \in Seq(Byte)
  BY Zenon DEF ChunkInv, ParserInv
<1>4. m \in Nat /\ m <= Len(wire)
  BY <1>3, ParserAssumption DEF Least
<1>5. First(wire, m) \o Rest(wire, m) = wire
  BY <1>3, <1>4, SplitJoins, Zenon
<1>6. span' \o wire' = span \o wire
  <2>1. span \o wire = wire
    BY <1>2, <1>3
  <2> QED
    BY <1>1, <1>5, <2>1, Zenon
<1>7. Unread' = Unread
  BY <1>2, <1>6, Zenon DEF Unread
<1>8. PICK n \in 0 .. Len(sent) : Dealt(n)
  BY Zenon DEF ChunkInv
<1>9. Dealt(n)'
  BY <1>2, <1>7, <1>8, Zenon DEF Dealt
<1>10. Exact(parser') /\ (open' <=> parser'.state # "ERROR_MALFORMED")
  BY <1>2, Zenon DEF ChunkInv
<1> QED
  BY <1>2, <1>9, <1>10, Zenon DEF ChunkInv

\* The read loop moves bytes to the parser, and a complete frame to the session.
LEMMA ConsumeKeepsDealt ==
    ASSUME ChunkInv, ConsumeSpan, ParserInv'
    PROVE  ChunkInv'
<1> DEFINE fed == FeedBytes(parser, span)
           taken == TryExtractFrame(fed.parser)
<1>1. /\ sent \in Seq(Sendable) /\ wire \in Seq(Byte) /\ span \in Seq(Byte) /\ Sound(parser)
      /\ Exact(parser) /\ got \in Seq(AnyFrame)
      /\ parser.state \in {"READING_HEADER", "READING_PAYLOAD"}
  <2>1. open /\ parser.state # "ERROR_MALFORMED" /\ parser.state # "FRAME_READY" /\ Sound(parser)
    BY Zenon DEF ConsumeSpan, ChunkInv, ParserInv
  <2>2. parser.state \in AnyState
    BY <2>1, Zenon DEF Sound, ParserRecord
  <2> QED
    BY <2>1, <2>2, Zenon DEF ChunkInv, ParserInv, AnyState
<1>2. span # <<>> /\ sent' = sent /\ wire' = wire /\ span' = fed.data
  BY Zenon DEF ConsumeSpan
<1>3. /\ Sound(fed.parser) /\ fed.data \in Seq(Byte) /\ Exact(fed.parser)
      /\ Held(fed.parser) \o fed.data = Held(parser) \o span /\ fed.data # span
  BY <1>1, <1>2, FeedBytesSound, FeedBytesMoves, Zenon
<1>4. /\ fed.parser.state = "ERROR_MALFORMED" =>
             parser' = fed.parser /\ open' = FALSE /\ got' = got
      /\ fed.parser.state # "ERROR_MALFORMED" =>
             parser' = taken.parser /\ got' = got \o taken.frames /\ open' = (fed.data # span)
  BY Zenon DEF ConsumeSpan
<1> HIDE DEF fed
<1> DEFINE h == Held(fed.parser)
<1>5. Unread = h \o (fed.data \o wire) /\ fed.data \o wire \in Seq(Byte)
  <2>1. /\ Held(parser) \in Seq(Byte) /\ h \in Seq(Byte)
    BY <1>1, <1>3, HeldBytes, Zenon
  <2>2. (Held(parser) \o span) \o wire = Held(parser) \o (span \o wire)
    BY <1>1, <2>1, Regroup, ZenonT(60)
  <2>3. (h \o fed.data) \o wire = h \o (fed.data \o wire)
    BY <1>1, <1>3, <2>1, Regroup, ZenonT(60)
  <2>4. fed.data \o wire \in Seq(Byte)
    BY <1>1, <1>3, Join, Zenon
  <2> QED
    BY <1>3, <2>2, <2>3, <2>4, Zenon DEF Unread
<1>6. PICK n \in 0 .. Len(sent) : Dealt(n)
  BY Zenon DEF ChunkInv
<1>7. CASE fed.parser.state # "FRAME_READY"
  <2>1. parser' = fed.parser /\ got' = got
        /\ (open' <=> fed.parser.state # "ERROR_MALFORMED")
    <3>1. CASE fed.parser.state = "ERROR_MALFORMED"
      BY <1>4, <3>1, Zenon
    <3>2. CASE fed.parser.state # "ERROR_MALFORMED"
      <4>1. taken.parser = fed.parser /\ taken.frames = <<>>
        BY <1>7, Zenon DEF TryExtractFrame
      <4>2. got \o <<>> = got
        BY <1>1
      <4> HIDE DEF taken
      <4> QED
        BY <1>3, <1>4, <3>2, <4>1, <4>2, Zenon
    <3> QED
      BY <3>1, <3>2, Zenon
  <2>2. Unread' = Unread
    BY <1>2, <1>5, <2>1, Zenon DEF Unread
  <2>3. Dealt(n)'
    BY <1>2, <1>6, <2>1, <2>2, Zenon DEF Dealt
  <2>4. Exact(parser') /\ (open' <=> parser'.state # "ERROR_MALFORMED")
    BY <1>3, <2>1, Zenon
  <2> QED
    BY <1>2, <2>3, <2>4, Zenon DEF ChunkInv
<1>8. CASE fed.parser.state = "FRAME_READY"
  <2> DEFINE f == sent[n + 1]
             x == fed.data \o wire
  <2>1. taken.parser = Fresh /\ taken.frames = Extracted(fed.parser)
    BY <1>8, Zenon DEF TryExtractFrame
  <2>2. parser' = Fresh /\ got' = got \o Extracted(fed.parser) /\ open' = TRUE
    <3> HIDE DEF taken
    <3> QED
      BY <1>3, <1>4, <1>8, <2>1, Zenon
  <2>3. /\ Len(fed.parser.header) = HeaderSize
        /\ Len(fed.parser.payload) = LengthField(fed.parser.header)
        /\ LengthField(fed.parser.header) <= MaxPayload
        /\ fed.parser.payload \in Seq(Byte)
    BY <1>3, <1>8, HeldBytes, Zenon DEF Exact
  <2>4. Remains(sent, n, Held(fed.parser) \o x) /\ x \in Seq(Byte)
    BY <1>5, <1>6, Zenon DEF Dealt
  <2> HIDE DEF x
  <2>5. /\ n < Len(sent) /\ f \in Sendable
        /\ fed.parser.header = HeaderOf(f)
        /\ LengthField(fed.parser.header) = Len(f.payload)
        /\ \E y \in Seq(Byte) : fed.parser.payload \o x = f.payload \o y /\ Remains(sent, n + 1, y)
    BY <1>1, <1>3, <2>3, <2>4, CompleteHeader, ZenonT(20)
  <2>6. PICK y \in Seq(Byte) :
            fed.parser.payload \o x = f.payload \o y /\ Remains(sent, n + 1, y)
    BY <2>5, Zenon
  <2> HIDE DEF f
  <2>7. f.payload \in Seq(Byte)
    BY <2>5, HeaderFacts, Zenon
  <2>8. fed.parser.payload = f.payload /\ x = y
    BY <2>3, <2>4, <2>5, <2>6, <2>7, SameSplit, Zenon
  <2>9. Unread' = x
    <3>1. parser'.header = <<>> /\ parser'.payload = <<>>
      BY <2>2, Zenon DEF Fresh
    <3>2. Unread' = (<<>> \o <<>>) \o x
      BY <1>2, <3>1, Zenon DEF Unread, Held, x
    <3>3. <<>> \o <<>> = <<>> /\ <<>> \o x = x
      BY <2>4
    <3> QED
      BY <3>2, <3>3, Zenon
  <2>10. Remains(sent', n + 1, Unread')
    BY <1>2, <2>6, <2>8, <2>9, Zenon
  <2>11. n + 1 \in 0 .. Len(sent') /\ n + 1 \in 1 .. Len(sent) /\ (n + 1) - 1 = n
    BY <1>1, <1>2, <2>5
  <2>12. got' = Accepted(sent')[n + 1]
    <3> DEFINE k == IF Known(f) THEN <<f>> ELSE <<>>
    <3>1. Extracted(fed.parser) = k
      BY <2>5, <2>8, ExtractedOf, Zenon
    <3>2. Accepted(sent)[n + 1] = Accepted(sent)[n] \o k
      BY <1>1, <2>11, AcceptedUnfolds, Zenon DEF f
    <3>3. got = Accepted(sent)[n]
      BY <1>6, Zenon DEF Dealt
    <3> HIDE DEF k
    <3> QED
      BY <1>2, <2>2, <3>1, <3>2, <3>3, Zenon
  <2>13. \A i \in 1 .. n + 1 : WellSized(sent'[i])
    <3>1. WellSized(f)
      BY <2>3, <2>5, Zenon DEF WellSized
    <3>2. \A i \in 1 .. n + 1 : i \in 1 .. n \/ i = n + 1
      OBVIOUS
    <3>3. \A i \in 1 .. n : WellSized(sent[i])
      BY <1>6, Zenon DEF Dealt
    <3> QED
      BY <1>2, <3>1, <3>2, <3>3, Zenon DEF f
  <2>14. Dealt(n + 1)'
    BY <2>10, <2>12, <2>13, Zenon DEF Dealt
  <2>15. Exact(parser') /\ open' /\ parser'.state # "ERROR_MALFORMED"
    <3>1. parser'.state = "READING_HEADER"
      BY <2>2, Zenon DEF Fresh
    <3> QED
      BY <2>2, <3>1, Zenon DEF Exact
  <2> QED
    BY <2>11, <2>14, <2>15, Zenon DEF ChunkInv
<1> QED
  BY <1>7, <1>8, Zenon

\* Every step keeps the invariant.
LEMMA StepChunkInv == ChunkInv /\ [Next]_vars => ChunkInv'
<1> SUFFICES ASSUME ChunkInv, [Next]_vars PROVE ChunkInv'
  BY Zenon
<1>1. ParserInv'
  BY StepParserInv, Zenon DEF ChunkInv
<1>2. CASE \E f \in Sendable : SendFrame(f)
  BY <1>1, <1>2, SendKeepsDealt, Zenon
<1>3. CASE ReadSome
  BY <1>1, <1>3, ReadKeepsDealt, Zenon
<1>4. CASE ConsumeSpan
  BY <1>1, <1>4, ConsumeKeepsDealt, Zenon
<1>5. CASE UNCHANGED vars
  <2>1. /\ sent' = sent /\ wire' = wire /\ span' = span /\ parser' = parser
        /\ got' = got /\ open' = open
    BY <1>5, Zenon DEF vars
  <2>2. Unread' = Unread
    BY <2>1, Zenon DEF Unread
  <2>3. PICK n \in 0 .. Len(sent) : Dealt(n)
    BY Zenon DEF ChunkInv
  <2>4. Dealt(n)'
    BY <2>1, <2>2, <2>3, Zenon DEF Dealt
  <2> QED
    BY <1>1, <2>1, <2>4, Zenon DEF ChunkInv
<1> QED
  BY <1>2, <1>3, <1>4, <1>5, Zenon DEF Next

\* The frames dealt with are those that have arrived: the next is incomplete,
\* or too large.
LEMMA ChunkInvSuffices == ChunkInv => ChunkingIndependent
<1> SUFFICES ASSUME ChunkInv PROVE ChunkingIndependent
  BY Zenon
<1> DEFINE L == Len(sent)
           E == Ends(sent)
<1>1. /\ sent \in Seq(Sendable) /\ Sound(parser) /\ Exact(parser)
      /\ parser.state \in {"READING_HEADER", "READING_PAYLOAD", "ERROR_MALFORMED"}
      /\ L \in Nat
  BY DEF ChunkInv, ParserInv, Sound, ParserRecord, AnyState
<1>2. PICK n \in 0 .. L : Dealt(n)
  BY Zenon DEF ChunkInv
<1>3. /\ Unread \in Seq(Byte) /\ span \o wire \in Seq(Byte)
      /\ Len(Unread) = Len(parser.header) + Len(parser.payload) + Len(span) + Len(wire)
      /\ Len(parser.header) \in Nat /\ Len(parser.payload) \in Nat
      /\ Len(span) \in Nat /\ Len(wire) \in Nat
  BY UnreadBytes, Zenon DEF ChunkInv
<1>4. Remains(sent, n, Unread)
  BY <1>2, Zenon DEF Dealt
<1>5. Len(Unread) = E[L] - E[n]
  BY <1>1, <1>3, <1>4, RemainsLength, Zenon
<1>6. /\ \A i \in 0 .. L : E[i] \in Nat
      /\ \A i, k \in 0 .. L : i <= k => E[i] <= E[k]
  BY <1>1, EndsGrow, Zenon
<1>7. \A i \in 1 .. L : E[i] = E[i - 1] + HeaderSize + Len(sent[i].payload)
  BY <1>1, EndsUnfolds, Zenon
<1>8. parser.state # "READING_HEADER" =>
          n < L /\ LengthField(parser.header) = Len(sent[n + 1].payload)
  <2> SUFFICES ASSUME parser.state # "READING_HEADER"
               PROVE  n < L /\ LengthField(parser.header) = Len(sent[n + 1].payload)
    BY Zenon
  <2>1. Len(parser.header) = HeaderSize
    BY <1>1, Zenon DEF Exact
  <2>2. Remains(sent, n, Held(parser) \o (span \o wire))
    BY <1>4, Zenon DEF Unread
  <2> QED
    BY <1>1, <1>3, <2>1, <2>2, CompleteHeader, Zenon
<1>9. ~open => \E i \in DOMAIN sent : ~WellSized(sent[i])
  <2> SUFFICES ASSUME ~open PROVE \E i \in DOMAIN sent : ~WellSized(sent[i])
    BY Zenon
  <2>1. parser.state = "ERROR_MALFORMED"
    BY Zenon DEF ChunkInv
  <2>2. n + 1 \in DOMAIN sent
    BY <1>1, <1>8, <2>1
  <2>3. Len(sent[n + 1].payload) > MaxPayload /\ Len(sent[n + 1].payload) \in Nat
    <3>1. sent[n + 1] \in Sendable
      BY <1>1, <2>2
    <3> QED
      BY <1>1, <1>8, <2>1, <3>1, HeaderFacts DEF Exact
  <2>4. ~WellSized(sent[n + 1])
    BY <2>3, Sizes DEF WellSized
  <2> QED
    BY <2>2, <2>4, Zenon
<1> HIDE DEF E
<1>10. E[L] - Len(wire) - Len(span) = E[n] + Len(parser.header) + Len(parser.payload)
  <2> DEFINE a == Len(parser.header)
             b == Len(parser.payload)
             c == Len(span)
             d == Len(wire)
             en == E[n]
             el == E[L]
  <2>1. /\ a \in Nat /\ b \in Nat /\ c \in Nat /\ d \in Nat
        /\ Len(Unread) = a + b + c + d /\ Len(Unread) = el - en
    BY <1>3, <1>5, Zenon
  <2>1a. L \in 0 .. L
    BY <1>1
  <2>1b. en \in Nat /\ el \in Nat
    BY <1>6, <2>1a, Zenon
  <2> HIDE DEF a, b, c, d, en, el
  <2>2. el - d - c = en + a + b
    BY <2>1, <2>1b
  <2> QED
    BY <2>2, Zenon DEF a, b, c, d, en, el
<1>11. Arrived(n)
  <2>1. E[n] \in Nat /\ E[L] \in Nat
    BY <1>1, <1>6
  <2>2. E[n] <= E[L] - Len(wire) - Len(span)
    <3> DEFINE w == E[L] - Len(wire) - Len(span)
    <3>1. w = E[n] + Len(parser.header) + Len(parser.payload)
      BY <1>10, Zenon
    <3> HIDE DEF w
    <3>2. E[n] <= w
      BY <1>3, <2>1, <3>1
    <3> QED
      BY <3>2, Zenon DEF w
  <2> QED
    BY <1>2, <2>2, Zenon DEF Arrived, Dealt, E
<1>12. ASSUME NEW k \in n + 1 .. L PROVE ~Arrived(k)
  <2>1. /\ n + 1 \in 1 .. L /\ n + 1 \in 0 .. L /\ k \in 0 .. L /\ n + 1 <= k
        /\ n \in 0 .. L /\ L \in 0 .. L /\ (n + 1) - 1 = n /\ n + 1 \in 1 .. k
    BY <1>1
  <2>2. sent[n + 1] \in Sendable
    BY <1>1, <2>1
  <2> DEFINE c == Len(sent[n + 1].payload)
  <2>3. c \in Nat
    BY <2>2, HeaderFacts
  <2>4. /\ E[n] \in Nat /\ E[L] \in Nat /\ E[k] \in Nat /\ E[n + 1] \in Nat
        /\ E[n + 1] <= E[k] /\ E[n + 1] = E[n] + HeaderSize + c
    BY <1>6, <1>7, <2>1, Zenon
  <2>5. CASE Len(parser.header) + Len(parser.payload) < HeaderSize + c
    <3> HIDE DEF c
    <3>1. ~(E[k] <= E[L] - Len(wire) - Len(span))
      <4> DEFINE a == Len(parser.header)
                 b == Len(parser.payload)
                 en == E[n]
                 ek == E[k]
                 em == E[n + 1]
                 el == E[L] - Len(wire) - Len(span)
      <4>1. /\ a \in Nat /\ b \in Nat /\ en \in Nat /\ ek \in Nat /\ em \in Nat
            /\ em <= ek /\ em = en + HeaderSize + c /\ a + b < HeaderSize + c
            /\ el = en + a + b
        BY <1>3, <1>10, <2>4, <2>5, Zenon
      <4> HIDE DEF a, b, en, ek, em, el
      <4>2. ~(ek <= el)
        BY <2>3, <4>1, Sizes
      <4> QED
        BY <4>2, Zenon DEF ek, el
    <3> QED
      BY <3>1, Zenon DEF Arrived, E
  <2>6. CASE parser.state = "READING_HEADER"
    <3>1. Len(parser.header) < HeaderSize /\ parser.payload = <<>>
      BY <1>1, <2>6, Zenon DEF Sound
    <3>2. Len(parser.header) + Len(parser.payload) < HeaderSize + c
      <4>1. Len(parser.payload) = 0
        BY <3>1
      <4> HIDE DEF c
      <4> QED
        BY <1>3, <2>3, <3>1, <4>1, Sizes
    <3> QED
      BY <2>5, <3>2, Zenon
  <2>7. CASE parser.state = "READING_PAYLOAD"
    <3>1. /\ Len(parser.header) = HeaderSize /\ Len(parser.payload) < parser.expected
          /\ parser.expected = c
      BY <1>1, <1>8, <2>7, Zenon DEF Sound, Exact
    <3>2. Len(parser.header) + Len(parser.payload) < HeaderSize + c
      <4> DEFINE a == Len(parser.header)
                 b == Len(parser.payload)
      <4>1. a = HeaderSize /\ b \in Nat /\ b < c
        BY <1>3, <3>1, Zenon
      <4> HIDE DEF a, b, c
      <4>2. a + b < HeaderSize + c
        BY <2>3, <4>1, Sizes
      <4> QED
        BY <4>2, Zenon DEF a, b
    <3> QED
      BY <2>5, <3>2, Zenon
  <2>8. CASE parser.state = "ERROR_MALFORMED"
    <3>1. c > MaxPayload
      BY <1>1, <1>8, <2>8, Zenon DEF Exact
    <3>2. ~WellSized(sent[n + 1])
      BY <2>3, <3>1, Sizes DEF WellSized
    <3> QED
      BY <2>1, <3>2, Zenon DEF Arrived
  <2> QED
    BY <1>1, <2>6, <2>7, <2>8, Zenon
<1> DEFINE Last(m) == Arrived(m) /\ \A k \in m + 1 .. L : ~Arrived(k)
<1>13. Last(n)
  BY <1>11, <1>12, Zenon
<1>14. \A m \in 0 .. L : Last(m) => m = n
  <2> SUFFICES ASSUME NEW m \in 0 .. L, Last(m), m # n PROVE FALSE
    BY Zenon
  <2>1. m \in n + 1 .. L \/ n \in m + 1 .. L
    BY <1>1
  <2> QED
    BY <1>13, <2>1, Zenon
<1>15. Complete = CHOOSE m \in 0 .. L : Last(m)
  BY Zenon DEF Complete
<1> HIDE DEF Last
<1>16. Complete = n
  BY <1>13, <1>14, <1>15, Zenon
<1>17. got = Accepted(sent)[Complete]
  BY <1>2, <1>16, Zenon DEF Dealt
<1> QED
  BY <1>9, <1>17, Zenon DEF ChunkingIndependent

\* However TCP cuts a stream of any number of frames, FeedBytes and
\* TryExtractFrame hand the session exactly the frames that were sent and have
\* arrived, in order and unchanged, up to the first oversized one, and only that
\* one closes the connection.
THEOREM StreamCutsDoNotMatter == Spec => []ChunkingIndependent
<1>1. Spec => []ChunkInv
  BY InitChunkInv, StepChunkInv, PTL DEF Spec
<1> QED
  BY <1>1, ChunkInvSuffices, PTL

-----------------------------------------------------------------------------
(* The padding of texts. *)

\* The sizes of cells, and a marker that is not zero.
LEMMA CellFacts ==
    /\ CellSize \in Nat /\ CellSize > 0 /\ Overhead \in Nat /\ CryptoOverhead \in Nat
    /\ Overhead = HeaderSize + CryptoOverhead
    /\ Marker \in Byte /\ Marker # 0
<1>1. Marker \in Nat /\ Marker < ByteBase /\ Marker # 0
  BY Sizes DEF Marker
<1> QED
  BY <1>1, Sizes, PaddingAssumption DEF CellSize, Overhead, Byte

\* The cells hold the text and the marker, and one cell less would not.
LEMMA CellsFit ==
    ASSUME NEW n \in Nat
    PROVE  /\ CellsNeeded(n) \in Nat /\ CellsNeeded(n) * CellSize \in Nat
           /\ CellsNeeded(n) * CellSize >= Overhead + n + 1
           /\ CellsNeeded(n) * CellSize < Overhead + n + 1 + CellSize
<1> DEFINE a == Overhead + n + 1 + CellSize - 1
           c == CellSize
           q == a \div c
           r == a % c
<1>1. a \in Nat /\ c \in Nat /\ c > 0 /\ Overhead \in Nat
  BY CellFacts
<1>2. a = Overhead + n + c
  BY <1>1
<1>3. CellsNeeded(n) = q
  BY Zenon DEF CellsNeeded
<1> HIDE DEF a, c
<1>4. q \in Nat /\ r \in Nat /\ r < c /\ a = c * q + r
  BY <1>1, DivMod, Zenon
<1> HIDE DEF q, r
<1>5. q * c \in Nat /\ q * c = c * q
  BY <1>1, <1>4
<1> DEFINE m == q * c
<1>6. m \in Nat /\ Overhead + n + c = m + r
  BY <1>2, <1>4, <1>5, Zenon
<1> HIDE DEF m
<1>7. m >= Overhead + n + 1 /\ m < Overhead + n + 1 + c
  BY <1>1, <1>4, <1>6
<1> QED
  BY <1>3, <1>4, <1>6, <1>7, Zenon DEF m, c

\* Zeros.
LEMMA ZeroBytes ==
    ASSUME NEW n \in Nat
    PROVE  Zeros(n) \in Seq(Byte) /\ Len(Zeros(n)) = n /\ \A i \in 1 .. n : Zeros(n)[i] = 0
  BY Sizes DEF Zeros

\* paddedPlaintextSize.
PaddedSize(n) == CellsNeeded(n) * CellSize - Overhead

\* The padded text, byte by byte.
LEMMA PaddedText ==
    ASSUME NEW t \in Seq(Byte)
    PROVE  LET c == EncryptWithPadding(t)
               n == Len(t)
               d == SubSeq(c, CryptoOverhead + 1, Len(c))
           IN  /\ n \in Nat /\ PaddedSize(n) \in Nat /\ PaddedSize(n) >= n + 1
               /\ c \in Seq(Byte) /\ Len(c) = CryptoOverhead + PaddedSize(n)
               /\ d \in Seq(Byte) /\ Len(d) = PaddedSize(n)
               /\ \A i \in 1 .. n : d[i] = t[i]
               /\ d[n + 1] = Marker
               /\ \A i \in n + 2 .. PaddedSize(n) : d[i] = 0
<1> DEFINE n == Len(t)
           o == CryptoOverhead
           size == PaddedSize(n)
           z == Zeros(o)
           w == Zeros(size - n - 1)
           m == <<Marker>>
           u == z \o t
           v == u \o m
           c == v \o w
           d == SubSeq(c, o + 1, Len(c))
<1>1. n \in Nat /\ o \in Nat
  BY CellFacts
<1>2. size \in Nat /\ size >= n + 1 /\ size - n - 1 \in Nat
  <2> DEFINE k == CellsNeeded(n) * CellSize
  <2>1. k \in Nat /\ k >= Overhead + n + 1 /\ Overhead \in Nat
    BY <1>1, CellsFit, CellFacts, Zenon
  <2>2. size = k - Overhead
    BY Zenon DEF PaddedSize
  <2> HIDE DEF k, size, n
  <2> QED
    BY <1>1, <2>1, <2>2
<1>3. EncryptWithPadding(t) = c
  BY Zenon DEF EncryptWithPadding, PaddedSize
<1> HIDE DEF n, o, size
<1>4. z \in Seq(Byte) /\ Len(z) = o
  BY <1>1, ZeroBytes, Zenon
<1>5. w \in Seq(Byte) /\ Len(w) = size - n - 1 /\ \A i \in 1 .. size - n - 1 : w[i] = 0
  BY <1>2, ZeroBytes, Zenon
<1>6. m \in Seq(Byte) /\ Len(m) = 1 /\ m[1] = Marker
  BY CellFacts
<1> HIDE DEF z, w, m
<1>7. /\ u \in Seq(Byte) /\ Len(u) = o + n
      /\ \A i \in 1 .. n : u[o + i] = t[i]
  <2>1. u \in Seq(Byte) /\ Len(u) = Len(z) + Len(t) /\ \A i \in 1 .. Len(t) : u[Len(z) + i] = t[i]
    BY <1>4, Join, JoinAt, Zenon
  <2> HIDE DEF u
  <2> QED
    BY <1>4, <2>1, Zenon DEF n
<1> HIDE DEF u
<1>8. /\ v \in Seq(Byte) /\ Len(v) = o + n + 1
      /\ \A i \in 1 .. o + n : v[i] = u[i]
      /\ v[o + n + 1] = Marker
  <2>1. /\ v \in Seq(Byte) /\ Len(v) = Len(u) + Len(m)
        /\ \A i \in 1 .. Len(u) : v[i] = u[i]
        /\ \A i \in 1 .. Len(m) : v[Len(u) + i] = m[i]
    BY <1>6, <1>7, Join, JoinAt, Zenon
  <2>2. 1 \in 1 .. Len(m)
    BY <1>6
  <2>3. v[Len(u) + 1] = m[1]
    BY <2>1, <2>2, Zenon
  <2> HIDE DEF v
  <2> QED
    BY <1>1, <1>6, <1>7, <2>1, <2>3, Zenon
<1> HIDE DEF v
<1>9. /\ c \in Seq(Byte) /\ Len(c) = o + size
      /\ \A i \in 1 .. o + n + 1 : c[i] = v[i]
      /\ \A i \in 1 .. size - n - 1 : c[o + n + 1 + i] = 0
  <2>1. /\ c \in Seq(Byte) /\ Len(c) = Len(v) + Len(w)
        /\ \A i \in 1 .. Len(v) : c[i] = v[i]
        /\ \A i \in 1 .. Len(w) : c[Len(v) + i] = w[i]
    BY <1>5, <1>8, Join, JoinAt, Zenon
  <2> HIDE DEF c
  <2>2. Len(c) = o + size
    BY <1>1, <1>2, <1>5, <1>8, <2>1
  <2> QED
    BY <1>5, <1>8, <2>1, <2>2, Zenon
<1> HIDE DEF c
<1>10. /\ d \in Seq(Byte) /\ Len(d) = size
       /\ \A i \in 1 .. size : d[i] = c[o + i]
  <2>1. /\ o + 1 \in Nat /\ Len(c) \in Nat /\ Len(c) - (o + 1) + 1 = size
    BY <1>1, <1>2, <1>9
  <2>2. d \in Seq(Byte)
    BY <1>1, <1>9
  <2>3. d = [i \in 1 .. size |-> c[o + i]]
    BY <1>1, <1>2, <1>9, <2>1
  <2> HIDE DEF d
  <2> QED
    BY <1>2, <2>2, <2>3
<1> HIDE DEF d
<1>11. ASSUME NEW i \in 1 .. n PROVE d[i] = t[i]
  <2>1. i \in 1 .. size /\ o + i \in 1 .. o + n + 1 /\ o + i \in 1 .. o + n
    BY <1>1, <1>2
  <2>2. d[i] = c[o + i] /\ c[o + i] = v[o + i] /\ v[o + i] = u[o + i] /\ u[o + i] = t[i]
    BY <1>7, <1>8, <1>9, <1>10, <2>1, Zenon
  <2> QED
    BY <2>2, Zenon
<1>12. d[n + 1] = Marker
  <2>1. n + 1 \in 1 .. size /\ o + (n + 1) = o + n + 1 /\ o + n + 1 \in 1 .. o + n + 1
    BY <1>1, <1>2
  <2> QED
    BY <1>8, <1>9, <1>10, <2>1
<1>13. ASSUME NEW i \in n + 2 .. size PROVE d[i] = 0
  <2>1. /\ i \in 1 .. size /\ i - n - 1 \in 1 .. size - n - 1
        /\ o + i = o + n + 1 + (i - n - 1)
    BY <1>1, <1>2
  <2>2. c[o + n + 1 + (i - n - 1)] = 0
    BY <1>9, <2>1, Zenon
  <2> QED
    BY <1>10, <2>1, <2>2, Zenon
<1> QED
  BY <1>1, <1>2, <1>3, <1>9, <1>10, <1>11, <1>12, <1>13, Zenon DEF d, n, o, size

\* DecryptAndUnpad undoes EncryptWithPadding, whatever the text ends in.
LEMMA UnpadsWhatWasPadded ==
    ASSUME NEW t \in Seq(Byte)
    PROVE  DecryptAndUnpad(EncryptWithPadding(t)) = t
<1> DEFINE c == EncryptWithPadding(t)
           n == Len(t)
           d == SubSeq(c, CryptoOverhead + 1, Len(c))
           size == PaddedSize(n)
<1>1. /\ n \in Nat /\ size \in Nat /\ size >= n + 1
      /\ Len(c) = CryptoOverhead + size
      /\ d \in Seq(Byte) /\ Len(d) = size
      /\ \A i \in 1 .. n : d[i] = t[i]
      /\ d[n + 1] = Marker
      /\ \A i \in n + 2 .. size : d[i] = 0
  BY PaddedText, Zenon
<1>2. DecryptAndUnpad(c) =
          IF Len(c) < CryptoOverhead \/ NonZero(d) = {} \/ d[LastNonZero(d)] # Marker
          THEN Rejected ELSE SubSeq(d, 1, LastNonZero(d) - 1)
  BY Zenon DEF DecryptAndUnpad
<1> HIDE DEF c, d, size
<1>3. n + 1 \in NonZero(d) /\ \A j \in NonZero(d) : j \in Int /\ j <= n + 1
  <2>1. DOMAIN d = 1 .. size
    BY <1>1
  <2>2. n + 1 \in NonZero(d)
    BY <1>1, <2>1, CellFacts DEF NonZero
  <2>3. ASSUME NEW j \in NonZero(d) PROVE j \in Int /\ j <= n + 1
    <3>1. j \in 1 .. size /\ d[j] # 0
      BY <2>1, Zenon DEF NonZero
    <3>2. j \notin n + 2 .. size
      BY <1>1, <3>1, Zenon
    <3> QED
      BY <1>1, <3>1, <3>2
  <2> QED
    BY <2>2, <2>3, Zenon
<1>4. LastNonZero(d) = n + 1
  <2>1. \A i \in NonZero(d) : (\A j \in NonZero(d) : j <= i) => i = n + 1
    BY <1>1, <1>3
  <2> QED
    BY <1>3, <2>1, Zenon DEF LastNonZero
<1>5. DecryptAndUnpad(c) = SubSeq(d, 1, n)
  <2>1. ~(Len(c) < CryptoOverhead)
    BY <1>1, CellFacts
  <2>2. (n + 1) - 1 = n
    BY <1>1
  <2> QED
    BY <1>1, <1>2, <1>3, <1>4, <2>1, <2>2, Zenon
<1>6. SubSeq(d, 1, n) = t
  <2> DEFINE e == SubSeq(d, 1, n)
  <2>1. e = [i \in 1 .. n |-> d[i]]
    BY <1>1
  <2>2. t = [i \in 1 .. n |-> t[i]]
    OBVIOUS
  <2> HIDE DEF n, e
  <2>3. e = t
    BY <1>1, <2>1, <2>2, Zenon
  <2> QED
    BY <2>3, Zenon DEF e
<1> QED
  BY <1>5, <1>6, Zenon DEF c

\* A text frame fills whole cells, and one cell less would not hold it.
LEMMA TextFillsCells ==
    ASSUME NEW t \in Seq(Byte), NEW f \in Sendable, f = TextFrame(t)
    PROVE  LET size == Len(Serialize(f))
           IN  size % CellSize = 0 /\ size - CellSize < Overhead + Len(t) + 1
<1> DEFINE n == Len(t)
           k == CellsNeeded(n)
           l == Len(f.payload)
<1>1. f.payload = EncryptWithPadding(t)
  BY Zenon DEF TextFrame, CreatePush, FrameOf
<1>2. n \in Nat /\ l = CryptoOverhead + PaddedSize(n)
  BY <1>1, PaddedText, Zenon
<1>3. Len(Serialize(f)) = HeaderSize + l /\ l \in Nat
  <2>1. /\ HeaderOf(f) \in Seq(Byte) /\ Len(HeaderOf(f)) = HeaderSize
        /\ f.payload \in Seq(Byte) /\ Serialize(f) = HeaderOf(f) \o f.payload
    BY HeaderFacts, Zenon
  <2>2. Len(HeaderOf(f) \o f.payload) = Len(HeaderOf(f)) + Len(f.payload)
    BY <2>1, Join, Zenon
  <2>3. l \in Nat
    BY <2>1
  <2> QED
    BY <2>1, <2>2, <2>3, Zenon
<1>4. k \in Nat /\ k * CellSize \in Nat /\ k * CellSize < Overhead + n + 1 + CellSize
  BY <1>2, CellsFit, Zenon
<1>5. PaddedSize(n) = k * CellSize - Overhead
  BY Zenon DEF PaddedSize
<1> HIDE DEF n, k, l
<1> DEFINE m == k * CellSize
<1>6. m \in Nat /\ m < Overhead + n + 1 + CellSize /\ l = CryptoOverhead + (m - Overhead)
  BY <1>2, <1>4, <1>5, Zenon
<1>7. m % CellSize = 0
  BY <1>4, CellFacts
<1> HIDE DEF m
<1>8. Len(Serialize(f)) = m
  BY <1>3, <1>6, CellFacts, Sizes
<1>9. m - CellSize < Overhead + n + 1
  BY <1>2, <1>6, CellFacts
<1> QED
  BY <1>7, <1>8, <1>9, Zenon DEF n

\* For every text and every cell size, DecryptAndUnpad gives back what
\* EncryptWithPadding was given, and the frame fills whole cells, no more than
\* it needs.
THEOREM TextsReadAsSent == Spec => []PaddingRoundTrips
<1>1. ParserInv => PaddingRoundTrips
  <2> SUFFICES ASSUME ParserInv, NEW t \in Texts
               PROVE  /\ \A i \in DOMAIN got :
                             got[i] = TextFrame(t) => DecryptAndUnpad(got[i].payload) = t
                      /\ \A i \in DOMAIN sent :
                             sent[i] = TextFrame(t) =>
                                 LET size == Len(Serialize(sent[i]))
                                 IN  size % CellSize = 0 /\ size - CellSize < Overhead + Len(t) + 1
    BY Zenon DEF PaddingRoundTrips
  <2>1. t \in Seq(Byte)
    BY PaddingAssumption, Zenon
  <2>2. TextFrame(t).payload = EncryptWithPadding(t)
    BY Zenon DEF TextFrame, CreatePush, FrameOf
  <2>3. ASSUME NEW i \in DOMAIN got, got[i] = TextFrame(t)
        PROVE  DecryptAndUnpad(got[i].payload) = t
    BY <2>1, <2>2, <2>3, UnpadsWhatWasPadded, Zenon
  <2>4. ASSUME NEW i \in DOMAIN sent, sent[i] = TextFrame(t)
        PROVE  LET size == Len(Serialize(sent[i]))
               IN  size % CellSize = 0 /\ size - CellSize < Overhead + Len(t) + 1
    <3>1. sent[i] \in Sendable
      BY DEF ParserInv
    <3> QED
      BY <2>1, <2>4, <3>1, TextFillsCells, Zenon
  <2> QED
    BY <2>3, <2>4, Zenon
<1> QED
  BY <1>1, ParserAlwaysSound, PTL

=============================================================================
