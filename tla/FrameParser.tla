---------------------------- MODULE FrameParser -----------------------------
(***************************************************************************)
(* Frames on the wire (libs/protocol): how a frame is serialised, and the  *)
(* incremental parser that both ends run over whatever pieces TCP hands    *)
(* them, inside the read loop of TcpSession::DoRead and TcpClient::DoRead. *)
(*                                                                         *)
(* A peer sends the frames `sent`; their bytes arrive in chunks of any     *)
(* size.  The sizes of the layout are parameters: a byte is a number below *)
(* ByteBase, a mailbox identifier MailboxSize bytes.  The length field has *)
(* four bytes, little-endian, as in the code.                              *)
(***************************************************************************)
EXTENDS Naturals, Sequences

CONSTANTS
    ByteBase,       \* 256
    MailboxSize,    \* mailboxIdSize
    MaxPayload,     \* maxPayloadSize
    ControlSize,    \* paddedControlPayloadSize
    Sendable,       \* the frames peers send, malformed ones included
    MaxFrames,      \* bound: frames sent
    MaxChunk        \* the size of the read buffer

Byte == 0 .. ByteBase - 1
HeaderSize == 1 + MailboxSize + 4

PUSH == 1
POLL == 2
ACK == 3
AUTH_CHALLENGE == 4
AUTH_RESPONSE == 5

ASSUME ParserAssumption ==
    /\ ByteBase \in Nat /\ ByteBase > AUTH_RESPONSE
    /\ MailboxSize \in Nat /\ MaxPayload \in Nat /\ ControlSize \in Nat
    /\ MaxPayload < ByteBase * ByteBase * ByteBase * ByteBase - 1
    /\ ControlSize <= MaxPayload
    /\ MaxFrames \in Nat
    /\ MaxChunk \in Nat /\ MaxChunk > 0
    /\ Sendable \subseteq [action : Byte, mailbox : Seq(Byte), payload : Seq(Byte)]
    /\ \A f \in Sendable : Len(f.mailbox) = MailboxSize

VARIABLES
    sent,     \* the frames the peer has serialised, in order
    wire,     \* bytes that have not arrived
    span,     \* dataSpan: bytes of the current read that are not parsed yet
    parser,   \* the members of FrameParser
    got,      \* the frames handed to the session, in order
    open      \* socket.is_open()

vars == <<sent, wire, span, parser, got, open>>

-----------------------------------------------------------------------------
(* Building and serialising frames. *)

Zeros(n) == [i \in 1 .. n |-> 0]
Padded(data) ==
    IF Len(data) < ControlSize THEN data \o Zeros(ControlSize - Len(data)) ELSE data

FrameOf(action, mailbox, payload) ==
    [action |-> action, mailbox |-> mailbox, payload |-> payload]

CreatePush(m, payload) == FrameOf(PUSH, m, payload)
CreatePoll(m) == FrameOf(POLL, m, Zeros(ControlSize))
CreateAck(m, payload) == FrameOf(ACK, m, payload)
CreateAuthChallenge(m, data) == FrameOf(AUTH_CHALLENGE, m, Padded(data))
CreateAuthResponse(m, data) == FrameOf(AUTH_RESPONSE, m, Padded(data))

\* Peers build the frames of known kinds with these factories, and a payload's
\* length is a number of four bytes.
ASSUME FactoryAssumption ==
    \A f \in Sendable :
        /\ Len(f.payload) < ByteBase * ByteBase * ByteBase * ByteBase
        /\ f.action = POLL => f.payload = Zeros(ControlSize)
        /\ f.action \in {AUTH_CHALLENGE, AUTH_RESPONSE} => Len(f.payload) >= ControlSize

LengthBytes(n) ==
    <<n % ByteBase, (n \div ByteBase) % ByteBase,
      (n \div (ByteBase * ByteBase)) % ByteBase,
      (n \div (ByteBase * ByteBase * ByteBase)) % ByteBase>>

Serialize(f) ==
    <<f.action>> \o f.mailbox \o LengthBytes(Len(f.payload)) \o f.payload

-----------------------------------------------------------------------------
(* The parser. *)

Fresh ==
    [state |-> "READING_HEADER", header |-> <<>>, payload |-> <<>>, expected |-> 0]

\* The length field of a complete header.
LengthField(h) ==
    LET o == 1 + MailboxSize
    IN  h[o + 1] + h[o + 2] * ByteBase + h[o + 3] * ByteBase * ByteBase
            + h[o + 4] * ByteBase * ByteBase * ByteBase

\* Mutant: the limit is tested off by one.
ParseHeader_OffByOne(p) ==
    LET length == LengthField(p.header)
    IN  [p EXCEPT !.expected = length,
                  !.state = IF length > MaxPayload + 1 THEN "ERROR_MALFORMED"
                            ELSE IF length = 0 THEN "FRAME_READY"
                            ELSE "READING_PAYLOAD"]

ParseHeader(p) ==
    LET length == LengthField(p.header)
    IN  [p EXCEPT !.expected = length,
                  !.state = IF length > MaxPayload THEN "ERROR_MALFORMED"
                            ELSE IF length = 0 THEN "FRAME_READY"
                            ELSE "READING_PAYLOAD"]

Least(a, b) == IF a < b THEN a ELSE b
First(s, n) == SubSeq(s, 1, n)
Rest(s, n) == SubSeq(s, n + 1, Len(s))

\* Mutant: what follows the header in the same piece is lost.
FeedHeader_DropsTail(p, data) ==
    IF p.state # "READING_HEADER" \/ data = <<>>
    THEN [parser |-> p, data |-> data]
    ELSE LET toCopy == Least(HeaderSize - Len(p.header), Len(data))
             q == [p EXCEPT !.header = @ \o First(data, toCopy)]
         IN  [parser |-> IF Len(q.header) = HeaderSize THEN ParseHeader(q) ELSE q,
              data |-> <<>>]

\* The branch for READING_HEADER, on the parser and the bytes left.
FeedHeader(p, data) ==
    IF p.state # "READING_HEADER" \/ data = <<>>
    THEN [parser |-> p, data |-> data]
    ELSE LET toCopy == Least(HeaderSize - Len(p.header), Len(data))
             q == [p EXCEPT !.header = @ \o First(data, toCopy)]
         IN  [parser |-> IF Len(q.header) = HeaderSize THEN ParseHeader(q) ELSE q,
              data |-> Rest(data, toCopy)]

\* The branch for READING_PAYLOAD.
FeedPayload(p, data) ==
    IF p.state # "READING_PAYLOAD" \/ data = <<>>
    THEN [parser |-> p, data |-> data]
    ELSE LET toCopy == Least(p.expected - Len(p.payload), Len(data))
             q == [p EXCEPT !.payload = @ \o First(data, toCopy)]
         IN  [parser |-> IF Len(q.payload) = q.expected
                         THEN [q EXCEPT !.state = "FRAME_READY"] ELSE q,
              data |-> Rest(data, toCopy)]

\* The loop leaves the header branch at most once and ends with the payload
\* branch, so two passes are all it makes.
FeedBytes(p, data) ==
    LET r == FeedHeader(p, data) IN FeedPayload(r.parser, r.data)

\* The frame of a parser that is FRAME_READY, none for an unknown action.
\* The payload of a POLL is built anew, those of AUTH frames padded.
Extracted(p) ==
    LET action == p.header[1]
        m == SubSeq(p.header, 2, 1 + MailboxSize)
    IN  CASE action = PUSH -> <<CreatePush(m, p.payload)>>
          [] action = POLL -> <<CreatePoll(m)>>
          [] action = ACK -> <<CreateAck(m, p.payload)>>
          [] action = AUTH_CHALLENGE -> <<CreateAuthChallenge(m, p.payload)>>
          [] action = AUTH_RESPONSE -> <<CreateAuthResponse(m, p.payload)>>
          [] OTHER -> <<>>

\* The frames (one or none) and the parser afterwards.
TryExtractFrame(p) ==
    IF p.state # "FRAME_READY"
    THEN [parser |-> p, frames |-> <<>>]
    ELSE [parser |-> Fresh, frames |-> Extracted(p)]

-----------------------------------------------------------------------------
Init ==
    /\ sent = <<>>
    /\ wire = <<>>
    /\ span = <<>>
    /\ parser = Fresh
    /\ got = <<>>
    /\ open = TRUE

\* The peer writes a frame to its socket.
SendFrame(f) ==
    /\ Len(sent) < MaxFrames
    /\ sent' = Append(sent, f)
    /\ wire' = wire \o Serialize(f)
    /\ UNCHANGED <<span, parser, got, open>>

\* async_read_some completes with some of the bytes.
ReadSome ==
    /\ open /\ span = <<>>
    /\ \E n \in 1 .. Least(MaxChunk, Len(wire)) :
           span' = First(wire, n) /\ wire' = Rest(wire, n)
    /\ UNCHANGED <<sent, parser, got, open>>

\* One iteration of the read loop: feed, close on an error, extract, close
\* when nothing was consumed.
ConsumeSpan ==
    /\ open /\ span # <<>>
    /\ LET fed == FeedBytes(parser, span)
           taken == TryExtractFrame(fed.parser)
       IN  /\ span' = fed.data
           /\ IF fed.parser.state = "ERROR_MALFORMED"
              THEN /\ parser' = fed.parser
                   /\ open' = FALSE
                   /\ UNCHANGED got
              ELSE /\ parser' = taken.parser
                   /\ got' = got \o taken.frames
                   /\ open' = (fed.data # span)
    /\ UNCHANGED <<sent, wire>>

Next == (\E f \in Sendable : SendFrame(f)) \/ ReadSome \/ ConsumeSpan

Spec == Init /\ [][Next]_vars

-----------------------------------------------------------------------------
(* Properties. *)

TypeOK ==
    /\ sent \in Seq(Sendable)
    /\ wire \in Seq(Byte) /\ span \in Seq(Byte)
    /\ parser \in [state : {"READING_HEADER", "READING_PAYLOAD", "ERROR_MALFORMED"},
                   header : Seq(Byte), payload : Seq(Byte), expected : Nat]
    /\ got \in Seq([action : Byte, mailbox : Seq(Byte), payload : Seq(Byte)])
    /\ open \in BOOLEAN

\* The unsigned subtractions in FeedBytes never wrap and always leave
\* something to read: between two reads the header is incomplete, or the
\* payload is shorter than its announced length.  That length is at most
\* maxPayloadSize, which bounds what a connection can make the parser hold.
BuffersBounded ==
    /\ Len(parser.header) <= HeaderSize
    /\ Len(parser.payload) <= MaxPayload
    /\ parser.state = "READING_HEADER" =>
           Len(parser.header) < HeaderSize /\ parser.payload = <<>>
    /\ parser.state = "READING_PAYLOAD" =>
           Len(parser.payload) < parser.expected /\ parser.expected <= MaxPayload

WellSized(f) == Len(f.payload) <= MaxPayload
Known(f) == f.action \in {PUSH, POLL, ACK, AUTH_CHALLENGE, AUTH_RESPONSE}

\* Where each frame of s ends in the stream, and what a session is given of
\* the first n frames.
Ends(s) ==
    LET end[n \in 0 .. Len(s)] ==
            IF n = 0 THEN 0 ELSE end[n - 1] + HeaderSize + Len(s[n].payload)
    IN  end
Accepted(s) ==
    LET kept[n \in 0 .. Len(s)] ==
            IF n = 0 THEN <<>>
            ELSE kept[n - 1] \o (IF Known(s[n]) THEN <<s[n]>> ELSE <<>>)
    IN  kept

\* How many frames have arrived completely, and precede any oversized one.
Arrived(n) ==
    /\ Ends(sent)[n] <= Ends(sent)[Len(sent)] - Len(wire) - Len(span)
    /\ \A i \in 1 .. n : WellSized(sent[i])
Complete ==
    CHOOSE n \in 0 .. Len(sent) : Arrived(n) /\ \A k \in n + 1 .. Len(sent) : ~Arrived(k)

\* However TCP cuts the stream into pieces, the session gets exactly the
\* frames that were sent, in order and unchanged, as soon as their last byte
\* is parsed; frames with an unknown action are skipped, nothing after an
\* oversized one is looked at, and only an oversized one closes the connection
\* (the loop's "consumed zero bytes" exit is unreachable).
ChunkingIndependent ==
    /\ got = Accepted(sent)[Complete]
    /\ ~open => \E i \in DOMAIN sent : ~WellSized(sent[i])
=============================================================================
