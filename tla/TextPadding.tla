---------------------------- MODULE TextPadding -----------------------------
(***************************************************************************)
(* libs/crypto/src/symmetric_cipher.cpp over the frames of FrameParser:    *)
(* how the body of a PUSH is padded before it is encrypted, so that every  *)
(* frame fills whole Tor cells, and how the padding is removed again.      *)
(* Encryption is ideal: a byte of a ciphertext stands for the byte that    *)
(* the holder of the key reads, nonce and authentication tag are zeros.    *)
(***************************************************************************)
EXTENDS FrameParser

CONSTANTS
    CryptoOverhead,   \* cryptoOverhead: nonce and authentication tag
    TextBox,          \* the mailbox that texts are sent to
    Texts             \* the texts that are sent

ASSUME PaddingAssumption ==
    /\ CryptoOverhead \in Nat
    /\ \A t \in Texts : t \in Seq(Byte)

\* torCellPayloadSize, since paddedControlPayloadSize is what the header leaves
\* of it; totalFixedOverhead; and 0x80.
CellSize == HeaderSize + ControlSize
Overhead == HeaderSize + CryptoOverhead
Marker == ByteBase \div 2

Rejected == "nullopt"

\* Mutant: the marker is not counted.
CellsNeeded_NoMarker(n) == (Overhead + n + CellSize - 1) \div CellSize

\* The cells of a frame with a text of n bytes and the marker, rounded up.
CellsNeeded(n) == (Overhead + n + 1 + CellSize - 1) \div CellSize

EncryptWithPadding(text) ==
    LET size == CellsNeeded(Len(text)) * CellSize - Overhead
    IN  Zeros(CryptoOverhead) \o text \o <<Marker>> \o Zeros(size - Len(text) - 1)

NonZero(d) == {i \in DOMAIN d : d[i] # 0}
LastNonZero(d) == CHOOSE i \in NonZero(d) : \A j \in NonZero(d) : j <= i

\* Too short a ciphertext is refused; the last byte that is not zero must be
\* the marker.
DecryptAndUnpad(c) ==
    LET d == SubSeq(c, CryptoOverhead + 1, Len(c))
    IN  IF Len(c) < CryptoOverhead \/ NonZero(d) = {} \/ d[LastNonZero(d)] # Marker
        THEN Rejected
        ELSE SubSeq(d, 1, LastNonZero(d) - 1)

TextFrame(t) == CreatePush(TextBox, EncryptWithPadding(t))

-----------------------------------------------------------------------------
\* Whatever pieces its frame arrives in, a text is read as it was sent, also one
\* that is empty, fills its cells to the last byte, or ends in zeros or in the
\* marker; and every text frame on the stream fills whole cells and wastes none,
\* so that its size tells only their number (EncryptWithPadding,
\* DecryptAndUnpad).
PaddingRoundTrips ==
    \A t \in Texts :
        /\ \A i \in DOMAIN got :
               got[i] = TextFrame(t) => DecryptAndUnpad(got[i].payload) = t
        /\ \A i \in DOMAIN sent :
               sent[i] = TextFrame(t) =>
                   LET size == Len(Serialize(sent[i]))
                   IN  size % CellSize = 0 /\ size - CellSize < Overhead + Len(t) + 1

=============================================================================
