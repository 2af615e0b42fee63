CONSTANTS
    ByteBase = 8
    MailboxSize = 1
    MaxPayload = 10
    ControlSize = 2
    Sendable <- MCSendable
    MaxFrames = 3
    MaxChunk = 30
    CryptoOverhead = 1
    TextBox <- MCTextBox
    Texts <- MCTexts
SPECIFICATION Spec
INVARIANTS BuffersBounded ChunkingIndependent PaddingRoundTrips
CHECK_DEADLOCK FALSE
