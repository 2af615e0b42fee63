CONSTANTS
    Initiator = A
    Responder = B
    Talkers = {A}
    Interval <- BothRotate
    MaxMessages = 9
    MaxKeys = 4
    MaxTexts = 3
    MaxInFlight = 1
    MaxCuts = 0
    MaxRestarts = 0
    MaxReadds = 0
    None = None
SPECIFICATION Spec

PROPERTY OldMailboxDroppedSafely
