CONSTANTS
    Initiator = A
    Responder = B
    Talkers = {A, B}
    Interval <- InitiatorRotates
    MaxMessages = 9
    MaxKeys = 4
    MaxTexts = 3
    MaxInFlight = 1
    MaxCuts = 0
    MaxRestarts = 0
    MaxReadds = 0
    None = None
SPECIFICATION FairSpec
INVARIANTS HonestHistory SessionsConverge
PROPERTIES InitialHandshakeCompletes RotationsFinish TextsAreDelivered
