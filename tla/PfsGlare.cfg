CONSTANTS
    Initiator = A
    Responder = B
    Talkers = {A,B}
    Interval <- BothRotate
    MaxMessages = 9
    MaxKeys = 4
    MaxTexts = 2
    MaxInFlight = 1
    MaxCuts = 0
    MaxRestarts = 0
    MaxReadds = 0
    None = None
SPECIFICATION Spec
INVARIANT SessionsConverge

