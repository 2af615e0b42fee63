CONSTANTS
    Initiator = A
    Responder = B
    Talkers = {A}
    Interval <- BothRotate
    MaxMessages = 1
    MaxKeys = 6
    MaxTexts = 3
    MaxInFlight = 1
    MaxCuts = 1
    MaxRestarts = 1
    MaxReadds = 2
    None = None
SPECIFICATION Spec
INVARIANTS NoTextUnderBootstrapKey SessionsWereAnswered HonestHistory
PROPERTIES NeverReinstallsSession
