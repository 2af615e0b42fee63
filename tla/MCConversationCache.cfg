CONSTANTS
    Text = {hi, essay}
    Long = {essay}
    MaxEntries = 3
    MaxCrashes = 1
SPECIFICATION Spec
INVARIANTS InAppendOrder MarkedByReceipt InboundKept
PROPERTIES StatusForward OnlyRacingAppendsLost
CHECK_DEADLOCK FALSE
