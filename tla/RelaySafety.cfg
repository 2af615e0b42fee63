CONSTANTS
    Conn = {c1, c2}
    MailboxID = {m1, m2}
    Empty = Empty
    MaxMessages = 6
    Requests <- EveryBranch
    MaxRequests = 3
    MaxUnread = 1
    MaxAlarms = 0
SPECIFICATION Spec
INVARIANTS WritesFromFront AtMostOnce AnswersInOrder StrangersLockedOut LostOnlyWithConnection
SYMMETRY Symmetry
CHECK_DEADLOCK FALSE
