CONSTANTS
    Conn = {c1, c2}
    MailboxID = {m1}
    Empty = Empty
    MaxMessages = 1
    Requests <- Polling
    MaxRequests = 3
    MaxUnread = 1
    MaxAlarms = 1
SPECIFICATION FairSpec
PROPERTIES ConnectionsDecided PollsAnswered
CHECK_DEADLOCK FALSE
