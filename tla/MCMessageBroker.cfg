CONSTANTS
    MailboxID = {m1, m2}
    Frame = {f1, f2, f3}
    Empty = Empty
    MaxMessages = 3
SPECIFICATION StoreSpec
INVARIANT NoEmptyEntry
PROPERTIES ImplementsMailboxStore
