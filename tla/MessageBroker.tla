--------------------------- MODULE MessageBroker ----------------------------
(***************************************************************************)
(* The relay's store (libs/domain/server/src/message_broker.cpp): a hash   *)
(* map from mailbox identifiers to queues.  Entries are created by the     *)
(* first push (queues[mid]) and erased by the poll that empties them, so   *)
(* the domain of `queues` is part of the state.                            *)
(* The server runs one io_context on one thread (apps/server/main.cpp), so *)
(* every operation is atomic.                                              *)
(***************************************************************************)
EXTENDS Naturals, Sequences

CONSTANTS MailboxID, Frame, Empty, MaxMessages

ASSUME BrokerAssumption ==
    /\ MaxMessages \in Nat
    /\ Empty \notin Frame

VARIABLES
    queues,   \* queues : a function on the live entries
    reply     \* what the latest ProcessPoll returned (std::optional<Frame>)

storeVars == <<queues, reply>>

\* The queue operator[] finds or default-constructs.
Queue(m) == IF m \in DOMAIN queues THEN queues[m] ELSE <<>>

WithEntry(m, q) ==
    [x \in DOMAIN queues \cup {m} |-> IF x = m THEN q ELSE queues[x]]

WithoutEntry(m) == [x \in DOMAIN queues \ {m} |-> queues[x]]

StoreInit ==
    /\ queues = [m \in {} |-> <<>>]
    /\ reply = Empty

\* The quota test evaluates queues[mid], which creates a missing entry even
\* when the frame is then dropped.
ProcessPush(m, f) ==
    /\ queues' = WithEntry(m, IF Len(Queue(m)) >= MaxMessages
                              THEN Queue(m)
                              ELSE Append(Queue(m), f))
    /\ UNCHANGED reply

\* Mutant: the entry of a queue that became empty is kept.
ProcessPoll_KeepsEntry(m) ==
    IF Queue(m) = <<>>
    THEN reply' = Empty /\ UNCHANGED queues
    ELSE /\ reply' = Head(Queue(m))
         /\ queues' = WithEntry(m, Tail(Queue(m)))

\* Mutant: the whole queue goes with the frame that was fetched.
ProcessPoll_ErasesQueue(m) ==
    IF Queue(m) = <<>>
    THEN reply' = Empty /\ UNCHANGED queues
    ELSE /\ reply' = Head(Queue(m))
         /\ queues' = WithoutEntry(m)

ProcessPoll(m) ==
    IF Queue(m) = <<>>
    THEN reply' = Empty /\ UNCHANGED queues
    ELSE /\ reply' = Head(Queue(m))
         /\ queues' = IF Tail(Queue(m)) = <<>>
                      THEN WithoutEntry(m)
                      ELSE WithEntry(m, Tail(Queue(m)))

StoreNext ==
    \E m \in MailboxID :
        \/ \E f \in Frame : ProcessPush(m, f)
        \/ ProcessPoll(m)

StoreSpec == StoreInit /\ [][StoreNext]_storeVars

-----------------------------------------------------------------------------
StoreTypeOK ==
    /\ DOMAIN queues \subseteq MailboxID
    /\ \A m \in DOMAIN queues : queues[m] \in Seq(Frame)
    /\ reply \in Frame \cup {Empty}

\* The per-mailbox quota of ProcessPush holds in every reachable state,
\* whatever sequence of pushes and polls led there.
QuotaRespected == \A m \in DOMAIN queues : Len(queues[m]) <= MaxMessages

\* Memory follows the stored frames: an entry of the hash map whose queue is
\* empty would never be erased by a later poll (ProcessPoll returns early on
\* it), so with a positive quota there must be none.
NoEmptyEntry ==
    MaxMessages > 0 => \A m \in DOMAIN queues : queues[m] # <<>>

\* The hash map with its created and erased entries is, seen by the clients,
\* a set of independent bounded first-in first-out mailboxes.
Store == INSTANCE MailboxStore WITH box <- [m \in MailboxID |-> Queue(m)]
ImplementsMailboxStore == Store!Spec
=============================================================================
