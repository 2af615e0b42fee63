---------------------------- MODULE MailboxStore ----------------------------
(***************************************************************************)
(* What the relay promises its clients, with no trace of how it stores     *)
(* anything: every mailbox is a bounded first-in first-out queue, and the  *)
(* mailboxes do not influence one another.  MessageBroker implements this. *)
(***************************************************************************)
EXTENDS Naturals, Sequences

CONSTANTS
    MailboxID,    \* the mailbox identifiers in use
    Frame,        \* the frames that can be stored
    Empty,        \* the answer to a poll that finds nothing
    MaxMessages   \* the quota of every mailbox

VARIABLES
    box,     \* the content of every mailbox
    reply    \* the answer to the latest poll

vars == <<box, reply>>

Init ==
    /\ box = [m \in MailboxID |-> <<>>]
    /\ reply = Empty

Store(m, f) ==
    /\ Len(box[m]) < MaxMessages
    /\ box' = [box EXCEPT ![m] = Append(@, f)]
    /\ UNCHANGED reply

\* A frame for a full mailbox disappears without a trace.
Refuse(m) ==
    /\ Len(box[m]) >= MaxMessages
    /\ UNCHANGED vars

Fetch(m) ==
    /\ box[m] # <<>>
    /\ reply' = Head(box[m])
    /\ box' = [box EXCEPT ![m] = Tail(@)]

FetchNothing(m) ==
    /\ box[m] = <<>>
    /\ reply' = Empty
    /\ UNCHANGED box

Next ==
    \E m \in MailboxID :
        \/ \E f \in Frame : Store(m, f)
        \/ Refuse(m)
        \/ Fetch(m)
        \/ FetchNothing(m)

Spec == Init /\ [][Next]_vars
=============================================================================
