--------------------------- MODULE ClientChannel ----------------------------
(***************************************************************************)
(* What the client's session logic relies on from its connection: frames   *)
(* leave in the order they were queued, each at most once, none before the *)
(* connection is up and none is dropped while it holds.  TcpClient         *)
(* implements this.                                                        *)
(***************************************************************************)
EXTENDS Naturals, Sequences

CONSTANT Data    \* the frames of the session logic

VARIABLES
    pending,     \* queued and not handed to the network
    sent,        \* handed to the network
    line         \* "new", "up" or "broken"

vars == <<pending, sent, line>>

Init == pending = <<>> /\ sent = <<>> /\ line = "new"

Submit(f) ==
    /\ pending' = Append(pending, f)
    /\ UNCHANGED <<sent, line>>

Transmit ==
    /\ line = "up" /\ pending # <<>>
    /\ sent' = Append(sent, Head(pending))
    /\ pending' = Tail(pending)
    /\ UNCHANGED line

Lose ==
    /\ line = "broken" /\ pending # <<>>
    /\ pending' = Tail(pending)
    /\ UNCHANGED <<sent, line>>

Up == line = "new" /\ line' = "up" /\ UNCHANGED <<pending, sent>>
Break == line = "up" /\ line' = "broken" /\ UNCHANGED <<pending, sent>>

Next == (\E f \in Data : Submit(f)) \/ Transmit \/ Lose \/ Up \/ Break

Spec == Init /\ [][Next]_vars
=============================================================================
