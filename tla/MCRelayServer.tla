--------------------------- MODULE MCRelayServer ----------------------------
EXTENDS RelayServer, TLC

\* Connections and mailboxes are interchangeable; used without liveness.
Symmetry == Permutations(Conn) \cup Permutations(MailboxID)

\* One kind of frame for every branch: ACK shares that of PUSH, and a second
\* AUTH_RESPONSE that of AUTH_CHALLENGE.
EveryBranch == {r \in Request : r.action \notin {"ACK", "AUTH_CHALLENGE"}}

\* For liveness: a client that authenticates and polls.
Polling == {r \in Request : r.action \in {"AUTH_RESPONSE", "POLL"} /\ r.valid}
=============================================================================
