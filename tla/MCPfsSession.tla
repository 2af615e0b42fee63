---------------------------- MODULE MCPfsSession ----------------------------
EXTENDS PfsSession

\* pfsMessageInterval of the two clients.
BothRotate == [p \in Peers |-> 1]
InitiatorRotates == [p \in Peers |-> IF p = Initiator THEN 1 ELSE 0]
=============================================================================
