---------------------------- MODULE MCTcpClient -----------------------------
EXTENDS TcpClient
=============================================================================
