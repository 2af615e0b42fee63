-------------------------- MODULE MCMessageBroker ---------------------------
EXTENDS MessageBroker
=============================================================================
