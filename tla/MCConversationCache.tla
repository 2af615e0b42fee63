------------------------ MODULE MCConversationCache -------------------------
EXTENDS ConversationCache
=============================================================================
