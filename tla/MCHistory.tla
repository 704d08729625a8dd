----------------------------- MODULE MCHistory -----------------------------
\* ConversationHistory for TLC.
EXTENDS ConversationHistory
=============================================================================
