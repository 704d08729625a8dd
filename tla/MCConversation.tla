--------------------------- MODULE MCConversation ---------------------------
\* Conversation for TLC: callers are interchangeable.
EXTENDS Conversation, TLC

Symmetry == Permutations(Callers)
=============================================================================
