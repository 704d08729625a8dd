--------------------------- MODULE MCChatResponse ---------------------------
\* ChatResponse for TLC: goroutines of one kind are interchangeable.
EXTENDS ChatResponse, TLC

Symmetry == Permutations(Chatters) \union Permutations(Walkers)
=============================================================================
