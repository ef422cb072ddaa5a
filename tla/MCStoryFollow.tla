--------------------------- MODULE MCStoryFollow ---------------------------
(* StoryFollow for TLC: sessions are interchangeable, and so are the UCs.  *)
EXTENDS StoryFollow, TLC

Symm == Permutations(Session) \cup Permutations(UC)
=============================================================================
