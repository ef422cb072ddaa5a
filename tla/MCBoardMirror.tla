--------------------------- MODULE MCBoardMirror ---------------------------
(* One story with two use cases, two sessions and the symmetry of each. *)
EXTENDS BoardMirror, TLC
CONSTANTS s1, c1, c2
MCStoryOf == c1 :> s1 @@ c2 :> s1
Interchangeable == Permutations(Contents) \cup Permutations(Sessions) \cup Permutations(Cases)
=============================================================================
