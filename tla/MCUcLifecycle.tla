--------------------------- MODULE MCUcLifecycle ---------------------------
(* Small instances of UcLifecycle for TLC.                                 *)
EXTENDS UcLifecycle, TLC

\* Sessions are interchangeable, and so are the criteria of a UC.
Symm == Permutations(Session) \cup Permutations(AC)
=============================================================================
