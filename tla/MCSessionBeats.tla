--------------------------- MODULE MCSessionBeats ---------------------------
(* One session id that two developers use, and the calls of both. *)
EXTENDS SessionBeats, TLC
=============================================================================
