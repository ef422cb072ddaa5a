-------------------------- MODULE MCFreeformStore --------------------------
(* Calls and ids are interchangeable. *)
EXTENDS FreeformStore, TLC
Interchangeable == Permutations(Calls) \cup Permutations(Ids)
=============================================================================
