---------------------------- MODULE MCDecisions -----------------------------
(* Two sessions, two people, and the symmetry between them. *)
EXTENDS Decisions, TLC
Interchangeable == Permutations(Sessions) \cup Permutations(People)
                   \cup Permutations(Ids) \cup Permutations(Options)
=============================================================================
