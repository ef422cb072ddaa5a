--------------------------- MODULE MCStripeSwitch ---------------------------
(* Two accounts and two amounts, and the symmetry of each. *)
EXTENDS StripeSwitch, TLC
Interchangeable == Permutations(Accounts) \cup Permutations(Amounts)
=============================================================================
