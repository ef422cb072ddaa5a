-------------------------- MODULE MCBackendSwitch --------------------------
(* BackendSwitch for TLC: sessions are interchangeable.                    *)
EXTENDS BackendSwitch, TLC

Symm == Permutations(Session)
=============================================================================
