-------------------------- MODULE MCUcReservations --------------------------
(***************************************************************************)
(* Instances of UcReservations for TLC.                                    *)
(***************************************************************************)
EXTENDS UcReservations, TLC

CONSTANTS s1, s2, s3, ana, ben

\* Two developers with one session each.
TwoSessions == s1 :> ana @@ s2 :> ben

\* Ana has a second session open (a laptop and an unattended run).
ThreeSessions == s1 :> ana @@ s2 :> ben @@ s3 :> ana

Symm == Permutations(UC)
=============================================================================
