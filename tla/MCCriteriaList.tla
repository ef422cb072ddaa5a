--------------------------- MODULE MCCriteriaList ---------------------------
(* CriteriaList for TLC.                                                   *)
EXTENDS CriteriaList, TLC

CONSTANTS t1, t2, t3

\* A spec document with three criteria, and one number left free.
ThreeThenFree == 1 :> t1 @@ 2 :> t2 @@ 3 :> t3 @@ 4 :> NoText

\* The end of a list of a hundred.
TheLastOfAHundred == 98 :> t1 @@ 99 :> t2 @@ 100 :> t3

=============================================================================
