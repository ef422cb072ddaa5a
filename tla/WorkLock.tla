------------------------------ MODULE WorkLock ------------------------------
(***************************************************************************)
(* What the reservation layer promises, with no table, no statement and no *)
(* transaction: each Use Case is a lock.  A session takes it when nobody   *)
(* works on the UC, may ask again while it has it, and lets go by itself.  *)
(***************************************************************************)
CONSTANTS Session, UC

VARIABLE working   \* the sessions that were told they may work on each UC

Init == working = [u \in UC |-> {}]

Take(s, u) ==
  /\ working[u] = {}
  /\ working' = [working EXCEPT ![u] = {s}]

Leave(s, u) ==
  /\ working[u] = {s}
  /\ working' = [working EXCEPT ![u] = {}]

Next == \E s \in Session, u \in UC : Take(s, u) \/ Leave(s, u)

Spec == Init /\ [][Next]_working
=============================================================================
